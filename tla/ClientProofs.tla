---------------------------- MODULE ClientProofs ----------------------------
(***************************************************************************)
(* Proofs about a viewer, for every ring of at least two nodes, any set of *)
(* ciphers the network may bring in any order, and any number of write     *)
(* streams at once.                                                        *)
(***************************************************************************)
EXTENDS Client, SequenceLemmas

\* A cipher is a record, and neither of the file contents without a key.
LEMMA CipherType ==
    \A c \in Ciphers :
        /\ c.key \in AesKeys
        /\ c.revoked \in Seq(Int)
        /\ c # Absent /\ c # Empty
<1> TAKE c \in Ciphers
<1>1. c \in [type : {"cipher"}, key : AesKeys, revoked : Seq(Int)]
  BY ClientAssumption
<1>2. c.type = "cipher" /\ Absent.type = "absent" /\ Empty.type = "empty"
  BY <1>1 DEF Absent, Empty
<1>3. QED
  BY <1>1, <1>2

\* What setAesKeyById leaves in the ring: the key under its id, and besides it
\* only keys that were there.
LEMMA StoredKeys ==
    ASSUME NEW s \in [KeyIds -> AesKeys \cup {NoKey}], NEW id \in KeyIds,
           NEW key \in AesKeys
    PROVE  /\ setAesKeyById(s, id, key) \in [KeyIds -> AesKeys \cup {NoKey}]
           /\ \A n \in KeyIds :
                 \/ setAesKeyById(s, id, key)[n] \in {s[n], NoKey}
                 \/ n = id /\ setAesKeyById(s, id, key)[n] = key
BY DEF setAesKeyById

-----------------------------------------------------------------------------
(* The inductive invariant *)

\* cpabe-dec's output is there only until the unlink that decrypt asks for.
OutputGoes == keyFile # NoKey => unlinking

\* As long as no key datagram came while the disk was busy, there is at most one
\* write stream, for the expected id, and what it has written is in key.cpabe.
OneAtATime ==
    ~overlapped =>
        \/ streams = <<>>
        \/ /\ Len(streams) = 1
           /\ ~unlinking
           /\ streams[1].for = keyId
           /\ streams[1].stage # "opening" => streams[1].linked
           /\ streams[1].stage = "written" => cpabeFile = streams[1].data

IInv == TypeOK /\ OnlyGrantedKeys /\ HungOnlyIfOverlapped /\ OutputGoes /\ OneAtATime

LEMMA InitIInv == Init => IInv
<1> SUFFICES ASSUME NEW saved \in SUBSET {"private", "public"}, InitWith(saved)
             PROVE  IInv
  BY DEF Init
<1>1. createKeysList \in [KeyIds -> {NoKey}] /\ 0 \in KeyIds
  BY RingAssumption DEF createKeysList, KeyIds
<1>2. streams \in Seq(StreamStates) /\ Len(streams) = 0
  BY DEF InitWith
<1>3. TypeOK
  BY <1>1, <1>2, ClientAssumption DEF TypeOK, InitWith
<1>4. OnlyGrantedKeys
  BY <1>1 DEF OnlyGrantedKeys, InitWith
<1>5. QED
  BY <1>3, <1>4 DEF IInv, HungOnlyIfOverlapped, OutputGoes, OneAtATime, InitWith

LEMMA KeyFileSavedKeeps ==
    ASSUME IInv, NEW name \in {"private", "public"}, KeyFileSaved(name)
    PROVE  IInv'
BY DEF IInv, TypeOK, OnlyGrantedKeys, HungOnlyIfOverlapped, OutputGoes, OneAtATime,
       KeyFileSaved

LEMMA OnVideoKeeps ==
    ASSUME IInv, NEW id \in KeyIds, NEW k \in AesKeys, OnVideo([id |-> id, key |-> k])
    PROVE  IInv'
<1> USE DEF IInv, OnVideo, fileVars
<1>1. /\ slots' \in [KeyIds -> AesKeys \cup {NoKey}]
      /\ \A n \in KeyIds : slots'[n] \in {slots[n], NoKey}
  BY DEF TypeOK, SlotsAfterVideo
<1>2. TypeOK'
  <2>1. played' \in {Ignored} \cup [type : {"played"}, key : AesKeys, encryptedWith : AesKeys]
    BY <1>1
  <2>2. QED
    BY <1>1, <2>1 DEF TypeOK
<1>3. OnlyGrantedKeys'
  BY <1>1 DEF OnlyGrantedKeys
<1>4. QED
  BY <1>2, <1>3 DEF HungOnlyIfOverlapped, OutputGoes, OneAtATime

LEMMA OnKeyIdKeeps ==
    ASSUME IInv, NEW id \in KeyIds, OnKeyId([type |-> "id", id |-> id])
    PROVE  IInv'
<1> USE DEF IInv, OnKeyId, fileVars
<1>1. TypeOK'
  BY DEF TypeOK, DiskIdle
<1>2. OnlyGrantedKeys'
  BY DEF OnlyGrantedKeys
<1>3. OneAtATime'
  BY DEF OneAtATime, DiskIdle
<1>4. QED
  BY <1>1, <1>2, <1>3 DEF HungOnlyIfOverlapped, OutputGoes

LEMMA OnCipherKeeps ==
    ASSUME IInv, NEW c \in Ciphers, OnCipher(c)
    PROVE  IInv'
<1> USE DEF IInv, OnCipher
<1> DEFINE stream == [stage |-> "opening", linked |-> FALSE, data |-> c, for |-> keyId]
<1>1. CASE CipherIgnored
  BY <1>1 DEF TypeOK, OnlyGrantedKeys, HungOnlyIfOverlapped, OutputGoes, OneAtATime,
              DiskIdle
<1>2. CASE ~CipherIgnored
  <2>1. stream \in StreamStates
    BY <1>2 DEF CipherIgnored, TypeOK, StreamStates
  <2>2. /\ streams' = Append(streams, stream)
        /\ Len(streams) < MaxStreams
    BY <1>2
  <2>3. /\ streams' \in Seq(StreamStates)
        /\ Len(streams') = Len(streams) + 1
        /\ streams'[Len(streams) + 1] = stream
    BY <2>1, <2>2 DEF TypeOK
  <2>4. TypeOK'
    BY <2>2, <2>3, ClientAssumption DEF TypeOK, DiskIdle
  <2>5. OneAtATime'
    <3>1. SUFFICES ASSUME ~overlapped'
                   PROVE  streams = <<>> /\ ~unlinking
      BY <2>3 DEF OneAtATime
    <3>2. QED
      BY <3>1 DEF DiskIdle
  <2>6. QED
    BY <2>4, <2>5 DEF OnlyGrantedKeys, HungOnlyIfOverlapped, OutputGoes
<1>3. QED
  BY <1>1, <1>2

\* A stream's next stage leaves the other streams alone.
LEMMA StageType ==
    ASSUME NEW s \in Seq(StreamStates), NEW i \in DOMAIN s,
           NEW e \in StreamStates
    PROVE  /\ [s EXCEPT ![i] = e] \in Seq(StreamStates)
           /\ Len([s EXCEPT ![i] = e]) = Len(s)
           /\ [s EXCEPT ![i] = e][i] = e
OBVIOUS

LEMMA StreamOpenedKeeps ==
    ASSUME IInv, NEW i \in DOMAIN streams, StreamOpened(i)
    PROVE  IInv'
<1> USE DEF IInv, StreamOpened
<1> DEFINE stream == [streams[i] EXCEPT !.stage = "open", !.linked = TRUE]
<1>1. streams[i] \in StreamStates /\ streams \in Seq(StreamStates)
  BY DEF TypeOK
<1>2. stream \in StreamStates /\ stream.linked /\ stream.stage = "open"
      /\ stream.for = streams[i].for
  BY <1>1 DEF StreamStates
<1>3. streams' = [streams EXCEPT ![i] = stream]
  OBVIOUS
<1> HIDE DEF stream
<1>4. /\ streams' \in Seq(StreamStates)
      /\ Len(streams') = Len(streams)
      /\ streams'[i] = stream
  <2>1. streams \in Seq(StreamStates) /\ i \in DOMAIN streams /\ stream \in StreamStates
    BY <1>1, <1>2
  <2>2. QED
    BY ONLY <2>1, <1>3, StageType
<1>5. TypeOK'
  BY <1>4 DEF TypeOK
<1>6. OneAtATime'
  <2>1. Len(streams) = 1 => i = 1
    BY <1>1
  <2>2. streams # <<>>
    BY <1>1
  <2>3. QED
    BY <1>2, <1>4, <2>1, <2>2 DEF OneAtATime
<1>7. QED
  BY <1>5, <1>6 DEF OnlyGrantedKeys, HungOnlyIfOverlapped, OutputGoes

LEMMA StreamWrittenKeeps ==
    ASSUME IInv, NEW i \in DOMAIN streams, StreamWritten(i)
    PROVE  IInv'
<1> USE DEF IInv, StreamWritten
<1> DEFINE stream == [streams[i] EXCEPT !.stage = "written"]
<1>1. streams[i] \in StreamStates /\ streams \in Seq(StreamStates)
  BY DEF TypeOK
<1>2. /\ stream \in StreamStates /\ stream.stage = "written"
      /\ stream.linked = streams[i].linked
      /\ stream.for = streams[i].for /\ stream.data = streams[i].data
  BY <1>1 DEF StreamStates
<1>3. streams' = [streams EXCEPT ![i] = stream]
  OBVIOUS
<1> HIDE DEF stream
<1>4. /\ streams' \in Seq(StreamStates)
      /\ Len(streams') = Len(streams)
      /\ streams'[i] = stream
  BY <1>1, <1>2, <1>3, StageType
<1>5. TypeOK'
  <2>1. cpabeFile' \in Ciphers \cup {Absent, Empty}
    BY <1>1 DEF TypeOK, StreamStates
  <2>2. QED
    BY <1>4, <2>1 DEF TypeOK
<1>6. OneAtATime'
  <2>1. Len(streams) = 1 => i = 1
    BY <1>1
  <2>2. streams # <<>>
    BY <1>1
  <2>3. QED
    BY <1>2, <1>4, <2>1, <2>2 DEF OneAtATime
<1>7. QED
  BY <1>5, <1>6 DEF OnlyGrantedKeys, HungOnlyIfOverlapped, OutputGoes

\* Whatever cpabe-dec does, decrypt returns a granted key or throws.
LEMMA DecryptionsType ==
    ASSUME IInv, NEW d \in Decryptions
    PROVE  /\ d.key \in Granted \cup {NoKey}
           /\ d.key \in AesKeys \cup {NoKey}
           /\ d.raced \in BOOLEAN
           /\ d.raced => d.key = NoKey
           /\ d.key # NoKey => d.key = Output /\ ~DecDies
<1>1. ~DecDies => Output \in Granted \cup {NoKey} /\ Output \in AesKeys \cup {NoKey}
  <2>1. SUFFICES ASSUME ~DecDies
                 PROVE  Output \in Granted \cup {NoKey} /\ Output \in AesKeys \cup {NoKey}
    OBVIOUS
  <2>2. cpabeFile \in Ciphers
    BY <2>1 DEF DecDies, IInv, TypeOK
  <2>3. CASE Decrypts(cpabeFile)
    <3>1. UserId \notin ToSet(cpabeFile.revoked)
      BY <2>3 DEF Decrypts, ToSet
    <3>2. QED
      BY <2>2, <2>3, <3>1, CipherType DEF Output, Granted
  <2>4. CASE ~Decrypts(cpabeFile)
    BY <2>4 DEF Output, IInv, TypeOK, OnlyGrantedKeys
  <2>5. QED
    BY <2>3, <2>4
<1>2. \/ d = [key |-> NoKey, raced |-> FALSE]
      \/ d = [key |-> NoKey, raced |-> TRUE]
      \/ d = [key |-> Output, raced |-> FALSE] /\ ~DecDies
  BY DEF Decryptions
<1>3. CASE d.key = NoKey
  <2>1. CASE d = [key |-> NoKey, raced |-> FALSE]
    BY <1>3, <2>1
  <2>2. CASE d = [key |-> NoKey, raced |-> TRUE]
    BY <1>3, <2>2
  <2>3. CASE d = [key |-> Output, raced |-> FALSE]
    BY <1>3, <2>3
  <2>4. QED
    BY <1>2, <2>1, <2>2, <2>3
<1>4. CASE d.key # NoKey
  <2>1. d = [key |-> Output, raced |-> FALSE] /\ ~DecDies
    BY <1>2, <1>4
  <2>2. QED
    BY <1>1, <2>1
<1>5. QED
  BY <1>3, <1>4

\* The streams that remain are the others, linked or not.
LEMMA RestType ==
    ASSUME NEW s \in Seq(StreamStates), NEW i \in DOMAIN s
    PROVE  /\ RemoveAt(s, i) \in Seq(StreamStates)
           /\ Unlinked(RemoveAt(s, i)) \in Seq(StreamStates)
           /\ Len(RemoveAt(s, i)) = Len(s) - 1
           /\ Len(Unlinked(RemoveAt(s, i))) = Len(s) - 1
<1> DEFINE r == RemoveAt(s, i)
<1>1. r \in Seq(StreamStates) /\ Len(r) = Len(s) - 1
  BY RemoveAtIs
<1> HIDE DEF r
<1>2. \A j \in 1 .. Len(r) : [r[j] EXCEPT !.linked = FALSE] \in StreamStates
  <2>1. \A e \in StreamStates : [e EXCEPT !.linked = FALSE] \in StreamStates
    BY DEF StreamStates
  <2>2. QED
    BY <1>1, <2>1
<1>3. /\ Unlinked(r) = [j \in 1 .. Len(r) |-> [r[j] EXCEPT !.linked = FALSE]]
      /\ Len(r) \in Nat
  BY <1>1 DEF Unlinked
<1>4. Unlinked(r) \in Seq(StreamStates) /\ Len(Unlinked(r)) = Len(r)
  BY <1>2, <1>3
<1>5. QED
  BY <1>1, <1>4 DEF r

LEMMA StreamFinishedKeeps ==
    ASSUME IInv, NEW i \in DOMAIN streams, StreamFinished(i)
    PROVE  IInv'
<1>1. streams \in Seq(StreamStates) /\ i \in 1 .. Len(streams)
  BY DEF IInv, TypeOK
<1>2. streams' \in Seq(StreamStates) /\ Len(streams') = Len(streams) - 1
  <2>1. streams' \in {RemoveAt(streams, i), Unlinked(RemoveAt(streams, i))}
    BY DEF StreamFinished
  <2>2. QED
    BY <1>1, <2>1, RestType
<1>3. cpabeFile' \in Ciphers \cup {Absent, Empty}
  BY DEF StreamFinished, InputAfterDec, IInv, TypeOK
<1>4. PICK d \in Decryptions :
          IF d.key = NoKey
          THEN /\ keyFile' = IF d.raced THEN NoKey ELSE keyFile
               /\ unlinking' = (unlinking /\ ~d.raced)
               /\ UNCHANGED <<slots, keyId, hung>>
          ELSE keyFile' = d.key /\ unlinking' = TRUE /\ Store(d.key)
  BY DEF StreamFinished
<1>5. UNCHANGED <<current, keyFilesSaved, played, overlapped>>
  BY DEF StreamFinished
<1>6. /\ d.key \in Granted \cup {NoKey}
      /\ d.key \in AesKeys \cup {NoKey}
      /\ d.raced \in BOOLEAN
  BY DecryptionsType
<1>7. /\ slots' \in [KeyIds -> AesKeys \cup {NoKey}]
      /\ \A id \in KeyIds : slots'[id] \in {slots[id], NoKey, d.key}
      /\ keyId' \in KeyIds \cup {-1}
      /\ hung' \in BOOLEAN
  <2>1. /\ slots \in [KeyIds -> AesKeys \cup {NoKey}]
        /\ keyId \in KeyIds \cup {-1} /\ hung \in BOOLEAN
    BY DEF IInv, TypeOK
  <2>2. CASE d.key = NoKey
    BY <1>4, <2>1, <2>2
  <2>3. CASE d.key # NoKey /\ InRing(keyId)
    <3>1. slots' = setAesKeyById(slots, keyId, d.key) /\ keyId' = -1 /\ UNCHANGED hung
      BY <1>4, <2>3 DEF Store
    <3>2. keyId \in KeyIds /\ d.key \in AesKeys
      BY <1>6, <2>3 DEF InRing
    <3>3. QED
      BY <2>1, <3>1, <3>2, StoredKeys
  <2>4. CASE d.key # NoKey /\ ~InRing(keyId)
    BY <1>4, <2>1, <2>4 DEF Store
  <2>5. QED
    BY <2>2, <2>3, <2>4
<1>8. /\ keyFile' \in {keyFile, NoKey, d.key}
      /\ unlinking' \in BOOLEAN
      /\ keyFile' # NoKey => unlinking'
  BY <1>4, <1>6 DEF IInv, TypeOK, OutputGoes
<1>9. TypeOK'
  BY <1>1, <1>2, <1>3, <1>5, <1>6, <1>7, <1>8, ClientAssumption DEF IInv, TypeOK
<1>10. OnlyGrantedKeys'
  <2>1. Granted' = Granted
    BY DEF Granted
  <2>2. QED
    BY <1>6, <1>7, <1>8, <2>1 DEF IInv, OnlyGrantedKeys
<1>11. ~overlapped => Len(streams) = 1 /\ keyId = streams[1].for
  BY <1>1 DEF IInv, OneAtATime
<1>12. HungOnlyIfOverlapped'
  <2>1. ASSUME ~overlapped PROVE InRing(keyId)
    <3>1. streams[1] \in StreamStates
      BY <1>1, <1>11, <2>1
    <3>2. QED
      BY <1>11, <2>1, <3>1 DEF StreamStates, InRing
  <2>2. ~overlapped => UNCHANGED hung
    BY <1>4, <2>1 DEF Store
  <2>3. QED
    BY <1>5, <2>2 DEF IInv, HungOnlyIfOverlapped
<1>13. OneAtATime'
  <2>1. ASSUME ~overlapped PROVE Len(streams') = 0
    <3>1. Len(streams) = 1
      BY <1>11, <2>1
    <3>2. QED
      BY <1>2, <3>1
  <2>2. ~overlapped => streams' = <<>>
    BY <1>2, <2>1, EmptySeq
  <2>3. QED
    BY <1>5, <2>2 DEF OneAtATime
<1>14. QED
  BY <1>8, <1>9, <1>10, <1>12, <1>13 DEF IInv, OutputGoes

LEMMA KeyFileUnlinkedKeeps ==
    ASSUME IInv, KeyFileUnlinked
    PROVE  IInv'
BY DEF IInv, TypeOK, OnlyGrantedKeys, HungOnlyIfOverlapped, OutputGoes, OneAtATime,
       KeyFileUnlinked

LEMMA StutterKeeps == IInv /\ UNCHANGED vars => IInv'
BY DEF IInv, TypeOK, OnlyGrantedKeys, HungOnlyIfOverlapped, OutputGoes, OneAtATime, vars

LEMMA NextIInv == IInv /\ [Next]_vars => IInv'
<1> SUFFICES ASSUME IInv, Next PROVE IInv'
  BY StutterKeeps
<1>1. ASSUME NEW i \in DOMAIN streams, StreamOpened(i) PROVE IInv'
  BY <1>1, StreamOpenedKeeps
<1>2. ASSUME NEW i \in DOMAIN streams, StreamWritten(i) PROVE IInv'
  BY <1>2, StreamWrittenKeeps
<1>3. ASSUME NEW i \in DOMAIN streams, StreamFinished(i) PROVE IInv'
  BY <1>3, StreamFinishedKeeps
<1>4. CASE KeyFileUnlinked
  BY <1>4, KeyFileUnlinkedKeeps
<1>5. ASSUME NEW name \in {"private", "public"}, KeyFileSaved(name) PROVE IInv'
  BY <1>5, KeyFileSavedKeeps
<1>6. ASSUME NEW id \in KeyIds, NEW k \in AesKeys, OnVideo([id |-> id, key |-> k])
      PROVE  IInv'
  BY <1>6, OnVideoKeeps
<1>7. ASSUME NEW id \in KeyIds, OnKeyId([type |-> "id", id |-> id]) PROVE IInv'
  BY <1>7, OnKeyIdKeeps
<1>8. ASSUME NEW c \in Ciphers, OnCipher(c) PROVE IInv'
  BY <1>8, OnCipherKeeps
<1>9. QED
  BY <1>1, <1>2, <1>3, <1>4, <1>5, <1>6, <1>7, <1>8 DEF Next, DiskStep

LEMMA Inductive == Spec => []IInv
BY InitIInv, NextIInv, PTL DEF Spec

\* The callback of a write stream stores the cipher's own key under the id the
\* cipher came with, as long as none of the datagrams overlapped with the disk.
LEMMA StoredPair ==
    IInv /\ [Next]_vars =>
        \A id \in KeyIds :
            slots'[id] \notin {slots[id], NoKey} =>
                overlapped \/ \E i \in DOMAIN streams :
                    streams[i].for = id /\ streams[i].data.key = slots'[id]
<1>1. SUFFICES ASSUME IInv, Next, NEW id \in KeyIds,
                      slots'[id] \notin {slots[id], NoKey}, ~overlapped
               PROVE  \E i \in DOMAIN streams :
                         streams[i].for = id /\ streams[i].data.key = slots'[id]
  BY DEF vars
<1>2. PICK i \in DOMAIN streams : StreamFinished(i)
  <2>1. ASSUME NEW v \in KeyIds, NEW k \in AesKeys, OnVideo([id |-> v, key |-> k])
        PROVE  FALSE
    BY <1>1, <2>1 DEF OnVideo, SlotsAfterVideo, IInv, TypeOK
  <2>2. QED
    BY <1>1, <2>1 DEF Next, DiskStep, StreamOpened, StreamWritten, KeyFileUnlinked,
           KeyFileSaved, OnKeyId, OnCipher, fileVars
<1>3. /\ streams \in Seq(StreamStates) /\ i \in 1 .. Len(streams)
      /\ streams[i].stage = "written"
  <2>1. streams \in Seq(StreamStates) /\ streams[i].stage = "written"
    BY <1>1, <1>2 DEF IInv, TypeOK, StreamFinished
  <2>2. QED
    BY <1>2, <2>1
<1>4. /\ i = 1 /\ ~unlinking /\ streams[1].for = keyId
      /\ cpabeFile = streams[1].data
  <2>1. streams # <<>> /\ Len(streams) = 1
    BY <1>1, <1>3 DEF IInv, OneAtATime
  <2>2. QED
    BY <1>1, <1>3, <2>1 DEF IInv, OneAtATime
<1>5. PICK d \in Decryptions :
          IF d.key = NoKey THEN UNCHANGED slots ELSE Store(d.key)
  BY <1>2 DEF StreamFinished
<1>6. d.key # NoKey /\ Store(d.key)
  BY <1>1, <1>5
<1>7. d.key = Output /\ d.key \in AesKeys
  BY <1>1, <1>6, DecryptionsType
<1>8. keyFile = NoKey
  BY <1>1, <1>4 DEF IInv, OutputGoes
<1>9. d.key = streams[1].data.key
  BY <1>4, <1>6, <1>7, <1>8 DEF Output
<1>10. InRing(keyId) /\ slots' = setAesKeyById(slots, keyId, d.key)
  BY <1>1, <1>6 DEF Store
<1>11. keyId = id /\ slots'[id] = d.key
  BY <1>1, <1>7, <1>10, StoredKeys DEF IInv, TypeOK, InRing
<1>12. QED
  BY <1>3, <1>4, <1>9, <1>11

-----------------------------------------------------------------------------
(* The results *)

\* The viewer's variables keep their types, for any ciphers and any disk.
THEOREM TypeCorrect == Spec => []TypeOK
<1>1. IInv => TypeOK
  BY DEF IInv
<1>2. QED
  BY <1>1, Inductive, PTL

\* A revoked viewer (receivePacket.js and cpabe-dec) never comes to hold a key
\* that was not granted, whatever the network repeats, drops or reorders.
THEOREM OnlyGranted == Spec => []OnlyGrantedKeys
<1>1. IInv => OnlyGrantedKeys
  BY DEF IInv
<1>2. QED
  BY <1>1, Inductive, PTL

\* setAesKeyById's search ends as long as no key datagram comes during the
\* writing and decrypting of the one before.
THEOREM SearchEnds == Spec => []HungOnlyIfOverlapped
<1>1. IInv => HungOnlyIfOverlapped
  BY DEF IInv
<1>2. QED
  BY <1>1, Inductive, PTL

\* So in every behaviour: wstream.end's callback saves a key under its own id.
THEOREM StoredUnderItsId == Spec => SavedUnderItsId
<1> DEFINE A == \A id \in KeyIds :
                   slots'[id] \notin {slots[id], NoKey} =>
                      overlapped \/ \E i \in DOMAIN streams :
                         streams[i].for = id /\ streams[i].data.key = slots'[id]
<1>1. IInv /\ [Next]_vars => [A]_vars
  BY StoredPair
<1>2. QED
  BY <1>1, Inductive, PTL DEF Spec, SavedUnderItsId

=============================================================================
