-------------------------- MODULE BroadcasterProofs --------------------------
(***************************************************************************)
(* Proofs about the broadcaster's key schedule, for every ring of at least *)
(* two nodes, every pair of intervals and every number of providers.       *)
(***************************************************************************)
EXTENDS Broadcaster, SequenceLemmas

USE DEF Providers, KeyIds, RevokeStrings, RevokeContents

-----------------------------------------------------------------------------
(* The operators the schedule is built from *)

\* The ring's successor stays on the ring (createKeysList).
LEMMA NextIdType == \A id \in KeyIds : NextId(id) \in KeyIds
BY RingAssumption DEF NextId

\* A step along the ring moves by one, or from the last id to 0.
LEMMA NextIdIs ==
    \A id \in KeyIds :
        \/ NextId(id) = id + 1 /\ id # NUM_OF_AES_KEYS - 1
        \/ NextId(id) = 0 /\ id = NUM_OF_AES_KEYS - 1
BY RingAssumption DEF NextId

\* The intervals are numbers; the other constants are not needed for the clock.
LEMMA IntervalsNat == CHANGE_KEY_INTERVAL \in Nat /\ SEND_KEY_INTERVAL \in Nat
BY BroadcasterAssumption

\* Writing a key manager's reply over a file that exists gives a revocation
\* string or an error page (fs.writeFile in updateRevokeString).
LEMMA OverwriteType ==
    ASSUME NEW old \in RevokeContents, NEW new \in RevokeContents
    PROVE  Overwrite(old, new) \in RevokeContents
<1>1. CASE ErrorPage \in {old, new}
  BY <1>1 DEF Overwrite
<1>2. CASE ErrorPage \notin {old, new}
  <2>1. old \in Seq(UserIds) /\ new \in Seq(UserIds)
    BY <1>2
  <2>2. SubSeq(old, Len(new) + 1, Len(old)) \in Seq(UserIds)
    BY <2>1
  <2>3. QED
    BY <1>2, <2>1, <2>2 DEF Overwrite
<1>3. QED
  BY <1>1, <1>2

-----------------------------------------------------------------------------
(* The inductive invariant *)

\* After setup every part of the inductive invariant holds: key 0 is in use and
\* newest, nothing was announced and nothing is being fetched.
LEMMA InitIInv == Init => IInv
<1> SUFFICES ASSUME Init PROVE IInv
  OBVIOUS
<1>1. TypeOK
  BY BroadcasterAssumption, RingAssumption DEF Init, TypeOK
<1>2. OpenedExists
  BY DEF Init, OpenedExists
<1>3. LastSentNear
  BY DEF Init, LastSentNear
<1>4. InUseOrNext
  BY DEF Init, InUseOrNext
<1>5. QED
  BY <1>1, <1>2, <1>3, <1>4 DEF IInv

\* The clock (Date.now) changes the ages only, and they stay in their ranges.
LEMMA TickStep == IInv /\ Tick => IInv'
<1> SUFFICES ASSUME IInv, Tick PROVE IInv'
  OBVIOUS
<1>1. TypeOK'
  <2>1. sinceChange' \in 0 .. CHANGE_KEY_INTERVAL + 1
    <3>1. sinceChange \in 0 .. CHANGE_KEY_INTERVAL + 1
      BY DEF IInv, TypeOK
    <3>2. QED
      BY <3>1, IntervalsNat DEF Tick
  <2>2. sinceSend' \in 0 .. SEND_KEY_INTERVAL + 1
    <3>1. sinceSend \in 0 .. SEND_KEY_INTERVAL + 1
      BY DEF IInv, TypeOK
    <3>2. QED
      BY <3>1, IntervalsNat DEF Tick
  <2>3. QED
    BY <2>1, <2>2 DEF IInv, TypeOK, Tick
<1>2. OpenedExists' /\ LastSentNear' /\ InUseOrNext'
  BY DEF IInv, Tick, OpenedExists, LastSentNear, InUseOrNext
<1>3. QED
  BY <1>1, <1>2 DEF IInv

\* The announcement of the initial key, thrown or not, notes at most the id in
\* use as the last one sent (the callback of socket2.bind).
LEMMA OnBoundStep == IInv /\ OnBound => IInv'
<1> SUFFICES ASSUME IInv, OnBound PROVE IInv'
  OBVIOUS
<1>1. lastKeyIdSent' \in {lastKeyIdSent, aesSeq}
  BY DEF OnBound, SentId
<1>2. TypeOK'
  BY <1>1 DEF IInv, TypeOK, OnBound
<1>3. OpenedExists' /\ LastSentNear' /\ InUseOrNext'
  BY <1>1 DEF IInv, OnBound, OpenedExists, LastSentNear, InUseOrNext
<1>4. QED
  BY <1>2, <1>3 DEF IInv

\* Announcing the key in use again leaves the ring alone and notes at most the id
\* in use as the last one sent (broad.js:115-119).
LEMMA ResendKeyStep == IInv /\ ResendKey => IInv'
<1> SUFFICES ASSUME IInv, ResendKey PROVE IInv'
  OBVIOUS
<1>1. lastKeyIdSent' \in {lastKeyIdSent, aesSeq}
  BY DEF ResendKey, SentId
<1>2. sinceSend' \in {sinceSend, 0}
  BY DEF ResendKey
<1>3. TypeOK'
  <2>1. sinceSend' \in 0 .. SEND_KEY_INTERVAL + 1
    BY <1>2, IntervalsNat DEF IInv, TypeOK
  <2>2. QED
    BY <1>1, <2>1 DEF IInv, TypeOK, ResendKey
<1>4. OpenedExists' /\ LastSentNear' /\ InUseOrNext'
  BY <1>1 DEF IInv, ResendKey, OpenedExists, LastSentNear, InUseOrNext
<1>5. QED
  BY <1>3, <1>4 DEF IInv

\* The requests a key change starts are fresh: none has opened the file.
LEMMA RequestsType ==
    /\ Requests \in Seq(FetchStates)
    /\ \A i \in DOMAIN Requests : Requests[i].stage = "requested"
<1>1. CASE FULL_ENCRYPTION = 1
  <2>1. Requests = [p \in 1 .. NumProviders |-> [stage |-> "requested", from |-> p]]
    BY <1>1 DEF Requests
  <2>2. \A p \in 1 .. NumProviders : [stage |-> "requested", from |-> p] \in FetchStates
    BY DEF FetchStates
  <2>3. Requests \in Seq(FetchStates)
    BY <2>1, <2>2, BroadcasterAssumption
  <2>4. QED
    BY <2>1, <2>3
<1>2. CASE FULL_ENCRYPTION # 1
  BY <1>2 DEF Requests
<1>3. QED
  BY <1>1, <1>2

\* A change of key takes the newest key into use and keeps the ring's newest key
\* at it or one ahead, whether or not changeKey throws (broad.js:101-112).
LEMMA ChangeKeyStep ==
    ASSUME IInv, NEW new \in AesKeys \ {keysList.key, aesKey}, ChangeKey(new)
    PROVE  IInv'
<1> USE DEF IInv
<1> DEFINE seq == NextId(keysList.id)
           last == LastSentFor(keysList.id)
<1>1. keysList' = Adopted(seq, new, last)
  BY DEF ChangeKey
<1>2. /\ aesKey' = keysList.key /\ aesSeq' = keysList.id
      /\ lastKeyIdSent' = SentId(seq, last)
  BY DEF ChangeKey
<1>3. keysList.id \in KeyIds /\ keysList.key \in AesKeys /\ seq \in KeyIds
  BY NextIdType DEF TypeOK
<1>4. lastKeyIdSent' \in {-1, aesSeq', NextId(aesSeq')}
  <2>1. CASE ~Suppressed(seq, last)
    BY <2>1, <1>2 DEF SentId
  <2>2. CASE Suppressed(seq, last)
    <3>1. last \in {-1, aesSeq, NextId(aesSeq)} /\ last > seq + 1 /\ seq # 0
      BY <2>2, <1>3 DEF Suppressed, LastSentFor, LastSentNear
    <3>2. seq = keysList.id + 1
      BY <3>1, <1>3, NextIdIs
    <3>3. keysList.id \in {aesSeq, NextId(aesSeq)}
      BY DEF InUseOrNext
    <3>4. QED
      BY <3>1, <3>2, <3>3, <1>3, NextIdIs DEF TypeOK, LastSentFor
  <2>3. QED
    BY <2>1, <2>2
<1>5. keysList' \in {keysList, [id |-> seq, key |-> new]}
  BY <1>1 DEF Adopted
<1>6. TypeOK'
  <2>1. fetches' \in Seq(FetchStates)
    BY RequestsType DEF TypeOK, ChangeKey
  <2>2. keysList' \in [id : KeyIds, key : AesKeys]
    BY <1>1, <1>3, <1>5 DEF TypeOK
  <2>3. lastKeyIdSent' \in KeyIds \cup {-1}
    BY <1>2, <1>3, <1>4, NextIdType
  <2>4. QED
    BY <2>1, <2>2, <2>3, <1>2, <1>3, BroadcasterAssumption DEF TypeOK, ChangeKey
<1>7. OpenedExists'
  <2> SUFFICES ASSUME NEW i \in DOMAIN fetches', fetches'[i].stage = "opened"
               PROVE  revokeFile'[Company] # NoFile
    BY DEF OpenedExists
  <2>1. fetches' = fetches \o Requests /\ revokeFile' = revokeFile
    BY DEF ChangeKey
  <2>2. i \in DOMAIN fetches /\ fetches'[i] = fetches[i]
    BY <2>1, RequestsType DEF TypeOK
  <2>3. QED
    BY <2>1, <2>2 DEF OpenedExists
<1>8. LastSentNear'
  BY <1>4 DEF LastSentNear
<1>9. InUseOrNext'
  <2>1. CASE keysList' = keysList
    BY <2>1, <1>2 DEF TypeOK, InUseOrNext
  <2>2. CASE keysList' = [id |-> seq, key |-> new]
    BY <2>2, <1>1, <1>2 DEF InUseOrNext
  <2>3. QED
    BY <2>1, <2>2, <1>5
<1>10. QED
  BY <1>6, <1>7, <1>8, <1>9

\* A video packet between two announcements changes nothing but the outbox.
LEMMA OnlyVideoStep == IInv /\ OnlyVideo => IInv'
BY DEF IInv, OnlyVideo, keyVars, TypeOK, OpenedExists, LastSentNear, InUseOrNext

\* Opening the file for a reply empties it, whatever it was.
LEMMA OnRevokeDataStep ==
    ASSUME IInv, NEW i \in DOMAIN fetches, OnRevokeData(i)
    PROVE  IInv'
<1> USE DEF IInv
<1>1. PICK d \in ServerReplies :
          fetches' = [fetches EXCEPT ![i] =
                        [stage |-> "opened", from |-> fetches[i].from, data |-> d]]
  BY DEF OnRevokeData
<1>2. revokeFile' = [revokeFile EXCEPT ![Company] = <<>>]
  BY DEF OnRevokeData
<1>3. Company \in Providers /\ <<>> \in RevokeContents /\ <<>> # NoFile
  <2>1. Company \in Providers
    BY BroadcasterAssumption DEF Company
  <2>2. <<>> \in Seq(UserIds)
    OBVIOUS
  <2>3. <<>> # NoFile
    BY <2>2, BroadcasterAssumption
  <2>4. QED
    BY <2>1, <2>2, <2>3
<1>4. fetches[i] \in FetchStates
  BY DEF TypeOK
<1>5. TypeOK'
  <2>1. [stage |-> "opened", from |-> fetches[i].from, data |-> d] \in FetchStates
    BY <1>4 DEF FetchStates
  <2>2. fetches' \in Seq(FetchStates)
    BY <1>1, <2>1 DEF TypeOK
  <2>3. revokeFile' \in [Providers -> RevokeContents \cup {NoFile}]
    BY <1>2, <1>3 DEF TypeOK
  <2>4. QED
    BY <2>2, <2>3 DEF TypeOK, OnRevokeData, keyVars
<1>6. OpenedExists'
  BY <1>2, <1>3 DEF OpenedExists, TypeOK, Company
<1>7. LastSentNear' /\ InUseOrNext'
  BY DEF OnRevokeData, keyVars, LastSentNear, InUseOrNext
<1>8. QED
  BY <1>5, <1>6, <1>7

\* Filling a revocation file ends its request and leaves a string or an error
\* page in it (fs.writeFile in updateRevokeString).
LEMMA OnRevokeWrittenStep ==
    ASSUME IInv, NEW i \in DOMAIN fetches, OnRevokeWritten(i)
    PROVE  IInv'
<1> USE DEF IInv
<1> DEFINE content == Overwrite(revokeFile[Company], fetches[i].data)
<1>1. /\ revokeFile' = [revokeFile EXCEPT ![Company] = content]
      /\ fetches' = RemoveAt(fetches, i)
      /\ fetches[i].stage = "opened"
  BY DEF OnRevokeWritten
<1>2. Company \in Providers
  BY BroadcasterAssumption DEF Company
<1>3. content \in RevokeContents
  <2>1. revokeFile[Company] \in RevokeContents
    BY <1>1, <1>2 DEF OpenedExists, TypeOK
  <2>2. fetches[i].data \in ServerReplies
    <3>1. fetches[i] \in FetchStates
      BY DEF TypeOK
    <3>2. QED
      BY <1>1, <3>1 DEF FetchStates
  <2>3. QED
    BY <2>1, <2>2, OverwriteType, BroadcasterAssumption
<1> HIDE DEF content
<1>4. TypeOK'
  <2>1. fetches' \in Seq(FetchStates)
    BY <1>1, RemoveAtType DEF TypeOK
  <2>2. revokeFile' \in [Providers -> RevokeContents \cup {NoFile}]
    BY <1>1, <1>2, <1>3 DEF TypeOK
  <2>3. QED
    BY <2>1, <2>2 DEF TypeOK, OnRevokeWritten, keyVars
<1>5. OpenedExists'
  <2>1. revokeFile'[Company] = content
    BY <1>1, <1>2 DEF TypeOK
  <2>2. content # NoFile
    BY <1>3, BroadcasterAssumption
  <2>3. QED
    BY <2>1, <2>2 DEF OpenedExists, Company
<1>6. LastSentNear' /\ InUseOrNext'
  BY DEF OnRevokeWritten, keyVars, LastSentNear, InUseOrNext
<1>7. QED
  BY <1>4, <1>5, <1>6

\* A failed request is forgotten, and those that opened the file stay.
LEMMA OnRevokeErrorStep ==
    ASSUME IInv, NEW i \in DOMAIN fetches, OnRevokeError(i)
    PROVE  IInv'
<1> USE DEF IInv
<1>1. fetches' = RemoveAt(fetches, i) /\ revokeFile' = revokeFile
  BY DEF OnRevokeError
<1>2. TypeOK'
  <2>1. fetches' \in Seq(FetchStates)
    BY <1>1, RemoveAtType DEF TypeOK
  <2>2. QED
    BY <2>1 DEF TypeOK, OnRevokeError, keyVars
<1>3. OpenedExists'
  <2> SUFFICES ASSUME NEW j \in DOMAIN fetches', fetches'[j].stage = "opened"
               PROVE  revokeFile'[Company] # NoFile
    BY DEF OpenedExists
  <2>1. PICK k \in DOMAIN fetches : fetches'[j] = fetches[k]
    BY <1>1, RemoveAtElements DEF TypeOK
  <2>2. QED
    BY <1>1, <2>1 DEF OpenedExists
<1>4. LastSentNear' /\ InUseOrNext'
  BY DEF OnRevokeError, keyVars, LastSentNear, InUseOrNext
<1>5. QED
  BY <1>2, <1>3, <1>4

\* A restart puts the ring back to key 0, announced to nobody.
LEMMA RestartStep ==
    ASSUME IInv, NEW new \in AesKeys, Restart(new)
    PROVE  IInv'
<1> USE DEF IInv
<1>1. TypeOK'
  <2>1. sinceChange' \in 0 .. CHANGE_KEY_INTERVAL + 1
        /\ sinceSend' \in 0 .. SEND_KEY_INTERVAL + 1
    BY IntervalsNat DEF Restart
  <2>2. 0 \in KeyIds
    BY RingAssumption
  <2>3. QED
    BY <2>1, <2>2 DEF TypeOK, Restart
<1>2. OpenedExists' /\ LastSentNear' /\ InUseOrNext'
  BY DEF Restart, OpenedExists, LastSentNear, InUseOrNext
<1>3. QED
  BY <1>1, <1>2

\* IInv is preserved by every step.
LEMMA NextIInv == IInv /\ [Next]_vars => IInv'
<1> SUFFICES ASSUME IInv, [Next]_vars PROVE IInv'
  OBVIOUS
<1>1. CASE Tick
  BY <1>1, TickStep
<1>2. CASE OnBound
  BY <1>2, OnBoundStep
<1>3. CASE OnVideoMessage
  BY <1>3, ChangeKeyStep, ResendKeyStep, OnlyVideoStep DEF OnVideoMessage
<1>4. ASSUME NEW i \in DOMAIN fetches,
             OnRevokeData(i) \/ OnRevokeWritten(i) \/ OnRevokeError(i)
      PROVE  IInv'
  BY <1>4, OnRevokeDataStep, OnRevokeWrittenStep, OnRevokeErrorStep
<1>5. ASSUME NEW new \in AesKeys, Restart(new)
      PROVE  IInv'
  BY <1>5, RestartStep
<1>6. CASE UNCHANGED vars
  BY <1>6 DEF vars, IInv, TypeOK, OpenedExists, LastSentNear, InUseOrNext
<1>7. QED
  BY <1>1, <1>2, <1>3, <1>4, <1>5, <1>6 DEF Next

\* The inductive invariant holds in every reachable state of the broadcaster.
LEMMA Inductive == Spec => []IInv
BY InitIInv, NextIInv, PTL DEF Spec

\* broadcastAesKey skips neither the key in use nor the next new one.
LEMMA NothingSkipped == IInv => NoAnnouncementSkipped
<1> SUFFICES ASSUME IInv PROVE NoAnnouncementSkipped
  OBVIOUS
<1> DEFINE node == keysList.id
<1>1. /\ aesSeq \in KeyIds /\ node \in KeyIds
      /\ lastKeyIdSent \in {-1, aesSeq, NextId(aesSeq)}
      /\ node \in {aesSeq, NextId(aesSeq)}
  BY DEF IInv, TypeOK, LastSentNear, InUseOrNext
<1> HIDE DEF node
<1>2. ~Suppressed(aesSeq, lastKeyIdSent)
  BY <1>1, NextIdIs DEF Suppressed
<1>3. ~Suppressed(NextId(node), LastSentFor(node))
  BY <1>1, NextIdIs DEF Suppressed, LastSentFor
<1>4. QED
  BY <1>2, <1>3 DEF NoAnnouncementSkipped, node

-----------------------------------------------------------------------------
(* The results *)

\* The types of the broadcaster's variables hold in every reachable state.
THEOREM TypeCorrect == Spec => []TypeOK
<1>1. IInv => TypeOK
  BY DEF IInv
<1>2. QED
  BY <1>1, Inductive, PTL

\* The video's key is the newest or its predecessor, whatever throws.
THEOREM InUse == Spec => []InUseOrNext
<1>1. IInv => InUseOrNext
  BY DEF IInv
<1>2. QED
  BY <1>1, Inductive, PTL

\* The older-key test of broadcastAesKey never skips an announcement.
THEOREM NoSkip == Spec => []NoAnnouncementSkipped
BY NothingSkipped, Inductive, PTL

\* Every key waits for its successor's announcement before it is used, at every
\* provider the announcement's loop reaches (the comment at broad.js:98).
THEOREM UsedAfterFollowing == Spec => UsedOnlyAfterFollowing
<1>1. ASSUME IInv, NoAnnouncementSkipped, [Next]_vars, aesKey' # aesKey,
             phase' # "binding"
      PROVE  /\ (\A p \in Providers : CanEncrypt(p)) => keysList'.id = NextId(aesSeq')
             /\ \A p \in Providers : Served(p) =>
                   /\ Len(outbox'.key[p]) = 2
                   /\ outbox'.key[p][1] = IdDatagram(NextId(aesSeq'))
  <2> DEFINE seq == NextId(keysList.id)
             last == LastSentFor(keysList.id)
  <2>1. PICK new \in AesKeys \ {keysList.key, aesKey} : ChangeKey(new)
    BY <1>1 DEF Next, vars, keyVars, Tick, OnBound, OnVideoMessage, ResendKey,
                OnlyVideo, OnRevokeData, OnRevokeWritten, OnRevokeError, Restart
  <2>2. /\ aesSeq' = keysList.id
        /\ keysList' = Adopted(seq, new, last)
        /\ outbox'.key = KeyDatagrams(new, seq, last)
    BY <2>1 DEF ChangeKey
  <2>3. ASSUME \A p \in Providers : CanEncrypt(p)
        PROVE  keysList'.id = seq
    BY <2>2, <2>3 DEF Adopted, Throws
  <2>4. ~Suppressed(seq, last)
    BY <1>1 DEF NoAnnouncementSkipped
  <2>5. ASSUME NEW p \in Providers, Served(p)
        PROVE  outbox'.key[p] = <<IdDatagram(seq), CipherDatagram(new, Revoked(p))>>
    BY <2>2, <2>4, <2>5 DEF KeyDatagrams
  <2>6. QED
    BY <2>2, <2>3, <2>5
<1>2. IInv /\ NoAnnouncementSkipped /\ [Next]_vars
        => [aesKey' # aesKey /\ phase' # "binding" =>
              /\ (\A p \in Providers : CanEncrypt(p)) => keysList'.id = NextId(aesSeq')
              /\ \A p \in Providers : Served(p) =>
                    /\ Len(outbox'.key[p]) = 2
                    /\ outbox'.key[p][1] = IdDatagram(NextId(aesSeq'))]_vars
  BY <1>1
<1>3. QED
  BY <1>2, Inductive, NoSkip, PTL DEF Spec, UsedOnlyAfterFollowing

\* A key becomes the ring's newest only in a step that announced it to every
\* provider: broadcastAesKey throws or serves them all, and skips nothing.
THEOREM AdoptedAnnounced == Spec => AdoptedOnlyIfAnnounced
<1>1. ASSUME IInv, NoAnnouncementSkipped, [Next]_vars, keysList' # keysList,
             phase' # "binding", NEW p \in Providers
      PROVE  /\ Len(outbox'.key[p]) = 2
             /\ outbox'.key[p][1] = IdDatagram(keysList'.id)
             /\ outbox'.key[p][2].key = keysList'.key
  <2> DEFINE seq == NextId(keysList.id)
             last == LastSentFor(keysList.id)
  <2>1. PICK new \in AesKeys \ {keysList.key, aesKey} : ChangeKey(new)
    BY <1>1 DEF Next, vars, keyVars, Tick, OnBound, OnVideoMessage, ResendKey,
                OnlyVideo, OnRevokeData, OnRevokeWritten, OnRevokeError, Restart
  <2>2. /\ keysList' = Adopted(seq, new, last)
        /\ outbox'.key = KeyDatagrams(new, seq, last)
    BY <2>1 DEF ChangeKey
  <2>3. ~Throws(seq, last) /\ keysList' = [id |-> seq, key |-> new]
    BY <1>1, <2>2 DEF Adopted
  <2>4. ~Suppressed(seq, last)
    BY <1>1 DEF NoAnnouncementSkipped
  <2>5. Served(p)
    BY <2>3, <2>4, BroadcasterAssumption DEF Throws, Served
  <2>6. outbox'.key[p] = <<IdDatagram(seq), CipherDatagram(new, Revoked(p))>>
    BY <2>2, <2>4, <2>5 DEF KeyDatagrams
  <2>7. QED
    BY <2>3, <2>6 DEF CipherDatagram
<1>2. IInv /\ NoAnnouncementSkipped /\ [Next]_vars
        => [keysList' # keysList /\ phase' # "binding" =>
              \A p \in Providers :
                 /\ Len(outbox'.key[p]) = 2
                 /\ outbox'.key[p][1] = IdDatagram(keysList'.id)
                 /\ outbox'.key[p][2].key = keysList'.key]_vars
  BY <1>1
<1>3. QED
  BY <1>2, Inductive, NoSkip, PTL DEF Spec, AdoptedOnlyIfAnnounced

=============================================================================
