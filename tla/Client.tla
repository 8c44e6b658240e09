-------------------------------- MODULE Client --------------------------------
(***************************************************************************)
(* A viewer: receive, setAesKeyById and decrypt of js/receivePacket.js,    *)
(* started by getKeys of js/requestKey.js, with FULL_ENCRYPTION = 1.       *)
(*                                                                         *)
(* The video socket's handler moves a pointer along the ring and plays a   *)
(* packet when the node it points at holds a key.  The key socket receives *)
(* an id datagram and then a cipher datagram; the cipher goes through a    *)
(* file, key.cpabe, that cpabe-dec reads, and the callback that runs when  *)
(* the file is written stores the decrypted key in the ring.               *)
(*                                                                         *)
(* The write stream is asynchronous: it opens (creates or truncates) the   *)
(* file, writes it and then runs the callback.  cpabe-dec unlinks its      *)
(* input, so a stream that has the file open then writes to a file no name *)
(* leads to.  An exception leaves the callback where it was thrown.        *)
(***************************************************************************)
EXTENDS KeyRing, Integers, SequencesExt

CONSTANTS
    AesKeys,        \* AES keys
    UserId,         \* the user id typed into the form
    Ciphers,        \* cipher datagrams the network may bring
    MaxStreams      \* bound on unfinished write streams

ASSUME ClientAssumption ==
    /\ NoKey \notin AesKeys
    /\ MaxStreams \in Nat \ {0}
    /\ \A c \in Ciphers :
          c \in [type : {"cipher"}, key : AesKeys, revoked : Seq(Int)]

VARIABLES
    slots,          \* keysList: the key of every node
    current,        \* aesKey: the id of the node the video is played from
    keyId,          \* the id the next cipher is for, or -1
    streams,        \* write streams whose callback has not run
    cpabeFile,      \* aeskey/key.cpabe
    keyFile,        \* aeskey/key, cpabe-dec's output, or NoKey
    unlinking,      \* fs.unlink(aesKeyPath) has not completed
    keyFilesSaved,  \* which of private_<ch> and public_<ch> exist
    hung,           \* a loop over the ring never ends
    played,         \* what became of the last video packet
    overlapped      \* history: a key datagram came while the disk was busy

vars == <<slots, current, keyId, streams, cpabeFile, keyFile, unlinking,
          keyFilesSaved, hung, played, overlapped>>
fileVars == <<streams, cpabeFile, keyFile, unlinking, keyFilesSaved>>

Absent == [type |-> "absent"]
Empty == [type |-> "empty"]
Nothing == [type |-> "nothing"]     \* no video packet yet
Ignored == [type |-> "ignored"]     \* no key: "they ignore the message"

(***************************************************************************)
(* Init is receive's first pass.  Earlier sessions may have left the key   *)
(* files; getKeys starts the reception without waiting for its own.        *)
(***************************************************************************)
InitWith(saved) ==
    /\ slots = createKeysList
    /\ current = 0
    /\ keyId = -1
    /\ streams = <<>>
    /\ cpabeFile = Absent
    /\ keyFile = NoKey
    /\ unlinking = FALSE
    /\ keyFilesSaved = saved
    /\ hung = FALSE
    /\ played = Nothing
    /\ overlapped = FALSE

Init == \E saved \in SUBSET {"private", "public"} : InitWith(saved)

\* A reply to getKeys or getPublicKey has been written to its file.
KeyFileSaved(name) ==
    /\ ~hung
    /\ name \notin keyFilesSaved
    /\ keyFilesSaved' = keyFilesSaved \cup {name}
    /\ UNCHANGED <<slots, current, keyId, streams, cpabeFile, keyFile, unlinking,
                   hung, played, overlapped>>

-----------------------------------------------------------------------------
(***************************************************************************)
(* get_video_Socket.on('message').  A key change empties the node the      *)
(* pointer leaves; without a key the pointer just follows the packet.      *)
(***************************************************************************)
\* Mutant: the node the pointer moves to is emptied.
SlotsAfterVideoArriving(id) ==
    IF slots[current] # NoKey /\ current # id
    THEN [slots EXCEPT ![id] = NoKey]
    ELSE slots

SlotsAfterVideo(id) ==
    IF slots[current] # NoKey /\ current # id
    THEN [slots EXCEPT ![current] = NoKey]
    ELSE slots

OnVideo(d) ==
    /\ ~hung
    /\ slots' = SlotsAfterVideo(d.id)
    /\ current' = d.id
    /\ played' = IF slots'[d.id] = NoKey THEN Ignored
                 ELSE [type |-> "played", key |-> slots'[d.id], encryptedWith |-> d.key]
    /\ UNCHANGED <<keyId, fileVars, hung, overlapped>>

\* Nothing the client has asked of the disk is outstanding.
DiskIdle == streams = <<>> /\ ~unlinking

\* AesSocket.on('message') with a number: the id of the next cipher.
OnKeyId(d) ==
    /\ ~hung
    /\ d.type = "id"
    /\ keyId' = d.id
    /\ overlapped' = (overlapped \/ ~DiskIdle)
    /\ UNCHANGED <<slots, current, fileVars, hung, played>>

\* Mutant: the test for an unknown id is dropped.
CipherKnown == keyId # -1 /\ getAesKeyById(slots, keyId) # NoKey

\* Mutant: a key that was already obtained is decrypted and stored again.
CipherUnknown == keyId = -1

\* "either we don't know the seq of key yet, or the key was already obtained."
CipherIgnored == keyId = -1 \/ getAesKeyById(slots, keyId) # NoKey

\* AesSocket.on('message') with a cipher: start writing it to key.cpabe.  The
\* program does not keep "for"; the properties compare with it.
OnCipher(d) ==
    /\ ~hung
    /\ d.type = "cipher"
    /\ IF CipherIgnored THEN UNCHANGED streams
       ELSE /\ Len(streams) < MaxStreams
            /\ streams' = Append(streams,
                  [stage |-> "opening", linked |-> FALSE, data |-> d,
                   for |-> keyId])
    /\ overlapped' = (overlapped \/ ~DiskIdle)
    /\ UNCHANGED <<slots, current, keyId, cpabeFile, keyFile, unlinking,
                   keyFilesSaved, hung, played>>

-----------------------------------------------------------------------------
(* The write stream *)

\* open(key.cpabe, O_CREAT | O_TRUNC)
StreamOpened(i) ==
    /\ ~hung
    /\ streams[i].stage = "opening"
    /\ streams' = [streams EXCEPT ![i].stage = "open", ![i].linked = TRUE]
    /\ cpabeFile' = Empty
    /\ UNCHANGED <<slots, current, keyId, keyFile, unlinking, keyFilesSaved,
                   hung, played, overlapped>>

StreamWritten(i) ==
    /\ ~hung
    /\ streams[i].stage = "open"
    /\ streams' = [streams EXCEPT ![i].stage = "written"]
    /\ cpabeFile' = IF streams[i].linked THEN streams[i].data ELSE cpabeFile
    /\ UNCHANGED <<slots, current, keyId, keyFile, unlinking, keyFilesSaved,
                   hung, played, overlapped>>

-----------------------------------------------------------------------------
(* decrypt(channelId): cpabe-dec, then readFileSync(aesKeyPath) *)

\* Mutant: only the list's first id is compared with the user's.
DecryptsFirst(c) == Len(c.revoked) > 0 => c.revoked[1] # UserId

\* bswabe_dec compares the id it is given with every id of the cipher.
Decrypts(c) == \A j \in DOMAIN c.revoked : c.revoked[j] # UserId

\* cpabe-dec dies on a key file or an input it cannot open, and on an input
\* with nothing in it (read past its end) it fails in whatever way.
KeysSaved == keyFilesSaved = {"private", "public"}

DecDies == ~KeysSaved \/ cpabeFile \in {Absent, Empty}

(***************************************************************************)
(* What decrypt returns: the key and whether the pending unlink took the   *)
(* output first.  NoKey is an exception.  For a revoked user cpabe-dec     *)
(* exits normally without an output, so readFileSync throws unless an      *)
(* earlier output is still there.                                          *)
(***************************************************************************)
Output == IF Decrypts(cpabeFile) THEN cpabeFile.key ELSE keyFile

Decryptions ==
    IF DecDies THEN {[key |-> NoKey, raced |-> FALSE]}
    ELSE {[key |-> Output, raced |-> FALSE]}
            \cup (IF unlinking THEN {[key |-> NoKey, raced |-> TRUE]} ELSE {})

\* cpabe-dec unlinks its input, decrypted or not, unless it dies before.
InputAfterDec ==
    CASE ~DecDies -> {Absent}
      [] DecDies /\ KeysSaved /\ cpabeFile = Empty -> {Empty, Absent}
      [] OTHER -> {cpabeFile}

Unlinked(s) == [j \in DOMAIN s |-> [s[j] EXCEPT !.linked = FALSE]]

(***************************************************************************)
(* wstream.end's callback.  It stores under the keyId of this moment, not  *)
(* of the moment the cipher arrived, and looks for node -1 for ever when   *)
(* another callback has reset it.  Two unlinks pending count as one.       *)
(***************************************************************************)
Store(key) ==
    IF InRing(keyId)
    THEN /\ slots' = setAesKeyById(slots, keyId, key)
         /\ keyId' = -1
         /\ UNCHANGED hung
    ELSE hung' = TRUE /\ UNCHANGED <<slots, keyId>>

StreamFinished(i) ==
    /\ ~hung
    /\ streams[i].stage = "written"
    /\ \E file \in InputAfterDec :
          /\ cpabeFile' = file
          /\ streams' = LET rest == RemoveAt(streams, i) IN
                        IF file = Absent THEN Unlinked(rest) ELSE rest
    /\ \E d \in Decryptions :
          IF d.key = NoKey
          THEN /\ keyFile' = IF d.raced THEN NoKey ELSE keyFile
               /\ unlinking' = (unlinking /\ ~d.raced)
               /\ UNCHANGED <<slots, keyId, hung>>
          ELSE keyFile' = d.key /\ unlinking' = TRUE /\ Store(d.key)
    /\ UNCHANGED <<current, keyFilesSaved, played, overlapped>>

\* fs.unlink(aesKeyPath) completes.
KeyFileUnlinked ==
    /\ ~hung
    /\ unlinking
    /\ unlinking' = FALSE
    /\ keyFile' = NoKey
    /\ UNCHANGED <<slots, current, keyId, streams, cpabeFile, keyFilesSaved,
                   hung, played, overlapped>>

DiskStep ==
    \/ \E i \in DOMAIN streams :
          StreamOpened(i) \/ StreamWritten(i) \/ StreamFinished(i)
    \/ KeyFileUnlinked

Next ==
    \/ DiskStep
    \/ \E name \in {"private", "public"} : KeyFileSaved(name)
    \/ \E id \in KeyIds, k \in AesKeys : OnVideo([id |-> id, key |-> k])
    \/ \E id \in KeyIds : OnKeyId([type |-> "id", id |-> id])
    \/ \E c \in Ciphers : OnCipher(c)

Spec == Init /\ [][Next]_vars

-----------------------------------------------------------------------------
(* Properties *)

StreamStates ==
    [stage : {"opening", "open", "written"}, linked : BOOLEAN, data : Ciphers,
     for : KeyIds]

\* The types of the client's variables.
TypeOK ==
    /\ slots \in [KeyIds -> AesKeys \cup {NoKey}]
    /\ current \in KeyIds
    /\ keyId \in KeyIds \cup {-1}
    /\ streams \in Seq(StreamStates)
    /\ Len(streams) <= MaxStreams
    /\ cpabeFile \in Ciphers \cup {Absent, Empty}
    /\ keyFile \in AesKeys \cup {NoKey}
    /\ unlinking \in BOOLEAN
    /\ keyFilesSaved \subseteq {"private", "public"}
    /\ hung \in BOOLEAN
    /\ overlapped \in BOOLEAN
    /\ played \in {Nothing, Ignored}
                    \cup [type : {"played"}, key : AesKeys, encryptedWith : AesKeys]

(***************************************************************************)
(* README: "If the client's key was revoked, the decryption algorithm will *)
(* stop and the client will not be able to play the video."  Whatever the  *)
(* network and the disk do, neither the ring nor key's output file ever    *)
(* holds a key that came only in ciphers listing this user.                *)
(***************************************************************************)
Granted == {c.key : c \in {x \in Ciphers : UserId \notin ToSet(x.revoked)}}

OnlyGrantedKeys ==
    /\ \A id \in KeyIds : slots[id] \in Granted \cup {NoKey}
    /\ keyFile \in Granted \cup {NoKey}

(***************************************************************************)
(* A search of the ring that cannot end (receivePacket.js:199) takes two   *)
(* write streams for one id, and so a key datagram that came while the     *)
(* disk was busy: otherwise no datagrams, in whatever order, hang the      *)
(* event loop.                                                             *)
(***************************************************************************)
HungOnlyIfOverlapped == hung => overlapped

(***************************************************************************)
(* README: the client "decrypts the key and saves it in the list of keys". *)
(* Unless key datagrams overlap with the disk, a key goes to the node of   *)
(* the id that was current when its cipher came.                           *)
(***************************************************************************)
SavedUnderItsId ==
    [][\A id \in KeyIds :
          slots'[id] \notin {slots[id], NoKey} =>
             overlapped \/ \E i \in DOMAIN streams :
                streams[i].for = id /\ streams[i].data.key = slots'[id]]_vars

=============================================================================
