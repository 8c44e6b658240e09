------------------------ MODULE KeyDistributionProofs ------------------------
(***************************************************************************)
(* Proofs about broadcaster and viewer together, for every ring of at      *)
(* least two nodes, every pair of intervals and every bound on the queues. *)
(* What each end does alone comes from its own proofs: BP and CP are the   *)
(* proofs of the two ends with the constants and variables they have here. *)
(* What is left is the link between them: that what is under way, in a     *)
(* write stream or in the viewer's ring is what the broadcaster uses now   *)
(* or next.                                                                *)
(***************************************************************************)
EXTENDS KeyDistribution, SequenceLemmas

BP == INSTANCE BroadcasterProofs
CP == INSTANCE ClientProofs

-----------------------------------------------------------------------------
(* The proofs of the two ends, here *)

\* The constants here are as the broadcaster's and the viewer's proofs assume.
LEMMA Assumptions ==
    /\ BP!RingAssumption /\ BP!BroadcasterAssumption
    /\ CP!RingAssumption /\ CP!ClientAssumption
<1>1. BP!RingAssumption /\ CP!RingAssumption
  BY RingAssumption DEF BP!RingAssumption, CP!RingAssumption
<1>2. BP!BroadcasterAssumption
  BY BroadcasterConstants
  DEF B!BroadcasterAssumption, B!RevokeStrings, B!RevokeContents,
      BP!BroadcasterAssumption, BP!RevokeStrings, BP!RevokeContents
<1>3. Seq(UserIds) \subseteq Seq(Int)
  <2>1. SUFFICES ASSUME NEW s \in Seq(UserIds) PROVE s \in Seq(Int)
    OBVIOUS
  <2>2. s \in [1 .. Len(s) -> UserIds] /\ Len(s) \in Nat
    OBVIOUS
  <2>3. s \in [1 .. Len(s) -> Int]
    BY <2>2, DistributionAssumption DEF DistributionAssumption
  <2>4. QED
    BY <2>2, <2>3
<1>4. CP!ClientAssumption
  BY <1>2, <1>3, DistributionAssumption
  DEF CP!ClientAssumption, BP!BroadcasterAssumption, Ciphers
<1>5. QED
  BY <1>1, <1>2, <1>4

\* A broadcaster step keeps the inductive invariant of the broadcaster's proofs.
LEMMA BroadcasterKeeps == BP!IInv /\ [B!Next]_broadcasterVars => BP!IInv'
<1>1. BP!IInv /\ [BP!Next]_(BP!vars) => BP!IInv'
  BY BP!NextIInv, Assumptions DEF BP!NextIInv
<1>2. BP!vars = broadcasterVars
  BY DEF BP!vars, broadcasterVars
<1>3. B!Next => BP!Next
  <2> USE DEF B!NoDatagrams, BP!NoDatagrams, B!Silence, BP!Silence, B!Providers,
              BP!Providers, B!Throws, BP!Throws, B!SentId, BP!SentId, B!Suppressed,
              BP!Suppressed, B!CanEncrypt, BP!CanEncrypt, B!TakesArgument,
              BP!TakesArgument, B!Served, BP!Served, B!Revoked, BP!Revoked,
              B!IdDatagram, BP!IdDatagram, B!CipherDatagram, BP!CipherDatagram,
              B!KeyDatagrams, BP!KeyDatagrams, B!VideoDatagram, BP!VideoDatagram,
              B!VideoDatagrams, BP!VideoDatagrams, B!keyVars, BP!keyVars,
              B!Company, BP!Company, B!RemoveAt, BP!RemoveAt
  <2>1. B!Tick <=> BP!Tick
    BY DEF B!Tick, BP!Tick
  <2>2. B!OnBound <=> BP!OnBound
    BY DEF B!OnBound, BP!OnBound
  <2>3. ASSUME NEW new PROVE B!ChangeKey(new) <=> BP!ChangeKey(new)
    BY DEF B!ChangeKey, BP!ChangeKey, B!Requests, BP!Requests, B!NextId, BP!NextId,
           B!LastSentFor, BP!LastSentFor, B!Adopted, BP!Adopted
  <2>4. B!ResendKey <=> BP!ResendKey
    BY DEF B!ResendKey, BP!ResendKey
  <2>5. B!OnlyVideo <=> BP!OnlyVideo
    BY DEF B!OnlyVideo, BP!OnlyVideo
  <2>6. ASSUME NEW i
        PROVE  /\ B!OnRevokeData(i) <=> BP!OnRevokeData(i)
               /\ B!OnRevokeError(i) <=> BP!OnRevokeError(i)
    BY DEF B!OnRevokeData, BP!OnRevokeData, B!OnRevokeError, BP!OnRevokeError
  <2>7. ASSUME NEW i PROVE B!OnRevokeWritten(i) <=> BP!OnRevokeWritten(i)
    BY DEF B!OnRevokeWritten, BP!OnRevokeWritten, B!Overwrite, BP!Overwrite
  <2>8. ASSUME NEW new PROVE B!Restart(new) <=> BP!Restart(new)
    BY DEF B!Restart, BP!Restart
  <2> QED
    BY ONLY <2>1, <2>2, <2>3, <2>4, <2>5, <2>6, <2>7, <2>8
    DEF B!Next, BP!Next, B!OnVideoMessage, BP!OnVideoMessage
<1>4. QED
  BY <1>1, <1>3 DEF BP!vars, broadcasterVars

\* A viewer step keeps the inductive invariant of the viewer's proofs, and stores
\* nothing but the key of a write stream under the id of that stream.
LEMMA ClientKeeps ==
    CP!IInv /\ [C!Next]_clientVars =>
        /\ CP!IInv'
        /\ \A id \in KeyIds :
              slots'[id] \notin {slots[id], NoKey} =>
                  overlapped \/ \E i \in DOMAIN streams :
                      streams[i].for = id /\ streams[i].data.key = slots'[id]
<1>1. CP!IInv /\ [CP!Next]_(CP!vars) => CP!IInv'
  BY CP!NextIInv, Assumptions DEF CP!NextIInv
<1>2. CP!IInv /\ [CP!Next]_(CP!vars) =>
        \A id \in KeyIds :
            slots'[id] \notin {slots[id], NoKey} =>
                overlapped \/ \E i \in DOMAIN streams :
                    streams[i].for = id /\ streams[i].data.key = slots'[id]
  BY CP!StoredPair, Assumptions DEF CP!StoredPair, CP!KeyIds, KeyIds
<1>3. C!Next => CP!Next
  <2> USE DEF C!fileVars, CP!fileVars, C!Absent, CP!Absent, C!Empty, CP!Empty,
              C!Ignored, CP!Ignored, C!getAesKeyById, CP!getAesKeyById,
              C!DiskIdle, CP!DiskIdle, C!RemoveAt, CP!RemoveAt,
              C!KeyIds, CP!KeyIds, C!NextId, CP!NextId
  <2>1. ASSUME NEW name PROVE C!KeyFileSaved(name) <=> CP!KeyFileSaved(name)
    BY DEF C!KeyFileSaved, CP!KeyFileSaved
  <2>2. ASSUME NEW d
        PROVE  /\ C!OnVideo(d) <=> CP!OnVideo(d)
               /\ C!OnKeyId(d) <=> CP!OnKeyId(d)
               /\ C!OnCipher(d) <=> CP!OnCipher(d)
    BY DEF C!OnVideo, CP!OnVideo, C!SlotsAfterVideo, CP!SlotsAfterVideo, C!OnKeyId,
           CP!OnKeyId, C!OnCipher, CP!OnCipher, C!CipherIgnored, CP!CipherIgnored
  <2>3. ASSUME NEW i
        PROVE  /\ C!StreamOpened(i) <=> CP!StreamOpened(i)
               /\ C!StreamWritten(i) <=> CP!StreamWritten(i)
    BY DEF C!StreamOpened, CP!StreamOpened, C!StreamWritten, CP!StreamWritten
  <2>4. ASSUME NEW key PROVE C!Store(key) <=> CP!Store(key)
    BY DEF C!Store, CP!Store, C!InRing, CP!InRing, C!setAesKeyById, CP!setAesKeyById
  <2>5. C!InputAfterDec = CP!InputAfterDec /\ C!Decryptions = CP!Decryptions
    BY DEF C!InputAfterDec, CP!InputAfterDec, C!Decryptions, CP!Decryptions,
           C!DecDies, CP!DecDies, C!KeysSaved, CP!KeysSaved, C!Output, CP!Output,
           C!Decrypts, CP!Decrypts
  <2>6. ASSUME NEW i PROVE C!StreamFinished(i) <=> CP!StreamFinished(i)
    BY <2>4, <2>5 DEF C!StreamFinished, CP!StreamFinished, C!Unlinked, CP!Unlinked
  <2>7. C!KeyFileUnlinked <=> CP!KeyFileUnlinked
    BY DEF C!KeyFileUnlinked, CP!KeyFileUnlinked
  <2>8. C!DiskStep => CP!DiskStep
    BY ONLY <2>3, <2>6, <2>7 DEF C!DiskStep, CP!DiskStep
  <2> QED
    BY ONLY <2>1, <2>2, <2>8 DEF C!Next, CP!Next
<1>4. QED
  BY <1>1, <1>2, <1>3 DEF CP!vars, clientVars

-----------------------------------------------------------------------------
(* What the broadcaster's steps do here *)

\* The types of what is under way, and the key files the viewer starts with.
KeyDatagrams == Ciphers \cup [type : {"id"}, id : KeyIds]

AirOK ==
    /\ listening \in BOOLEAN
    /\ keyFilesSaved = Both
    /\ keyAir \in Seq(KeyDatagrams)
    /\ videoAir \in Seq([type : {"video"}, id : KeyIds, key : AesKeys])
    /\ losses \in Nat

\* An announcement as it reaches the viewer's provider, and a video packet.
Announcement(key, id) ==
    <<[type |-> "id", id |-> id],
      [type |-> "cipher", key |-> key, revoked |-> B!Revoked(USER_SERVER)]>>

Packet(id, key) == <<[type |-> "video", id |-> id, key |-> key]>>

\* Keys and ids of the broadcaster: the newest is the one in use or the next.
LEMMA KeysInv ==
    BP!IInv =>
        /\ aesSeq \in KeyIds /\ aesKey \in AesKeys
        /\ keysList \in [id : KeyIds, key : AesKeys]
        /\ keysList.id \in KeyIds /\ keysList.key \in AesKeys
        /\ \/ keysList.id = aesSeq /\ keysList.key = aesKey
           \/ keysList.id = NextId(aesSeq) /\ keysList.key # aesKey
        /\ sinceChange \in Nat /\ sinceSend \in Nat
        /\ CHANGE_KEY_INTERVAL \in Nat /\ SEND_KEY_INTERVAL \in Nat
        /\ NoKey \notin AesKeys
<1>1. CHANGE_KEY_INTERVAL \in Nat /\ SEND_KEY_INTERVAL \in Nat /\ NoKey \notin AesKeys
  BY Assumptions DEF BP!BroadcasterAssumption
<1>2. QED
  BY <1>1 DEF BP!IInv, BP!TypeOK, BP!InUseOrNext, BP!KeyIds, KeyIds, BP!NextId, NextId

\* The next id is another one, on the ring.
LEMMA NextIdOther == \A id \in KeyIds : NextId(id) \in KeyIds /\ NextId(id) # id
BY RingAssumption DEF KeyIds, NextId

\* The older-key test lets the announcements of the schedule pass.
LEMMA NotSuppressed ==
    BP!IInv =>
        /\ ~B!Suppressed(aesSeq, lastKeyIdSent)
        /\ ~B!Suppressed(NextId(keysList.id), B!LastSentFor(keysList.id))
<1>1. BP!IInv => BP!NoAnnouncementSkipped
  BY BP!NothingSkipped, Assumptions DEF BP!NothingSkipped
<1>2. QED
  BY <1>1 DEF BP!NoAnnouncementSkipped, BP!Suppressed, BP!LastSentFor, BP!NextId,
              B!Suppressed, B!LastSentFor, NextId

\* What broadcastAesKey hands to the viewer's provider: nothing when it throws at
\* that provider or before it.
LEMMA AnnouncementIs ==
    ASSUME BP!IInv, NEW key, NEW id, NEW last, ~B!Suppressed(id, last)
    PROVE  LET sent == B!KeyDatagrams(key, id, last)[USER_SERVER] IN
           /\ sent \in {<<>>, Announcement(key, id)}
           /\ sent # <<>> => B!Revoked(USER_SERVER) \in Seq(UserIds)
           /\ ~B!Throws(id, last) => sent = Announcement(key, id)
           /\ B!Throws(id, last) /\ USER_SERVER = NumProviders => sent = <<>>
<1>1. USER_SERVER \in B!Providers /\ NumProviders \in Nat
  BY DistributionAssumption, Assumptions
  DEF DistributionAssumption, BP!BroadcasterAssumption, B!Providers
<1>2. B!KeyDatagrams(key, id, last)[USER_SERVER] =
        IF B!Served(USER_SERVER) THEN Announcement(key, id) ELSE <<>>
  BY <1>1 DEF B!KeyDatagrams, Announcement, B!IdDatagram, B!CipherDatagram
<1>3. B!Served(USER_SERVER) => B!Revoked(USER_SERVER) \in Seq(UserIds)
  <2>1. revokeFile[USER_SERVER] \in Seq(UserIds) \cup {ErrorPage, NoFile}
    BY <1>1 DEF BP!IInv, BP!TypeOK, BP!RevokeContents, BP!RevokeStrings, BP!Providers,
                B!Providers
  <2>2. B!Served(USER_SERVER) => B!CanEncrypt(USER_SERVER)
    BY <1>1 DEF B!Served, B!Providers
  <2>3. FULL_ENCRYPTION \in {0, 1}
    BY Assumptions DEF BP!BroadcasterAssumption
  <2>4. QED
    BY <2>1, <2>2, <2>3 DEF B!CanEncrypt, B!Revoked, B!TakesArgument
<1>4. ~B!Throws(id, last) => B!Served(USER_SERVER)
  BY <1>1 DEF B!Throws, B!Served, B!Providers
<1>5. B!Throws(id, last) /\ USER_SERVER = NumProviders => ~B!Served(USER_SERVER)
  BY <1>1 DEF B!Throws, B!Served, B!Providers
<1>6. Announcement(key, id) # <<>>
  BY DEF Announcement
<1>7. QED
  BY <1>2, <1>3, <1>4, <1>5, <1>6

\* A key randomBytes returns is used nowhere yet.
LEMMA FreshKeyIs == FreshKeys # {} => FreshKey \in AesKeys \ KeysAbout
BY DEF FreshKey, FreshKeys

\* A step of the broadcaster that draws no new key.
Send == Tick \/ OnBound \/ ResendKey \/ OnlyVideo \/ OnRevokeReply

(***************************************************************************)
(* Such a step leaves the keys and announces at most the key in use, sends *)
(* a packet only when no change of key is due, and moves the clock only    *)
(* when nothing is under way.                                              *)
(***************************************************************************)
LEMMA SendIs ==
    ASSUME BP!IInv, Send
    PROVE  LET key == outbox'.key[USER_SERVER]
               video == outbox'.video[USER_SERVER]
           IN
           /\ Transmit
           /\ UNCHANGED <<keysList, aesKey, aesSeq>>
           /\ key \in {<<>>, Announcement(aesKey, aesSeq)}
           /\ key # <<>> => B!Revoked(USER_SERVER) \in Seq(UserIds)
           /\ video \in {<<>>, Packet(aesSeq, aesKey)}
           /\ video # <<>> => phase = "playing" /\ sinceChange <= CHANGE_KEY_INTERVAL
           /\ key # <<>> => phase = "binding" \/ sinceChange <= CHANGE_KEY_INTERVAL
           /\ \/ sinceChange' = sinceChange
              \/ Quiet /\ (SlowDisk \/ C!DiskIdle) /\ key = <<>> /\ video = <<>>
           /\ \/ phase' = phase
              \/ phase = "binding" /\ phase' = "failed"
              \/ phase = "binding" /\ phase' = "playing" /\ key # <<>> /\ video = <<>>
           /\ key # <<>> /\ USER_SERVER = NumProviders =>
                 video # <<>> \/ (phase = "binding" /\ phase' = "playing")
<1> DEFINE key == outbox'.key[USER_SERVER]
           video == outbox'.video[USER_SERVER]
<1>1. /\ USER_SERVER \in B!Providers
      /\ \A id, k : Announcement(k, id) # <<>> /\ Packet(id, k) # <<>>
  BY DistributionAssumption DEF DistributionAssumption, B!Providers, Announcement, Packet
<1>2. B!NoDatagrams.key[USER_SERVER] = <<>> /\ B!NoDatagrams.video[USER_SERVER] = <<>>
  BY <1>1 DEF B!NoDatagrams, B!Silence
<1>3. \A id, k : B!VideoDatagrams(id, k)[USER_SERVER] = Packet(id, k)
  BY <1>1 DEF B!VideoDatagrams, B!VideoDatagram, Packet
<1>4. B!Silence[USER_SERVER] = <<>>
  BY <1>1 DEF B!Silence
<1>5. ~B!Suppressed(aesSeq, lastKeyIdSent)
  BY NotSuppressed
<1>6. LET sent == B!KeyDatagrams(aesKey, aesSeq, lastKeyIdSent)[USER_SERVER] IN
      /\ sent \in {<<>>, Announcement(aesKey, aesSeq)}
      /\ sent # <<>> => B!Revoked(USER_SERVER) \in Seq(UserIds)
      /\ ~B!Throws(aesSeq, lastKeyIdSent) => sent = Announcement(aesKey, aesSeq)
      /\ B!Throws(aesSeq, lastKeyIdSent) /\ USER_SERVER = NumProviders => sent = <<>>
  BY <1>5, AnnouncementIs
<1>7. CASE Tick
  BY <1>2, <1>7 DEF Tick, B!Tick
<1>8. CASE OnBound
  <2>1. /\ outbox'.key = B!KeyDatagrams(aesKey, aesSeq, lastKeyIdSent)
        /\ outbox'.video = B!Silence
    BY <1>8 DEF OnBound, B!OnBound, B!NoDatagrams
  <2>2. /\ phase = "binding" /\ Transmit
        /\ UNCHANGED <<keysList, aesKey, aesSeq, sinceChange>>
        /\ phase' \in {"failed", "playing"}
        /\ phase' = "playing" <=> ~B!Throws(aesSeq, lastKeyIdSent)
    BY <1>8 DEF OnBound, B!OnBound
  <2>3. QED
    BY <1>1, <1>4, <1>6, <2>1, <2>2
<1>9. CASE ResendKey
  <2>1. /\ outbox'.key = B!KeyDatagrams(aesKey, aesSeq, lastKeyIdSent)
        /\ outbox'.video \in {B!Silence, B!VideoDatagrams(aesSeq, aesKey)}
    BY <1>9 DEF ResendKey, B!ResendKey
  <2>2. /\ phase = "playing" /\ phase' = phase /\ Transmit
        /\ UNCHANGED <<keysList, aesKey, aesSeq, sinceChange>>
        /\ sinceChange <= CHANGE_KEY_INTERVAL
    BY <1>9 DEF ResendKey, B!ResendKey
  <2>3. outbox'.video[USER_SERVER] \in {<<>>, Packet(aesSeq, aesKey)}
    BY <1>3, <1>4, <2>1
  <2>4. ~B!Throws(aesSeq, lastKeyIdSent) =>
            outbox'.video[USER_SERVER] = Packet(aesSeq, aesKey)
    BY <1>3, <1>9 DEF ResendKey, B!ResendKey
  <2>5. QED
    BY <1>1, <1>6, <2>1, <2>2, <2>3, <2>4
<1>10. CASE OnlyVideo
  <2>1. /\ outbox'.key = B!Silence
        /\ outbox'.video = B!VideoDatagrams(aesSeq, aesKey)
    BY <1>10 DEF OnlyVideo, B!OnlyVideo, B!NoDatagrams
  <2>2. /\ phase = "playing" /\ phase' = phase /\ Transmit
        /\ UNCHANGED <<keysList, aesKey, aesSeq, sinceChange>>
        /\ sinceChange <= CHANGE_KEY_INTERVAL
    BY <1>10 DEF OnlyVideo, B!OnlyVideo, B!keyVars
  <2>3. QED
    BY <1>3, <1>4, <2>1, <2>2
<1>11. CASE OnRevokeReply
  BY <1>2, <1>11 DEF OnRevokeReply, B!OnRevokeData, B!OnRevokeWritten, B!OnRevokeError,
                     B!keyVars
<1>12. QED
  BY <1>7, <1>8, <1>9, <1>10, <1>11 DEF Send

(***************************************************************************)
(* A change of key takes the newest key into use.  An exception leaves it  *)
(* the newest, and the packet is not sent; otherwise the next id's key is  *)
(* announced and adopted, and the packet sent.                             *)
(***************************************************************************)
LEMMA ChangeKeyIs ==
    ASSUME BP!IInv, ChangeKey
    PROVE  LET key == outbox'.key[USER_SERVER]
               video == outbox'.video[USER_SERVER]
               next == NextId(keysList.id)
           IN
           /\ Transmit
           /\ FreshKey \in AesKeys \ KeysAbout
           /\ phase = "playing" /\ phase' = phase
           /\ sinceChange > CHANGE_KEY_INTERVAL /\ sinceChange' = 0
           /\ aesKey' = keysList.key /\ aesSeq' = keysList.id
           /\ key # <<>> => B!Revoked(USER_SERVER) \in Seq(UserIds)
           /\ key \in {<<>>, Announcement(FreshKey, next)}
           /\ \/ /\ keysList' = keysList
                 /\ video = <<>>
                 /\ USER_SERVER = NumProviders => key = <<>>
              \/ /\ keysList' = [id |-> next, key |-> FreshKey]
                 /\ video = Packet(keysList.id, keysList.key)
                 /\ key = Announcement(FreshKey, next)
<1> DEFINE next == NextId(keysList.id)
           last == B!LastSentFor(keysList.id)
<1>1. USER_SERVER \in B!Providers
  BY DistributionAssumption DEF DistributionAssumption, B!Providers
<1>2. \A id, k : B!VideoDatagrams(id, k)[USER_SERVER] = Packet(id, k)
  BY <1>1 DEF B!VideoDatagrams, B!VideoDatagram, Packet
<1>3. B!Silence[USER_SERVER] = <<>>
  BY <1>1 DEF B!Silence
<1>4. ~B!Suppressed(next, last)
  BY NotSuppressed
<1>5. LET sent == B!KeyDatagrams(FreshKey, next, last)[USER_SERVER] IN
      /\ sent \in {<<>>, Announcement(FreshKey, next)}
      /\ sent # <<>> => B!Revoked(USER_SERVER) \in Seq(UserIds)
      /\ ~B!Throws(next, last) => sent = Announcement(FreshKey, next)
      /\ B!Throws(next, last) /\ USER_SERVER = NumProviders => sent = <<>>
  BY <1>4, AnnouncementIs
<1>6. B!NextId(keysList.id) = next
  BY DEF B!NextId, NextId
<1>7. /\ Transmit
      /\ phase = "playing" /\ phase' = phase
      /\ sinceChange > CHANGE_KEY_INTERVAL /\ sinceChange' = 0
      /\ aesKey' = keysList.key /\ aesSeq' = keysList.id
      /\ keysList' = IF B!Throws(next, last) THEN keysList
                     ELSE [id |-> next, key |-> FreshKey]
      /\ outbox'.key = B!KeyDatagrams(FreshKey, next, last)
      /\ outbox'.video = IF B!Throws(next, last) THEN B!Silence
                         ELSE B!VideoDatagrams(keysList.id, keysList.key)
  BY <1>6 DEF ChangeKey, B!ChangeKey, B!Adopted
<1>8. FreshKey \in AesKeys \ KeysAbout
  BY FreshKeyIs DEF ChangeKey
<1>9. QED
  BY <1>2, <1>3, <1>5, <1>7, <1>8

-----------------------------------------------------------------------------
(* Whatever goes wrong, each end keeps its own invariant *)

EndsInv == BP!IInv /\ CP!IInv /\ AirOK

LEMMA InitEnds == Init => EndsInv
<1> SUFFICES ASSUME Init PROVE EndsInv
  OBVIOUS
<1>1. BP!Init
  BY DEF Init, B!Init, BP!Init, B!Providers, BP!Providers, B!NoDatagrams,
         BP!NoDatagrams, B!Silence, BP!Silence
<1>2. BP!IInv
  BY <1>1, BP!InitIInv, Assumptions DEF BP!InitIInv
<1>3. CP!Init
  BY DEF Init, C!InitWith, CP!Init, CP!InitWith, C!createKeysList, CP!createKeysList,
         C!KeyIds, CP!KeyIds, C!Absent, CP!Absent, C!Nothing, CP!Nothing, Both
<1>4. CP!IInv
  BY <1>3, CP!InitIInv, Assumptions DEF CP!InitIInv
<1>5. AirOK
  BY SmallSeqs DEF Init, C!InitWith, AirOK
<1>6. QED
  BY <1>2, <1>4, <1>5 DEF EndsInv

\* What is under way has its types before and after a broadcaster's step.
LEMMA TransmitKeepsAir ==
    ASSUME EndsInv, Transmit,
           NEW k \in AesKeys, NEW kid \in KeyIds, NEW v \in AesKeys, NEW vid \in KeyIds,
           outbox'.key[USER_SERVER] \in {<<>>, Announcement(k, kid)},
           outbox'.key[USER_SERVER] # <<>> => B!Revoked(USER_SERVER) \in Seq(UserIds),
           outbox'.video[USER_SERVER] \in {<<>>, Packet(vid, v)}
    PROVE  AirOK' /\ UNCHANGED clientVars
<1> DEFINE Videos == [type : {"video"}, id : KeyIds, key : AesKeys]
           sent == outbox'.key[USER_SERVER]
           video == outbox'.video[USER_SERVER]
<1>1. sent \in Seq(KeyDatagrams)
  <2>1. CASE sent = <<>>
    BY <2>1, SmallSeqs
  <2>2. CASE sent # <<>>
    <3>1. [type |-> "id", id |-> kid] \in KeyDatagrams
      BY DEF KeyDatagrams
    <3>2. [type |-> "cipher", key |-> k, revoked |-> B!Revoked(USER_SERVER)]
             \in KeyDatagrams
      BY <2>2 DEF KeyDatagrams, Ciphers
    <3>3. QED
      BY <2>2, <3>1, <3>2, SmallSeqs DEF Announcement
  <2>3. QED
    BY <2>1, <2>2
<1>2. video \in Seq(Videos)
  <2>1. [type |-> "video", id |-> vid, key |-> v] \in Videos
    OBVIOUS
  <2>2. QED
    BY <2>1, SmallSeqs DEF Packet
<1> HIDE DEF sent, video, Videos
<1>3. /\ keyAir \in Seq(KeyDatagrams) /\ videoAir \in Seq(Videos)
      /\ listening \in BOOLEAN /\ keyFilesSaved = Both /\ losses \in Nat
  BY DEF EndsInv, AirOK, Videos
<1>4. /\ UNCHANGED <<clientVars, listening, losses>>
      /\ keyAir' \in {keyAir, keyAir \o sent}
      /\ videoAir' \in {videoAir, videoAir \o video}
  BY DEF Transmit, air, sent, video
<1>5. keyAir' \in Seq(KeyDatagrams) /\ videoAir' \in Seq(Videos)
  BY <1>1, <1>2, <1>3, <1>4, SmallSeqs
<1>6. QED
  BY <1>3, <1>4, <1>5 DEF AirOK, clientVars, Videos

\* A step of the broadcaster, a restart included.
LEMMA BroadcasterKeepsEnds ==
    ASSUME EndsInv, Send \/ ChangeKey \/ BroadcasterRestart
    PROVE  EndsInv'
<1>1. B!Next
  <2>1. CASE Send
    BY <2>1 DEF Send, Tick, OnBound, ResendKey, OnlyVideo, OnRevokeReply, B!Next,
                B!OnVideoMessage
  <2>2. CASE ChangeKey
    <3>1. FreshKey \in AesKeys \ {keysList.key, aesKey}
      BY <2>2, FreshKeyIs DEF ChangeKey, KeysAbout
    <3>2. QED
      BY <2>2, <3>1 DEF ChangeKey, B!Next, B!OnVideoMessage
  <2>3. CASE BroadcasterRestart
    <3>1. FreshKey \in AesKeys
      BY <2>3, FreshKeyIs DEF BroadcasterRestart
    <3>2. QED
      BY <2>3, <3>1 DEF BroadcasterRestart, B!Next
  <2>4. QED
    BY <2>1, <2>2, <2>3
<1>2. BP!IInv'
  BY <1>1, BroadcasterKeeps DEF EndsInv
<1>3. AirOK' /\ UNCHANGED clientVars
  <2> USE KeysInv DEF EndsInv
  <2>1. CASE Send
    BY <2>1, SendIs, TransmitKeepsAir
  <2>2. CASE ChangeKey
    <3>1. NextId(keysList.id) \in KeyIds
      BY NextIdOther
    <3>2. QED
      BY <2>2, <3>1, ChangeKeyIs, TransmitKeepsAir
  <2>3. CASE BroadcasterRestart
    <3>1. outbox'.key[USER_SERVER] = <<>> /\ outbox'.video[USER_SERVER] = <<>>
      BY <2>3, DistributionAssumption
      DEF BroadcasterRestart, B!Restart, B!NoDatagrams, B!Silence, B!Providers,
          DistributionAssumption
    <3>2. Transmit
      BY <2>3 DEF BroadcasterRestart
    <3>3. QED
      BY <3>1, <3>2, TransmitKeepsAir
  <2>4. QED
    BY <2>1, <2>2, <2>3
<1>4. CP!IInv'
  BY <1>3, ClientKeeps DEF EndsInv
<1>5. QED
  BY <1>2, <1>3, <1>4 DEF EndsInv

\* Which datagram arrives: one that is under way.
LEMMA ArrivingIs ==
    /\ \A i : i \in Arriving(keyAir) => i \in DOMAIN keyAir
    /\ \A i : i \in Arriving(videoAir) => i \in DOMAIN videoAir
BY DEF Arriving

\* A datagram that arrives, or is lost, leaves the others as they are.
LEMMA ArrivalKeepsAir ==
    ASSUME AirOK
    PROVE  /\ \A i \in DOMAIN keyAir :
                 /\ keyAir[i] \in KeyDatagrams
                 /\ RemoveAt(keyAir, i) \in Seq(KeyDatagrams)
           /\ \A i \in DOMAIN videoAir :
                 /\ videoAir[i] \in [type : {"video"}, id : KeyIds, key : AesKeys]
                 /\ RemoveAt(videoAir, i)
                       \in Seq([type : {"video"}, id : KeyIds, key : AesKeys])
<1> DEFINE Videos == [type : {"video"}, id : KeyIds, key : AesKeys]
<1>1. keyAir \in Seq(KeyDatagrams) /\ videoAir \in Seq(Videos)
  BY DEF AirOK
<1> HIDE DEF Videos
<1>2. /\ \A i \in DOMAIN keyAir :
            keyAir[i] \in KeyDatagrams /\ RemoveAt(keyAir, i) \in Seq(KeyDatagrams)
      /\ \A i \in DOMAIN videoAir :
            videoAir[i] \in Videos /\ RemoveAt(videoAir, i) \in Seq(Videos)
  BY <1>1, ElementsAndRest
<1>3. QED
  BY <1>2 DEF Videos

LEMMA KeyDatagramKeepsEnds ==
    ASSUME EndsInv, OnKeyDatagram
    PROVE  EndsInv'
<1> USE DEF EndsInv
<1>1. PICK i \in DOMAIN keyAir :
          /\ C!OnKeyId(keyAir[i]) \/ C!OnCipher(keyAir[i])
          /\ keyAir' = RemoveAt(keyAir, i)
  BY ArrivingIs DEF OnKeyDatagram
<1>2. keyAir[i] \in KeyDatagrams /\ keyAir' \in Seq(KeyDatagrams)
  BY <1>1, ArrivalKeepsAir
<1>3. C!Next
  <2>1. CASE C!OnKeyId(keyAir[i])
    <3>1. PICK id \in KeyIds : keyAir[i] = [type |-> "id", id |-> id]
      BY <1>2, <2>1 DEF C!OnKeyId, KeyDatagrams, Ciphers
    <3>2. C!OnKeyId([type |-> "id", id |-> id])
      BY <2>1, <3>1
    <3>3. QED
      BY <3>2 DEF C!Next, C!KeyIds, KeyIds
  <2>2. CASE C!OnCipher(keyAir[i])
    <3>1. keyAir[i] \in Ciphers
      BY <1>2, <2>2 DEF C!OnCipher, KeyDatagrams
    <3>2. QED
      BY <2>2, <3>1 DEF C!Next
  <2>3. QED
    BY <1>1, <2>1, <2>2
<1>4. CP!IInv'
  BY <1>3, ClientKeeps
<1>5. UNCHANGED <<broadcasterVars, listening, videoAir, losses>>
  BY DEF OnKeyDatagram
<1>6. keyFilesSaved' = keyFilesSaved
  BY <1>1 DEF C!OnKeyId, C!OnCipher, C!fileVars
<1>7. AirOK'
  BY <1>2, <1>5, <1>6 DEF AirOK
<1>8. BP!IInv'
  BY <1>5, BroadcasterKeeps
<1>9. QED
  BY <1>4, <1>7, <1>8

LEMMA VideoDatagramKeepsEnds ==
    ASSUME EndsInv, OnVideoDatagram
    PROVE  EndsInv'
<1> USE DEF EndsInv
<1>1. PICK i \in DOMAIN videoAir :
          C!OnVideo(videoAir[i]) /\ videoAir' = RemoveAt(videoAir, i)
  BY ArrivingIs DEF OnVideoDatagram
<1> DEFINE id == videoAir[i].id
           key == videoAir[i].key
<1>2. /\ id \in KeyIds /\ key \in AesKeys
      /\ videoAir' \in Seq([type : {"video"}, id : KeyIds, key : AesKeys])
  BY <1>1, ArrivalKeepsAir
<1>3. C!OnVideo([id |-> id, key |-> key])
  BY <1>1 DEF C!OnVideo
<1>4. CP!IInv'
  BY <1>2, <1>3, ClientKeeps DEF C!Next, C!KeyIds, KeyIds
<1>5. UNCHANGED <<broadcasterVars, listening, keyAir, losses>>
  BY DEF OnVideoDatagram
<1>6. keyFilesSaved' = keyFilesSaved
  BY <1>1 DEF C!OnVideo, C!fileVars
<1>7. AirOK'
  BY <1>2, <1>5, <1>6 DEF AirOK
<1>8. BP!IInv'
  BY <1>5, BroadcasterKeeps
<1>9. QED
  BY <1>4, <1>7, <1>8

LEMMA LoseKeepsEnds ==
    ASSUME EndsInv, Lose
    PROVE  EndsInv'
<1> USE DEF EndsInv
<1>1. UNCHANGED <<broadcasterVars, clientVars, listening>> /\ losses' \in Nat
  BY DEF Lose, AirOK
<1>2. keyFilesSaved' = keyFilesSaved
  BY <1>1 DEF clientVars
<1>3. /\ keyAir' \in Seq(KeyDatagrams)
      /\ videoAir' \in Seq([type : {"video"}, id : KeyIds, key : AesKeys])
  <2>1. CASE \E i \in Arriving(keyAir) :
                 keyAir' = RemoveAt(keyAir, i) /\ UNCHANGED videoAir
    BY <2>1, ArrivingIs, ArrivalKeepsAir DEF AirOK
  <2>2. CASE \E i \in Arriving(videoAir) :
                 videoAir' = RemoveAt(videoAir, i) /\ UNCHANGED keyAir
    BY <2>2, ArrivingIs, ArrivalKeepsAir DEF AirOK
  <2>3. QED
    BY <2>1, <2>2 DEF Lose
<1>4. AirOK'
  BY <1>1, <1>2, <1>3 DEF AirOK
<1>5. BP!IInv' /\ CP!IInv'
  BY <1>1, BroadcasterKeeps, ClientKeeps
<1>6. QED
  BY <1>4, <1>5

\* The disk's steps, joining, and steps that change nothing.
LEMMA OthersKeepEnds ==
    ASSUME EndsInv, DiskStep \/ Join \/ UNCHANGED vars
    PROVE  EndsInv'
<1> USE DEF EndsInv
<1>1. UNCHANGED <<broadcasterVars, air>> /\ listening' \in BOOLEAN
  BY DEF DiskStep, Join, vars, AirOK
<1>2. C!DiskStep \/ UNCHANGED clientVars
  BY DEF DiskStep, Join, vars
<1>3. keyFilesSaved' = keyFilesSaved
  BY <1>2 DEF C!DiskStep, C!StreamOpened, C!StreamWritten, C!StreamFinished,
              C!KeyFileUnlinked, clientVars
<1>4. AirOK'
  BY <1>1, <1>3 DEF AirOK, air
<1>5. CP!IInv'
  BY <1>2, ClientKeeps DEF C!Next
<1>6. BP!IInv'
  BY <1>1, BroadcasterKeeps
<1>7. QED
  BY <1>4, <1>5, <1>6

LEMMA NextEnds == EndsInv /\ [Next]_vars => EndsInv'
<1> SUFFICES ASSUME EndsInv, [Next]_vars PROVE EndsInv'
  OBVIOUS
<1>1. CASE Send \/ ChangeKey \/ BroadcasterRestart
  BY <1>1, BroadcasterKeepsEnds
<1>2. CASE OnKeyDatagram
  BY <1>2, KeyDatagramKeepsEnds
<1>3. CASE OnVideoDatagram
  BY <1>3, VideoDatagramKeepsEnds
<1>4. CASE Lose
  BY <1>4, LoseKeepsEnds
<1>5. CASE DiskStep \/ Join \/ UNCHANGED vars
  BY <1>5, OthersKeepEnds
<1>6. QED
  BY <1>1, <1>2, <1>3, <1>4, <1>5 DEF Next, OnVideoMessage, Send

LEMMA EndsInductive == Spec => []EndsInv
BY InitEnds, NextEnds, PTL DEF Spec

\* The types of both ends and of what is under way, with every fault there is:
\* what the broadcaster (broad.js) sends is what the viewer (receivePacket.js)
\* expects.
THEOREM TypeCorrect == Spec => []TypeOK
<1>1. EndsInv => B!TypeOK
  BY DEF EndsInv, BP!IInv, BP!TypeOK, B!TypeOK, BP!KeyIds, B!KeyIds, BP!Providers,
         B!Providers, BP!RevokeContents, B!RevokeContents, BP!RevokeStrings,
         B!RevokeStrings, BP!FetchStates, B!FetchStates
<1>2. EndsInv => C!TypeOK
  BY DEF EndsInv, CP!IInv, CP!TypeOK, C!TypeOK, CP!KeyIds, C!KeyIds, CP!StreamStates,
         C!StreamStates, CP!Absent, C!Absent, CP!Empty, C!Empty, CP!Nothing, C!Nothing,
         CP!Ignored, C!Ignored
<1>3. AirOK => /\ listening \in BOOLEAN
               /\ \A i \in DOMAIN keyAir :
                     keyAir[i] \in Ciphers \cup [type : {"id"}, id : KeyIds]
               /\ \A i \in DOMAIN videoAir :
                     videoAir[i] \in [type : {"video"}, id : KeyIds, key : AesKeys]
  BY ArrivalKeepsAir DEF KeyDatagrams, AirOK
<1>4. EndsInv => TypeOK
  BY <1>1, <1>2, <1>3 DEF EndsInv, TypeOK
<1>5. QED
  BY <1>4, EndsInductive, PTL

-----------------------------------------------------------------------------
(***************************************************************************)
(* The link between the ends, in an orderly run: datagrams arrive in the   *)
(* order of their port, none is lost, the disk is done before the next     *)
(* one, and the broadcaster does not start again.  Video may stall,        *)
(* revocation replies may come at any time, the viewer at any time too.    *)
(* The viewer's is the last provider: when the encryption for a later one  *)
(* throws, the earlier ones have been sent a key that is never used.       *)
(***************************************************************************)
Orderly ==
    /\ Faults \subseteq {"stall", "slow server", "late join"}
    /\ MaxLosses = 0
    /\ USER_SERVER = NumProviders

\* The key is the one in use or the newest, and id is its id.
Current(id, key) ==
    \/ id = aesSeq /\ key = aesKey
    \/ id = keysList.id /\ key = keysList.key

Busy == keyAir # <<>> \/ ~C!DiskIdle

\* The viewer has been told no key and is not about to be.
Untouched == slots = createKeysList /\ keyAir = <<>> /\ streams = <<>>

\* Every video packet under way is encrypted with the key in use.
VideoInUse ==
    \A i \in DOMAIN videoAir : videoAir[i].id = aesSeq /\ videoAir[i].key = aesKey

\* When a change of key is due, no video is under way, and key datagrams only
\* before the first change.
DueIsQuiet ==
    /\ sinceChange > CHANGE_KEY_INTERVAL =>
          videoAir = <<>> /\ (Busy => keysList.id = aesSeq)
    /\ phase = "binding" => videoAir = <<>> /\ keysList.id = aesSeq

\* A cipher under way follows its id, or the viewer has just had it.
KeyAirPairs ==
    \A i \in DOMAIN keyAir :
        keyAir[i].type = "cipher" =>
            IF i = 1 THEN C!DiskIdle /\ Current(keyId, keyAir[i].key)
            ELSE keyAir[i - 1].type = "id" /\ Current(keyAir[i - 1].id, keyAir[i].key)

StreamPairs ==
    \A i \in DOMAIN streams : Current(streams[i].for, streams[i].data.key)

\* The only node with neither the key in use nor the newest is the one the
\* pointer leaves, and so empties, with the next video packet.
AboutToBeEmptied(id) ==
    /\ id = current
    /\ id # aesSeq
    /\ slots[id] \notin {aesKey, keysList.key}
    /\ videoAir # <<>> \/ keysList.id = aesSeq

SlotsRight ==
    \A id \in KeyIds :
        slots[id] # NoKey => Current(id, slots[id]) \/ AboutToBeEmptied(id)

\* The pointer is at the key in use before the next one comes into use.
PointerFollows ==
    keysList.id # aesSeq => current = aesSeq \/ videoAir # <<>> \/ Untouched

NotJoined == ~listening => Untouched /\ videoAir = <<>>

Link ==
    /\ losses = 0 /\ ~overlapped
    /\ VideoInUse /\ DueIsQuiet /\ KeyAirPairs /\ StreamPairs
    /\ SlotsRight /\ PointerFollows /\ NotJoined
    /\ RightKey

\* A viewer no key datagram has overlapped with: at most one write stream, for
\* the expected id.
LEMMA ViewerInv ==
    CP!IInv /\ ~overlapped =>
        /\ slots \in [KeyIds -> AesKeys \cup {NoKey}]
        /\ current \in KeyIds /\ keyId \in KeyIds \cup {-1}
        /\ streams \in Seq(CP!StreamStates)
        /\ \/ streams = <<>>
           \/ /\ Len(streams) = 1 /\ DOMAIN streams = {1}
              /\ ~unlinking /\ streams[1].for = keyId /\ streams[1].for \in KeyIds
<1> SUFFICES ASSUME CP!IInv, ~overlapped
             PROVE  /\ slots \in [KeyIds -> AesKeys \cup {NoKey}]
                    /\ current \in KeyIds /\ keyId \in KeyIds \cup {-1}
                    /\ streams \in Seq(CP!StreamStates)
                    /\ \/ streams = <<>>
                       \/ /\ Len(streams) = 1 /\ DOMAIN streams = {1}
                          /\ ~unlinking /\ streams[1].for = keyId
                          /\ streams[1].for \in KeyIds
  OBVIOUS
<1>1. /\ slots \in [KeyIds -> AesKeys \cup {NoKey}]
      /\ current \in KeyIds /\ keyId \in KeyIds \cup {-1}
      /\ streams \in Seq(CP!StreamStates)
  BY DEF CP!IInv, CP!TypeOK, CP!KeyIds, KeyIds
<1>2. CASE streams = <<>>
  BY <1>1, <1>2
<1>3. CASE streams # <<>>
  <2>1. Len(streams) = 1 /\ ~unlinking /\ streams[1].for = keyId
    BY <1>3 DEF CP!IInv, CP!OneAtATime
  <2>2. DOMAIN streams = {1} /\ streams[1] \in CP!StreamStates
    BY <1>1, <2>1
  <2>3. streams[1].for \in KeyIds
    BY <2>2 DEF CP!StreamStates, CP!KeyIds, KeyIds
  <2>4. QED
    BY <1>1, <2>1, <2>2, <2>3
<1>4. QED
  BY <1>2, <1>3

LEMMA InitLink == Orderly /\ Init => Link
<1> SUFFICES ASSUME Init PROVE Link
  OBVIOUS
<1>1. /\ keyAir = <<>> /\ videoAir = <<>> /\ streams = <<>> /\ ~unlinking
      /\ slots = createKeysList /\ losses = 0 /\ ~overlapped
      /\ played = [type |-> "nothing"]
      /\ keysList.id = aesSeq
  BY DEF Init, B!Init, C!InitWith, C!Nothing, C!createKeysList, createKeysList,
         C!KeyIds, KeyIds
<1>2. \A id \in KeyIds : slots[id] = NoKey
  BY <1>1 DEF createKeysList
<1>3. DOMAIN keyAir = {} /\ DOMAIN videoAir = {} /\ DOMAIN streams = {}
  BY <1>1
<1>4. QED
  BY <1>1, <1>2, <1>3
  DEF Link, VideoInUse, DueIsQuiet, Busy, C!DiskIdle, KeyAirPairs, StreamPairs,
      SlotsRight, PointerFollows, NotJoined, Untouched, RightKey

\* What Transmit appends: the packet at the end, an announcement as id and cipher.
LEMMA TransmitIs ==
    ASSUME Transmit, AirOK, NEW k \in AesKeys, NEW kid \in KeyIds,
           NEW v \in AesKeys, NEW vid \in KeyIds,
           outbox'.key[USER_SERVER] \in {<<>>, Announcement(k, kid)},
           outbox'.key[USER_SERVER] # <<>> => B!Revoked(USER_SERVER) \in Seq(UserIds),
           outbox'.video[USER_SERVER] \in {<<>>, Packet(vid, v)}
    PROVE  /\ UNCHANGED <<clientVars, listening, losses>>
           /\ \/ keyAir' = keyAir /\ (outbox'.key[USER_SERVER] = <<>> \/ ~listening)
              \/ /\ listening /\ outbox'.key[USER_SERVER] # <<>> /\ keyAir' # <<>>
                 /\ Len(keyAir') = Len(keyAir) + 2
                 /\ DOMAIN keyAir' = 1 .. Len(keyAir) + 2
                 /\ \A i \in 1 .. Len(keyAir) : keyAir'[i] = keyAir[i]
                 /\ keyAir'[Len(keyAir) + 1] = [type |-> "id", id |-> kid]
                 /\ keyAir'[Len(keyAir) + 2].type = "cipher"
                 /\ keyAir'[Len(keyAir) + 2].key = k
                 /\ keyAir'[Len(keyAir) + 2].revoked = B!Revoked(USER_SERVER)
           /\ \/ /\ videoAir' = videoAir
                 /\ outbox'.video[USER_SERVER] = <<>> \/ ~listening
              \/ /\ listening /\ outbox'.video[USER_SERVER] # <<>> /\ videoAir' # <<>>
                 /\ \A i \in DOMAIN videoAir' :
                       \/ i \in DOMAIN videoAir /\ videoAir'[i] = videoAir[i]
                       \/ videoAir'[i] = [type |-> "video", id |-> vid, key |-> v]
<1> DEFINE Videos == [type : {"video"}, id : KeyIds, key : AesKeys]
           sent == outbox'.key[USER_SERVER]
           video == outbox'.video[USER_SERVER]
           packet == [type |-> "video", id |-> vid, key |-> v]
           told == [type |-> "id", id |-> kid]
           cipher == [type |-> "cipher", key |-> k, revoked |-> B!Revoked(USER_SERVER)]
<1>1. keyAir \in Seq(KeyDatagrams) /\ videoAir \in Seq(Videos)
  BY DEF AirOK
<1>2. /\ UNCHANGED <<clientVars, listening, losses>>
      /\ listening => keyAir' = keyAir \o sent /\ videoAir' = videoAir \o video
      /\ ~listening => keyAir' = keyAir /\ videoAir' = videoAir
  BY DEF Transmit, air
<1>3. packet \in Videos /\ told \in KeyDatagrams
  BY DEF KeyDatagrams
<1>4. sent # <<>> => cipher \in KeyDatagrams
  BY DEF KeyDatagrams, Ciphers
<1>5. sent # <<>> => sent = <<told, cipher>>
  BY DEF Announcement
<1>6. video # <<>> => video = <<packet>>
  BY DEF Packet
<1>7. /\ told = [type |-> "id", id |-> kid] /\ cipher.type = "cipher"
      /\ cipher.key = k /\ cipher.revoked = B!Revoked(USER_SERVER)
  OBVIOUS
<1> HIDE DEF Videos, sent, video, packet, told, cipher
<1>8. \/ keyAir' = keyAir /\ (sent = <<>> \/ ~listening)
      \/ /\ listening /\ sent # <<>> /\ keyAir' # <<>>
         /\ Len(keyAir') = Len(keyAir) + 2
         /\ DOMAIN keyAir' = 1 .. Len(keyAir) + 2
         /\ \A i \in 1 .. Len(keyAir) : keyAir'[i] = keyAir[i]
         /\ keyAir'[Len(keyAir) + 1] = told
         /\ keyAir'[Len(keyAir) + 2] = cipher
  <2>1. CASE ~listening
    BY <1>2, <2>1
  <2>2. CASE listening /\ sent = <<>>
    BY <1>1, <1>2, <2>2
  <2>3. CASE listening /\ sent # <<>>
    <3>1. keyAir' = keyAir \o <<told, cipher>> /\ cipher \in KeyDatagrams
      BY <1>2, <1>4, <1>5, <2>3
    <3>2. Len(keyAir) \in Nat
      BY <1>1
    <3>3. QED
      BY <1>1, <1>3, <2>3, <3>1, <3>2, AppendedTwo
  <2>4. QED
    BY <2>1, <2>2, <2>3
<1>9. \/ videoAir' = videoAir /\ (video = <<>> \/ ~listening)
      \/ /\ listening /\ video # <<>> /\ videoAir' # <<>>
         /\ \A i \in DOMAIN videoAir' :
               \/ i \in DOMAIN videoAir /\ videoAir'[i] = videoAir[i]
               \/ videoAir'[i] = packet
  <2>1. CASE ~listening
    BY <1>2, <2>1
  <2>2. CASE listening /\ video = <<>>
    BY <1>1, <1>2, <2>2
  <2>3. CASE listening /\ video # <<>>
    <3>1. videoAir' = videoAir \o <<packet>>
      BY <1>2, <1>6, <2>3
    <3>2. QED
      BY <1>1, <1>3, <2>3, <3>1, AppendedOne
  <2>4. QED
    BY <2>1, <2>2, <2>3
<1>10. QED
  BY <1>2, <1>7, <1>8, <1>9 DEF sent, video, packet, told, cipher

\* A step of the broadcaster that draws no new key.
LEMMA SendKeepsLink ==
    ASSUME Orderly, EndsInv, Link, Send
    PROVE  Link'
<1> DEFINE key == outbox'.key[USER_SERVER]
           video == outbox'.video[USER_SERVER]
<1> USE DEF EndsInv, Link
<1>1. /\ aesSeq \in KeyIds /\ aesKey \in AesKeys
      /\ sinceChange \in Nat /\ CHANGE_KEY_INTERVAL \in Nat
  BY KeysInv
<1>2. /\ UNCHANGED <<keysList, aesKey, aesSeq>>
      /\ key # <<>> => phase = "binding" \/ sinceChange <= CHANGE_KEY_INTERVAL
      /\ video # <<>> => phase = "playing" /\ sinceChange <= CHANGE_KEY_INTERVAL
      /\ \/ sinceChange' = sinceChange
         \/ Quiet /\ C!DiskIdle /\ key = <<>> /\ video = <<>>
      /\ phase' = "binding" => phase = "binding"
      /\ key # <<>> => video # <<>> \/ phase = "binding"
  BY SendIs DEF Orderly, SlowDisk
<1>3. /\ UNCHANGED <<clientVars, listening, losses>>
      /\ \/ keyAir' = keyAir
         \/ /\ listening /\ key # <<>> /\ keyAir' # <<>>
            /\ Len(keyAir') = Len(keyAir) + 2
            /\ DOMAIN keyAir' = 1 .. Len(keyAir) + 2
            /\ \A i \in 1 .. Len(keyAir) : keyAir'[i] = keyAir[i]
            /\ keyAir'[Len(keyAir) + 1] = [type |-> "id", id |-> aesSeq]
            /\ keyAir'[Len(keyAir) + 2].type = "cipher"
            /\ keyAir'[Len(keyAir) + 2].key = aesKey
      /\ \/ videoAir' = videoAir /\ (video = <<>> \/ ~listening)
         \/ /\ listening /\ video # <<>> /\ videoAir' # <<>>
            /\ \A i \in DOMAIN videoAir' :
                  \/ i \in DOMAIN videoAir /\ videoAir'[i] = videoAir[i]
                  \/ videoAir'[i] = [type |-> "video", id |-> aesSeq, key |-> aesKey]
  BY <1>1, SendIs, TransmitIs
<1>4. UNCHANGED <<slots, current, keyId, streams, unlinking, played, overlapped>>
  BY <1>3 DEF clientVars
<1>5. Len(keyAir) \in Nat /\ DOMAIN keyAir = 1 .. Len(keyAir)
  BY DEF AirOK
<1> HIDE DEF key, video
<1>6. VideoInUse'
  BY <1>2, <1>3 DEF VideoInUse
<1>7. DueIsQuiet'
  <2>1. sinceChange' > CHANGE_KEY_INTERVAL =>
            videoAir' = <<>> /\ (Busy' => keysList'.id = aesSeq')
    BY <1>1, <1>2, <1>3, <1>4 DEF DueIsQuiet, Busy, Quiet, C!DiskIdle
  <2>2. phase' = "binding" => videoAir' = <<>> /\ keysList'.id = aesSeq'
    BY <1>2, <1>3 DEF DueIsQuiet
  <2>3. QED
    BY <2>1, <2>2 DEF DueIsQuiet
<1>8. KeyAirPairs'
  <2>1. CASE keyAir' = keyAir
    BY <1>2, <1>4, <2>1 DEF KeyAirPairs, Current, C!DiskIdle
  <2>2. CASE keyAir' # keyAir
    <3>1. ASSUME NEW i \in 1 .. Len(keyAir), keyAir'[i].type = "cipher"
          PROVE  IF i = 1 THEN (C!DiskIdle /\ Current(keyId, keyAir[i].key))'
                 ELSE (keyAir[i - 1].type = "id" /\ Current(keyAir[i - 1].id, keyAir[i].key))'
      <4>1. keyAir'[i] = keyAir[i] /\ (i # 1 => keyAir'[i - 1] = keyAir[i - 1])
        BY <1>3, <1>5, <2>2
      <4>2. QED
        BY <1>2, <1>4, <1>5, <3>1, <4>1 DEF KeyAirPairs, Current, C!DiskIdle
    <3>2. keyAir'[Len(keyAir) + 1].type # "cipher"
      BY <1>3, <2>2
    <3>3. /\ Len(keyAir) + 2 # 1 /\ (Len(keyAir) + 2) - 1 = Len(keyAir) + 1
          /\ keyAir'[(Len(keyAir) + 2) - 1].type = "id"
      BY <1>3, <1>5, <2>2
    <3>4. QED
      BY <1>2, <1>3, <1>5, <2>2, <3>1, <3>2, <3>3 DEF KeyAirPairs, Current
  <2>3. QED
    BY <2>1, <2>2
<1>9. StreamPairs'
  BY <1>2, <1>4 DEF StreamPairs, Current
<1>10. SlotsRight'
  BY <1>2, <1>3, <1>4 DEF SlotsRight, Current, AboutToBeEmptied
<1>11. PointerFollows'
  BY <1>2, <1>3, <1>4 DEF PointerFollows, DueIsQuiet, Untouched
<1>12. NotJoined'
  BY <1>3, <1>4 DEF NotJoined, Untouched
<1>13. QED
  BY <1>3, <1>4, <1>6, <1>7, <1>8, <1>9, <1>10, <1>11, <1>12 DEF RightKey

\* A change of key finds no video under way, and key datagrams only before the
\* first one; so what is about is the key in use, the newest, or the one the
\* viewer's pointer is about to leave.
LEMMA ChangeKeyKeepsLink ==
    ASSUME Orderly, EndsInv, Link, ChangeKey
    PROVE  Link'
<1> DEFINE key == outbox'.key[USER_SERVER]
           video == outbox'.video[USER_SERVER]
           next == NextId(keysList.id)
<1> USE DEF EndsInv, Link
<1>1. /\ aesSeq \in KeyIds /\ aesKey \in AesKeys
      /\ keysList.id \in KeyIds /\ keysList.key \in AesKeys
      /\ \/ keysList.id = aesSeq /\ keysList.key = aesKey
         \/ keysList.id # aesSeq /\ keysList.key # aesKey
      /\ next \in KeyIds /\ next # keysList.id
      /\ CHANGE_KEY_INTERVAL \in Nat
  BY KeysInv, NextIdOther
<1>2. /\ phase = "playing" /\ phase' = phase
      /\ sinceChange > CHANGE_KEY_INTERVAL /\ sinceChange' = 0
      /\ aesKey' = keysList.key /\ aesSeq' = keysList.id
      /\ FreshKey \in AesKeys \ KeysAbout
      /\ \/ keysList' = keysList /\ video = <<>> /\ key = <<>>
         \/ /\ keysList' = [id |-> next, key |-> FreshKey]
            /\ video # <<>>
  <2>1. Packet(keysList.id, keysList.key) # <<>>
    BY DEF Packet
  <2>2. QED
    BY <2>1, ChangeKeyIs DEF Orderly
<1>3. /\ UNCHANGED <<clientVars, listening, losses>>
      /\ \/ keyAir' = keyAir
         \/ /\ listening /\ key # <<>> /\ keyAir' # <<>>
            /\ Len(keyAir') = Len(keyAir) + 2
            /\ DOMAIN keyAir' = 1 .. Len(keyAir) + 2
            /\ \A i \in 1 .. Len(keyAir) : keyAir'[i] = keyAir[i]
            /\ keyAir'[Len(keyAir) + 1] = [type |-> "id", id |-> next]
            /\ keyAir'[Len(keyAir) + 2].type = "cipher"
            /\ keyAir'[Len(keyAir) + 2].key = FreshKey
      /\ \/ videoAir' = videoAir /\ (video = <<>> \/ ~listening)
         \/ /\ listening /\ video # <<>> /\ videoAir' # <<>>
            /\ \A i \in DOMAIN videoAir' :
                  \/ i \in DOMAIN videoAir /\ videoAir'[i] = videoAir[i]
                  \/ videoAir'[i] =
                        [type |-> "video", id |-> keysList.id, key |-> keysList.key]
  BY <1>1, <1>2, ChangeKeyIs, TransmitIs
<1>4. UNCHANGED <<slots, current, keyId, streams, unlinking, played, overlapped>>
  BY <1>3 DEF clientVars
<1>5. Len(keyAir) \in Nat /\ DOMAIN keyAir = 1 .. Len(keyAir)
  BY DEF AirOK
<1> HIDE DEF key, video, next
\* What the schedule guarantees at this moment.
<1>6. /\ videoAir = <<>>
      /\ keysList.id # aesSeq => keyAir = <<>> /\ streams = <<>>
      /\ keysList.id # aesSeq => current = aesSeq \/ Untouched
  BY <1>2 DEF DueIsQuiet, Busy, C!DiskIdle, PointerFollows
<1>7. VideoInUse'
  BY <1>2, <1>3, <1>6 DEF VideoInUse
<1>8. DueIsQuiet'
  BY <1>1, <1>2 DEF DueIsQuiet
<1>9. KeyAirPairs'
  <2>1. CASE keyAir' = keyAir
    BY <1>1, <1>2, <1>4, <1>6, <2>1 DEF KeyAirPairs, Current, C!DiskIdle
  <2>2. CASE keyAir' # keyAir
    <3>1. ASSUME NEW i \in 1 .. Len(keyAir), keyAir'[i].type = "cipher"
          PROVE  IF i = 1 THEN (C!DiskIdle /\ Current(keyId, keyAir[i].key))'
                 ELSE (keyAir[i - 1].type = "id" /\ Current(keyAir[i - 1].id, keyAir[i].key))'
      <4>1. keyAir'[i] = keyAir[i] /\ (i # 1 => keyAir'[i - 1] = keyAir[i - 1])
        BY <1>3, <1>5, <2>2
      <4>2. keysList.id = aesSeq /\ keysList.key = aesKey
        BY <1>1, <1>5, <1>6, <3>1
      <4>3. QED
        BY <1>2, <1>4, <1>5, <3>1, <4>1, <4>2 DEF KeyAirPairs, Current, C!DiskIdle
    <3>2. keyAir'[Len(keyAir) + 1].type # "cipher"
      BY <1>3, <2>2
    <3>3. /\ Len(keyAir) + 2 # 1 /\ (Len(keyAir) + 2) - 1 = Len(keyAir) + 1
          /\ keyAir'[(Len(keyAir) + 2) - 1].type = "id"
      BY <1>3, <1>5, <2>2
    <3>4. keysList' = [id |-> next, key |-> FreshKey]
      BY <1>2, <1>3, <2>2
    <3>5. QED
      BY <1>3, <1>5, <2>2, <3>1, <3>2, <3>3, <3>4 DEF KeyAirPairs, Current
  <2>3. QED
    BY <2>1, <2>2
<1>10. StreamPairs'
  BY <1>1, <1>2, <1>4, <1>6 DEF StreamPairs, Current
<1>11. ASSUME NEW id \in KeyIds, slots[id] # NoKey
       PROVE  (Current(id, slots[id]) \/ AboutToBeEmptied(id))'
  <2>1. slots[id] # FreshKey
    BY <1>2 DEF KeysAbout
  <2>2. ~Untouched
    BY <1>11 DEF Untouched, createKeysList
  <2>3. listening
    BY <2>2 DEF NotJoined
  <2>4. videoAir' # <<>> \/ keysList'.id = aesSeq'
    BY <1>2, <1>3, <2>3
  <2>5. Current(id, slots[id]) \/ AboutToBeEmptied(id)
    BY <1>11 DEF SlotsRight
  <2>6. CASE keysList.id = aesSeq
    BY <1>1, <1>2, <1>4, <2>1, <2>4, <2>5, <2>6 DEF Current, AboutToBeEmptied
  <2>7. CASE keysList.id # aesSeq
    <3>1. current = aesSeq
      BY <1>6, <2>2, <2>7
    <3>2. Current(id, slots[id])
      BY <2>5, <3>1 DEF AboutToBeEmptied
    <3>3. QED
      BY <1>1, <1>2, <1>4, <2>1, <2>4, <2>7, <3>1, <3>2 DEF Current, AboutToBeEmptied
  <2>8. QED
    BY <2>6, <2>7
<1>12. SlotsRight'
  BY <1>4, <1>11 DEF SlotsRight
<1>13. PointerFollows'
  <2>1. CASE keysList' = keysList
    BY <1>2, <2>1 DEF PointerFollows
  <2>2. CASE listening /\ video # <<>>
    BY <1>3, <2>2 DEF PointerFollows
  <2>3. CASE ~listening
    BY <1>3, <1>4, <2>3 DEF PointerFollows, NotJoined, Untouched
  <2>4. QED
    BY <1>2, <2>1, <2>2, <2>3
<1>14. NotJoined'
  BY <1>3, <1>4 DEF NotJoined, Untouched
<1>15. QED
  BY <1>3, <1>4, <1>7, <1>8, <1>9, <1>10, <1>12, <1>13, <1>14 DEF RightKey

\* A key datagram is the first under way, and finds the disk idle; a cipher is
\* ignored, or begins a stream for the id before it.
LEMMA KeyDatagramIs ==
    ASSUME Orderly, EndsInv, ~overlapped, OnKeyDatagram
    PROVE  /\ keyAir # <<>> /\ streams = <<>> /\ ~unlinking /\ C!DiskIdle
           /\ UNCHANGED <<broadcasterVars, listening, videoAir, losses>>
           /\ UNCHANGED <<slots, current, unlinking, played>> /\ ~overlapped'
           /\ Len(keyAir) \in Nat /\ Len(keyAir) >= 1 /\ DOMAIN keyAir = 1 .. Len(keyAir)
           /\ DOMAIN keyAir' = 1 .. Len(keyAir) - 1
           /\ \A i \in 1 .. Len(keyAir) - 1 : keyAir'[i] = keyAir[i + 1]
           /\ \/ /\ keyAir[1].type = "id" /\ streams' = <<>>
                 /\ keyId' = keyAir[1].id
              \/ /\ keyAir[1].type = "cipher" /\ keyId' = keyId
                 /\ \/ streams' = <<>> /\ (keyId \in KeyIds => slots[keyId] # NoKey)
                    \/ /\ DOMAIN streams' = {1}
                       /\ streams'[1].for = keyId /\ streams'[1].data = keyAir[1]
                       /\ slots[keyId] = NoKey
<1>1. /\ 1 \in DOMAIN keyAir
      /\ C!OnKeyId(keyAir[1]) \/ C!OnCipher(keyAir[1])
      /\ keyAir' = RemoveAt(keyAir, 1)
      /\ C!DiskIdle
  BY DEF OnKeyDatagram, Arriving, Orderly, SlowDisk
<1>2. UNCHANGED <<broadcasterVars, listening, videoAir, losses>>
  BY DEF OnKeyDatagram
<1>3. keyAir # <<>> /\ streams = <<>> /\ ~unlinking
  BY <1>1 DEF C!DiskIdle
<1>4. /\ Len(keyAir) \in Nat /\ Len(keyAir) >= 1 /\ DOMAIN keyAir = 1 .. Len(keyAir)
      /\ DOMAIN keyAir' = 1 .. Len(keyAir) - 1
      /\ \A i \in 1 .. Len(keyAir) - 1 : keyAir'[i] = keyAir[i + 1]
  BY <1>1, <1>3, FirstTaken DEF EndsInv, AirOK
<1>5. UNCHANGED <<slots, current, unlinking, played>> /\ ~overlapped'
  BY <1>1 DEF C!OnKeyId, C!OnCipher, C!fileVars
<1>6. CASE C!OnKeyId(keyAir[1])
  BY <1>1, <1>2, <1>3, <1>4, <1>5, <1>6 DEF C!OnKeyId, C!fileVars
<1>7. CASE C!OnCipher(keyAir[1])
  <2> DEFINE stream == [stage |-> "opening", linked |-> FALSE, data |-> keyAir[1],
                        for |-> keyId]
  <2>1. keyAir[1].type = "cipher" /\ keyId' = keyId
    BY <1>7 DEF C!OnCipher
  <2>2. CASE C!CipherIgnored
    <3>1. streams' = <<>>
      BY <1>3, <1>7, <2>2 DEF C!OnCipher
    <3>2. keyId \in KeyIds => slots[keyId] # NoKey
      BY <2>2, RingAssumption DEF C!CipherIgnored, C!getAesKeyById, KeyIds
    <3>3. QED
      BY <1>1, <1>2, <1>3, <1>4, <1>5, <2>1, <3>1, <3>2
  <2>3. CASE ~C!CipherIgnored
    <3>1. streams' = Append(streams, stream) /\ slots[keyId] = NoKey
      BY <1>7, <2>3 DEF C!OnCipher, C!CipherIgnored, C!getAesKeyById
    <3>2. streams' = <<stream>>
      BY <1>3, <3>1
    <3>3. /\ DOMAIN streams' = {1}
          /\ streams'[1].for = keyId /\ streams'[1].data = keyAir[1]
      BY <3>2
    <3>4. QED
      BY <1>1, <1>2, <1>3, <1>4, <1>5, <2>1, <3>1, <3>3
  <2>4. QED
    BY <2>2, <2>3
<1>8. QED
  BY <1>1, <1>6, <1>7

\* So a cipher's stream is for the id it was sent with.
LEMMA KeyDatagramKeepsLink ==
    ASSUME Orderly, EndsInv, Link, OnKeyDatagram
    PROVE  Link'
<1> USE DEF EndsInv, Link
<1>1. C!DiskIdle /\ 1 \in DOMAIN keyAir
  BY KeyDatagramIs
<1>2. UNCHANGED <<broadcasterVars, listening, videoAir, losses>>
  BY KeyDatagramIs
<1>3. UNCHANGED <<phase, keysList, aesKey, aesSeq, sinceChange>>
  BY <1>2 DEF broadcasterVars
<1>4. keyAir # <<>> /\ streams = <<>> /\ ~unlinking /\ ~Untouched
  BY KeyDatagramIs DEF Untouched
<1>5. /\ Len(keyAir) \in Nat /\ Len(keyAir) >= 1 /\ DOMAIN keyAir = 1 .. Len(keyAir)
      /\ DOMAIN keyAir' = 1 .. Len(keyAir) - 1
      /\ \A i \in 1 .. Len(keyAir) - 1 : keyAir'[i] = keyAir[i + 1]
  BY KeyDatagramIs
<1>6. UNCHANGED <<slots, current, unlinking, played>> /\ ~overlapped'
  BY KeyDatagramIs
\* The datagram behind the first is a cipher only when the first is its id.
<1>7. ASSUME NEW i \in 2 .. Len(keyAir), keyAir[i].type = "cipher"
      PROVE  keyAir[i - 1].type = "id" /\ Current(keyAir[i - 1].id, keyAir[i].key)
  BY <1>5, <1>7 DEF KeyAirPairs
<1>8. \/ keyAir[1].type = "id" /\ streams' = streams /\ keyId' = keyAir[1].id
      \/ /\ keyAir[1].type = "cipher" /\ keyId' = keyId
         /\ \A i \in DOMAIN streams' :
               streams'[i].for = keyId /\ streams'[i].data = keyAir[1]
  <2>1. streams' = <<>> => DOMAIN streams' = {}
    OBVIOUS
  <2>2. QED
    BY <2>1, KeyDatagramIs
<1>9. VideoInUse'
  BY <1>2, <1>3 DEF VideoInUse
<1>10. DueIsQuiet'
  BY <1>2, <1>3, <1>4 DEF DueIsQuiet, Busy
<1>11. KeyAirPairs'
  <2>1. ASSUME NEW i \in 1 .. Len(keyAir) - 1, keyAir'[i].type = "cipher"
        PROVE  IF i = 1 THEN (C!DiskIdle /\ Current(keyId, keyAir[i].key))'
               ELSE (keyAir[i - 1].type = "id" /\ Current(keyAir[i - 1].id, keyAir[i].key))'
    <3>1. /\ i + 1 \in 2 .. Len(keyAir) /\ keyAir'[i] = keyAir[i + 1]
          /\ (i + 1) - 1 = i
      BY <1>5
    <3>2. keyAir[i].type = "id" /\ Current(keyAir[i].id, keyAir[i + 1].key)
      BY <1>7, <2>1, <3>1
    <3>3. CASE i = 1
      BY <1>3, <1>4, <1>6, <1>8, <3>1, <3>2, <3>3 DEF Current, C!DiskIdle
    <3>4. CASE i # 1
      <4>1. keyAir'[i - 1] = keyAir[i]
        BY <1>5, <3>4
      <4>2. QED
        BY <1>3, <3>1, <3>2, <3>4, <4>1 DEF Current
    <3>5. QED
      BY <3>3, <3>4
  <2>2. QED
    BY <1>5, <2>1 DEF KeyAirPairs
<1>12. StreamPairs'
  <2>1. keyAir[1].type = "cipher" => Current(keyId, keyAir[1].key)
    BY <1>1 DEF KeyAirPairs
  <2>2. QED
    BY <1>3, <1>4, <1>8, <2>1 DEF StreamPairs, Current
<1>13. SlotsRight'
  BY <1>2, <1>3, <1>6 DEF SlotsRight, Current, AboutToBeEmptied
<1>14. PointerFollows'
  BY <1>2, <1>3, <1>4, <1>6 DEF PointerFollows
<1>15. NotJoined'
  BY <1>2, <1>4 DEF NotJoined
<1>16. QED
  BY <1>2, <1>6, <1>9, <1>10, <1>11, <1>12, <1>13, <1>14, <1>15 DEF RightKey

\* The first video packet is under the key in use: the viewer moves to its node,
\* empties the one it leaves, and plays with that node's key or not at all.
LEMMA VideoDatagramIs ==
    ASSUME Orderly, EndsInv, VideoInUse, OnVideoDatagram
    PROVE  /\ videoAir # <<>>
           /\ UNCHANGED <<broadcasterVars, listening, keyAir, losses>>
           /\ UNCHANGED <<keyId, streams, unlinking, overlapped>>
           /\ DOMAIN videoAir = 1 .. Len(videoAir) /\ Len(videoAir) \in Nat
           /\ DOMAIN videoAir' = 1 .. Len(videoAir) - 1
           /\ \A i \in 1 .. Len(videoAir) - 1 : videoAir'[i] = videoAir[i + 1]
           /\ current' = aesSeq
           /\ slots' = IF slots[current] # NoKey /\ current # aesSeq
                       THEN [slots EXCEPT ![current] = NoKey] ELSE slots
           /\ played' = IF slots'[aesSeq] = NoKey THEN C!Ignored
                        ELSE [type |-> "played", key |-> slots'[aesSeq],
                              encryptedWith |-> aesKey]
<1>1. /\ 1 \in DOMAIN videoAir
      /\ C!OnVideo(videoAir[1])
      /\ videoAir' = RemoveAt(videoAir, 1)
      /\ UNCHANGED <<broadcasterVars, listening, keyAir, losses>>
  BY DEF OnVideoDatagram, Arriving, Orderly
<1>2. videoAir # <<>>
  BY <1>1
<1>3. /\ DOMAIN videoAir = 1 .. Len(videoAir) /\ Len(videoAir) \in Nat
      /\ DOMAIN videoAir' = 1 .. Len(videoAir) - 1
      /\ \A i \in 1 .. Len(videoAir) - 1 : videoAir'[i] = videoAir[i + 1]
  <2> DEFINE Videos == [type : {"video"}, id : KeyIds, key : AesKeys]
  <2>1. videoAir \in Seq(Videos)
    BY DEF EndsInv, AirOK
  <2> HIDE DEF Videos
  <2>2. QED
    BY <1>1, <1>2, <2>1, FirstTaken
<1>4. videoAir[1].id = aesSeq /\ videoAir[1].key = aesKey
  BY <1>1 DEF VideoInUse
<1>5. UNCHANGED <<keyId, streams, unlinking, overlapped>>
  BY <1>1 DEF C!OnVideo, C!fileVars
<1>6. /\ current' = aesSeq
      /\ slots' = IF slots[current] # NoKey /\ current # aesSeq
                  THEN [slots EXCEPT ![current] = NoKey] ELSE slots
      /\ played' = IF slots'[aesSeq] = NoKey THEN C!Ignored
                   ELSE [type |-> "played", key |-> slots'[aesSeq],
                         encryptedWith |-> aesKey]
  BY <1>1, <1>4 DEF C!OnVideo, C!SlotsAfterVideo
<1>7. QED
  BY <1>1, <1>2, <1>3, <1>5, <1>6

LEMMA VideoDatagramKeepsLink ==
    ASSUME Orderly, EndsInv, Link, OnVideoDatagram
    PROVE  Link'
<1> USE DEF EndsInv, Link
<1>1. aesSeq \in KeyIds
  BY KeysInv
<1>2. UNCHANGED <<broadcasterVars, listening, keyAir, losses>>
  BY VideoDatagramIs
<1>3. UNCHANGED <<phase, keysList, aesKey, aesSeq, sinceChange>>
  BY <1>2 DEF broadcasterVars
<1>4. videoAir # <<>>
  BY VideoDatagramIs
<1>5. /\ DOMAIN videoAir = 1 .. Len(videoAir) /\ Len(videoAir) \in Nat
      /\ DOMAIN videoAir' = 1 .. Len(videoAir) - 1
      /\ \A i \in 1 .. Len(videoAir) - 1 : videoAir'[i] = videoAir[i + 1]
  BY VideoDatagramIs
<1>6. current' = aesSeq
  BY VideoDatagramIs
<1>7. UNCHANGED <<keyId, streams, unlinking, overlapped>>
  BY VideoDatagramIs
<1>8. /\ slots \in [KeyIds -> AesKeys \cup {NoKey}] /\ current \in KeyIds
      /\ NoKey \notin AesKeys
  BY ViewerInv, KeysInv
<1>9. /\ slots' = IF slots[current] # NoKey /\ current # aesSeq
                  THEN [slots EXCEPT ![current] = NoKey] ELSE slots
      /\ played' = IF slots'[aesSeq] = NoKey THEN C!Ignored
                   ELSE [type |-> "played", key |-> slots'[aesSeq],
                         encryptedWith |-> aesKey]
  BY VideoDatagramIs
<1>10. \A id \in KeyIds : slots'[id] \in {slots[id], NoKey}
  BY <1>8, <1>9
<1>11. ASSUME NEW id \in KeyIds, slots'[id] # NoKey
       PROVE  slots'[id] = slots[id] /\ Current(id, slots[id])
  <2>1. slots'[id] = slots[id]
    BY <1>10, <1>11
  <2>2. ~AboutToBeEmptied(id)
    BY <1>8, <1>9, <1>11, <2>1 DEF AboutToBeEmptied
  <2>3. QED
    BY <1>11, <2>1, <2>2 DEF SlotsRight
<1>12. VideoInUse'
  <2>1. \A i \in 1 .. Len(videoAir) - 1 : i + 1 \in DOMAIN videoAir
    BY <1>5
  <2>2. QED
    BY <1>3, <1>5, <2>1 DEF VideoInUse
<1>13. DueIsQuiet'
  BY <1>3, <1>4 DEF DueIsQuiet
<1>14. KeyAirPairs'
  BY <1>2, <1>3, <1>7 DEF KeyAirPairs, Current, C!DiskIdle
<1>15. StreamPairs'
  BY <1>3, <1>7 DEF StreamPairs, Current
<1>16. SlotsRight'
  BY <1>3, <1>11 DEF SlotsRight, Current
<1>17. PointerFollows'
  BY <1>3, <1>6 DEF PointerFollows
<1>18. NotJoined'
  BY <1>2, <1>4 DEF NotJoined
<1>19. RightKey'
  <2>1. SUFFICES ASSUME slots'[aesSeq] # NoKey
                 PROVE  slots'[aesSeq] = aesKey
    BY <1>9 DEF RightKey, C!Ignored
  <2>2. Current(aesSeq, slots'[aesSeq])
    BY <1>1, <1>11, <2>1
  <2>3. QED
    BY <2>2, KeysInv, NextIdOther DEF Current
<1>20. QED
  BY <1>2, <1>7, <1>12, <1>13, <1>14, <1>15, <1>16, <1>17, <1>18, <1>19

\* What a disk step does to the write stream and the ring: it never leaves a
\* stream that was not there.
LEMMA DiskStepIs ==
    ASSUME CP!IInv, ~overlapped, C!DiskStep
    PROVE  /\ ~C!DiskIdle
           /\ UNCHANGED <<current, played, overlapped>>
           /\ \A i \in DOMAIN streams' :
                 /\ i = 1 /\ 1 \in DOMAIN streams
                 /\ streams'[i].for = streams[1].for
                 /\ streams'[i].data = streams[1].data
           /\ streams = <<>> => streams' = <<>> /\ UNCHANGED slots
<1>1. \/ streams = <<>>
      \/ /\ Len(streams) = 1 /\ DOMAIN streams = {1} /\ ~unlinking
  BY ViewerInv
<1>2. streams \in Seq(CP!StreamStates)
  BY ViewerInv
<1>3. CASE C!KeyFileUnlinked
  <2>1. /\ streams = <<>> /\ unlinking
        /\ UNCHANGED <<streams, slots, current, played, overlapped>>
    BY <1>1, <1>3 DEF C!KeyFileUnlinked
  <2>2. QED
    BY <2>1 DEF C!DiskIdle
<1>4. CASE ~C!KeyFileUnlinked
  <2>1. PICK i \in DOMAIN streams :
            C!StreamOpened(i) \/ C!StreamWritten(i) \/ C!StreamFinished(i)
    BY <1>4 DEF C!DiskStep
  <2>2. /\ i = 1 /\ Len(streams) = 1 /\ DOMAIN streams = {1} /\ streams # <<>>
        /\ streams[1] \in CP!StreamStates
    BY <1>1, <1>2, <2>1
  <2>3. UNCHANGED <<current, played, overlapped>>
    BY <2>1 DEF C!StreamOpened, C!StreamWritten, C!StreamFinished
  <2>4. CASE C!StreamOpened(i)
    BY <1>2, <2>2, <2>3, <2>4 DEF C!StreamOpened, C!DiskIdle, CP!StreamStates
  <2>5. CASE C!StreamWritten(i)
    BY <1>2, <2>2, <2>3, <2>5 DEF C!StreamWritten, C!DiskIdle, CP!StreamStates
  <2>6. CASE C!StreamFinished(i)
    <3>1. Len(RemoveAt(streams, 1)) = 0
      BY <1>2, <2>2, RemoveAtIs
    <3>2. streams' \in {RemoveAt(streams, 1), C!Unlinked(RemoveAt(streams, 1))}
      <4>1. streams' \in {C!RemoveAt(streams, i), C!Unlinked(C!RemoveAt(streams, i))}
        BY <2>6 DEF C!StreamFinished
      <4>2. C!RemoveAt(streams, i) = RemoveAt(streams, i)
        BY DEF C!RemoveAt, RemoveAt
      <4>3. QED
        BY <2>2, <4>1, <4>2
    <3>3. RemoveAt(streams, 1) \in Seq(CP!StreamStates)
      BY <1>2, <2>2, RemoveAtIs
    <3>4. DOMAIN RemoveAt(streams, 1) = {}
      BY <3>1, <3>3
    <3>5. DOMAIN streams' = {}
      BY <3>2, <3>4 DEF C!Unlinked
    <3>6. QED
      BY <2>2, <2>3, <3>5 DEF C!DiskIdle
  <2>7. QED
    BY <2>1, <2>4, <2>5, <2>6
<1>5. QED
  BY <1>3, <1>4

LEMMA DiskStepKeepsLink ==
    ASSUME Orderly, EndsInv, Link, DiskStep
    PROVE  Link'
<1> USE DEF EndsInv, Link
<1>1. /\ ~C!DiskIdle
      /\ UNCHANGED <<current, played, overlapped>>
      /\ \A i \in DOMAIN streams' :
            /\ i = 1 /\ 1 \in DOMAIN streams
            /\ streams'[i].for = streams[1].for
            /\ streams'[i].data = streams[1].data
      /\ streams = <<>> => streams' = <<>> /\ UNCHANGED slots
  BY DiskStepIs DEF DiskStep
<1>2. /\ UNCHANGED <<phase, keysList, aesKey, aesSeq, sinceChange>>
      /\ UNCHANGED <<listening, keyAir, videoAir, losses>>
  BY DEF DiskStep, broadcasterVars, air
<1>3. \A id \in KeyIds :
          slots'[id] \notin {slots[id], NoKey} =>
              \E i \in DOMAIN streams :
                  streams[i].for = id /\ streams[i].data.key = slots'[id]
  BY ClientKeeps DEF DiskStep, C!Next
<1>4. VideoInUse'
  BY <1>2 DEF VideoInUse
<1>5. DueIsQuiet'
  BY <1>1, <1>2 DEF DueIsQuiet, Busy
\* No cipher is next: there was none when the stream began.
<1>6. KeyAirPairs'
  BY <1>1, <1>2 DEF KeyAirPairs, Current
<1>7. StreamPairs'
  BY <1>1, <1>2 DEF StreamPairs, Current
<1>8. SlotsRight'
  <2>1. SUFFICES ASSUME NEW id \in KeyIds, slots'[id] # NoKey
                 PROVE  (Current(id, slots[id]) \/ AboutToBeEmptied(id))'
    BY DEF SlotsRight
  <2>2. CASE slots'[id] = slots[id]
    BY <1>1, <1>2, <2>1, <2>2 DEF SlotsRight, Current, AboutToBeEmptied
  <2>3. CASE slots'[id] # slots[id]
    <3>1. Current(id, slots'[id])
      BY <1>3, <2>1, <2>3 DEF StreamPairs
    <3>2. QED
      BY <1>2, <3>1 DEF Current
  <2>4. QED
    BY <2>2, <2>3
<1>9. Untouched => Untouched'
  BY <1>1, <1>2 DEF Untouched
<1>10. PointerFollows'
  BY <1>1, <1>2, <1>9 DEF PointerFollows
<1>11. NotJoined'
  BY <1>2, <1>9 DEF NotJoined
<1>12. QED
  BY <1>1, <1>2, <1>4, <1>5, <1>6, <1>7, <1>8, <1>10, <1>11 DEF RightKey

\* Joining, and steps that change nothing.
LEMMA OthersKeepLink ==
    ASSUME Link, Join \/ UNCHANGED vars
    PROVE  Link'
<1>1. UNCHANGED <<broadcasterVars, clientVars, air>> /\ listening' \in {TRUE, listening}
  BY DEF Join, vars
<1>2. /\ UNCHANGED <<phase, keysList, aesKey, aesSeq, sinceChange>>
      /\ UNCHANGED <<slots, current, keyId, streams, unlinking, played, overlapped>>
      /\ UNCHANGED <<keyAir, videoAir, losses>>
  BY <1>1 DEF broadcasterVars, clientVars, air
<1>3. KeyAirPairs' /\ StreamPairs' /\ SlotsRight'
  BY <1>2 DEF Link, KeyAirPairs, StreamPairs, SlotsRight, Current, AboutToBeEmptied,
              C!DiskIdle
<1>4. VideoInUse' /\ DueIsQuiet' /\ PointerFollows' /\ NotJoined' /\ RightKey'
  BY <1>1, <1>2 DEF Link, VideoInUse, DueIsQuiet, Busy, C!DiskIdle, PointerFollows,
                    NotJoined, Untouched, RightKey
<1>5. QED
  BY <1>2, <1>3, <1>4 DEF Link

LEMMA NextLink == Orderly /\ EndsInv /\ Link /\ [Next]_vars => Link'
<1> SUFFICES ASSUME Orderly, EndsInv, Link, [Next]_vars PROVE Link'
  OBVIOUS
<1>1. CASE Send
  BY <1>1, SendKeepsLink
<1>2. CASE ChangeKey
  BY <1>2, ChangeKeyKeepsLink
<1>3. CASE OnKeyDatagram
  BY <1>3, KeyDatagramKeepsLink
<1>4. CASE OnVideoDatagram
  BY <1>4, VideoDatagramKeepsLink
<1>5. CASE DiskStep
  BY <1>5, DiskStepKeepsLink
<1>6. CASE Join \/ UNCHANGED vars
  BY <1>6, OthersKeepLink
<1>7. ~BroadcasterRestart
  BY DEF Orderly, BroadcasterRestart
<1>8. ~Lose
  <2>1. Lose => losses < MaxLosses
    BY DEF Lose
  <2>2. losses = 0 /\ MaxLosses = 0
    BY DEF Orderly, Link
  <2>3. QED
    BY <2>1, <2>2
<1>9. QED
  BY <1>1, <1>2, <1>3, <1>4, <1>5, <1>6, <1>7, <1>8 DEF Next, OnVideoMessage, Send

LEMMA LinkInductive == ASSUME Orderly PROVE Spec => [](EndsInv /\ Link)
<1>1. Init => EndsInv /\ Link
  BY InitEnds, InitLink
<1>2. EndsInv /\ Link /\ [Next]_vars => (EndsInv /\ Link)'
  BY NextEnds, NextLink
<1>3. QED
  BY <1>1, <1>2, PTL DEF Spec

\* In an orderly run the viewer decrypts a packet (receivePacket.js) only under
\* the key it was encrypted with (broad.js), whoever joins when and whatever the
\* revocation servers answer.
THEOREM DecryptsWithTheRightKey == ASSUME Orderly PROVE Spec => []RightKey
<1>1. Link => RightKey
  BY DEF Link
<1>2. QED
  BY <1>1, LinkInductive, PTL

\* And a key of the broadcaster's stands in the viewer's ring under its own id
\* or not at all.
THEOREM KeysUnderTheirIds == ASSUME Orderly PROVE Spec => []SavedUnderItsId
<1>1. EndsInv /\ Link => SavedUnderItsId
  <2>1. SUFFICES ASSUME EndsInv, Link, NEW id \in KeyIds
                 PROVE  /\ slots[id] = keysList.key => id = keysList.id
                        /\ slots[id] = aesKey => id = aesSeq
    BY DEF SavedUnderItsId
  <2>2. /\ keysList.key # NoKey /\ aesKey # NoKey
        /\ \/ keysList.id = aesSeq /\ keysList.key = aesKey
           \/ keysList.key # aesKey
    BY <2>1, KeysInv DEF EndsInv
  <2>3. slots[id] # NoKey => Current(id, slots[id]) \/ AboutToBeEmptied(id)
    BY <2>1 DEF Link, SlotsRight
  <2>4. QED
    BY <2>2, <2>3 DEF Current, AboutToBeEmptied
<1>2. QED
  BY <1>1, LinkInductive, PTL

\* And its event loop never searches the ring for an id that is not there.
THEOREM LoopAlwaysEnds == ASSUME Orderly PROVE Spec => []NeverHung
<1>1. EndsInv /\ Link => NeverHung
  BY DEF EndsInv, Link, CP!IInv, CP!HungOnlyIfOverlapped, NeverHung
<1>2. QED
  BY <1>1, LinkInductive, PTL

-----------------------------------------------------------------------------
(***************************************************************************)
(* A viewer that is there from the start and in no revocation string, with *)
(* a ring of at least three nodes.                                         *)
(***************************************************************************)
Present ==
    /\ Orderly
    /\ "late join" \notin Faults
    /\ NUM_OF_AES_KEYS >= 3
    /\ \A s \in InitialFiles \cup ServerReplies :
          s \in Seq(UserIds) => UserId \notin ToSet(s)

\* No revocation string at the broadcaster lists the viewer.
FilesClear ==
    /\ \A p \in B!Providers :
          revokeFile[p] \in Seq(UserIds) => UserId \notin ToSet(revokeFile[p])
    /\ \A i \in DOMAIN fetches :
          fetches[i].stage = "opened" /\ fetches[i].data \in Seq(UserIds) =>
              UserId \notin ToSet(fetches[i].data)

\* Nor does a cipher under way or in a write stream.
CiphersClear ==
    /\ \A i \in DOMAIN keyAir :
          keyAir[i].type = "cipher" => UserId \notin ToSet(keyAir[i].revoked)
    /\ \A i \in DOMAIN streams : UserId \notin ToSet(streams[i].data.revoked)

\* Before the broadcaster plays nothing has reached the viewer.
NothingYet ==
    phase # "playing" =>
        /\ Untouched /\ videoAir = <<>> /\ keysList.id = aesSeq
        /\ played.type # "played"

\* The pointer is at the key in use or at the one before it.
PointerNear == current = aesSeq \/ NextId(current) = aesSeq

\* A key that has a write stream is not in the ring yet.
StreamForEmpty == \A i \in DOMAIN streams : slots[streams[i].for] = NoKey

\* The key in use will be stored before any other.
InUseComing ==
    \/ \E i \in DOMAIN streams : streams[i].data.key = aesKey
    \/ /\ streams = <<>>
       /\ \E j \in DOMAIN keyAir :
             /\ keyAir[j].type = "cipher" /\ keyAir[j].key = aesKey
             /\ \A i \in 1 .. j - 1 :
                   keyAir[i].type = "cipher" => keyAir[i].key = aesKey

NewestComing ==
    \/ \E i \in DOMAIN streams : streams[i].data.key = keysList.key
    \/ \E i \in DOMAIN keyAir :
          keyAir[i].type = "cipher" /\ keyAir[i].key = keysList.key

\* The viewer has the key in use or will store it next; it has no newer one before.
InUseReaches ==
    phase = "playing" =>
        \/ slots[aesSeq] = aesKey
        \/ /\ InUseComing
           /\ keysList.id # aesSeq => slots[keysList.id] = NoKey

\* And it has the newest or will have it.
NewestReaches ==
    keysList.id # aesSeq => slots[keysList.id] = keysList.key \/ NewestComing

\* What has been played was played with the node that is used now, filled.
StillPlays == played.type = "played" => slots[aesSeq] = aesKey

Kept ==
    /\ listening
    /\ FilesClear /\ CiphersClear /\ NothingYet /\ PointerNear /\ StreamForEmpty
    /\ InUseReaches /\ NewestReaches /\ StillPlays

\* The node after next is not the node itself, on a ring of three or more.
LEMMA NextNextOther ==
    NUM_OF_AES_KEYS >= 3 => \A id \in KeyIds : NextId(NextId(id)) # id
BY RingAssumption DEF KeyIds, NextId

\* A rewritten string lists what the new one lists and what is left of the old.
LEMMA OverwriteClear ==
    ASSUME NEW s \in Seq(UserIds), NEW t \in Seq(UserIds),
           UserId \notin ToSet(s), UserId \notin ToSet(t)
    PROVE  UserId \notin ToSet(s \o SubSeq(t, Len(s) + 1, Len(t)))
<1> DEFINE rest == SubSeq(t, Len(s) + 1, Len(t))
<1>1. Len(s) \in Nat
  OBVIOUS
<1>2. /\ rest \in Seq(UserIds)
      /\ \A i \in DOMAIN rest : \E j \in DOMAIN t : rest[i] = t[j]
  BY <1>1, RestElements
<1> HIDE DEF rest
<1>3. UserId \notin ToSet(rest)
  BY <1>2 DEF ToSet
<1>4. \A i \in DOMAIN (s \o rest) :
          \/ i \in DOMAIN s /\ (s \o rest)[i] = s[i]
          \/ \E j \in DOMAIN rest : (s \o rest)[i] = rest[j]
  BY <1>2, ConcatElements
<1>5. UserId \notin ToSet(s \o rest)
  BY <1>3, <1>4 DEF ToSet
<1>6. QED
  BY <1>5 DEF rest

\* The revocation files and requests of a step of the broadcaster.
LEMMA FilesStayClear ==
    ASSUME Present, BP!IInv, FilesClear, Send \/ ChangeKey
    PROVE  FilesClear'
<1>1. /\ revokeFile \in [B!Providers -> Seq(UserIds) \cup {ErrorPage, NoFile}]
      /\ fetches \in Seq(BP!FetchStates)
      /\ NumProviders \in B!Providers
  <2>1. NumProviders \in Nat /\ NumProviders >= 1
    BY Assumptions DEF BP!BroadcasterAssumption
  <2>2. QED
    BY <2>1 DEF BP!IInv, BP!TypeOK, BP!RevokeContents, BP!RevokeStrings, BP!Providers,
                B!Providers
<1>2. ErrorPage \notin Seq(UserIds) /\ NoFile \notin Seq(UserIds)
  BY Assumptions DEF BP!BroadcasterAssumption, BP!RevokeContents, BP!RevokeStrings
<1>3. CASE Tick \/ OnBound \/ ResendKey \/ OnlyVideo
  <2>1. UNCHANGED <<revokeFile, fetches>>
    BY <1>3 DEF Tick, B!Tick, OnBound, B!OnBound, ResendKey, B!ResendKey, OnlyVideo,
                B!OnlyVideo
  <2>2. QED
    BY <2>1 DEF FilesClear
<1>4. CASE ChangeKey
  <2>1. revokeFile' = revokeFile /\ fetches' = fetches \o B!Requests
    BY <1>4 DEF ChangeKey, B!ChangeKey
  <2>2. /\ B!Requests \in Seq(BP!FetchStates)
        /\ \A i \in DOMAIN B!Requests : B!Requests[i].stage = "requested"
    <3>1. NumProviders \in Nat
      BY <1>1 DEF B!Providers
    <3>2. CASE FULL_ENCRYPTION = 1
      <4>1. B!Requests = [p \in 1 .. NumProviders |-> [stage |-> "requested", from |-> p]]
        BY <3>2 DEF B!Requests, B!Providers
      <4>2. \A p \in 1 .. NumProviders :
                [stage |-> "requested", from |-> p] \in BP!FetchStates
        BY DEF BP!FetchStates, BP!Providers
      <4>3. QED
        BY <3>1, <4>1, <4>2
    <3>3. CASE FULL_ENCRYPTION # 1
      <4>1. B!Requests = <<>>
        BY <3>3 DEF B!Requests
      <4>2. QED
        BY <4>1, SmallSeqs
    <3>4. QED
      BY <3>2, <3>3
  <2>3. ASSUME NEW i \in DOMAIN fetches'
        PROVE  fetches'[i].stage = "requested" \/
               (i \in DOMAIN fetches /\ fetches'[i] = fetches[i])
    BY <1>1, <2>1, <2>2, <2>3, ConcatElements
  <2>4. QED
    BY <2>1, <2>3 DEF FilesClear
<1>5. CASE OnRevokeReply
  <2>1. PICK i \in DOMAIN fetches :
            B!OnRevokeData(i) \/ B!OnRevokeWritten(i) \/ B!OnRevokeError(i)
    BY <1>5 DEF OnRevokeReply
  <2>2. B!RemoveAt(fetches, i) = RemoveAt(fetches, i)
    BY DEF B!RemoveAt, RemoveAt
  <2>3. \A j \in DOMAIN RemoveAt(fetches, i) :
            \E k \in DOMAIN fetches : RemoveAt(fetches, i)[j] = fetches[k]
    BY <1>1, RemoveAtElements
  <2>4. CASE B!OnRevokeData(i)
    <3>1. PICK d \in ServerReplies :
              fetches' = [fetches EXCEPT ![i] =
                            [stage |-> "opened", from |-> fetches[i].from, data |-> d]]
      BY <2>4 DEF B!OnRevokeData
    <3>2. revokeFile' = [revokeFile EXCEPT ![NumProviders] = <<>>]
      BY <2>4 DEF B!OnRevokeData, B!Company
    <3>3. UserId \notin ToSet(<<>>)
      BY DEF ToSet
    <3>4. d \in Seq(UserIds) => UserId \notin ToSet(d)
      BY DEF Present
    <3>5. \A p \in B!Providers :
              revokeFile'[p] \in Seq(UserIds) => UserId \notin ToSet(revokeFile'[p])
      BY <1>1, <3>2, <3>3 DEF FilesClear
    <3>6. ASSUME NEW j \in DOMAIN fetches', fetches'[j].stage = "opened",
                 fetches'[j].data \in Seq(UserIds)
          PROVE  UserId \notin ToSet(fetches'[j].data)
      <4>1. CASE j = i
        BY <1>1, <3>1, <3>4, <3>6, <4>1
      <4>2. CASE j # i
        BY <1>1, <3>1, <3>6, <4>2 DEF FilesClear
      <4>3. QED
        BY <4>1, <4>2
    <3>7. QED
      BY <3>5, <3>6 DEF FilesClear
  <2>5. CASE B!OnRevokeWritten(i)
    <3> DEFINE old == revokeFile[NumProviders]
               new == fetches[i].data
    <3>1. /\ fetches[i].stage = "opened"
          /\ revokeFile' = [revokeFile EXCEPT ![NumProviders] = B!Overwrite(old, new)]
          /\ fetches' = RemoveAt(fetches, i)
      BY <2>2, <2>5 DEF B!OnRevokeWritten, B!Company
    <3>2. old \in Seq(UserIds) \cup {ErrorPage}
      BY <1>1, <3>1 DEF BP!IInv, BP!OpenedExists, BP!Company
    <3>3. new \in Seq(UserIds) \cup {ErrorPage}
      <4>1. new \in ServerReplies
        BY <1>1, <3>1 DEF BP!FetchStates
      <4>2. QED
        BY <4>1, Assumptions
        DEF BP!BroadcasterAssumption, BP!RevokeContents, BP!RevokeStrings
    <3>4. /\ old \in Seq(UserIds) => UserId \notin ToSet(old)
          /\ new \in Seq(UserIds) => UserId \notin ToSet(new)
      BY <1>1, <3>1 DEF FilesClear
    <3> HIDE DEF old, new
    <3>5. B!Overwrite(old, new) \in Seq(UserIds) =>
              UserId \notin ToSet(B!Overwrite(old, new))
      <4>1. CASE ErrorPage \in {old, new}
        BY <1>2, <3>3, <3>4, <4>1 DEF B!Overwrite
      <4>2. CASE ErrorPage \notin {old, new}
        <5>1. B!Overwrite(old, new) = new \o SubSeq(old, Len(new) + 1, Len(old))
          BY <4>2 DEF B!Overwrite
        <5>2. QED
          BY <3>2, <3>3, <3>4, <4>2, <5>1, OverwriteClear
      <4>3. QED
        BY <4>1, <4>2
    <3>6. \A p \in B!Providers :
              revokeFile'[p] \in Seq(UserIds) => UserId \notin ToSet(revokeFile'[p])
      BY <1>1, <3>1, <3>5 DEF FilesClear
    <3>7. QED
      BY <2>3, <3>1, <3>6 DEF FilesClear
  <2>6. CASE B!OnRevokeError(i)
    <3>1. fetches' = RemoveAt(fetches, i) /\ revokeFile' = revokeFile
      BY <2>2, <2>6 DEF B!OnRevokeError
    <3>2. QED
      BY <2>3, <3>1 DEF FilesClear
  <2>7. QED
    BY <2>1, <2>4, <2>5, <2>6
<1>6. QED
  BY <1>3, <1>4, <1>5 DEF Send

LEMMA InitKept == Present /\ Init => Kept
<1> SUFFICES ASSUME Present, Init PROVE Kept
  OBVIOUS
<1>1. /\ listening /\ phase = "binding" /\ fetches = <<>>
      /\ revokeFile \in [B!Providers -> InitialFiles]
      /\ keyAir = <<>> /\ videoAir = <<>> /\ streams = <<>>
      /\ slots = createKeysList /\ keysList.id = aesSeq
      /\ current = 0 /\ aesSeq = 0
      /\ played = [type |-> "nothing"]
  <2>1. listening
    BY DEF Present, Init
  <2>2. /\ phase = "binding" /\ fetches = <<>>
        /\ revokeFile \in [B!Providers -> InitialFiles]
        /\ keysList.id = 0 /\ aesSeq = 0
    <3>1. PICK k \in AesKeys : keysList = [id |-> 0, key |-> k]
      BY DEF Init, B!Init
    <3>2. /\ phase = "binding" /\ fetches = <<>> /\ aesSeq = keysList.id
          /\ revokeFile \in [B!Providers -> InitialFiles]
      BY DEF Init, B!Init
    <3>3. QED
      BY <3>1, <3>2
  <2>3. /\ keyAir = <<>> /\ videoAir = <<>> /\ streams = <<>>
        /\ slots = createKeysList /\ current = 0
        /\ played = [type |-> "nothing"]
    BY DEF Init, C!InitWith, C!Nothing, C!createKeysList, createKeysList, C!KeyIds,
           KeyIds
  <2>4. QED
    BY <2>1, <2>2, <2>3
<1>2. DOMAIN fetches = {} /\ DOMAIN keyAir = {} /\ DOMAIN streams = {}
  BY <1>1
<1>3. FilesClear
  BY <1>1, <1>2 DEF Present, FilesClear
<1>4. CiphersClear /\ StreamForEmpty
  BY <1>2 DEF CiphersClear, StreamForEmpty
<1>5. QED
  BY <1>1, <1>3, <1>4
  DEF Kept, NothingYet, Untouched, PointerNear, InUseReaches, NewestReaches, StillPlays

\* What cpabe-enc is given for the viewer's provider does not list the viewer.
LEMMA RevokedClear ==
    ASSUME FilesClear
    PROVE  B!Revoked(USER_SERVER) \in Seq(UserIds) =>
               UserId \notin ToSet(B!Revoked(USER_SERVER))
<1>1. USER_SERVER \in B!Providers
  BY DistributionAssumption DEF DistributionAssumption, B!Providers
<1>2. UserId \notin ToSet(<<>>)
  BY DEF ToSet
<1>3. QED
  BY <1>1, <1>2 DEF FilesClear, B!Revoked

\* The pointer is never at the node after the one in use; so the node of the
\* newest key, when it has one, has that key.
LEMMA NewestUntouched ==
    ASSUME Present, EndsInv, Link, Kept
    PROVE  /\ current # NextId(aesSeq)
           /\ slots[aesSeq] # NoKey => slots[aesSeq] = aesKey
           /\ slots[NextId(aesSeq)] # NoKey =>
                 keysList.id = NextId(aesSeq) /\ slots[NextId(aesSeq)] = keysList.key
           /\ NextId(NextId(aesSeq)) # aesSeq
<1> USE DEF EndsInv, Link, Kept
<1>1. /\ aesSeq \in KeyIds /\ current \in KeyIds
      /\ NextId(aesSeq) \in KeyIds /\ NextId(aesSeq) # aesSeq
      /\ \/ keysList.id = aesSeq /\ keysList.key = aesKey
         \/ keysList.id = NextId(aesSeq)
  BY KeysInv, ViewerInv, NextIdOther
<1>2. NextId(NextId(aesSeq)) # aesSeq
  BY <1>1, NextNextOther DEF Present
<1>3. current # NextId(aesSeq)
  BY <1>1, <1>2 DEF PointerNear
<1>4. /\ ~AboutToBeEmptied(aesSeq)
      /\ ~AboutToBeEmptied(NextId(aesSeq))
  BY <1>3 DEF AboutToBeEmptied
<1>5. QED
  BY <1>1, <1>2, <1>3, <1>4 DEF SlotsRight, Current

\* A step of the broadcaster that draws no new key.
LEMMA SendKeepsKept ==
    ASSUME Present, EndsInv, Link, Kept, Send
    PROVE  Kept'
<1> DEFINE key == outbox'.key[USER_SERVER]
           video == outbox'.video[USER_SERVER]
<1> USE DEF EndsInv, Link, Kept
<1>1. aesSeq \in KeyIds /\ aesKey \in AesKeys /\ Orderly /\ listening
  BY KeysInv DEF Present
<1>2. /\ UNCHANGED <<keysList, aesKey, aesSeq>>
      /\ key # <<>> => video # <<>> \/ (phase = "binding" /\ phase' = "playing")
      /\ key # <<>> => B!Revoked(USER_SERVER) \in Seq(UserIds)
      /\ video # <<>> => phase = "playing"
      /\ \/ phase' = phase
         \/ phase = "binding" /\ phase' = "failed"
         \/ phase = "binding" /\ phase' = "playing" /\ key # <<>>
  BY <1>1, SendIs DEF Orderly
<1>3. /\ UNCHANGED <<clientVars, listening>>
      /\ \/ keyAir' = keyAir /\ key = <<>>
         \/ /\ key # <<>>
            /\ DOMAIN keyAir' = 1 .. Len(keyAir) + 2
            /\ \A i \in 1 .. Len(keyAir) : keyAir'[i] = keyAir[i]
            /\ keyAir'[Len(keyAir) + 1] = [type |-> "id", id |-> aesSeq]
            /\ keyAir'[Len(keyAir) + 2].type = "cipher"
            /\ keyAir'[Len(keyAir) + 2].key = aesKey
            /\ keyAir'[Len(keyAir) + 2].revoked = B!Revoked(USER_SERVER)
      /\ videoAir' # videoAir => video # <<>>
  BY <1>1, SendIs, TransmitIs
<1>4. UNCHANGED <<slots, current, streams, played>>
  BY <1>3 DEF clientVars
<1>5. Len(keyAir) \in Nat /\ DOMAIN keyAir = 1 .. Len(keyAir)
  BY DEF AirOK
<1> HIDE DEF key, video
<1>6. FilesClear'
  BY FilesStayClear
<1>7. CiphersClear'
  <2>1. \A i \in DOMAIN keyAir' :
            keyAir'[i].type = "cipher" => UserId \notin ToSet(keyAir'[i].revoked)
    <3>1. CASE keyAir' = keyAir
      BY <3>1 DEF CiphersClear
    <3>2. CASE keyAir' # keyAir
      BY <1>2, <1>3, <1>5, <3>2, RevokedClear DEF CiphersClear
    <3>3. QED
      BY <3>1, <3>2
  <2>2. QED
    BY <1>4, <2>1 DEF CiphersClear
<1>8. NothingYet'
  <2>1. phase' # "playing" => phase # "playing" /\ key = <<>> /\ video = <<>>
    BY <1>2
  <2>2. QED
    BY <1>2, <1>3, <1>4, <2>1 DEF NothingYet, Untouched
<1>9. PointerNear' /\ StreamForEmpty'
  BY <1>2, <1>4 DEF PointerNear, StreamForEmpty
<1>10. InUseReaches'
  <2>1. CASE phase = "playing" /\ InUseComing
    <3>1. InUseComing'
      BY <1>2, <1>3, <1>4, <1>5, <2>1 DEF InUseComing
    <3>2. QED
      BY <1>2, <1>4, <2>1, <3>1 DEF InUseReaches
  <2>2. CASE phase = "playing" /\ ~InUseComing
    BY <1>2, <1>4, <2>2 DEF InUseReaches
  <2>3. CASE phase # "playing" /\ phase' = "playing"
    <3>1. streams' = <<>> /\ keyAir = <<>> /\ keysList.id = aesSeq
      BY <1>4, <2>3 DEF NothingYet, Untouched
    <3>2. /\ Len(keyAir) = 0 /\ DOMAIN keyAir' = 1 .. 2
          /\ keyAir'[1].type = "id"
          /\ keyAir'[2].type = "cipher" /\ keyAir'[2].key = aesKey
      <4>1. Len(keyAir) = 0
        BY <3>1
      <4>2. key # <<>>
        BY <1>2, <2>3
      <4>3. QED
        BY <1>3, <4>1, <4>2
    <3>3. InUseComing'
      BY <1>2, <3>1, <3>2 DEF InUseComing
    <3>4. QED
      BY <1>2, <3>1, <3>3 DEF InUseReaches
  <2>4. QED
    BY <2>1, <2>2, <2>3 DEF InUseReaches
<1>11. NewestReaches'
  <2>1. NewestComing => NewestComing'
    BY <1>2, <1>3, <1>4, <1>5 DEF NewestComing
  <2>2. QED
    BY <1>2, <1>4, <2>1 DEF NewestReaches
<1>12. StillPlays'
  BY <1>2, <1>4 DEF StillPlays
<1>13. QED
  BY <1>1, <1>3, <1>6, <1>7, <1>8, <1>9, <1>10, <1>11, <1>12

\* A change of key finds the newest key in the ring, before it takes it into use.
LEMMA ChangeKeyKeepsKept ==
    ASSUME Present, EndsInv, Link, Kept, ChangeKey
    PROVE  Kept'
<1> DEFINE key == outbox'.key[USER_SERVER]
           next == NextId(keysList.id)
<1> USE DEF EndsInv, Link, Kept
<1>1. /\ aesSeq \in KeyIds /\ aesKey \in AesKeys
      /\ keysList.id \in KeyIds /\ keysList.key \in AesKeys
      /\ \/ keysList.id = aesSeq /\ keysList.key = aesKey
         \/ keysList.id = NextId(aesSeq) /\ keysList.id # aesSeq
      /\ next \in KeyIds /\ NoKey \notin AesKeys
      /\ Orderly /\ listening
  BY KeysInv, NextIdOther DEF Present
<1>2. /\ phase = "playing" /\ phase' = phase /\ sinceChange > CHANGE_KEY_INTERVAL
      /\ aesKey' = keysList.key /\ aesSeq' = keysList.id
      /\ FreshKey \in AesKeys \ KeysAbout
      /\ \/ keysList' = keysList /\ key = <<>>
         \/ keysList' = [id |-> next, key |-> FreshKey] /\ key # <<>>
      /\ key # <<>> => B!Revoked(USER_SERVER) \in Seq(UserIds)
  <2>1. Announcement(FreshKey, next) # <<>>
    BY DEF Announcement
  <2>2. QED
    BY <1>1, <2>1, ChangeKeyIs DEF Orderly
<1>3. /\ UNCHANGED <<clientVars, listening>>
      /\ \/ keyAir' = keyAir /\ key = <<>>
         \/ /\ key # <<>>
            /\ DOMAIN keyAir' = 1 .. Len(keyAir) + 2
            /\ \A i \in 1 .. Len(keyAir) : keyAir'[i] = keyAir[i]
            /\ keyAir'[Len(keyAir) + 1] = [type |-> "id", id |-> next]
            /\ keyAir'[Len(keyAir) + 2].type = "cipher"
            /\ keyAir'[Len(keyAir) + 2].key = FreshKey
            /\ keyAir'[Len(keyAir) + 2].revoked = B!Revoked(USER_SERVER)
  <2>1. /\ Transmit
        /\ key \in {<<>>, Announcement(FreshKey, next)}
        /\ outbox'.video[USER_SERVER] \in {<<>>, Packet(keysList.id, keysList.key)}
    BY ChangeKeyIs
  <2>2. QED
    BY <1>1, <1>2, <2>1, TransmitIs
<1>4. UNCHANGED <<slots, current, streams, played>>
  BY <1>3 DEF clientVars
<1>5. Len(keyAir) \in Nat /\ DOMAIN keyAir = 1 .. Len(keyAir)
  BY DEF AirOK
<1> HIDE DEF key, next
\* The viewer has the newest key when it is not the one in use.
<1>6. keysList.id # aesSeq =>
          slots[keysList.id] = keysList.key /\ current = aesSeq
  <2>1. SUFFICES ASSUME keysList.id # aesSeq
                 PROVE  slots[keysList.id] = keysList.key /\ current = aesSeq
    OBVIOUS
  <2>2. keyAir = <<>> /\ streams = <<>> /\ videoAir = <<>>
    BY <1>2, <2>1 DEF DueIsQuiet, Busy, C!DiskIdle
  <2>3. DOMAIN keyAir = {} /\ DOMAIN streams = {}
    BY <2>2
  <2>4. slots[keysList.id] = keysList.key
    BY <2>1, <2>3 DEF NewestReaches, NewestComing
  <2>5. ~Untouched
    BY <1>1, <2>4 DEF Untouched, createKeysList
  <2>6. QED
    BY <2>1, <2>2, <2>4, <2>5 DEF PointerFollows
<1>7. FilesClear'
  BY FilesStayClear
<1>8. CiphersClear'
  <2>1. \A i \in DOMAIN keyAir' :
            keyAir'[i].type = "cipher" => UserId \notin ToSet(keyAir'[i].revoked)
    <3>1. CASE keyAir' = keyAir
      BY <3>1 DEF CiphersClear
    <3>2. CASE keyAir' # keyAir
      BY <1>2, <1>3, <1>5, <3>2, RevokedClear DEF CiphersClear
    <3>3. QED
      BY <3>1, <3>2
  <2>2. QED
    BY <1>4, <2>1 DEF CiphersClear
<1>9. NothingYet'
  BY <1>2 DEF NothingYet
<1>10. PointerNear'
  BY <1>1, <1>2, <1>4, <1>6 DEF PointerNear
<1>11. StreamForEmpty'
  BY <1>4 DEF StreamForEmpty
<1>12. InUseReaches'
  <2>1. CASE keysList.id # aesSeq
    BY <1>2, <1>4, <1>6, <2>1 DEF InUseReaches
  <2>2. CASE keysList.id = aesSeq
    <3>1. aesSeq' = aesSeq /\ aesKey' = aesKey
      BY <1>1, <1>2, <2>2
    <3>2. next = NextId(aesSeq) /\ slots[next] = NoKey
      BY <1>1, <2>2, NewestUntouched DEF next
    <3>3. InUseComing => InUseComing'
      BY <1>3, <1>4, <1>5, <3>1 DEF InUseComing
    <3>4. keysList'.id # aesSeq' => slots'[keysList'.id] = NoKey
      BY <1>2, <1>4, <3>1, <3>2, <2>2
    <3>5. QED
      BY <1>2, <1>4, <3>1, <3>3, <3>4 DEF InUseReaches
  <2>3. QED
    BY <2>1, <2>2
<1>13. NewestReaches'
  <2>1. CASE keysList' = keysList
    BY <1>2, <2>1 DEF NewestReaches
  <2>2. CASE keysList' # keysList
    BY <1>2, <1>3, <1>5, <2>2 DEF NewestReaches, NewestComing
  <2>3. QED
    BY <2>1, <2>2
<1>14. StillPlays'
  BY <1>1, <1>2, <1>4, <1>6 DEF StillPlays
<1>15. QED
  BY <1>1, <1>3, <1>7, <1>8, <1>9, <1>10, <1>11, <1>12, <1>13, <1>14

\* A key datagram: a cipher that is ignored brings what the ring already has.
LEMMA KeyDatagramKeepsKept ==
    ASSUME Present, EndsInv, Link, Kept, OnKeyDatagram
    PROVE  Kept'
<1> USE DEF EndsInv, Link, Kept
<1>1. /\ Orderly
      /\ aesSeq \in KeyIds /\ keyId \in KeyIds \cup {-1} /\ NoKey \notin AesKeys
      /\ \/ keysList.id = aesSeq /\ keysList.key = aesKey
         \/ keysList.id = NextId(aesSeq) /\ keysList.id # aesSeq /\ keysList.key # aesKey
      /\ keysList.id \in KeyIds
      /\ -1 \notin KeyIds
  <2>1. -1 \notin KeyIds
    BY RingAssumption DEF KeyIds
  <2>2. QED
    BY <2>1, KeysInv, NextIdOther, ViewerInv DEF Present
<1>2. /\ UNCHANGED <<broadcasterVars, listening, videoAir>>
      /\ UNCHANGED <<slots, current, played>>
      /\ keyAir # <<>> /\ streams = <<>>
  BY <1>1, KeyDatagramIs
<1>3. UNCHANGED <<phase, keysList, aesKey, aesSeq, revokeFile, fetches>>
  BY <1>2 DEF broadcasterVars
<1>4. /\ Len(keyAir) \in Nat /\ Len(keyAir) >= 1 /\ DOMAIN keyAir = 1 .. Len(keyAir)
      /\ DOMAIN keyAir' = 1 .. Len(keyAir) - 1
      /\ \A i \in 1 .. Len(keyAir) - 1 : keyAir'[i] = keyAir[i + 1]
  BY <1>1, KeyDatagramIs
<1>5. \/ /\ keyAir[1].type = "id" /\ streams' = <<>>
      \/ /\ keyAir[1].type = "cipher"
         /\ \/ streams' = <<>> /\ (keyId \in KeyIds => slots[keyId] # NoKey)
            \/ /\ DOMAIN streams' = {1}
               /\ streams'[1].for = keyId /\ streams'[1].data = keyAir[1]
               /\ slots[keyId] = NoKey
  BY <1>1, KeyDatagramIs
<1>6. keyAir[1].type = "cipher" => Current(keyId, keyAir[1].key)
  BY <1>4 DEF KeyAirPairs
<1>7. /\ slots[aesSeq] # NoKey => slots[aesSeq] = aesKey
      /\ keysList.id # aesSeq /\ slots[keysList.id] # NoKey =>
            slots[keysList.id] = keysList.key
  BY <1>1, NewestUntouched
<1>8. FilesClear'
  BY <1>3 DEF FilesClear
<1>9. CiphersClear'
  <2>1. \A i \in 1 .. Len(keyAir) - 1 : i + 1 \in DOMAIN keyAir
    BY <1>4
  <2>2. \A i \in DOMAIN keyAir' :
            keyAir'[i].type = "cipher" => UserId \notin ToSet(keyAir'[i].revoked)
    BY <1>4, <2>1 DEF CiphersClear
  <2>3. \A i \in DOMAIN streams' : UserId \notin ToSet(streams'[i].data.revoked)
    <3>1. CASE streams' = <<>>
      BY <3>1
    <3>2. CASE streams' # <<>>
      BY <1>4, <1>5, <3>2 DEF CiphersClear
    <3>3. QED
      BY <3>1, <3>2
  <2>4. QED
    BY <2>2, <2>3 DEF CiphersClear
<1>10. NothingYet'
  BY <1>2, <1>3 DEF NothingYet, Untouched
<1>11. PointerNear'
  BY <1>2, <1>3 DEF PointerNear
<1>12. StreamForEmpty'
  <2>1. CASE streams' = <<>>
    BY <2>1 DEF StreamForEmpty
  <2>2. CASE streams' # <<>>
    BY <1>2, <1>5, <2>2 DEF StreamForEmpty
  <2>3. QED
    BY <2>1, <2>2
<1>13. InUseReaches'
  <2>1. SUFFICES ASSUME phase = "playing", slots[aesSeq] # aesKey
                 PROVE  InUseComing'
    BY <1>2, <1>3 DEF InUseReaches
  <2>2. slots[aesSeq] = NoKey
    BY <1>7, <2>1
  <2>3. PICK j \in DOMAIN keyAir :
            /\ keyAir[j].type = "cipher" /\ keyAir[j].key = aesKey
            /\ \A i \in 1 .. j - 1 : keyAir[i].type = "cipher" => keyAir[i].key = aesKey
    BY <1>2, <2>1 DEF InUseReaches, InUseComing
  <2>4. CASE keyAir[1].type = "cipher"
    <3>1. keyAir[1].key = aesKey
      BY <1>4, <2>3, <2>4
    <3>2. keyId = aesSeq
      BY <1>1, <1>6, <2>4, <3>1 DEF Current
    <3>3. DOMAIN streams' = {1} /\ streams'[1].data = keyAir[1]
      BY <1>1, <1>5, <2>2, <2>4, <3>2
    <3>4. QED
      BY <1>3, <3>1, <3>3 DEF InUseComing
  <2>5. CASE keyAir[1].type # "cipher"
    <3>1. streams' = <<>>
      BY <1>5, <2>5
    <3>2. /\ j - 1 \in DOMAIN keyAir' /\ keyAir'[j - 1] = keyAir[j]
          /\ \A i \in 1 .. (j - 1) - 1 : /\ i + 1 \in 1 .. j - 1
                                         /\ keyAir'[i] = keyAir[i + 1]
      <4>1. j \in 2 .. Len(keyAir)
        BY <1>4, <2>3, <2>5
      <4>2. j - 1 \in 1 .. Len(keyAir) - 1 /\ (j - 1) + 1 = j
        BY <1>4, <4>1
      <4>3. \A i \in 1 .. (j - 1) - 1 : i + 1 \in 1 .. j - 1 /\ i \in 1 .. Len(keyAir) - 1
        BY <1>4, <4>1
      <4>4. QED
        BY <1>4, <4>2, <4>3
    <3>3. QED
      BY <1>3, <2>3, <3>1, <3>2 DEF InUseComing
  <2>6. QED
    BY <2>4, <2>5
<1>14. NewestReaches'
  <2>1. SUFFICES ASSUME keysList.id # aesSeq, slots[keysList.id] # keysList.key
                 PROVE  NewestComing'
    BY <1>2, <1>3 DEF NewestReaches
  <2>2. slots[keysList.id] = NoKey
    BY <1>7, <2>1
  <2>3. PICK j \in DOMAIN keyAir :
            keyAir[j].type = "cipher" /\ keyAir[j].key = keysList.key
    BY <1>2, <2>1 DEF NewestReaches, NewestComing
  <2>4. CASE j = 1
    <3>1. keyId = keysList.id
      BY <1>1, <1>6, <2>1, <2>3, <2>4 DEF Current
    <3>2. DOMAIN streams' = {1} /\ streams'[1].data = keyAir[1]
      BY <1>1, <1>5, <2>2, <2>3, <2>4, <3>1
    <3>3. QED
      BY <1>3, <2>3, <2>4, <3>2 DEF NewestComing
  <2>5. CASE j # 1
    <3>1. j - 1 \in DOMAIN keyAir' /\ keyAir'[j - 1] = keyAir[j]
      <4>1. j - 1 \in 1 .. Len(keyAir) - 1 /\ (j - 1) + 1 = j
        BY <1>4, <2>5
      <4>2. QED
        BY <1>4, <4>1
    <3>2. QED
      BY <1>3, <2>3, <3>1 DEF NewestComing
  <2>6. QED
    BY <2>4, <2>5
<1>15. StillPlays'
  BY <1>2, <1>3 DEF StillPlays
<1>16. QED
  BY <1>2, <1>8, <1>9, <1>10, <1>11, <1>12, <1>13, <1>14, <1>15

\* A video packet empties neither the node in use nor the newest.
LEMMA VideoDatagramKeepsKept ==
    ASSUME Present, EndsInv, Link, Kept, OnVideoDatagram
    PROVE  /\ Kept'
           /\ slots'[aesSeq] = slots[aesSeq]
           /\ slots'[keysList.id] = slots[keysList.id]
           /\ slots[aesSeq] # NoKey => played'.type = "played"
<1> USE DEF EndsInv, Link, Kept
<1>1. /\ Orderly
      /\ aesSeq \in KeyIds /\ keysList.id \in KeyIds /\ NoKey \notin AesKeys
      /\ keysList.id \in {aesSeq, NextId(aesSeq)}
      /\ slots \in [KeyIds -> AesKeys \cup {NoKey}] /\ current \in KeyIds
  BY KeysInv, ViewerInv DEF Present
<1>2. /\ UNCHANGED <<broadcasterVars, listening, keyAir, streams>>
      /\ videoAir # <<>>
      /\ current' = aesSeq
      /\ slots' = IF slots[current] # NoKey /\ current # aesSeq
                  THEN [slots EXCEPT ![current] = NoKey] ELSE slots
      /\ played' = IF slots'[aesSeq] = NoKey THEN C!Ignored
                   ELSE [type |-> "played", key |-> slots'[aesSeq],
                         encryptedWith |-> aesKey]
  BY <1>1, VideoDatagramIs
<1>3. UNCHANGED <<phase, keysList, aesKey, aesSeq, revokeFile, fetches>>
  BY <1>2 DEF broadcasterVars
<1>4. \A id \in KeyIds : slots'[id] \in {slots[id], NoKey}
  BY <1>1, <1>2
<1>5. slots'[aesSeq] = slots[aesSeq] /\ slots'[keysList.id] = slots[keysList.id]
  <2>1. current # NextId(aesSeq)
    BY NewestUntouched
  <2>2. QED
    BY <1>1, <1>2, <2>1
<1>6. phase = "playing"
  BY <1>2 DEF NothingYet
<1>7. played'.type = "played" <=> slots[aesSeq] # NoKey
  BY <1>2, <1>5 DEF C!Ignored
<1>8. FilesClear' /\ CiphersClear' /\ NothingYet' /\ PointerNear'
  BY <1>2, <1>3, <1>6 DEF FilesClear, CiphersClear, NothingYet, PointerNear
<1>9. StreamForEmpty'
  <2>1. \A i \in DOMAIN streams : streams[i].for \in KeyIds
    BY ViewerInv
  <2>2. QED
    BY <1>2, <1>4, <2>1 DEF StreamForEmpty
<1>10. InUseReaches'
  BY <1>2, <1>3, <1>5 DEF InUseReaches, InUseComing
<1>11. NewestReaches'
  BY <1>2, <1>3, <1>5 DEF NewestReaches, NewestComing
<1>12. StillPlays'
  BY <1>3, <1>5, <1>7, NewestUntouched DEF StillPlays
<1>13. QED
  BY <1>2, <1>5, <1>7, <1>8, <1>9, <1>10, <1>11, <1>12

\* A disk step takes the stream on, or stores its key: cpabe-dec finds the cipher
\* in key.cpabe and the viewer not in its list.
LEMMA DiskStepStores ==
    ASSUME CP!IInv, AirOK, ~overlapped, CiphersClear, C!DiskStep
    PROVE  \/ /\ UNCHANGED slots
              /\ \/ streams = <<>> /\ streams' = <<>>
                 \/ /\ DOMAIN streams = {1} /\ DOMAIN streams' = {1}
                    /\ streams'[1].for = streams[1].for
                    /\ streams'[1].data = streams[1].data
           \/ /\ DOMAIN streams = {1} /\ streams' = <<>>
              /\ streams[1].for \in KeyIds
              /\ slots' = setAesKeyById(slots, streams[1].for, streams[1].data.key)
<1>1. /\ streams \in Seq(CP!StreamStates)
      /\ \/ streams = <<>>
         \/ /\ Len(streams) = 1 /\ DOMAIN streams = {1} /\ ~unlinking
            /\ streams[1].for = keyId /\ streams[1].for \in KeyIds
  BY ViewerInv
<1>2. CASE C!KeyFileUnlinked
  BY <1>1, <1>2 DEF C!KeyFileUnlinked
<1>3. CASE ~C!KeyFileUnlinked
  <2>1. PICK i \in DOMAIN streams :
            C!StreamOpened(i) \/ C!StreamWritten(i) \/ C!StreamFinished(i)
    BY <1>3 DEF C!DiskStep
  <2>2. /\ i = 1 /\ Len(streams) = 1 /\ DOMAIN streams = {1} /\ streams # <<>>
        /\ streams[1] \in CP!StreamStates
    BY <1>1, <2>1
  <2>3. CASE C!StreamOpened(i)
    BY <1>1, <2>2, <2>3 DEF C!StreamOpened, CP!StreamStates
  <2>4. CASE C!StreamWritten(i)
    BY <1>1, <2>2, <2>4 DEF C!StreamWritten, CP!StreamStates
  <2>5. CASE C!StreamFinished(i)
    <3> DEFINE data == streams[1].data
    <3>1. /\ streams[1].stage = "written" /\ ~unlinking
          /\ cpabeFile = data
      BY <1>1, <2>2, <2>5 DEF C!StreamFinished, CP!IInv, CP!OneAtATime
    <3>2. data \in Ciphers /\ data.key \in AesKeys /\ data.revoked \in Seq(UserIds)
      BY <2>2 DEF CP!StreamStates, Ciphers
    <3>3. data \notin {C!Absent, C!Empty}
      <4>1. data.type = "cipher"
        BY <3>2 DEF Ciphers
      <4>2. C!Absent.type = "absent" /\ C!Empty.type = "empty"
        BY DEF C!Absent, C!Empty
      <4>3. QED
        BY <4>1, <4>2
    <3>4. ~C!DecDies
      BY <3>1, <3>3 DEF C!DecDies, C!KeysSaved, AirOK, Both
    <3>5. C!Decrypts(cpabeFile)
      <4>1. UserId \notin ToSet(data.revoked)
        BY <2>2 DEF CiphersClear
      <4>2. QED
        BY <3>1, <4>1 DEF C!Decrypts, ToSet
    <3>6. C!Decryptions = {[key |-> data.key, raced |-> FALSE]}
      BY <3>1, <3>4, <3>5 DEF C!Decryptions, C!Output
    <3>7. data.key # NoKey /\ C!InRing(keyId)
      BY <1>1, <2>2, <3>2, KeysInv, Assumptions
      DEF C!InRing, C!KeyIds, KeyIds, BP!BroadcasterAssumption
    <3>8. C!Store(data.key)
      <4>1. PICK d \in C!Decryptions :
                IF d.key = NoKey
                THEN /\ keyFile' = IF d.raced THEN NoKey ELSE keyFile
                     /\ unlinking' = (unlinking /\ ~d.raced)
                     /\ UNCHANGED <<slots, keyId, hung>>
                ELSE keyFile' = d.key /\ unlinking' = TRUE /\ C!Store(d.key)
        BY <2>5 DEF C!StreamFinished
      <4>2. d.key = data.key
        BY <3>6, <4>1
      <4>3. QED
        BY <3>7, <4>1, <4>2
    <3>9. slots' = setAesKeyById(slots, streams[1].for, data.key)
      BY <1>1, <2>2, <3>7, <3>8
      DEF C!Store, C!setAesKeyById, setAesKeyById, C!NextId, NextId
    <3>10. streams' = <<>>
      <4>1. streams' \in {C!RemoveAt(streams, i), C!Unlinked(C!RemoveAt(streams, i))}
        BY <2>5 DEF C!StreamFinished
      <4>2. C!RemoveAt(streams, i) = RemoveAt(streams, i)
        BY DEF C!RemoveAt, RemoveAt
      <4>3. /\ RemoveAt(streams, i) \in Seq(CP!StreamStates)
            /\ Len(RemoveAt(streams, i)) = 0
        BY <1>1, <2>2, RemoveAtIs
      <4>4. RemoveAt(streams, i) = <<>>
        BY <4>3
      <4>5. C!Unlinked(<<>>) = <<>>
        BY DEF C!Unlinked
      <4>6. QED
        BY <4>1, <4>2, <4>4, <4>5
    <3>11. QED
      BY <1>1, <2>2, <3>9, <3>10
  <2>6. QED
    BY <2>1, <2>3, <2>4, <2>5
<1>4. QED
  BY <1>2, <1>3

\* So a key is stored under its id and empties the node after it: the newest key
\* is not there when the key in use is stored, and the key in use is not after
\* the newest.
LEMMA DiskStepKeepsKept ==
    ASSUME Present, EndsInv, Link, Kept, DiskStep
    PROVE  /\ Kept'
           /\ UNCHANGED played
           /\ slots[keysList.id] = keysList.key => slots'[keysList.id] = keysList.key
<1> USE DEF EndsInv, Link, Kept
<1>1. /\ aesSeq \in KeyIds /\ NextId(aesSeq) \in KeyIds
      /\ NextId(NextId(aesSeq)) \in KeyIds
      /\ aesKey \in AesKeys /\ keysList.key \in AesKeys /\ NoKey \notin AesKeys
      /\ \/ keysList.id = aesSeq /\ keysList.key = aesKey
         \/ /\ keysList.id = NextId(aesSeq) /\ keysList.id # aesSeq
            /\ keysList.key # aesKey
      /\ NextId(NextId(aesSeq)) \notin {aesSeq, NextId(aesSeq)}
      /\ slots \in [KeyIds -> AesKeys \cup {NoKey}]
  BY KeysInv, NextIdOther, NewestUntouched, ViewerInv
<1>2. /\ UNCHANGED <<phase, keysList, aesKey, aesSeq, revokeFile, fetches>>
      /\ UNCHANGED <<listening, keyAir, videoAir>>
  BY DEF DiskStep, broadcasterVars, air
<1>3. /\ UNCHANGED <<current, played>>
      /\ ~C!DiskIdle
      /\ Untouched => Untouched'
  BY <1>2, DiskStepIs DEF DiskStep, Untouched
<1>4. FilesClear' /\ NothingYet' /\ PointerNear'
  BY <1>2, <1>3 DEF FilesClear, NothingYet, PointerNear
<1>5. CASE /\ UNCHANGED slots
           /\ \/ streams = <<>> /\ streams' = <<>>
              \/ /\ DOMAIN streams = {1} /\ DOMAIN streams' = {1}
                 /\ streams'[1].for = streams[1].for
                 /\ streams'[1].data = streams[1].data
  <2>1. CiphersClear' /\ StreamForEmpty'
    BY <1>2, <1>5 DEF CiphersClear, StreamForEmpty
  <2>2. streams' = <<>> <=> streams = <<>>
    BY <1>5
  <2>3. (InUseComing => InUseComing') /\ (NewestComing => NewestComing')
    BY <1>2, <1>5, <2>2 DEF InUseComing, NewestComing
  <2>4. InUseReaches' /\ NewestReaches' /\ StillPlays'
    BY <1>2, <1>3, <1>5, <2>3 DEF InUseReaches, NewestReaches, StillPlays
  <2>5. QED
    BY <1>2, <1>3, <1>4, <1>5, <2>1, <2>4
<1>6. CASE /\ DOMAIN streams = {1} /\ streams' = <<>>
           /\ streams[1].for \in KeyIds
           /\ slots' = setAesKeyById(slots, streams[1].for, streams[1].data.key)
  <2> DEFINE id == streams[1].for
             key == streams[1].data.key
  <2>1. Current(id, key) /\ slots[id] = NoKey
    BY <1>6 DEF StreamPairs, StreamForEmpty
  <2>2. \A n \in KeyIds : slots'[n] = IF n = NextId(id) THEN NoKey
                                      ELSE IF n = id THEN key ELSE slots[n]
    BY <1>1, <1>6 DEF setAesKeyById
  <2>3. streams # <<>> /\ DOMAIN streams' = {}
    <3>1. DOMAIN <<>> = {}
      OBVIOUS
    <3>2. DOMAIN streams # {}
      BY <1>6
    <3>3. QED
      BY <1>6, <3>1, <3>2
  <2>4. phase = "playing"
    BY <2>3 DEF NothingYet, Untouched
  <2>5. CiphersClear' /\ StreamForEmpty'
    BY <1>2, <2>3 DEF CiphersClear, StreamForEmpty
  <2>6. CASE id = aesSeq /\ key = aesKey
    <3>1. slots'[aesSeq] = aesKey
      BY <1>1, <2>2, <2>6
    <3>2. keysList.id # aesSeq => slots[keysList.id] = NoKey
      BY <1>1, <2>1, <2>4, <2>6 DEF InUseReaches
    <3>3. InUseReaches' /\ StillPlays'
      BY <1>2, <3>1 DEF InUseReaches, StillPlays
    <3>4. NewestReaches'
      <4>1. SUFFICES ASSUME keysList.id # aesSeq PROVE NewestComing'
        BY <1>2 DEF NewestReaches
      <4>2. NewestComing /\ \A i \in DOMAIN streams : streams[i].data.key # keysList.key
        BY <1>1, <1>6, <2>6, <3>2, <4>1 DEF NewestReaches
      <4>3. QED
        BY <1>2, <4>2 DEF NewestComing
    <3>5. slots[keysList.id] # keysList.key
      BY <1>1, <2>1, <2>6, <3>2
    <3>6. QED
      BY <1>2, <1>3, <1>4, <2>5, <3>3, <3>4, <3>5
  <2>7. CASE id = keysList.id /\ key = keysList.key /\ keysList.id # aesSeq
    <3>1. slots[aesSeq] = aesKey
      BY <1>1, <1>6, <2>3, <2>4, <2>7 DEF InUseReaches, InUseComing
    <3>2. slots'[aesSeq] = aesKey /\ slots'[keysList.id] = keysList.key
      BY <1>1, <2>2, <2>7, <3>1
    <3>3. InUseReaches' /\ NewestReaches' /\ StillPlays'
      BY <1>2, <3>2 DEF InUseReaches, NewestReaches, StillPlays
    <3>4. QED
      BY <1>2, <1>3, <1>4, <2>5, <3>2, <3>3
  <2>8. QED
    BY <1>1, <2>1, <2>6, <2>7 DEF Current
<1>7. QED
  BY <1>5, <1>6, DiskStepStores DEF DiskStep

\* Joining, and steps that change nothing.
LEMMA OthersKeepKept ==
    ASSUME Kept, Join \/ UNCHANGED vars
    PROVE  Kept' /\ UNCHANGED <<slots, played>>
<1>1. /\ UNCHANGED <<phase, keysList, aesKey, aesSeq, revokeFile, fetches>>
      /\ UNCHANGED <<slots, current, streams, played>>
      /\ UNCHANGED <<keyAir, videoAir>>
      /\ listening' \in {TRUE, listening}
  BY DEF Join, vars, broadcasterVars, clientVars, air
<1>2. FilesClear' /\ CiphersClear' /\ PointerNear' /\ StreamForEmpty' /\ StillPlays'
  BY <1>1 DEF Kept, FilesClear, CiphersClear, PointerNear, StreamForEmpty, StillPlays
<1>3. NothingYet'
  BY <1>1 DEF Kept, NothingYet, Untouched
<1>4. InUseReaches' /\ NewestReaches'
  BY <1>1 DEF Kept, InUseReaches, InUseComing, NewestReaches, NewestComing
<1>5. QED
  BY <1>1, <1>2, <1>3, <1>4 DEF Kept

\* Every step keeps the invariant, the newest key in its node, and the picture.
LEMMA NextKept ==
    ASSUME Present, EndsInv, Link, Kept, [Next]_vars
    PROVE  /\ Kept'
           /\ slots[keysList.id] = keysList.key /\ keysList' = keysList =>
                 slots'[keysList.id] = keysList.key
           /\ played.type = "played" => played'.type = "played"
<1>1. CASE Send \/ ChangeKey
  <2>1. Kept'
    BY <1>1, SendKeepsKept, ChangeKeyKeepsKept
  <2>2. UNCHANGED <<slots, played>>
    BY <1>1 DEF Send, Tick, OnBound, ResendKey, OnlyVideo, OnRevokeReply, ChangeKey,
                Transmit, clientVars
  <2>3. QED
    BY <2>1, <2>2
<1>2. CASE OnKeyDatagram
  <2>1. Kept'
    BY <1>2, KeyDatagramKeepsKept
  <2>2. UNCHANGED <<slots, played>>
    BY <1>2, KeyDatagramIs DEF Present, Link
  <2>3. QED
    BY <2>1, <2>2
<1>3. CASE OnVideoDatagram
  <2>1. aesKey # NoKey
    BY KeysInv DEF EndsInv
  <2>2. QED
    BY <1>3, <2>1, VideoDatagramKeepsKept DEF Kept, StillPlays
<1>4. CASE DiskStep
  BY <1>4, DiskStepKeepsKept
<1>5. CASE Join \/ UNCHANGED vars
  BY <1>5, OthersKeepKept
<1>6. ~BroadcasterRestart
  BY DEF Present, Orderly, BroadcasterRestart
<1>7. ~Lose
  <2>1. Lose => losses < MaxLosses
    BY DEF Lose
  <2>2. losses = 0 /\ MaxLosses = 0
    BY DEF Present, Orderly, Link
  <2>3. QED
    BY <2>1, <2>2
<1>8. QED
  BY <1>1, <1>2, <1>3, <1>4, <1>5, <1>6, <1>7 DEF Next, OnVideoMessage, Send

LEMMA KeptInductive == ASSUME Present PROVE Spec => [](EndsInv /\ Link /\ Kept)
<1>1. Orderly
  BY DEF Present
<1>2. Init => EndsInv /\ Link /\ Kept
  BY <1>1, InitEnds, InitLink, InitKept
<1>3. EndsInv /\ Link /\ Kept /\ [Next]_vars => (EndsInv /\ Link /\ Kept)'
  BY <1>1, NextEnds, NextLink, NextKept
<1>4. QED
  BY <1>2, <1>3, PTL DEF Spec

\* The viewer keeps the newest key from when it has it until it is used: neither
\* the emptying of the node it leaves nor that of the node after a stored key
\* (setAesKeyById, receivePacket.js) takes it.
THEOREM NewestKeyIsKept == ASSUME Present PROVE Spec => KeptUntilUsed
<1>1. EndsInv /\ Link /\ Kept /\ [Next]_vars =>
        [slots[keysList.id] = keysList.key /\ keysList' = keysList =>
            slots'[keysList.id] = keysList.key]_vars
  BY NextKept
<1>2. QED
  BY <1>1, KeptInductive, PTL DEF Spec, KeptUntilUsed

\* And once its video has started it goes on with every packet.
THEOREM PlaysOn == ASSUME Present PROVE Spec => NoBlackout
<1>1. EndsInv /\ Link /\ Kept /\ [Next]_vars =>
        [played.type = "played" => played'.type = "played"]_vars
  BY NextKept
<1>2. QED
  BY <1>1, KeptInductive, PTL DEF Spec, NoBlackout

=============================================================================
