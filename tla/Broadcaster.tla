----------------------------- MODULE Broadcaster -----------------------------
(***************************************************************************)
(* The broadcaster's key schedule: setup, changeKey and updateRevokeString *)
(* of js/broad.js with broadcastAesKey of js/broadAes.js.                  *)
(*                                                                         *)
(* A video packet from ffmpeg drives everything.  Its handler either puts  *)
(* the announced key into use and announces a new one, or announces the    *)
(* key in use again, or does neither; then it encrypts the packet under    *)
(* the key in use.  Each key is encrypted once per provider (company) with *)
(* the provider's revocation file, which asynchronous HTTPS replies        *)
(* rewrite: the file is truncated when it is opened and filled later.      *)
(*                                                                         *)
(* An exception thrown by readFileSync or by cpabe-enc leaves the handler  *)
(* at the point it was thrown; the application goes on with the next       *)
(* event.  Every handler is one action.                                    *)
(***************************************************************************)
EXTENDS KeyRing, Integers, SequencesExt

CONSTANTS
    CHANGE_KEY_INTERVAL, SEND_KEY_INTERVAL,     \* in clock ticks
    FULL_ENCRYPTION,        \* configs.FULL_ENCRYPTION: 1 or 0
    NumProviders,           \* providers with BROADCAST_SERVER[i] = 1
    AesKeys,                \* what randomBytes(16) returns
    UserIds,                \* the ids a revocation string lists
    NoFile, ErrorPage,      \* no revocation file; a server's error page as one
    PageIsArgument,         \* whether the shell takes that page for arguments
    InitialFiles,           \* what initializeChannel may have left
    ServerReplies,          \* bodies a key manager answers /revoke_ with
    MaxFetches              \* bound on outstanding revocation requests

(***************************************************************************)
(* A revocation string is the sequence of the ids between its "_": "0_" is *)
(* <<0>> and "0_5_" is <<0, 5>>; the empty (truncated) file is <<>>.       *)
(***************************************************************************)
RevokeStrings == Seq(UserIds)
RevokeContents == RevokeStrings \cup {ErrorPage}

ASSUME BroadcasterAssumption ==
    /\ CHANGE_KEY_INTERVAL \in Nat
    /\ SEND_KEY_INTERVAL \in Nat
    /\ FULL_ENCRYPTION \in {0, 1}
    /\ NumProviders \in Nat
    /\ NumProviders >= 1
    /\ MaxFetches \in Nat
    /\ PageIsArgument \in BOOLEAN
    /\ NoKey \notin AesKeys
    /\ \A k1, k2 \in AesKeys : \E k \in AesKeys : k \notin {k1, k2}
    /\ ErrorPage \notin RevokeStrings
    /\ NoFile \notin RevokeContents
    /\ InitialFiles \subseteq RevokeContents \cup {NoFile}
    /\ ServerReplies \subseteq RevokeContents

Providers == 1 .. NumProviders

VARIABLES
    phase,          \* "binding", "playing" once ffmpeg runs, "failed"
    keysList,       \* the node changeKey returned last: the newest key
    aesKey, aesSeq, \* the key in use and its id
    lastKeyIdSent,  \* lastKeyIdSent[0]
    sinceChange,    \* now - timeStamp, counted up to just over the interval
    sinceSend,      \* now - lastKeySent, likewise
    revokeFile,     \* companies/<name>/revoke_<channel> per provider
    fetches,        \* outstanding https.get of updateRevokeString
    outbox          \* datagrams the last handler handed to its sockets

vars == <<phase, keysList, aesKey, aesSeq, lastKeyIdSent, sinceChange,
          sinceSend, revokeFile, fetches, outbox>>
keyVars == <<keysList, aesKey, aesSeq, lastKeyIdSent, sinceChange, sinceSend>>

-----------------------------------------------------------------------------
(* Datagrams *)

IdDatagram(id) == [type |-> "id", id |-> id]
CipherDatagram(key, revoked) ==
    [type |-> "cipher", key |-> key, revoked |-> revoked]
VideoDatagram(id, key) == [type |-> "video", id |-> id, key |-> key]

Silence == [p \in Providers |-> <<>>]
NoDatagrams == [key |-> Silence, video |-> Silence]

-----------------------------------------------------------------------------
(* broadcastAesKey(key, seq) when lastKeyIdSent[0] is last *)

\* "we're trying to send an older key, skip this."
Suppressed(seq, last) == last > seq + 1 /\ seq # 0

(***************************************************************************)
(* cpabe-enc's parse_args dies without an argument after -a, and takes     *)
(* only the first word after it.  An error page is words to the shell, or, *)
(* for a missing file in development, words up to the "&" of the first     *)
(* "&#39;", the rest of the line being a comment: PageIsArgument.  A page  *)
(* whose stack has no quotes fails at its first "(" or "<br>".             *)
(***************************************************************************)
TakesArgument(revoked) ==
    /\ revoked # <<>>
    /\ revoked = ErrorPage => PageIsArgument

\* readFileSync finds the file, and cpabe-enc its argument.
CanEncrypt(p) ==
    \/ FULL_ENCRYPTION = 0
    \/ revokeFile[p] # NoFile /\ TakesArgument(revokeFile[p])

\* The loop over the providers ends at the first one whose encryption throws.
Served(p) == \A q \in 1 .. p : CanEncrypt(q)

Throws(seq, last) == ~Suppressed(seq, last) /\ \E p \in Providers : ~CanEncrypt(p)

\* The first word of an error page is the number 0, which no user has.
Revoked(p) ==
    IF FULL_ENCRYPTION = 1 /\ revokeFile[p] # ErrorPage THEN revokeFile[p] ELSE <<>>

\* Mutant: the cipher goes before its id.
KeyDatagramsSwapped(key, seq, last) ==
    [p \in Providers |->
        IF ~Suppressed(seq, last) /\ Served(p)
        THEN <<CipherDatagram(key, Revoked(p)), IdDatagram(seq)>>
        ELSE <<>>]

KeyDatagrams(key, seq, last) ==
    [p \in Providers |->
        IF ~Suppressed(seq, last) /\ Served(p)
        THEN <<IdDatagram(seq), CipherDatagram(key, Revoked(p))>>
        ELSE <<>>]

SentId(seq, last) == IF Suppressed(seq, last) THEN last ELSE seq

\* Mutant: the reset when the ids wrap is forgotten.
LastSentNoReset(id) == lastKeyIdSent

\* lastKeyIdSent[0] as ChangeKey passes it on when key id comes into use.
LastSentFor(id) == IF id = 0 THEN -1 ELSE lastKeyIdSent

\* Mutant: the outer keysList moves before broadcastAesKey can throw.
AdoptedEarly(seq, new, last) == [id |-> seq, key |-> new]

\* Mutant: the next node is taken over with the key of the one before.
AdoptedStale(seq, new, last) == [id |-> seq, key |-> keysList.key]

\* The node the video handler's keysList is after changeKey(new key).
Adopted(seq, new, last) ==
    IF Throws(seq, last) THEN keysList ELSE [id |-> seq, key |-> new]

-----------------------------------------------------------------------------
(* updateRevokeString *)

\* Mutant: the test of FULL_ENCRYPTION is inverted.
RequestsPlain ==
    IF FULL_ENCRYPTION = 1 THEN <<>>
    ELSE [p \in Providers |-> [stage |-> "requested", from |-> p]]

\* One request per provider, unless FULL_ENCRYPTION is off.
Requests ==
    IF FULL_ENCRYPTION = 1
    THEN [p \in Providers |-> [stage |-> "requested", from |-> p]]
    ELSE <<>>

(***************************************************************************)
(* "var company" belongs to the function, not to the loop's iteration: by  *)
(* the time a reply arrives it names the last enabled provider, whoever    *)
(* answered.                                                               *)
(***************************************************************************)
Company == NumProviders

\* Mutant: the data goes to a file no name leads to.
OverwriteLost(old, new) == old

\* A write starts at offset 0: what was longer keeps its tail.  The tail of an
\* error page behind a list is to the shell what the page was.
Overwrite(old, new) ==
    CASE new = ErrorPage -> ErrorPage
      [] old = ErrorPage /\ new # ErrorPage ->
            IF PageIsArgument /\ new # <<>> THEN new ELSE ErrorPage
      [] OTHER -> new \o SubSeq(old, Len(new) + 1, Len(old))

-----------------------------------------------------------------------------
(***************************************************************************)
(* Init is the end of setup: key 0 is in use and is the ring's newest,     *)
(* timeStamp is now, and lastKeySent = 0 makes any video packet late.      *)
(***************************************************************************)
Init ==
    /\ phase = "binding"
    /\ \E k \in AesKeys : keysList = [id |-> 0, key |-> k]
    /\ aesKey = keysList.key
    /\ aesSeq = keysList.id
    /\ lastKeyIdSent = -1
    /\ sinceChange = 0
    /\ sinceSend = SEND_KEY_INTERVAL + 1
    /\ revokeFile \in [Providers -> InitialFiles]
    /\ fetches = <<>>
    /\ outbox = NoDatagrams

\* Time passes; the ages stop just above the interval they are compared with.
Tick ==
    /\ sinceChange <= CHANGE_KEY_INTERVAL \/ sinceSend <= SEND_KEY_INTERVAL
    /\ sinceChange' =
        IF sinceChange <= CHANGE_KEY_INTERVAL THEN sinceChange + 1 ELSE sinceChange
    /\ sinceSend' =
        IF sinceSend <= SEND_KEY_INTERVAL THEN sinceSend + 1 ELSE sinceSend
    /\ outbox' = NoDatagrams
    /\ UNCHANGED <<phase, keysList, aesKey, aesSeq, lastKeyIdSent, revokeFile, fetches>>

\* Both sockets are bound: announce the initial key, then start ffmpeg.  When
\* the announcement throws, StartVideo is not reached and no video ever comes.
OnBound ==
    /\ phase = "binding"
    /\ phase' = IF Throws(aesSeq, lastKeyIdSent) THEN "failed" ELSE "playing"
    /\ lastKeyIdSent' = SentId(aesSeq, lastKeyIdSent)
    /\ outbox' = [NoDatagrams EXCEPT
                    !.key = KeyDatagrams(aesKey, aesSeq, lastKeyIdSent)]
    /\ UNCHANGED <<keysList, aesKey, aesSeq, sinceChange, sinceSend, revokeFile, fetches>>

(***************************************************************************)
(* The three branches of the video handler.  A throw skips the rest of the *)
(* handler: the new node is not adopted, lastKeySent is not set and the    *)
(* video packet is not sent.                                               *)
(***************************************************************************)
VideoDatagrams(id, key) == [p \in Providers |-> <<VideoDatagram(id, key)>>]

\* A video packet arrives more than CHANGE_KEY_INTERVAL after the last change;
\* changeKey draws the new key.
ChangeKey(new) ==
    /\ phase = "playing"
    /\ sinceChange > CHANGE_KEY_INTERVAL
    /\ Len(fetches) + Len(Requests) <= MaxFetches
    /\ aesKey' = keysList.key
    /\ aesSeq' = keysList.id
    /\ sinceChange' = 0
    /\ sinceSend' = 0
    /\ fetches' = fetches \o Requests
    /\ LET seq == NextId(keysList.id)
           last == LastSentFor(keysList.id)
       IN /\ lastKeyIdSent' = SentId(seq, last)
          /\ keysList' = Adopted(seq, new, last)
          /\ outbox' = [key |-> KeyDatagrams(new, seq, last),
                        video |-> IF Throws(seq, last) THEN Silence
                                  ELSE VideoDatagrams(aesSeq', aesKey')]
    /\ UNCHANGED <<phase, revokeFile>>

\* More than SEND_KEY_INTERVAL after the last announcement: announce the key in
\* use again.
ResendKey ==
    /\ phase = "playing"
    /\ sinceChange <= CHANGE_KEY_INTERVAL
    /\ sinceSend > SEND_KEY_INTERVAL
    /\ lastKeyIdSent' = SentId(aesSeq, lastKeyIdSent)
    /\ sinceSend' = IF Throws(aesSeq, lastKeyIdSent) THEN sinceSend ELSE 0
    /\ outbox' = [key |-> KeyDatagrams(aesKey, aesSeq, lastKeyIdSent),
                  video |-> IF Throws(aesSeq, lastKeyIdSent) THEN Silence
                            ELSE VideoDatagrams(aesSeq, aesKey)]
    /\ UNCHANGED <<phase, keysList, aesKey, aesSeq, sinceChange, revokeFile, fetches>>

OnlyVideo ==
    /\ phase = "playing"
    /\ sinceChange <= CHANGE_KEY_INTERVAL
    /\ sinceSend <= SEND_KEY_INTERVAL
    /\ outbox' = [NoDatagrams EXCEPT !.video = VideoDatagrams(aesSeq, aesKey)]
    /\ UNCHANGED <<phase, keyVars, revokeFile, fetches>>

\* socket2.on('message')
OnVideoMessage ==
    \/ \E new \in AesKeys \ {keysList.key, aesKey} : ChangeKey(new)
    \/ ResendKey
    \/ OnlyVideo

-----------------------------------------------------------------------------
(* The replies to updateRevokeString's requests *)

\* A reply's data: fs.writeFile opens, and so empties or creates, the file.
OnRevokeData(i) ==
    /\ fetches[i].stage = "requested"
    /\ \E d \in ServerReplies :
          fetches' = [fetches EXCEPT ![i] =
                        [stage |-> "opened", from |-> fetches[i].from, data |-> d]]
    /\ revokeFile' = [revokeFile EXCEPT ![Company] = <<>>]
    /\ outbox' = NoDatagrams
    /\ UNCHANGED <<phase, keyVars>>

\* fs.writeFile has written the data.
OnRevokeWritten(i) ==
    /\ fetches[i].stage = "opened"
    /\ revokeFile' = [revokeFile EXCEPT ![Company] = Overwrite(@, fetches[i].data)]
    /\ fetches' = RemoveAt(fetches, i)
    /\ outbox' = NoDatagrams
    /\ UNCHANGED <<phase, keyVars>>

\* The request fails: https.get has no error handler, nothing is written.
OnRevokeError(i) ==
    /\ fetches[i].stage = "requested"
    /\ fetches' = RemoveAt(fetches, i)
    /\ outbox' = NoDatagrams
    /\ UNCHANGED <<phase, keyVars, revokeFile>>

-----------------------------------------------------------------------------
(***************************************************************************)
(* The program ends at any point and setup runs again: the ring starts     *)
(* over at key 0, requests in flight are gone, and the revocation files    *)
(* stay as they are, a truncated one included.                             *)
(***************************************************************************)
Restart(new) ==
    /\ phase' = "binding"
    /\ keysList' = [id |-> 0, key |-> new]
    /\ aesKey' = new
    /\ aesSeq' = 0
    /\ lastKeyIdSent' = -1
    /\ sinceChange' = 0
    /\ sinceSend' = SEND_KEY_INTERVAL + 1
    /\ fetches' = <<>>
    /\ outbox' = NoDatagrams
    /\ UNCHANGED revokeFile

Next ==
    \/ Tick
    \/ OnBound
    \/ OnVideoMessage
    \/ \E i \in DOMAIN fetches :
          OnRevokeData(i) \/ OnRevokeWritten(i) \/ OnRevokeError(i)
    \/ \E new \in AesKeys : Restart(new)

Spec == Init /\ [][Next]_vars

-----------------------------------------------------------------------------
(* Properties *)

FetchStates ==
    [stage : {"requested"}, from : Providers]
      \cup [stage : {"opened"}, from : Providers, data : ServerReplies]

\* The types of the broadcaster's variables; outbox is a product of each step
\* and has its type from it.
TypeOK ==
    /\ phase \in {"binding", "playing", "failed"}
    /\ keysList \in [id : KeyIds, key : AesKeys]
    /\ aesKey \in AesKeys
    /\ aesSeq \in KeyIds
    /\ lastKeyIdSent \in KeyIds \cup {-1}
    /\ sinceChange \in 0 .. CHANGE_KEY_INTERVAL + 1
    /\ sinceSend \in 0 .. SEND_KEY_INTERVAL + 1
    /\ revokeFile \in [Providers -> RevokeContents \cup {NoFile}]
    /\ fetches \in Seq(FetchStates)

\* A file that fs.writeFile has open exists.
OpenedExists ==
    \A i \in DOMAIN fetches :
        fetches[i].stage = "opened" => revokeFile[Company] # NoFile

(***************************************************************************)
(* The older-key test of broadcastAesKey (broadAes.js:22) never skips an   *)
(* announcement the schedule asks for: neither the key in use, sent again, *)
(* nor the next new key, across the wrap of the ids and across throws.     *)
(* It rests on the reset of lastKeyIdSent when key 0 comes into use.       *)
(***************************************************************************)
NoAnnouncementSkipped ==
    /\ ~Suppressed(aesSeq, lastKeyIdSent)
    /\ ~Suppressed(NextId(keysList.id), LastSentFor(keysList.id))

(***************************************************************************)
(* While it runs, a key becomes the ring's newest, and so the next one to  *)
(* be used, only in a step that handed its id and its cipher to every      *)
(* provider.                                                               *)
(***************************************************************************)
AdoptedOnlyIfAnnounced ==
    [][keysList' # keysList /\ phase' # "binding" =>
         \A p \in Providers :
            /\ Len(outbox'.key[p]) = 2
            /\ outbox'.key[p][1] = IdDatagram(keysList'.id)
            /\ outbox'.key[p][2].key = keysList'.key]_vars

(***************************************************************************)
(* broad.js:98: "we will only start using the new key, after we've already *)
(* sent it's following key."  A step that puts another key into use        *)
(* announces its successor to every provider up to the first one whose     *)
(* encryption throws, and so to all of them when none does; those behind   *)
(* it are the exception to the comment.                                    *)
(***************************************************************************)
UsedOnlyAfterFollowing ==
    [][aesKey' # aesKey /\ phase' # "binding" =>
         /\ (\A p \in Providers : CanEncrypt(p)) => keysList'.id = NextId(aesSeq')
         /\ \A p \in Providers : Served(p) =>
               /\ Len(outbox'.key[p]) = 2
               /\ outbox'.key[p][1] = IdDatagram(NextId(aesSeq'))]_vars

(***************************************************************************)
(* The video's key never runs ahead of the ring nor falls two behind it:   *)
(* it is the newest key, or the one whose successor is the newest.         *)
(***************************************************************************)
InUseOrNext ==
    \/ keysList = [id |-> aesSeq, key |-> aesKey]
    \/ keysList.id = NextId(aesSeq) /\ keysList.key # aesKey

\* What was announced last is the key in use or the one after it.
LastSentNear == lastKeyIdSent \in {-1, aesSeq, NextId(aesSeq)}

\* The inductive invariant of the proofs.
IInv == TypeOK /\ OpenedExists /\ LastSentNear /\ InUseOrNext

=============================================================================
