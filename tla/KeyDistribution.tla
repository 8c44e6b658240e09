--------------------------- MODULE KeyDistribution ---------------------------
(***************************************************************************)
(* One broadcaster and one viewer of one of its providers, with the UDP    *)
(* network between them: Broadcaster and Client share the ring's size, and *)
(* what a broadcaster step leaves in its outbox for the viewer's provider  *)
(* travels through two sockets' queues, the key port's and the video       *)
(* port's.  The two ports are not ordered with each other.                 *)
(*                                                                         *)
(* Faults names what may go wrong in an instance.  With no faults, every   *)
(* datagram is delivered in the order of its port and before the clock     *)
(* moves, a key datagram is taken up only when the disk is idle, the       *)
(* revocation file is complete again before anything else happens, and     *)
(* every tick sees video packets once ffmpeg runs.                         *)
(***************************************************************************)
EXTENDS KeyRing, Integers, SequencesExt

CONSTANTS
    CHANGE_KEY_INTERVAL, SEND_KEY_INTERVAL, FULL_ENCRYPTION, NumProviders,
    AesKeys, UserIds, NoFile, ErrorPage, PageIsArgument, InitialFiles, ServerReplies,
    MaxFetches, UserId, MaxStreams,
    USER_SERVER,    \* the provider whose ports the viewer listens on
    Faults,         \* which of FaultKinds may happen
    KeyCap,         \* bound on the datagrams under way to the key port
    VideoCap,       \* and to the video port
    MaxLosses       \* bound on datagrams that are lost

FaultKinds == {"reorder", "stall", "slow disk", "slow server", "late join", "restart"}

ASSUME DistributionAssumption ==
    /\ FULL_ENCRYPTION = 1      \* as the Client module
    /\ USER_SERVER \in 1 .. NumProviders
    /\ Faults \subseteq FaultKinds
    /\ KeyCap \in Nat
    /\ VideoCap \in Nat
    /\ MaxLosses \in Nat
    /\ MaxStreams \in Nat \ {0}
    /\ UserIds \subseteq Int

VARIABLES
    phase, keysList, aesKey, aesSeq, lastKeyIdSent, sinceChange, sinceSend,
    revokeFile, fetches, outbox,
    slots, current, keyId, streams, cpabeFile, keyFile, unlinking,
    keyFilesSaved, hung, played, overlapped,
    listening,      \* the viewer's sockets are bound
    keyAir,         \* datagrams under way to the viewer's key port
    videoAir,       \* and to its video port
    losses          \* how many datagrams have been lost

SlowDisk == "slow disk" \in Faults

Ciphers == [type : {"cipher"}, key : AesKeys, revoked : Seq(UserIds)]

B == INSTANCE Broadcaster
C == INSTANCE Client

\* The broadcaster's constants are those of its own module.
ASSUME BroadcasterConstants == B!BroadcasterAssumption

clientVars == <<slots, current, keyId, streams, cpabeFile, keyFile, unlinking,
                keyFilesSaved, hung, played, overlapped>>
broadcasterVars == <<phase, keysList, aesKey, aesSeq, lastKeyIdSent, sinceChange,
                     sinceSend, revokeFile, fetches, outbox>>
air == <<keyAir, videoAir, losses>>
vars == <<broadcasterVars, clientVars, listening, air>>

Both == {"private", "public"}

\* The viewer has its key files from an earlier session.  Which key is the first
\* makes no difference.
Init ==
    /\ B!Init
    /\ aesKey = CHOOSE k \in AesKeys : TRUE
    /\ C!InitWith(Both)
    /\ listening = ("late join" \notin Faults)
    /\ keyAir = <<>>
    /\ videoAir = <<>>
    /\ losses = 0

-----------------------------------------------------------------------------
(* The broadcaster's steps *)

\* What the step handed to its sockets goes under way to a bound port.
Transmit ==
    /\ UNCHANGED <<clientVars, listening>>
    /\ IF listening
       THEN /\ keyAir' = keyAir \o outbox'.key[USER_SERVER]
            /\ videoAir' = videoAir \o outbox'.video[USER_SERVER]
            /\ Len(keyAir') <= KeyCap
            /\ Len(videoAir') <= VideoCap
            /\ UNCHANGED losses
       ELSE UNCHANGED air

(***************************************************************************)
(* randomBytes(16) never repeats a key that is still anywhere: any unused  *)
(* one will do, and one is picked.  AesKeys bounds how many are about.     *)
(***************************************************************************)
KeysAbout ==
    {keysList.key, aesKey, keyFile}
        \cup {slots[id] : id \in KeyIds}
        \cup {keyAir[i].key : i \in {j \in DOMAIN keyAir : keyAir[j].type = "cipher"}}
        \cup {videoAir[i].key : i \in DOMAIN videoAir}
        \cup {streams[i].data.key : i \in DOMAIN streams}
        \cup (IF cpabeFile.type = "cipher" THEN {cpabeFile.key} ELSE {})

FreshKeys == AesKeys \ KeysAbout

FreshKey == CHOOSE k \in FreshKeys : TRUE

Quiet == keyAir = <<>> /\ videoAir = <<>>

FilesComplete == "slow server" \in Faults \/ fetches = <<>>

VideoFlows ==
    "stall" \in Faults \/ phase # "playing" \/ outbox.video # B!Silence

\* The clock moves when the datagrams have arrived and, unless the disk is
\* slow, when it is idle.
Tick ==
    /\ Quiet
    /\ VideoFlows
    /\ FilesComplete
    /\ SlowDisk \/ C!DiskIdle
    /\ B!Tick
    /\ Transmit

OnBound == B!OnBound /\ Transmit

ChangeKey ==
    FilesComplete /\ FreshKeys # {} /\ B!ChangeKey(FreshKey) /\ Transmit

ResendKey == FilesComplete /\ B!ResendKey /\ Transmit

OnlyVideo == FilesComplete /\ B!OnlyVideo /\ Transmit

OnVideoMessage == ChangeKey \/ ResendKey \/ OnlyVideo

OnRevokeReply ==
    /\ \E i \in DOMAIN fetches :
          B!OnRevokeData(i) \/ B!OnRevokeWritten(i) \/ B!OnRevokeError(i)
    /\ Transmit

\* Starting again takes longer than what is under way and the viewer's disk.
BroadcasterRestart ==
    /\ "restart" \in Faults
    /\ Quiet
    /\ SlowDisk \/ C!DiskIdle
    /\ FreshKeys # {}
    /\ B!Restart(FreshKey)
    /\ Transmit

-----------------------------------------------------------------------------
(* The network and the viewer's steps *)

\* Which of the queued datagrams may arrive next.  Replies touch nothing a viewer
\* does: unless servers are slow, they come first.
Arriving(queue) ==
    {i \in DOMAIN queue : FilesComplete /\ ("reorder" \in Faults \/ i = 1)}

\* A key datagram is taken up at any time, or only with the disk idle.
OnKeyDatagram ==
    /\ SlowDisk \/ C!DiskIdle
    /\ \E i \in Arriving(keyAir) :
          /\ C!OnKeyId(keyAir[i]) \/ C!OnCipher(keyAir[i])
          /\ keyAir' = RemoveAt(keyAir, i)
    /\ UNCHANGED <<broadcasterVars, listening, videoAir, losses>>

OnVideoDatagram ==
    /\ \E i \in Arriving(videoAir) :
          /\ C!OnVideo(videoAir[i])
          /\ videoAir' = RemoveAt(videoAir, i)
    /\ UNCHANGED <<broadcasterVars, listening, keyAir, losses>>

\* A datagram is lost where it would have arrived.
Lose ==
    /\ losses < MaxLosses
    /\ losses' = losses + 1
    /\ \/ \E i \in Arriving(keyAir) :
             keyAir' = RemoveAt(keyAir, i) /\ UNCHANGED videoAir
       \/ \E i \in Arriving(videoAir) :
             videoAir' = RemoveAt(videoAir, i) /\ UNCHANGED keyAir
    /\ UNCHANGED <<broadcasterVars, clientVars, listening>>

DiskStep == C!DiskStep /\ UNCHANGED <<broadcasterVars, listening, air>>

\* A viewer that was not there from the start binds its sockets.
Join ==
    /\ ~listening
    /\ listening' = TRUE
    /\ UNCHANGED <<broadcasterVars, clientVars, air>>

Next ==
    \/ Tick \/ OnBound \/ OnVideoMessage \/ OnRevokeReply \/ BroadcasterRestart
    \/ OnKeyDatagram \/ OnVideoDatagram \/ Lose \/ DiskStep \/ Join

Spec == Init /\ [][Next]_vars

(***************************************************************************)
(* ffmpeg's "native" input keeps the video packets coming, the clock and   *)
(* the disks go on, and what is under way arrives (or is lost).  The clock *)
(* needs strong fairness: it waits for queues that fill again and again.   *)
(***************************************************************************)
FairSpec ==
    /\ Spec
    /\ SF_vars(Tick)
    /\ WF_vars(OnBound)
    /\ WF_vars(OnVideoMessage)
    /\ WF_vars(OnRevokeReply)
    /\ WF_vars(OnKeyDatagram)
    /\ WF_vars(OnVideoDatagram)
    /\ WF_vars(DiskStep)
    /\ WF_vars(Join)

-----------------------------------------------------------------------------
(* Properties *)

\* The types of both ends' variables and of the network's queues.
TypeOK ==
    /\ B!TypeOK
    /\ C!TypeOK
    /\ listening \in BOOLEAN
    /\ \A i \in DOMAIN keyAir :
          keyAir[i] \in Ciphers \cup [type : {"id"}, id : KeyIds]
    /\ \A i \in DOMAIN videoAir :
          videoAir[i] \in [type : {"video"}, id : KeyIds, key : AesKeys]

(***************************************************************************)
(* README: "if the client has the AES key, they decrypt the payload of the *)
(* packet": a packet is never decrypted under another key than the one it  *)
(* was encrypted with, for an id is all the two ends compare.              *)
(***************************************************************************)
RightKey == played.type = "played" => played.key = played.encryptedWith

\* The viewer's event loop never searches its ring for an id that is not there.
NeverHung == ~hung

(***************************************************************************)
(* README: the client "decrypts the key and saves it in the list of keys": *)
(* a key that is in use or newest stands under its own id, if anywhere.    *)
(***************************************************************************)
SavedUnderItsId ==
    \A id \in KeyIds :
        /\ slots[id] = keysList.key => id = keysList.id
        /\ slots[id] = aesKey => id = aesSeq

(***************************************************************************)
(* README, of the new key's delay: "This is in order to avoid a situation  *)
(* where a user is not able to play a video because it is missing the      *)
(* relevant key."  A viewer that has the newest key keeps it as long as it *)
(* is the newest.                                                          *)
(***************************************************************************)
KeptUntilUsed ==
    [][slots[keysList.id] = keysList.key /\ keysList' = keysList =>
          slots'[keysList.id] = keysList.key]_vars

(***************************************************************************)
(* The same promise from the screen: a viewer whose video has started goes *)
(* on playing every packet it receives, through every change of key.       *)
(***************************************************************************)
NoBlackout == [][played.type = "played" => played'.type = "played"]_vars

\* A viewer plays again and again, whenever it joined.
PlaysAgainAndAgain == []<>(played.type = "played")

\* Once the broadcaster no longer restarts (no more datagrams than MaxLosses are
\* lost); a restart that met a truncated revocation file has failed and does not
\* count.
Undisturbed == <>[][~BroadcasterRestart]_vars /\ []<>(phase = "playing")

(***************************************************************************)
(* Both ends compare nothing but ids modulo the ring, yet the emptying of  *)
(* nodes heals them: when the losses and restarts stop, the viewer plays   *)
(* again and again, and from some point on under the right keys only.      *)
(***************************************************************************)
Heals == Undisturbed => PlaysAgainAndAgain /\ <>[]RightKey

=============================================================================
