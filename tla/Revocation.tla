------------------------------ MODULE Revocation ------------------------------
(***************************************************************************)
(* How a provider's revocations reach the ciphers broadcast for its users: *)
(* the key managers' lists of one channel (RevokeList), edited through     *)
(* /revo and /unrevoke at any time, and a broadcaster (Broadcaster) that   *)
(* fetches them after every change of key.  Here every server answers,     *)
(* and the broadcaster runs on.                                            *)
(***************************************************************************)
EXTENDS RevokeList, Integers

CONSTANTS
    NUM_OF_AES_KEYS, NoKey, CHANGE_KEY_INTERVAL, SEND_KEY_INTERVAL,
    FULL_ENCRYPTION, NumProviders, AesKeys, UserIds, NoFile, ErrorPage, PageIsArgument,
    InitialFiles, ServerReplies, MaxFetches

VARIABLES
    phase, keysList, aesKey, aesSeq, lastKeyIdSent, sinceChange, sinceSend,
    revokeFile, fetches, outbox,
    lists       \* per provider, its key manager's list

B == INSTANCE Broadcaster

broadcasterVars == <<phase, keysList, aesKey, aesSeq, lastKeyIdSent, sinceChange,
                     sinceSend, revokeFile, fetches, outbox>>
vars == <<broadcasterVars, lists>>

Users == UserIds \ {Root}

\* The channel is initialized at every provider.
Init == B!Init /\ lists = [p \in B!Providers |-> InitialList]

RevokeUser(p, u) ==
    /\ ~InTail(lists[p], u)
    /\ lists' = [lists EXCEPT ![p] = Revoked(@, u)]
    /\ UNCHANGED broadcasterVars

UnrevokeUser(p, u) ==
    /\ InTail(lists[p], u)
    /\ lists' = [lists EXCEPT ![p] = Unrevoked(@, u)]
    /\ UNCHANGED broadcasterVars

Operate ==
    \E p \in B!Providers, u \in Users : RevokeUser(p, u) \/ UnrevokeUser(p, u)

\* A file is written within a tick, and every tick sees a video packet through.
Tick ==
    /\ \A i \in DOMAIN fetches : fetches[i].stage # "opened"
    /\ phase = "playing" => outbox.video # B!Silence
    /\ B!Tick
    /\ UNCHANGED lists

OnBound == B!OnBound /\ UNCHANGED lists

NewKey == CHOOSE k \in AesKeys : k \notin {keysList.key, aesKey}

OnVideoMessage ==
    /\ B!ChangeKey(NewKey) \/ B!ResendKey \/ B!OnlyVideo
    /\ UNCHANGED lists

\* The answer is the list of the provider that was asked.
OnReply(i) ==
    /\ \/ /\ B!OnRevokeData(i)
          /\ fetches'[i].data = lists[fetches[i].from]
       \/ B!OnRevokeWritten(i)
    /\ UNCHANGED lists

Next ==
    \/ Operate \/ Tick \/ OnBound \/ OnVideoMessage
    \/ \E i \in DOMAIN fetches : OnReply(i)

\* The clock goes on, video packets keep coming, and the oldest request is
\* answered and its answer written.
OldestReply == fetches # <<>> /\ OnReply(1)

Spec ==
    /\ Init
    /\ [][Next]_vars
    /\ SF_vars(Tick)
    /\ WF_vars(OnBound)
    /\ SF_vars(OnVideoMessage)
    /\ WF_vars(OldestReply)

-----------------------------------------------------------------------------
(* Properties *)

\* The ciphers of the last step for provider p list exactly the users of list.
CiphersList(p, list) ==
    \A i \in DOMAIN outbox.key[p] :
        outbox.key[p][i].type = "cipher" =>
            ToSet(outbox.key[p][i].revoked) = ToSet(list)

(***************************************************************************)
(* README:29: "The key manager updates the revocation data accordingly.    *)
(* The new data will subsequently be provided to broadcaster upon the      *)
(* their request."  Once a provider's list no longer changes, the ciphers  *)
(* for its users come to list exactly the users on it.                     *)
(***************************************************************************)
RevocationsReachCiphers ==
    \A p \in B!Providers : \A list \in ServerReplies :
        <>[](lists[p] = list) => <>[]CiphersList(p, list)

(***************************************************************************)
(* What makes the former no empty promise: ciphers for every provider's    *)
(* users go on being sent, in spite of the truncated files that make an    *)
(* announcement fail.                                                      *)
(***************************************************************************)
CiphersGoOn == \A p \in B!Providers : []<>(outbox.key[p] # <<>>)

=============================================================================
