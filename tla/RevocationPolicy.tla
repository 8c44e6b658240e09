--------------------------- MODULE RevocationPolicy ---------------------------
(***************************************************************************)
(* What a key manager promises of revocation, seen by its operator: per    *)
(* channel a set of users, to which one user at a time is added or taken   *)
(* away, and which is emptied when the channel is initialized or when the  *)
(* program is killed before it has written the list back.                  *)
(***************************************************************************)
CONSTANTS Channels, Users

VARIABLE revoked

Init == revoked = [ch \in Channels |-> {}]

RevokeUser(ch, u) == revoked' = [revoked EXCEPT ![ch] = @ \cup {u}]

UnrevokeUser(ch, u) == revoked' = [revoked EXCEPT ![ch] = @ \ {u}]

Forget(ch) == revoked' = [revoked EXCEPT ![ch] = {}]

Next ==
    \E ch \in Channels :
        \/ \E u \in Users : RevokeUser(ch, u) \/ UnrevokeUser(ch, u)
        \/ Forget(ch)

Spec == Init /\ [][Next]_revoked

=============================================================================
