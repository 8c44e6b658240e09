----------------------------- MODULE MCKeyManager -----------------------------
(***************************************************************************)
(* TLC instances of KeyManager.  The texts are "0", "05" and so on, and    *)
(* Number is what atoi makes of them.                                      *)
(***************************************************************************)
EXTENDS KeyManager

\* One text per user, none of them the root's number.
MCIds == {"5", "7"}

MCNumber ==
    [id \in Ids \cup {Root} |->
        CASE id = "0" -> 0 [] id \in {"5", "05"} -> 5 [] id = "7" -> 7 [] id = "9" -> 9]

=============================================================================
