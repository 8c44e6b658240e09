----------------------------- MODULE MCRevocation -----------------------------
(***************************************************************************)
(* TLC instances of Revocation: the root 0 and the user 5.                 *)
(***************************************************************************)
EXTENDS Revocation

MCInitialFiles == {<<0>>}

\* Every list without repetitions.
MCServerReplies ==
    {<<0>> \o s : s \in {t \in SeqOf(Users, 2) : IsInjective(t)}}

=============================================================================
