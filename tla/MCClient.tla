------------------------------ MODULE MCClient ------------------------------
(***************************************************************************)
(* TLC instances of Client on a network that brings any datagram in any    *)
(* order: key b is granted, key c comes only in ciphers that list user 5,  *)
(* the viewer, after another user.                                         *)
(***************************************************************************)
EXTENDS Client

CONSTANTS b, c

MCCiphers ==
    {[type |-> "cipher", key |-> b, revoked |-> <<0, 7>>],
     [type |-> "cipher", key |-> c, revoked |-> <<0, 7, 5>>]}

=============================================================================
