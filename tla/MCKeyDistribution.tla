-------------------------- MODULE MCKeyDistribution --------------------------
(***************************************************************************)
(* TLC instances of KeyDistribution: initialized channels, a key manager   *)
(* that revokes nobody; an instance's Faults are a few at a time.          *)
(***************************************************************************)
EXTENDS KeyDistribution

MCNobodyRevoked == {<<0>>}

=============================================================================
