---------------------------- MODULE MCProvisioning ----------------------------
(***************************************************************************)
(* A TLC instance of Provisioning with companies of configs.js: HOT and    *)
(* YES share a key manager, and the viewer is one of COLD's.               *)
(***************************************************************************)
EXTENDS Provisioning

CONSTANTS m13, m32

UserSymmetry == Permutations(Users)

MCAddressOf == [c \in Companies |-> IF c = "COLD" THEN m32 ELSE m13]

=============================================================================
