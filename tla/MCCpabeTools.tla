---------------------------- MODULE MCCpabeTools ----------------------------
(***************************************************************************)
(* A TLC instance of CpabeTools.  What bswabe_dec divides the message by   *)
(* is linear in each draw, and no product in it takes more than three of   *)
(* the draws of cpabe-setup, one of -keygen and one of -enc.  So it is     *)
(* constant for all draws if it is for draws of 1 with up to as many 0s.   *)
(***************************************************************************)
EXTENDS CpabeTools

MCDraws(names) ==
    {[x \in names |-> IF x \in zeros THEN 0 ELSE 1] :
        zeros \in UNION {kSubset(k, names) : k \in 0 .. IF "beta" \in names THEN 3 ELSE 1}}

\* The user is listed first, last or not at all; the last piece is the empty one.
MCLists == {<<0, 0>>, <<0, 3, 0>>, <<0, 5, 3, 0>>}

MCTexts == {<<102, 48>>, <<0, 255>>}

=============================================================================
