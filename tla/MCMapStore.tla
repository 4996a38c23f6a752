------------------------------ MODULE MCMapStore ------------------------------
(***************************************************************************)
(* Two names, one of them uploaded in two spellings, and two maps.          *)
(***************************************************************************)
EXTENDS MapStore, TLC

CONSTANTS lower, upper, other, k1, k2, s1, s2

TwoSpellings == lower :> k1 @@ upper :> k1 @@ other :> k2
Contents == {s1, s2}
Symmetry == Permutations(Contents)
=============================================================================
