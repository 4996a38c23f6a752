----------------------------- MODULE MCSnapshots -----------------------------
(***************************************************************************)
(* Rings of three snapshots and an object with two values.                  *)
(***************************************************************************)
EXTENDS Snapshots, TLC

Symmetry == Permutations(Values)
=============================================================================
