------------------------------ MODULE MCUpdater -------------------------------
(***************************************************************************)
(* Two releases, and room for two client processes: a parent that is slow   *)
(* to end beside its successor, or a client opened while stage 2 runs.      *)
(***************************************************************************)
EXTENDS Updater, TLC

CONSTANTS c1, c2

TwoClients == {c1, c2}
Symmetry == Permutations(TwoClients)
=============================================================================
