------------------------------ MODULE MCSecrets ------------------------------
(***************************************************************************)
(* Two agents against one; the terminals tick first, then the teams.         *)
(***************************************************************************)
EXTENDS Secrets, TLC

CONSTANTS a1, a2, b1, red, blue, t1, t2

Sides == [p \in Players |-> IF p = b1 THEN blue ELSE red]

TeamOrder ==
    ("terminals" :> red) @@ (red :> blue) @@ (blue :> "inputs") @@ ("inputs" :> "terminals")

(* Team-mates are alike, and so are terminals.                              *)
Alike == Permutations({a1, a2}) \cup Permutations({t1, t2})
=============================================================================
