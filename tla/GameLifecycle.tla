---------------------------- MODULE GameLifecycle ----------------------------
(***************************************************************************)
(* What the lobby promises about a game, whatever its goroutines do: ids   *)
(* are handed out in increasing order, each for one game; a game waits for *)
(* its server, may become ready once, and once dropped is never heard of   *)
(* again.                                                                  *)
(***************************************************************************)
EXTENDS Integers

CONSTANT MaxGID

VARIABLE phase  \* "unused", "pending", "ready" or "gone", by game id

Ids == 1 .. MaxGID
Live == {g \in Ids : phase[g] \in {"pending", "ready"}}
Unused == {g \in Ids : phase[g] = "unused"}

Init == phase = [g \in Ids |-> "unused"]

After(g, p, dropped) ==
    [h \in Ids |-> IF h = g THEN p ELSE IF h \in dropped THEN "gone" ELSE phase[h]]

(* A new game takes the least unused id; its player's other games end.     *)
Request ==
    \E g \in Unused, dropped \in SUBSET Live :
        /\ \A h \in Unused : g <= h
        /\ phase' = After(g, "pending", dropped)

Ready == \E g \in Ids : phase[g] = "pending" /\ phase' = After(g, "ready", {})

(* Games end: their player left, the server exited or never started.       *)
End ==
    \E dropped \in SUBSET Live :
        phase' = [h \in Ids |-> IF h \in dropped THEN "gone" ELSE phase[h]]

Next == Request \/ Ready \/ End

Spec == Init /\ [][Next]_phase
=============================================================================
