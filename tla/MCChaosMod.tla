----------------------------- MODULE MCChaosMod -----------------------------
(* Small instances of ChaosMod for TLC. *)
EXTENDS ChaosMod, TLC

MCCategory == [e \in Events |-> IF e = "god_mode" THEN "good" ELSE "chaos"]
MCBaseSeconds == [e \in Timed |-> IF e = "slomo_slow" THEN 1 ELSE 2]
AllGates == {Gates}
SomeGates == {Gates, Gates \ {"chaos"}}
=============================================================================
