----------------------------- MODULE MCPickLog -----------------------------
(* A small instance of PickLog for TLC. *)
EXTENDS PickLog, TLC

CONSTANTS e1, e2, e3

Three == {e1, e2, e3}
Seconds == (e1 :> 2) @@ (e2 :> 0) @@ (e3 :> 4)
=============================================================================
