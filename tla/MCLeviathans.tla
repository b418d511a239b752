---------------------------- MODULE MCLeviathans ----------------------------
(* A small instance of Leviathans for TLC. *)
EXTENDS Leviathans, TLC

CONSTANTS reef, cave

\* Either volume will do.
MCCarries == [s \in Volumes |-> PreyTags]
=============================================================================
