---------------------------- MODULE MCPublishing ----------------------------
(* A small instance of Publishing for TLC. *)
EXTENDS Publishing
=============================================================================
