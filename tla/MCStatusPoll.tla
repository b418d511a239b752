---------------------------- MODULE MCStatusPoll ----------------------------
(* A small instance of StatusPoll for TLC. *)
EXTENDS StatusPoll

CONSTANTS s1, s2

TwoSettings == {s1, s2}
=============================================================================
