-------------------------------- MODULE Ages --------------------------------
(***************************************************************************)
(* Published states are told apart by their age only: 0 is the one         *)
(* published last, n the n-th before it, MaxAge any from there on.  Each   *)
(* state carries its ServerTime, so two of them are equal only if the      *)
(* clock stood still between their ticks; they then have the same age.     *)
(***************************************************************************)
EXTENDS Naturals

CONSTANTS
    None,     \* no state
    MaxAge    \* bound: older states are not told apart

ASSUME AgesAssumption == MaxAge \in Nat \ {0} /\ None \notin Nat

AgeOf == 0..MaxAge

\* What x is once another state has been published.
Older(x) == IF x \in AgeOf /\ x < MaxAge THEN x + 1 ELSE x
=============================================================================
