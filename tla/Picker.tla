------------------------------- MODULE Picker -------------------------------
(***************************************************************************)
(* Choosing a round's options from the event catalog: Picker in            *)
(* vote-engine/internal/catalog/catalog.go.                                *)
(*                                                                         *)
(* Time is relative.  Instead of the instant lastChosen[e] the model keeps *)
(* cooling[e], what is left of e's cooldown at the machine's last tick, so *)
(* that now - lastChosen[e] < CooldownSeconds[e] reads cooling[e] > 0.     *)
(***************************************************************************)
EXTENDS Integers, FiniteSets, Sequences, Functions

CONSTANTS
    Events,           \* the catalog's event ids
    CooldownSeconds   \* event -> seconds it should stay away once offered

\* catalog.Parse rejects an empty catalog and duplicate ids.
ASSUME EventsAssumption ==
    /\ Events # {}
    /\ IsFiniteSet(Events)
    /\ CooldownSeconds \in [Events -> Int]

VARIABLES
    options,      \* what the last Pick returned, in ballot order (m.options)
    prevRound,    \* the set of events of that round
    cooling       \* event -> seconds left of its cooldown

pickerVars == <<options, prevRound, cooling>>

PickerTypeOK ==
    /\ options \in Seq(Events)
    /\ prevRound \subseteq Events
    /\ cooling \in [Events -> Nat]

NewPicker ==
    /\ options = << >>
    /\ prevRound = {}
    /\ cooling = [e \in Events |-> 0]

\* The cooldowns after d more seconds.  They run in wall time, paused or not.
Cooled(d) == [e \in Events |-> IF cooling[e] > d THEN cooling[e] - d ELSE 0]

\* Mutant: the comparison drops the last second of a cooldown.
FilterEarly(avoidRepeat, left) ==
    {e \in Events : ~(avoidRepeat /\ e \in prevRound) /\ left[e] <= 1}

(***************************************************************************)
(* filter: the events off cooldown and, if asked, not in the last round.   *)
(***************************************************************************)
Filter(avoidRepeat, left) ==
    {e \in Events : ~(avoidRepeat /\ e \in prevRound) /\ left[e] = 0}

(***************************************************************************)
(* The pool Pick samples from: relax the repeat guard, then the cooldowns. *)
(***************************************************************************)
Eligible(n, avoidRepeat, left) ==
    LET fresh == Filter(avoidRepeat, left)
        ready == Filter(FALSE, left)
    IN  IF Cardinality(fresh) >= n THEN fresh
        ELSE IF Cardinality(ready) >= n THEN ready
        ELSE Events

Capped(n, pool) == IF n > Cardinality(pool) THEN Cardinality(pool) ELSE n

\* weightedSampleNoReplace: every weight is positive, so any order may come out.
Sample(pool, n) == Injection(1..Capped(n, pool), pool)

\* Mutant: the set of the previous round is extended, not rebuilt.
RecordAll(chosen, left) ==
    /\ prevRound' = prevRound \cup Range(chosen)
    /\ cooling' = [e \in Events |->
          IF e \in Range(chosen) /\ CooldownSeconds[e] > 0
            THEN CooldownSeconds[e] ELSE left[e]]

Record(chosen, left) ==
    /\ prevRound' = Range(chosen)
    /\ cooling' = [e \in Events |->
          IF e \in Range(chosen) /\ CooldownSeconds[e] > 0
            THEN CooldownSeconds[e] ELSE left[e]]

(***************************************************************************)
(* Pick, d seconds after the last tick.                                    *)
(***************************************************************************)
Pick(n, avoidRepeat, d) ==
    LET left == Cooled(d)
        size == Capped(n, Events)
    IN  \E chosen \in Sample(Eligible(size, avoidRepeat, left), size) :
            /\ options' = chosen
            /\ Record(chosen, left)
=============================================================================
