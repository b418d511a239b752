------------------------------ MODULE Election ------------------------------
(***************************************************************************)
(* What viewers are promised about a round, without clocks, pauses, menus  *)
(* or event picks: contests are held one after the other; while one is     *)
(* open every voter may cast one ballot for an option on the slate; it is  *)
(* decided once, for an option nobody outvoted, and then nothing about it  *)
(* changes until the next contest opens with an empty box.                 *)
(***************************************************************************)
EXTENDS Tally

CONSTANT Voters

VARIABLES
    stage,      \* "closed" before the first contest, then "open" / "decided"
    contest,    \* number of the current contest
    slate,      \* how many options it has
    ballots,    \* Voters -> index or None
    elected     \* index of the option elected, or None

electionVars == <<stage, contest, slate, ballots, elected>>

Init ==
    /\ stage = "closed" /\ contest = 0 /\ slate = 0
    /\ ballots = NewRound(Voters)
    /\ elected = None

Open ==
    /\ stage \in {"closed", "decided"}
    /\ stage' = "open"
    /\ contest' = contest + 1
    /\ slate' \in Nat \ {0}
    /\ ballots' = NewRound(Voters)
    /\ elected' = None

Vote ==
    /\ stage = "open"
    /\ \E v \in Voters, i \in 0..slate-1 :
          /\ ballots[v] = None
          /\ ballots' = [ballots EXCEPT ![v] = i]
    /\ UNCHANGED <<stage, contest, slate, elected>>

Decide ==
    /\ stage = "open"
    /\ stage' = "decided"
    /\ elected' \in Leaders(Counts(ballots, slate))
    /\ UNCHANGED <<contest, slate, ballots>>

Next == Open \/ Vote \/ Decide

Spec == Init /\ [][Next]_electionVars
=============================================================================
