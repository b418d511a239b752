----------------------------- MODULE Countdown -----------------------------
(***************************************************************************)
(* How well the machine's countdown follows the time that was really       *)
(* played.  The machine looks at `active` only when it ticks and then      *)
(* charges, or forgives, the whole interval since the last tick            *)
(* (machine.go, Advance); history variables keep the true account of the   *)
(* current phase.                                                          *)
(***************************************************************************)
EXTENDS VoteMachine

CONSTANT MaxToggles    \* bound: pauses and resumes in one phase

ASSUME CountdownAssumption == MaxToggles \in Nat

VARIABLES
    window,     \* history: the length the phase was given when it began
    played,     \* history: time of the phase during which active was TRUE
    open,       \* history: time of the phase, paused or not, up to its window
    resumes,    \* history: resumes that fell into the phase
    suspends    \* history: suspensions that fell into the phase

history == <<window, played, open, resumes, suspends>>
countdownVars == <<vars, history>>

CountdownInit ==
    /\ Init
    /\ window = 0 /\ played = 0 /\ open = 0 /\ resumes = 0 /\ suspends = 0

NewPhase == phase' # phase \/ round' # round

Follow ==
    IF NewPhase
      THEN /\ window' = phaseEnds'
           /\ played' = 0 /\ open' = 0 /\ resumes' = 0 /\ suspends' = 0
      ELSE UNCHANGED history

\* More than the countdown can be off; told apart no further than that.
MaxPlayed == window + MaxLag * (MaxToggles + 2)

TimePasses ==
    /\ Elapse
    /\ open' = IF open < window THEN open + 1 ELSE open
    /\ played' = IF active /\ played < MaxPlayed THEN played + 1 ELSE played
    /\ UNCHANGED <<window, resumes, suspends>>

Toggle ==
    /\ phase # "idle" /\ resumes + suspends < MaxToggles
    /\ SetActive(~active)
    /\ resumes' = resumes + (IF active THEN 0 ELSE 1)
    /\ suspends' = suspends + (IF active THEN 1 ELSE 0)
    /\ UNCHANGED <<window, played, open>>

Menu ==
    /\ phase # "idle"
    /\ \E rc \in Reconfigs : Reconfigure(rc)
    /\ UNCHANGED history

Ballot ==
    /\ phase # "idle"
    /\ \E v \in Voters, number \in Numbers : Offer(v, number)
    /\ UNCHANGED history

CountdownNext ==
    \/ (FirstAdvance \/ Advance) /\ Follow
    \/ TimePasses \/ Toggle \/ Menu \/ Ballot

CountdownSpec == CountdownInit /\ [][CountdownNext]_countdownVars

\* The fairness of VoteMachine, over these actions.
FairCountdown ==
    /\ CountdownSpec
    /\ WF_countdownVars(FirstAdvance /\ Follow)
    /\ WF_countdownVars(Advance /\ Follow)
    /\ WF_countdownVars(TimePasses)

-----------------------------------------------------------------------------
Counted == window - phaseEnds      \* what the ticks took off the countdown

\* The countdown is off the time really played by less than one tick interval
\* for every resume (too fast) or suspension (too slow) since the phase began.
CountdownFollowsPlay ==
    phase # "idle" =>
      /\ Counted <= played + MaxLag * resumes
      /\ played <= Counted + lag + MaxLag * suspends

\* A phase never ends before the time it was given when it began has passed,
\* whatever the menu changed and however often play was suspended meanwhile.
PhasesGetTheirTime ==
    [][phase # "idle" /\ NewPhase => open >= window]_countdownVars
=============================================================================
