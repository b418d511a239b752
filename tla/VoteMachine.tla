---------------------------- MODULE VoteMachine ----------------------------
(***************************************************************************)
(* The vote machine of the sidecar: Machine and Run in                     *)
(* vote-engine/internal/vote/machine.go.                                   *)
(*                                                                         *)
(* One goroutine owns the machine.  It publishes one Advance, then loops   *)
(* on a select over chat votes, active-state changes, menu settings and    *)
(* the ticker; each of the four is an action below.                        *)
(*                                                                         *)
(* Time is relative to the last Advance (m.lastAdvance).  `lag` is the     *)
(* time passed since, phaseEnds and applyAt are the distances of those     *)
(* instants from lastAdvance: pushing a deadline by the time spent paused  *)
(* leaves the distance alone, letting time pass shrinks it by lag.         *)
(***************************************************************************)
EXTENDS Tally, Picker

CONSTANTS
    Voters,           \* platform + user id of the viewers
    Tokens,           \* the values the per-run nonce token may take
    InitialConfigs,   \* what main hands to NewMachine
    Reconfigs,        \* what the in-game menu may send
    Numbers,          \* the leading numbers of chat messages
    MaxRound,         \* bound: rounds one run may start
    MaxLag            \* bound: time between two ticks

ConfigType == [OptionsPerRound : Int, VoteDuration : Int, Cooldown : Int,
               ApplyHold : Int, AnnounceLead : Nat,
               AvoidImmediateRepeat : BOOLEAN]

ReconfigType == [VoteDuration : Int, Cooldown : Int, HasCooldown : BOOLEAN,
                 Options : Int]

\* AnnounceLead >= 0 is checked by config.Validate.
ASSUME MachineAssumption ==
    /\ IsFiniteSet(Voters)
    /\ None \notin [Index : Nat \ {0}, ID : Events]
    /\ None \notin [token : Tokens, round : Nat]
    /\ InitialConfigs \subseteq ConfigType
    /\ Reconfigs \subseteq ReconfigType
    /\ Numbers \subseteq Nat
    /\ MaxRound \in Nat /\ MaxLag \in Nat

VARIABLES
    cfg,          \* the tunables; Reconfigure changes three of them
    token,        \* drawn once by NewMachine
    phase,
    round,
    phaseEnds,    \* distance of the phase's deadline from the last Advance
    lag,          \* time since the last Advance
    votes,        \* the ballot box of the current round (m.cur)
    winner,       \* [Index, ID], or None
    winnerNonce,  \* [token, round], or None
    applyAt,      \* distance of the execution instant, or None
    active        \* FALSE while gameplay is suspended

machineVars == <<cfg, token, phase, round, phaseEnds, votes, winner,
                 winnerNonce, applyAt, active>>
vars == <<machineVars, lag, pickerVars>>

Phases == {"idle", "voting", "apply", "cooldown"}

\* Types of the machine's state; distances of live deadlines are positive.
TypeOK ==
    /\ PickerTypeOK
    /\ cfg \in ConfigType
    /\ cfg.OptionsPerRound > 0 /\ cfg.VoteDuration > 0 /\ cfg.ApplyHold > 0
    /\ token \in Tokens
    /\ phase \in Phases
    /\ round \in Nat
    /\ phaseEnds \in Nat
    /\ lag \in Nat
    /\ votes \in [Voters -> Nat \cup {None}]
    /\ winner \in [Index : Nat \ {0}, ID : Events] \cup {None}
    /\ winnerNonce \in [token : Tokens, round : Nat] \cup {None}
    /\ applyAt \in Int \cup {None}
    /\ active \in BOOLEAN

(***************************************************************************)
(* NewMachine.                                                             *)
(***************************************************************************)
OrDefault(x, default) == IF x <= 0 THEN default ELSE x

WithDefaults(c) ==
    [c EXCEPT !.OptionsPerRound = OrDefault(@, 4),
              !.VoteDuration    = OrDefault(@, 30),
              !.ApplyHold       = OrDefault(@, 3)]

Init ==
    /\ \E c \in InitialConfigs : cfg = WithDefaults(c)
    /\ token \in Tokens
    /\ NewPicker
    /\ phase = "idle" /\ round = 0 /\ phaseEnds = 0 /\ lag = 0
    /\ votes = NewRound(Voters)
    /\ winner = None /\ winnerNonce = None /\ applyAt = None
    /\ active = TRUE

(***************************************************************************)
(* Helpers of Advance.                                                     *)
(***************************************************************************)
\* Mutant: the deadline is met a second early.
DueEarly == phaseEnds <= lag + 1

Due == phaseEnds <= lag               \* !now.Before(m.phaseEnds)

\* Mutants: a pause is charged in full; no interval is ever charged.
ChargedPaused == lag
ChargedNever == 0

\* How much closer to their instants this tick brings the deadlines.
Charged == IF active THEN lag ELSE 0

CloserApplyAt == IF applyAt = None THEN None ELSE applyAt - Charged

\* Mutant: the ballots of the last round stay in the box.
KeptBox == votes

NewBox == NewRound(Voters)

\* Mutant: the nonce survives into the next round.
ClearWinnerOnly == winner' = None /\ winnerNonce' = winnerNonce /\ applyAt' = None

ClearWinner == winner' = None /\ winnerNonce' = None /\ applyAt' = None

StartRound ==
    /\ round < MaxRound
    /\ round' = round + 1
    /\ Pick(cfg.OptionsPerRound, cfg.AvoidImmediateRepeat, lag)
    /\ votes' = NewBox
    /\ ClearWinner
    /\ phase' = "voting"
    /\ phaseEnds' = cfg.VoteDuration

\* Mutant: the announcement is not counted in.
HoldOnly == cfg.ApplyHold

ApplyWindow == cfg.AnnounceLead + cfg.ApplyHold

ResolveRound ==
    /\ \E idx \in Resolve(Counts(votes, Len(options))) :
          winner' = IF idx < Len(options)
                      THEN [Index |-> idx + 1, ID |-> options[idx + 1]]
                      ELSE winner
    /\ winnerNonce' = [token |-> token, round |-> round]
    /\ phase' = "apply"
    /\ applyAt' = cfg.AnnounceLead
    /\ phaseEnds' = ApplyWindow

(***************************************************************************)
(* Advance, one action per way through it.  Every one ends with the tick's *)
(* instant as the new lastAdvance.                                         *)
(***************************************************************************)
Tick == lag > 0 /\ lag' = 0 /\ UNCHANGED <<cfg, token, active>>

\* Run publishes one Advance before it listens to any channel.
FirstAdvance ==
    /\ phase = "idle"
    /\ StartRound
    /\ lag' = 0
    /\ UNCHANGED <<cfg, token, active>>

\* Paused, or the deadline is still ahead: only time passes.
KeepPhase ==
    /\ phase # "idle" /\ (active => ~Due)
    /\ Tick
    /\ phaseEnds' = phaseEnds - Charged
    /\ applyAt' = CloserApplyAt
    /\ cooling' = Cooled(lag)
    /\ UNCHANGED <<phase, round, votes, winner, winnerNonce, options, prevRound>>

CloseVoting ==
    /\ phase = "voting" /\ active /\ Due
    /\ Tick
    /\ ResolveRound
    /\ cooling' = Cooled(lag)
    /\ UNCHANGED <<round, votes, options, prevRound>>

EndApply ==
    /\ phase = "apply" /\ active /\ Due
    /\ Tick
    /\ \/ /\ cfg.Cooldown > 0
          /\ phase' = "cooldown"
          /\ phaseEnds' = cfg.Cooldown
          /\ applyAt' = CloserApplyAt
          /\ cooling' = Cooled(lag)
          /\ UNCHANGED <<round, votes, winner, winnerNonce, options, prevRound>>
       \/ cfg.Cooldown <= 0 /\ StartRound

EndCooldown ==
    /\ phase = "cooldown" /\ active /\ Due
    /\ Tick
    /\ StartRound

Advance == KeepPhase \/ CloseVoting \/ EndApply \/ EndCooldown

(***************************************************************************)
(* The other branches of Run's select.                                     *)
(***************************************************************************)
Offer(v, number) ==
    /\ phase = "voting"
    /\ IsVote(number, Len(options))
    /\ votes' = Cast(votes, Len(options), v, number - 1)
    /\ UNCHANGED <<cfg, token, phase, round, phaseEnds, winner, winnerNonce,
                   applyAt, active, lag, pickerVars>>

SetActive(a) ==
    /\ active' = a
    /\ UNCHANGED <<cfg, token, phase, round, phaseEnds, votes, winner,
                   winnerNonce, applyAt, lag, pickerVars>>

Reconfigure(rc) ==
    /\ cfg' = [cfg EXCEPT
          !.VoteDuration    = IF rc.VoteDuration > 0 THEN rc.VoteDuration ELSE @,
          !.Cooldown        = IF rc.HasCooldown /\ rc.Cooldown >= 0
                                THEN rc.Cooldown ELSE @,
          !.OptionsPerRound = IF rc.Options \in 2..9 THEN rc.Options ELSE @]
    /\ UNCHANGED <<token, phase, round, phaseEnds, votes, winner, winnerNonce,
                   applyAt, active, lag, pickerVars>>

\* Time passes between two ticks.
Elapse ==
    /\ phase # "idle" /\ lag < MaxLag
    /\ lag' = lag + 1
    /\ UNCHANGED <<machineVars, pickerVars>>

Select ==
    /\ phase # "idle"
    /\ \/ \E v \in Voters, number \in Numbers : Offer(v, number)
       \/ \E a \in BOOLEAN : SetActive(a)
       \/ \E rc \in Reconfigs : Reconfigure(rc)

Next == FirstAdvance \/ Advance \/ Select \/ Elapse

Spec == Init /\ [][Next]_vars

\* The ticker keeps firing and time keeps passing; chat, the poller and the
\* menu owe nothing.
Fairness == WF_vars(FirstAdvance) /\ WF_vars(Advance) /\ WF_vars(Elapse)

FairSpec == Spec /\ Fairness

(***************************************************************************)
(* What Advance publishes (snapshot).                                      *)
(***************************************************************************)
Snapshot ==
    [ Round |-> round, Phase |-> phase, Options |-> options,
      Tallies |-> Counts(votes, Len(options)), TotalVotes |-> Total(votes),
      SecondsRemaining |-> phaseEnds, VoteDurationSeconds |-> cfg.VoteDuration,
      Winner |-> winner, WinnerNonce |-> winnerNonce,
      ApplyAt |-> applyAt, AnnounceLeadSeconds |-> cfg.AnnounceLead ]

-----------------------------------------------------------------------------
Decided == phase \in {"apply", "cooldown"}

\* Every ballot names an option of the round it was cast in, also when the menu
\* changes the number of options in the middle of that round.
BallotsFitOptions ==
    \A v \in Voters : votes[v] # None => votes[v] \in 0..Len(options)-1

\* As long as a winner is published, it is one of the options on show and no
\* option on show has more votes: nothing cast after the close moves a tally.
WinnerLeadsPublishedTally ==
    Decided =>
      /\ winner # None
      /\ winner.Index \in DOMAIN options /\ winner.ID = options[winner.Index]
      /\ (winner.Index - 1) \in Leaders(Counts(votes, Len(options)))

\* The nonce is published exactly with its winner and names the round that
\* decided it: the mod, which remembers only the last nonce, sees a new one for
\* each decision and none in between.
NonceNamesDecision ==
    /\ Decided <=> winnerNonce # None
    /\ Decided <=> applyAt # None
    /\ Decided => winnerNonce = [token |-> token, round |-> round]

\* Until the round is over the winner stays published for ApplyHold after the
\* instant it is due to execute, whatever pauses fell into the announcement.
HoldOutlastsLead ==
    phase = "apply" => phaseEnds = applyAt + cfg.ApplyHold

\* A ballot, once cast, stands to the end of its round, and none is added once
\* the round is decided.
BallotsStand ==
    [][round' = round =>
         /\ \A v \in Voters : votes[v] # None => votes'[v] = votes[v]
         /\ Decided => votes' = votes]_vars

\* A paused machine decides nothing, starts nothing and loses no time.
PauseFreezes ==
    [][~active => UNCHANGED <<phase, round, phaseEnds, applyAt, winner,
                              winnerNonce, options>>]_vars

\* The machine holds fair elections: an Election whose clock it keeps.
Poll == INSTANCE Election WITH
    stage   <- CASE phase = "idle" -> "closed"
                 [] phase = "voting" -> "open"
                 [] OTHER -> "decided",
    contest <- round,
    slate   <- Len(options),
    ballots <- votes,
    elected <- IF winner = None THEN None ELSE winner.Index - 1

\* Clocks, pauses and the menu never show: each step is a step of the election.
ImplementsElection == Poll!Spec

\* If gameplay stays active from some point on, round after round is held and
\* decided, up to the bound.
RoundsAreDecided ==
    <>[]active => \A r \in 1..MaxRound : <>(round = r /\ phase = "apply")
=============================================================================
