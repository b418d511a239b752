------------------------------ MODULE Delivery ------------------------------
(***************************************************************************)
(* The sidecar and the mod with the two files between them: the machine of *)
(* VoteMachine publishes into chaos_state.json, the loop of ChaosMod reads *)
(* it and reports into chaos_status.json, and pollStatus (main.go) turns   *)
(* the report into the machine's activity.  Either side may stop, and      *)
(* start again, at any moment; the files stay.                             *)
(*                                                                         *)
(* Chat and menu are left out: an empty ballot box is decided at random.   *)
(* What StatusPoll and Publishing show of the two hand-overs is used here: *)
(* a poll reaches the machine, and the file holds a whole state.           *)
(***************************************************************************)
EXTENDS ChaosMod

CONSTANTS
    CooldownSeconds, Voters, Tokens, InitialConfigs, Reconfigs, Numbers,
    MaxRound, MaxLag,      \* as in VoteMachine
    Seeded,       \* vote.seed is set: every run of the sidecar draws one token
    StaleAfter,   \* statusStaleAfter
    MaxPoll       \* bound: time between two polls of the status

VARIABLES
    cfg, token, phase, round, phaseEnds, lag, votes, winner, winnerNonce,
    applyAt, active, options, prevRound, cooling,   \* of the machine
    running,      \* the game, with the mod in it, is running
    sincePoll,    \* time since pollStatus last looked
    past          \* history: the nonces that have been in the file

Sidecar == INSTANCE VoteMachine

sidecarVars == <<cfg, token, phase, round, phaseEnds, lag, votes, winner,
                 winnerNonce, applyAt, active, options, prevRound, cooling>>
linkVars == <<running, sincePoll, past>>
allVars == <<vars, sidecarVars, linkVars>>

\* Mutant: a nonce is the round's number alone.
NumberOfRound(nonce) == nonce.round

\* The number of a nonce.  A run of the sidecar has its own number for a token,
\* but with a seed every run draws the same one.
Number(nonce) ==
    nonce.round + (IF Seeded THEN 0 ELSE (nonce.token - 1) * MaxRound)

\* The document of the machine's state, as far as the mod reads it.
Document(win, nonce) ==
    IF nonce = None THEN None
    ELSE [winner |-> win.ID, nonce |-> Number(nonce), lead |-> cfg.AnnounceLead]

DeliveryInit ==
    /\ Init /\ Sidecar!Init /\ token = 1
    /\ running = TRUE /\ sincePoll = 0 /\ past = {}

(***************************************************************************)
(* The sidecar.                                                            *)
(***************************************************************************)
\* main.go's publish, after every Advance.
PublishDocument ==
    /\ published' = Document(winner', winnerNonce')
    /\ past' = past \cup (IF published' = None THEN {} ELSE {published'.nonce})
    /\ UNCHANGED <<winners, playerVars, dt, loopVars, effectVars, status, reloads,
                   historyVars, running, sincePoll>>

FirstAdvance == Sidecar!FirstAdvance /\ PublishDocument

Advance == Sidecar!Advance /\ PublishDocument

\* Mutant: a status as old as the limit is stale.
GamePlayedEarly ==
    status # None /\ age < StaleAfter /\ status.active /\ ~status.paused

\* Fresh and Active of status.go.
GamePlayed ==
    /\ status # None /\ age <= StaleAfter
    /\ status.active /\ ~status.paused

Poll ==
    /\ phase # "idle"
    /\ Sidecar!SetActive(GamePlayed)
    /\ sincePoll' = 0
    /\ UNCHANGED <<vars, running, past>>

\* It dies, and is started again; its goroutines start with FirstAdvance.
RestartSidecar ==
    /\ token < Cardinality(Tokens) /\ phase # "idle"
    /\ token' = token + 1
    /\ cfg' = cfg /\ options' = << >> /\ prevRound' = {}
    /\ cooling' = [e \in Events |-> 0]
    /\ phase' = "idle" /\ round' = 0 /\ phaseEnds' = 0 /\ lag' = 0
    /\ votes' = votes
    /\ winner' = None /\ winnerNonce' = None /\ applyAt' = None
    /\ active' = TRUE
    /\ sincePoll' = 0
    /\ UNCHANGED <<vars, running, past>>

(***************************************************************************)
(* The game.                                                               *)
(***************************************************************************)
ModTick ==
    /\ running
    /\ \E written \in WritesWork, works \in CheatsWork, quarters \in Scales :
          Tick(published, quarters, works, written)
    /\ UNCHANGED <<sidecarVars, linkVars>>

CloseGame ==
    /\ running /\ reloads < MaxReloads
    /\ running' = FALSE
    /\ UNCHANGED <<vars, sidecarVars, sincePoll, past>>

StartGame ==
    /\ ~running
    /\ RestartGame
    /\ running' = TRUE
    /\ UNCHANGED <<sidecarVars, sincePoll, past>>

ReloadMod ==
    /\ running /\ Reload
    /\ UNCHANGED <<sidecarVars, linkVars>>

Player ==
    /\ running
    /\ Settings \/ StartOrLeavePlay \/ Pause
    /\ UNCHANGED <<sidecarVars, linkVars>>

\* The bound MaxRound keeps the machine from its next round, not time from passing.
Exhausted == round = MaxRound /\ phase # "voting" /\ active /\ phaseEnds <= lag

(***************************************************************************)
(* Time, the same for both.  A sidecar that is down is an idle one, a game *)
(* that is closed only lets its files age.                                 *)
(***************************************************************************)
SidecarAges ==
    \/ /\ sincePoll < MaxPoll /\ sincePoll' = sincePoll + 1
       /\ \/ Sidecar!Elapse
          \/ Exhausted /\ UNCHANGED sidecarVars
    \/ /\ phase = "idle"
       /\ UNCHANGED <<sincePoll, sidecarVars>>

GameAges ==
    \/ running /\ Elapse
    \/ /\ ~running
       /\ age' = Capped(age, MaxAge)
       /\ UNCHANGED <<envVars, dt, loopVars, effectVars, status, reloads, runs,
                      refused, headsUp, resumes, owed, failed>>

TimePasses == SidecarAges /\ GameAges /\ UNCHANGED <<running, past>>

DeliveryNext ==
    \/ FirstAdvance \/ Advance \/ Poll \/ RestartSidecar
    \/ ModTick \/ CloseGame \/ StartGame \/ ReloadMod \/ Player
    \/ TimePasses

DeliverySpec == DeliveryInit /\ [][DeliveryNext]_allVars

\* A sidecar that is down is started again, and time does not stop: the bounds on
\* the intervals then keep every loop running.  Nobody has to play.
DeliveryFairness ==
    WF_allVars(FirstAdvance) /\ []<><<TimePasses>>_allVars

FairDelivery == DeliverySpec /\ DeliveryFairness

-----------------------------------------------------------------------------
Fate(n) ==
    IF runs[n] > 0 THEN "executed"
    ELSE IF n \in refused THEN "refused"
    ELSE IF pending # None /\ pending.nonce = n THEN "announced"
    ELSE IF published # None /\ published.nonce = n THEN "shown"
    ELSE "unknown"

\* A decision may be missed while the game is closed or has not ticked yet, when
\* the sidecar starts again, and if play was resumed during its announcement.
Kept == INSTANCE Promise WITH
    Decisions <- Nonces,
    fate      <- [n \in Nonces |-> Fate(n)],
    session   <- reloads,
    excuse    <- ~running \/ phase = "idle" \/ lastStatus = None
                   \/ resumes > 0

\* Whatever crashes, reloads, pauses or fails to be polled in time, the system
\* keeps the promise: a decision is put on show once, the game takes it in time,
\* and carries it out at most once a session and never after it was replaced.
ImplementsPromise == Kept!Spec

\* If the player keeps playing, the chat's last decision is carried out, or
\* turned down at a gate.
PlayersGetChaos ==
    <>[](running /\ playing /\ ~paused)
      => <>(\E n \in Nonces : /\ round = MaxRound
                              /\ n = (token - 1) * MaxRound + MaxRound
                              /\ Fate(n) \in {"executed", "refused"})

\* As machine.go says of the token: nonces are unique across restarts.
NoncesUnique ==
    [][ winnerNonce' # winnerNonce /\ winnerNonce' # None
          => Number(winnerNonce') \notin past ]_allVars
=============================================================================
