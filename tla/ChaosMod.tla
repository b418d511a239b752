------------------------------ MODULE ChaosMod ------------------------------
(***************************************************************************)
(* The chaos loop of the mod: decide and install of mod/Scripts/chaos.lua, *)
(* with what main.lua hands it (gates, pause and gameplay probes) and the  *)
(* bootstrap around it.                                                    *)
(*                                                                         *)
(* Every tick runs on the game thread, to its end.  Around it the sidecar  *)
(* replaces chaos_state.json, the player pauses, plays, turns gates on and *)
(* off and reloads the mod, and time passes.                               *)
(*                                                                         *)
(* Time is in the whole seconds of os.time() and relative: `dt` is the     *)
(* time since the last tick, the rest are distances at the last tick.      *)
(***************************************************************************)
EXTENDS Effects, FiniteSets

CONSTANTS
    Events,         \* the event ids the sidecar may publish
    Category,       \* event -> "good", "bad" or "chaos"
    Leviathans,     \* the events marked leviathan
    GateSettings,   \* the sets of gates the player may leave open
    Sliders,        \* positions of the vote sliders (vote_overrides)
    Leads,          \* announceLeadSeconds of the sidecar's runs
    Heartbeat,      \* status_heartbeat_s
    CheatsWork,     \* {TRUE}, or BOOLEAN if the cheat manager may be missing
    WritesWork,     \* {TRUE}, or BOOLEAN if writing the status may fail
    MaxWinners,     \* bound: winners published
    MaxReloads,     \* bound: reloads and restarts of the mod
    MaxDt,          \* bound: seconds between two ticks
    MaxResumes,     \* bound: where the history of resumes stops counting
    MaxFailed       \* bound: failing writes of the status in a row

Gates == {"master", "good", "bad", "chaos", "leviathans"}

ASSUME ChaosAssumption ==
    /\ Known \subseteq Events
    /\ Category \in [Events -> {"good", "bad", "chaos"}]
    /\ Leviathans \subseteq Events
    /\ GateSettings \subseteq SUBSET Gates
    /\ Leads \subseteq Nat
    /\ Heartbeat \in Nat \ {0}
    /\ CheatsWork \subseteq BOOLEAN /\ WritesWork \subseteq BOOLEAN
    /\ MaxWinners \in Nat /\ MaxReloads \in Nat /\ MaxDt \in Nat \ {0}
    /\ MaxResumes \in Nat /\ MaxFailed \in Nat
    /\ None \notin [winner : Events, nonce : Nat, lead : Nat]
    /\ None \notin [id : Events, nonce : Nat, left : Int]
    /\ None \notin [active : BOOLEAN, paused : BOOLEAN, nonce : Nat \cup {None},
                    sliders : Sliders]

VARIABLES
    published,    \* the winner in chaos_state.json with nonce and lead, or None
    winners,      \* how many the sidecar has published: nonces are 1, 2, ...
    gates,        \* the gates that are open
    playing,      \* gameplay_active()
    paused,       \* game_paused()
    sliders,      \* vote_overrides()
    dt,           \* seconds since the last tick, 0 before the first
    lastNonce,    \* last_nonce
    pending,      \* announced and not yet executed: id, seconds left (and the
                  \* nonce it came with, for the properties), or None
    lastStatus,   \* last_status, the signature last written, or None
    sinceWrite,   \* seconds from last_status_write to the last tick, or None
    status,       \* chaos_status.json, or None
    reloads,      \* reloads so far
    runs,         \* history: nonce -> how often it was executed this session
    refused,      \* history: nonces seen this session with their gate closed
    headsUp,      \* history: unpaused seconds the pending winner is still owed
    resumes,      \* history: how often it was unpaused since its announcement
    owed,         \* history: key -> seconds its effect is still owed
    age,          \* history: seconds since the status file was written
    failed        \* history: writes of the status that failed since

playerVars == <<gates, playing, paused, sliders>>
envVars == <<published, winners, playerVars>>
loopVars == <<lastNonce, pending, lastStatus, sinceWrite>>
effectVars == <<engine, buffs>>
historyVars == <<runs, refused, headsUp, resumes, owed, age, failed>>
vars == <<envVars, dt, loopVars, effectVars, status, reloads, historyVars>>

Nonces == 1..MaxWinners
StateType == [winner : Events, nonce : Nonces, lead : Nat]
PendingType == [id : Events, nonce : Nonces, left : Nat]
StatusType == [active : BOOLEAN, paused : BOOLEAN, nonce : Nonces \cup {None},
               sliders : Sliders]

TypeOK ==
    /\ EffectsTypeOK
    /\ published \in StateType \cup {None} /\ winners \in 0..MaxWinners
    /\ gates \in GateSettings /\ playing \in BOOLEAN /\ paused \in BOOLEAN
    /\ sliders \in Sliders
    /\ dt \in 0..MaxDt
    /\ lastNonce \in Nonces \cup {None}
    /\ pending \in PendingType \cup {None}
    /\ lastStatus \in StatusType \cup {None} /\ status \in StatusType \cup {None}
    /\ sinceWrite \in 0..Heartbeat-1 \cup {None}
    /\ reloads \in 0..MaxReloads
    /\ runs \in [Nonces -> Nat] /\ refused \subseteq Nonces
    /\ headsUp \in Nat /\ resumes \in 0..MaxResumes
    /\ owed \in [Keys -> Nat] /\ age \in Nat /\ failed \in 0..MaxFailed

Init ==
    /\ published = None /\ winners = 0
    /\ gates \in GateSettings /\ playing \in BOOLEAN /\ paused = FALSE
    /\ sliders \in Sliders
    /\ dt = 0 /\ lastNonce = None /\ pending = None
    /\ lastStatus = None /\ sinceWrite = None /\ status = None /\ reloads = 0
    /\ engine = AllNormal /\ buffs = NoBuffs
    /\ runs = [n \in Nonces |-> 0] /\ refused = {}
    /\ headsUp = 0 /\ resumes = 0
    /\ owed = [k \in Keys |-> 0] /\ age = 0 /\ failed = 0

(***************************************************************************)
(* decide: a nonce other than the last one seen is fresh, and is consumed  *)
(* whether or not the gates let its event through.  An event the catalog   *)
(* does not have counts as chaos.                                          *)
(***************************************************************************)
\* Mutant: a winner is taken as long as it is published.
FreshAlways(state) == state # None

Fresh(state) == state # None /\ state.nonce # lastNonce

Allowed(e) ==
    /\ "master" \in gates
    /\ (IF e \in Known THEN Category[e] ELSE "chaos") \in gates
    /\ e \in Known \cap Leviathans => "leviathans" \in gates

(***************************************************************************)
(* The pending winner of this tick, before it is looked at: a new one with *)
(* a heads-up replaces the old one; time counts only if not paused.  A new *)
(* one is pushed, while paused, by the interval before it was announced.   *)
(***************************************************************************)
Announced(state) == Fresh(state) /\ Allowed(state.winner) /\ state.lead > 0

\* now - last_tick; the first tick has no last one.
SinceTick == IF lastStatus = None THEN 0 ELSE dt

\* Mutant: time counts while paused.
CountedPaused == SinceTick

Counted == IF paused THEN 0 ELSE SinceTick

NowPending(state) ==
    IF Announced(state)
      THEN [id |-> state.winner, nonce |-> state.nonce,
            left |-> state.lead + (SinceTick - Counted)]
    ELSE IF pending = None THEN None
    ELSE [pending EXCEPT !.left = IF @ > Counted THEN @ - Counted ELSE 0]

\* Executed on sight; and executed because its lead is over.
Immediate(state) == Fresh(state) /\ Allowed(state.winner) /\ state.lead = 0

\* Mutant: what is pending is executed without a look at the clock and the pause.
DueAnyway(state) == NowPending(state) # None

Due(state) ==
    NowPending(state) # None /\ ~paused /\ NowPending(state).left = 0

\* The nonces executed by a tick.
Executed(state) ==
    {n \in Nonces : \/ Immediate(state) /\ n = state.nonce
                    \/ Due(state) /\ n = NowPending(state).nonce}

\* The handlers run, the one executed on sight first; then the timers.
EffectsOf(state, quarters, works) ==
    LET before == [engine |-> engine, buffs |-> Aged(buffs, SinceTick)]
        sight  == IF Immediate(state)
                    THEN Handle(before, state.winner, quarters, works) ELSE before
        held   == IF Due(state)
                    THEN Handle(sight, NowPending(state).id, quarters, works)
                    ELSE sight
    IN  BuffsTick(held, works)

\* The timed events of the catalog that a tick executes with key k, and the
\* one of them that ran last.
Users(state, k) ==
    {e \in Timed \cap Known :
        /\ BuffKey(e) = k
        /\ \/ Immediate(state) /\ e = state.winner
           \/ Due(state) /\ e = NowPending(state).id}

LastUser(state, k) ==
    IF Due(state) /\ NowPending(state).id \in Users(state, k)
      THEN NowPending(state).id ELSE state.winner

Signature ==
    [active |-> playing, paused |-> paused, nonce |-> lastNonce', sliders |-> sliders]

Since == IF sinceWrite = None THEN Heartbeat ELSE sinceWrite + SinceTick

\* Mutant: only changes are written.
WriteDueOnChange == Signature # lastStatus

WriteDue == Signature # lastStatus \/ Since >= Heartbeat

\* The end of the tick.  A failed write counts as done.
ReportStatus(written) ==
    IF WriteDue
      THEN /\ lastStatus' = Signature /\ sinceWrite' = 0
           /\ status' = IF written THEN Signature ELSE status
           /\ age' = IF written THEN 0 ELSE age
           /\ failed' = IF written THEN 0 ELSE failed + 1
      ELSE /\ sinceWrite' = Since
           /\ UNCHANGED <<lastStatus, status, age, failed>>

Tick(state, quarters, works, written) ==
    /\ lastNonce' = IF Fresh(state) THEN state.nonce ELSE lastNonce
    /\ pending' = IF Due(state) THEN None ELSE NowPending(state)
    /\ engine' = EffectsOf(state, quarters, works).engine
    /\ buffs' = EffectsOf(state, quarters, works).buffs
    /\ ReportStatus(written)
    /\ dt' = 0
    /\ runs' = [n \in Nonces |-> runs[n] + (IF n \in Executed(state) THEN 1 ELSE 0)]
    /\ refused' = IF Fresh(state) /\ ~Allowed(state.winner)
                    THEN refused \cup {state.nonce} ELSE refused
    /\ headsUp' = IF Announced(state) THEN state.lead
                  ELSE IF pending' = None THEN 0 ELSE headsUp
    /\ resumes' = IF Announced(state) \/ pending' = None THEN 0 ELSE resumes
    /\ owed' = [k \in Keys |->
          IF Users(state, k) = {} THEN owed[k]
          ELSE ScaledDuration(BaseSeconds[LastUser(state, k)], quarters)]
    /\ UNCHANGED <<envVars, reloads>>

\* A file that is missing or half written reads as nil.
SomeTick(written) ==
    \E state \in {published, None}, quarters \in Scales, works \in CheatsWork :
        Tick(state, quarters, works, written)

Ticks == \E written \in WritesWork :
    /\ ~written => failed < MaxFailed
    /\ SomeTick(written)

(***************************************************************************)
(* bootstrap, after Ctrl+R (the game goes on) or a restart of the game.    *)
(***************************************************************************)
Bootstrap(eng, works) ==
    /\ reloads < MaxReloads
    /\ reloads' = reloads + 1
    /\ engine' = Normalize(eng, works) /\ buffs' = NoBuffs
    /\ dt' = 0 /\ lastNonce' = None /\ pending' = None
    /\ lastStatus' = None /\ sinceWrite' = None
    /\ runs' = [n \in Nonces |-> 0] /\ refused' = {}
    /\ headsUp' = 0 /\ resumes' = 0 /\ owed' = [k \in Keys |-> 0]
    /\ UNCHANGED <<status, age, failed>>

Reload ==
    /\ \E works \in CheatsWork : Bootstrap(engine, works)
    /\ UNCHANGED envVars

\* The settings are read again, the game comes up unpaused in its menu.
RestartGame ==
    /\ \E works \in CheatsWork : Bootstrap(AllNormal, works)
    /\ playing' = FALSE /\ paused' = FALSE
    /\ UNCHANGED <<published, winners, gates, sliders>>

(***************************************************************************)
(* The surroundings.                                                       *)
(***************************************************************************)
Publish ==
    /\ winners < MaxWinners
    /\ winners' = winners + 1
    /\ \E e \in Events, lead \in Leads :
          published' = [winner |-> e, nonce |-> winners', lead |-> lead]
    /\ UNCHANGED <<playerVars, dt, loopVars, effectVars, status, reloads,
                   historyVars>>

\* The next round's vote has begun: no winner.
Retract ==
    /\ published # None
    /\ published' = None
    /\ UNCHANGED <<winners, playerVars, dt, loopVars, effectVars, status,
                   reloads, historyVars>>

Capped(n, top) == IF n < top THEN n + 1 ELSE n

Settings ==
    /\ gates' \in GateSettings /\ sliders' \in Sliders
    /\ UNCHANGED <<published, winners, playing, paused, dt, loopVars,
                   effectVars, status, reloads, historyVars>>

StartOrLeavePlay ==
    /\ playing' = ~playing
    /\ UNCHANGED <<published, winners, gates, paused, sliders, dt, loopVars,
                   effectVars, status, reloads, historyVars>>

Pause ==
    /\ paused' = ~paused
    /\ resumes' = IF paused /\ pending # None THEN Capped(resumes, MaxResumes)
                  ELSE resumes
    /\ UNCHANGED <<published, winners, gates, playing, sliders, dt, loopVars,
                   effectVars, status, reloads, runs, refused, headsUp, owed,
                   age, failed>>

\* The age of the file is told apart up to MaxAge.
MaxAge == Heartbeat + MaxDt + MaxFailed * (Heartbeat + (MaxReloads + 1) * MaxDt)

Less(n) == IF n > 0 THEN n - 1 ELSE 0

Elapse ==
    /\ dt < MaxDt
    /\ dt' = dt + 1
    /\ headsUp' = IF paused THEN headsUp ELSE Less(headsUp)
    /\ owed' = [k \in Keys |-> Less(owed[k])]
    /\ age' = Capped(age, MaxAge)
    /\ UNCHANGED <<envVars, loopVars, effectVars, status, reloads, runs,
                   refused, resumes, failed>>

Surroundings ==
    Publish \/ Retract \/ Settings \/ StartOrLeavePlay \/ Pause \/ Elapse

Next == Ticks \/ Reload \/ RestartGame \/ Surroundings

Spec == Init /\ [][Next]_vars

-----------------------------------------------------------------------------
\* Within a session of the mod a winner meets one fate: it is executed at most
\* once, never after a closed gate consumed it, and not again while it still
\* waits for its lead.
OneFate ==
    \A n \in Nonces :
        /\ runs[n] <= 1
        /\ n \in refused => runs[n] = 0
        /\ pending # None => runs[pending.nonce] = 0 /\ pending.nonce \notin refused

\* As main.lua documents the pause menu (it "queues the next event until the
\* player resumes"): nothing is executed while the game is paused.
PausedExecutesNothing == [][runs' # runs /\ reloads' = reloads => ~paused]_vars

\* An announced winner is executed only after its lead in unpaused seconds, less
\* at most one interval between two ticks for each time play was resumed.
HeadsUpKept ==
    [][ \A n \in Nonces :
          pending # None /\ n = pending.nonce /\ runs'[n] > runs[n]
            => headsUp <= MaxDt * resumes ]_vars

\* An effect that sets a value is taken back: whenever the value is not the
\* normal one, a revert is armed, also across reloads of the mod.
SettingsRevert ==
    \A k \in SetterKeys : engine[k] # "normal" => buffs[k] # None

\* An effect is armed as long as its latest winner is owed it, and not longer
\* than until the tick after that.
EffectsLastAsOwed ==
    \A k \in Keys :
        /\ owed[k] > 0 => buffs[k] # None
        /\ k \in SetterKeys /\ owed[k] > 0 => engine[k] # "normal"
        /\ buffs[k] # None => buffs[k] <= owed[k] + dt

\* What the sidecar's freshness test relies on: while the loop ticks, the status
\* file is never older than a heartbeat and the interval of a tick.  A write that
\* fails is remembered as done, but makes it older by no more than that again, and
\* the intervals in which the mod was reloaded.
StatusIsFresh ==
    lastStatus # None =>
        age < Heartbeat + MaxDt + failed * (Heartbeat + (reloads + 1) * MaxDt)

\* As events.lua comments its reverts ("toggle OFF on expiry"): when a temporary
\* effect expires, what it changed is normal.
ExpiryTurnsOff ==
    [][ \A k \in Keys :
          buffs[k] # None /\ buffs'[k] = None /\ reloads' = reloads
            => engine'[k] = "normal" ]_vars
=============================================================================
