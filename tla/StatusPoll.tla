----------------------------- MODULE StatusPoll -----------------------------
(***************************************************************************)
(* How the sidecar learns whether the game is being played, and with which *)
(* menu settings: the status file the mod writes (chaos_status.json), the  *)
(* goroutine pollStatus in vote-engine/main.go with ReadStatus, Active and *)
(* Fresh of internal/bridge/status.go, and the two one-slot channels over  *)
(* which it feeds the vote machine's goroutine.                            *)
(*                                                                         *)
(* The mod is the environment: status_bridge.lua replaces the file by a    *)
(* rename, or, where renaming over a file fails, by a remove and a rename. *)
(***************************************************************************)
EXTENDS Integers, Sequences

CONSTANTS
    None,             \* Go's nil
    Settings,         \* menu settings a status may carry
    RequireGame,      \* FALSE under --simulate
    Platforms,        \* what renaming over an existing file may do: {TRUE, FALSE}
    StaleAfter,       \* statusStaleAfter: oldest status of a running game
    MaxBeat           \* longest time a running game leaves between two writes

ASSUME PollAssumption ==
    /\ None \notin Settings
    /\ RequireGame \in BOOLEAN /\ Platforms \subseteq BOOLEAN
    /\ StaleAfter \in Nat /\ MaxBeat \in Nat

VARIABLES
    overwrites,  \* whether this platform renames over an existing file
    gameUp,      \* the game process, with the mod, is running
    playing,     \* what the mod would report: gameplay active, not paused
    menu,        \* what the mod would report of the vote sliders, or None
    file,        \* the status file, or None when there is none
    age,         \* time since the file's updatedAt, up to StaleAfter + 1
    beat,        \* time since the mod's last write, while the game runs
    gap,         \* TRUE between the mod's remove and its second rename
    pc,          \* pollStatus: "wait" for a tick, or at one of its two sends
    seen,        \* the status it read at the last tick, or None
    last,        \* the activity it last decided to send
    lastRC,      \* the settings it last decided to send, or None
    activeCh,    \* main's channel `active`, capacity 1
    reconfigCh,  \* main's channel `reconfig`, capacity 1
    mActive,     \* Machine.active
    mConfig      \* the settings last passed to Machine.Reconfigure, or None

modVars == <<overwrites, gameUp, playing, menu, file, age, beat, gap>>
pollVars == <<pc, seen, last, lastRC>>
chanVars == <<activeCh, reconfigCh>>
machineVars == <<mActive, mConfig>>
others == <<overwrites, pollVars, chanVars, machineVars>>
vars == <<modVars, others>>

MaybeSettings == Settings \cup {None}
StatusType == [playing : BOOLEAN, settings : MaybeSettings]
MaybeStatus == StatusType \cup {None}

TypeOK ==
    /\ overwrites \in BOOLEAN
    /\ gameUp \in BOOLEAN /\ playing \in BOOLEAN /\ menu \in MaybeSettings
    /\ file \in MaybeStatus /\ age \in 0..StaleAfter+1 /\ beat \in 0..MaxBeat
    /\ gap \in BOOLEAN
    /\ pc \in {"wait", "sendActive", "sendReconfig"}
    /\ seen \in MaybeStatus /\ last \in BOOLEAN /\ lastRC \in MaybeSettings
    /\ activeCh \in Seq(BOOLEAN) /\ Len(activeCh) <= 1
    /\ reconfigCh \in Seq(Settings) /\ Len(reconfigCh) <= 1
    /\ mActive \in BOOLEAN /\ mConfig \in MaybeSettings

\* The sidecar starts before, during or after a game session: there may be no
\* status file, or one of an earlier session.
Init ==
    /\ overwrites \in Platforms
    /\ gameUp = FALSE /\ gap = FALSE /\ beat = 0
    /\ playing \in BOOLEAN /\ menu \in MaybeSettings
    /\ file \in MaybeStatus /\ age = StaleAfter + 1
    /\ pc = "wait" /\ seen = None /\ last = TRUE /\ lastRC = None
    /\ activeCh = << >> /\ reconfigCh = << >>
    /\ mActive = TRUE /\ mConfig = None

(***************************************************************************)
(* The game and the mod.                                                   *)
(***************************************************************************)
StartGame ==
    /\ ~gameUp
    /\ gameUp' = TRUE /\ beat' = 0
    /\ UNCHANGED <<playing, menu, file, age, gap, others>>

\* Closed or crashed, possibly between the remove and the rename.
StopGame ==
    /\ gameUp
    /\ gameUp' = FALSE /\ gap' = FALSE /\ beat' = 0
    /\ UNCHANGED <<playing, menu, file, age, others>>

ChangePlay ==
    /\ gameUp
    /\ playing' = ~playing
    /\ UNCHANGED <<gameUp, menu, file, age, beat, gap, others>>

\* Values that pollStatus ignores never arrive: the sliders have a range.
ChangeMenu ==
    /\ gameUp
    /\ menu' \in Settings
    /\ UNCHANGED <<gameUp, playing, file, age, beat, gap, others>>

\* os.rename fails over an existing file: status_bridge.write removes it first.
RemoveStatus ==
    /\ gameUp /\ ~gap /\ ~overwrites /\ file # None
    /\ file' = None /\ gap' = TRUE
    /\ UNCHANGED <<gameUp, playing, menu, age, beat, others>>

WriteStatus ==
    /\ gameUp
    /\ gap \/ overwrites \/ file = None
    /\ file' = [playing |-> playing, settings |-> menu]
    /\ age' = 0 /\ beat' = 0 /\ gap' = FALSE
    /\ UNCHANGED <<gameUp, playing, menu, others>>

\* A running game writes within MaxBeat.
Elapse ==
    /\ gameUp => beat < MaxBeat
    /\ age' = IF age > StaleAfter THEN age ELSE age + 1
    /\ beat' = IF gameUp THEN beat + 1 ELSE 0
    /\ UNCHANGED <<gameUp, playing, menu, file, gap, others>>

(***************************************************************************)
(* pollStatus.                                                             *)
(***************************************************************************)
\* Mutant: a status counts as fresh whatever its age.
FreshIfAny(st) == st # None

Fresh(st) == st # None /\ age <= StaleAfter

Active(st) == IF st = None THEN TRUE ELSE st.playing

Running(st) == RequireGame => Fresh(st)

\* reconfigFromStatus: the settings to send, or None.
RCOf(st) == IF st = None THEN None ELSE st.settings

NewRC(st) == RCOf(st) # None /\ RCOf(st) # lastRC

\* One tick up to the first send.  A missing file reads as nil.
PollTick ==
    /\ pc = "wait"
    /\ seen' = file
    /\ LET a == Running(file) /\ Active(file) IN
          IF a # last
            THEN pc' = "sendActive" /\ last' = a /\ UNCHANGED lastRC
            ELSE /\ UNCHANGED last
                 /\ IF NewRC(file)
                      THEN pc' = "sendReconfig" /\ lastRC' = RCOf(file)
                      ELSE pc' = "wait" /\ UNCHANGED lastRC
    /\ UNCHANGED <<modVars, chanVars, machineVars>>

AfterActive ==
    IF NewRC(seen)
      THEN pc' = "sendReconfig" /\ lastRC' = RCOf(seen)
      ELSE pc' = "wait" /\ UNCHANGED lastRC

\* Mutants: a send that would block is skipped (select with a default); the
\* channel has room for more.
SendActiveOrDrop ==
    /\ pc = "sendActive"
    /\ activeCh' = IF Len(activeCh) < 1 THEN Append(activeCh, last) ELSE activeCh
    /\ AfterActive
    /\ UNCHANGED <<modVars, seen, last, reconfigCh, machineVars>>

SendActiveUnbounded ==
    /\ pc = "sendActive"
    /\ activeCh' = Append(activeCh, last)
    /\ AfterActive
    /\ UNCHANGED <<modVars, seen, last, reconfigCh, machineVars>>

SendActive ==
    /\ pc = "sendActive" /\ Len(activeCh) < 1
    /\ activeCh' = Append(activeCh, last)
    /\ AfterActive
    /\ UNCHANGED <<modVars, seen, last, reconfigCh, machineVars>>

\* Mutant: the newest settings are skipped while older ones wait.
SendReconfigOrDrop ==
    /\ pc = "sendReconfig"
    /\ reconfigCh' = IF Len(reconfigCh) < 1 THEN Append(reconfigCh, lastRC)
                     ELSE reconfigCh
    /\ pc' = "wait"
    /\ UNCHANGED <<modVars, seen, last, lastRC, activeCh, machineVars>>

SendReconfig ==
    /\ pc = "sendReconfig" /\ Len(reconfigCh) < 1
    /\ reconfigCh' = Append(reconfigCh, lastRC)
    /\ pc' = "wait"
    /\ UNCHANGED <<modVars, seen, last, lastRC, activeCh, machineVars>>

(***************************************************************************)
(* The machine's goroutine: two branches of Run's select.                  *)
(***************************************************************************)
ReceiveActive ==
    /\ activeCh # << >>
    /\ mActive' = Head(activeCh) /\ activeCh' = Tail(activeCh)
    /\ UNCHANGED <<modVars, pollVars, reconfigCh, mConfig>>

ReceiveReconfig ==
    /\ reconfigCh # << >>
    /\ mConfig' = Head(reconfigCh) /\ reconfigCh' = Tail(reconfigCh)
    /\ UNCHANGED <<modVars, pollVars, activeCh, mActive>>

Mod == \/ StartGame \/ StopGame \/ ChangePlay \/ ChangeMenu
       \/ RemoveStatus \/ WriteStatus

Poller == PollTick \/ SendActive \/ SendReconfig

Next == Mod \/ Elapse \/ Poller \/ ReceiveActive \/ ReceiveReconfig

Spec == Init /\ [][Next]_vars

\* Both goroutines run, time passes and a running game finishes its writes.
\* The select picks among ready channels at random, so each is received from.
Fairness ==
    /\ WF_vars(Poller) /\ WF_vars(Elapse)
    /\ WF_vars(ReceiveActive) /\ WF_vars(ReceiveReconfig)
    /\ WF_vars(RemoveStatus) /\ WF_vars(WriteStatus)

FairSpec == Spec /\ Fairness

-----------------------------------------------------------------------------
\* No activity change is lost, repeated or overtaken on its way: what the
\* machine knows, what is in the channel and what is about to be sent alternate,
\* and the newest of them is the poller's last word.
ActivityInOrder ==
    /\ activeCh # << >> => Head(activeCh) = ~mActive
    /\ LET newest == IF activeCh # << >> THEN Head(activeCh) ELSE mActive
       IN  last = IF pc = "sendActive" THEN ~newest ELSE newest

\* The newest settings the poller decided on reach the machine last.
SettingsInOrder ==
    pc # "sendReconfig" =>
        lastRC = IF reconfigCh # << >> THEN Head(reconfigCh) ELSE mConfig

\* With the game closed for good the machine ends up paused, however the game
\* went away.
ClosedGamePauses == RequireGame /\ <>[]~gameUp => <>[]~mActive

\* With the game running for good and its state settled, the machine ends up
\* following it, with the settings of the menu; active iff played where a rename
\* replaces the file at once.  (Elsewhere a poll may find no file in between.)
MachineFollowsGame ==
    \A p \in BOOLEAN, s \in Settings :
        overwrites /\ <>[](gameUp /\ playing = p /\ menu = s)
          => <>[](mActive = p /\ mConfig = s)
=============================================================================
