# TLA+ specifications of sub2_chaos

sub2_chaos lets the viewers of a stream vote, in chat, on what happens to a
Subnautica 2 player.  It is two programs that share two files:

* the **sidecar** (`src/vote-engine`, Go) reads chat, runs the voting rounds,
  publishes them to an overlay and to `chaos_state.json`;
* the **mod** (`src/mod/Scripts`, Lua inside the game) reads that file,
  executes winners, takes temporary effects back, and reports in
  `chaos_status.json` whether the game is being played and how the player set
  the vote sliders.

This directory holds TLA+ modules for the parts where order, time and failure
matter, TLC configurations that check them on small instances, and proofs that
TLAPS checks for every value of the constants.

## 1. Inventory

Paths are relative to `src/`; `ve` is `vote-engine`, `S` is `mod/Scripts`.

| component | state | operations | correct when |
|---|---|---|---|
| vote machine, `ve/internal/vote/machine.go` | phase, round, deadline, applyAt, last tick, ballots, winner, nonce, active, tunables | Advance (per tick), Offer, SetActive, Reconfigure, snapshot; Run selects among ticker, votes, activity and menu | a round's ballots are counted for that round only, the winner leads, one nonce per decision, the winner stays published past its execution, a pause freezes, rounds go on |
| vote tally, `ve/internal/vote/tally.go` | one ballot per voter | Cast, Counts, Resolve, ParseVote | first ballot stands; ties fair among leaders only |
| event picker, `ve/internal/catalog` | last pick of each event, previous round | Pick, filter, weighted sample; Load | a round is always formed; cooldowns and the repeat guard give way only when they must, repeat guard first |
| status poller, `ve/main.go` and `ve/internal/bridge/status.go` | last activity and settings sent | every 500 ms: read, judge freshness, send activity, send settings over channels of one slot | nothing lost or overtaken; a dead game pauses; a running one is followed |
| state writer and contract, `ve/internal/bridge` | last bytes written | skip identical, write a temporary file, rename, or remove and rename | a reader sees a whole document, at worst none |
| chat sources, `ve/internal/chat` | connection, backoff, last timestamp | dial, read, hand over, back off, resume; end on cancellation or a fatal error | reconnects for ever, no message handed over twice or skipped but for what a resume point in milliseconds, or in the sidecar's time, must repeat or miss; always ends when cancelled |
| overlay, `ve/internal/overlay` | clients and their queues of 8, latest state | subscribe, broadcast with drops, stream | a page that reads ends at the latest state; one that does not holds nobody up |
| configuration and paths, `ve/internal/config`, `ve/internal/bridge/{paths,detect}.go`, `run` of `ve/main.go` | the settings, the parsed catalog, the two paths | load over defaults, flags over that, validate, parse the catalog, resolve the directory | what starts is sound, and both programs use the same two files |
| chaos loop, `S/chaos.lua` | last nonce, pending winner, last status and its time | one tick: read state, decide, announce, execute, expire, report | one fate per winner, the heads-up is honoured, pauses hold it back, the status stays fresh |
| temporary effects, `S/events.lua`, `S/buffs.lua`, `S/cheats.lua` | armed timers; the engine's cheat states | handlers, add, tick, normalize | everything turned on is turned off, no earlier than owed |
| settings bridge, `S/settings_bridge.lua`, and `bootstrap` of `S/main.lua` | cached settings, subscribers, the mod's live copies | poll, subscribe, tick with notify | no change of the menu is lost between poll and subscription, the mod ends at the menu's values |
| bridges of the mod, `S/vote_bridge.lua`, `S/status_bridge.lua` | none | read; write by rename or remove and rename | as the state writer |
| aggro loops, `S/aggro*.lua`, `S/void_aggro.lua` | harvested tags, started flags, scan counter | re-assert tags every 500 ms, search for them less often | the player is prey again after respawn, travel and reload; no tag outlives its source |
| spawning, `S/spawn.lua` and the handlers | the preload timer; the engine's classes | preload, resolve, load, spawn | what the chat keeps choosing comes, also on a cold save |
| items, announcements | none that lasts | give; show | |
| text, logging, tools, test support | none | | |

**How they interact.**  Chat sources put messages on a channel of 256; the
poller puts activity and settings on channels of one slot; the machine's
goroutine is the only one that touches the machine.  After every tick it calls
the state writer and the overlay in turn.  Between the programs there are only
the two files, each replaced by a rename and polled by the other side: the mod
polls every 300 ms, the sidecar every 500 ms.  Within the mod everything runs
on the game thread, tick by tick.

**What is hard.**  Time that is only looked at on ticks, while pauses fall
between them; menu changes in the middle of a round; four sources of events in
one `select`; a file that is replaced in two steps; either program dying or
being reloaded while the other goes on; nonces as the only means to tell
decisions apart; effects that toggle, so that doing them twice undoes them.
`PROJECT.json` lists each such hazard at its line with the properties that
cover it.

## 2. Modules

| module | models | by |
|---|---|---|
| `Tally` | one round's ballots | a function voter -> index or `None`; `Cast`, `Counts`, `Resolve` (the set of results the random generator may give) |
| `Picker` | choosing the options | `options`, `prevRound`, `cooling`; `Pick` = `Eligible`, `Sample`, `Record` |
| `VoteMachine` | the machine and its goroutine | EXTENDS the two; `FirstAdvance`, `KeepPhase`, `CloseVoting`, `EndApply`, `EndCooldown` are the ways through Advance, `Offer`, `SetActive`, `Reconfigure` the other branches of the select, `Elapse` is time |
| `Election` | *abstract*: what viewers are promised | a contest opens with a fixed slate, each voter may vote once for an option on it, then a leader is elected; no clock, no pause, no menu |
| `Countdown` | VoteMachine with a true account of time | history variables beside the unchanged actions; what `vote_machine` runs |
| `PickLog` | Picker with a log of all picks against an absolute clock | history variables |
| `StatusPoll` | status file, poller, channels, the machine's receives | `PollTick`, `SendActive`, `SendReconfig`, `ReceiveActive`, `ReceiveReconfig`; game and mod as environment, `RemoveStatus` and `WriteStatus` separate steps |
| `Effects` | handlers, timers, normalize | `engine` (what is on) and `buffs` (what is armed); `Handle`, `BuffsTick`, `Normalize` |
| `ChaosMod` | the chaos loop and bootstrap | EXTENDS Effects; `Tick` is one whole game-thread tick; `Reload`, `RestartGame`; published state, player and time as environment |
| `Ages` | how published states are told apart | by how many were published since |
| `BridgeFile` | Writer and writeAtomic | `file`, `tmp`, `last`; each file-system call is an action that may fail |
| `Overlay` | the overlay server | `Broadcast`, `Subscribe` and `SendSnapshot` (the two halves of subscribe, with the lock released between them), `Stream`, `Leave` |
| `Publishing` | main.go's publish | EXTENDS the two; `Publish`, `Write` and `Show` are the machine's goroutine, `Page` the others, `Restart` may fall anywhere |
| `ChatSource` | Run and session of the three sources | `Connect`, `DialFails`, `Read`, `Emit`, `HandOver`, `GiveUp`, `ReadFails`, `Wait`; the service, the cancellation and the machine's receive as environment |
| `SettingsBridge` | the bridge and bootstrap | `WriteManifest`, `Poll`, `Subscribe`, `Tick` (with notify and the subscribers), `Reload`; the menu as environment |
| `Promise` | *abstract*: what both programs together promise | per decision a fate (unknown, shown, announced, executed, refused); a session of the game may forget, a decision may be missed only under an excuse |
| `Delivery` | both programs with the two files between them | EXTENDS `ChaosMod`, INSTANCEs `VoteMachine`; `PublishDocument` replaces ChaosMod's free environment by the machine's state, `Poll` turns the status into activity; `RestartSidecar`, `CloseGame`, `StartGame`, `ReloadMod` may fall anywhere |
| `Leviathans` | aggro loops and spawning | `PreyTick`, `VoidTick`, `PreloadTick`, `SpawnEvent`, each a whole game-thread step; engine and player as environment |
| `Startup` | from config.yaml and flags to the ready line | one action per step of `run`: `Load`, `ApplyOverrides`, `Validate`, `LoadCatalog`, `Resolve` |
| `VoteMachineProofs` | theorems about `VoteMachine`, `Election`, `Countdown` and `PickLog` | |
| `StatusPollProofs`, `ChaosModProofs`, `PublishingProofs`, `ChatSourceProofs`, `SettingsBridgeProofs`, `LeviathansProofs`, `StartupProofs` | theorems about the module named | |
| `MC*` | instances for TLC | |

**Abstractions.**

* *Time is relative.*  Instants are kept as distances from the last tick
  (`phaseEnds`, `applyAt`, `cooling`, `buffs`, `pending.left`).  Pushing a
  deadline by the time spent paused then leaves it alone, and counting shrinks
  it; the comparisons of the code come out the same and the state space stays
  finite.  `lag` (sidecar) and `dt` (mod) are the time since the last tick.  A
  tick needs `lag > 0` in the machine: a tick at the very instant of the last
  one changes nothing but may end a phase whose length is 0, and none is.
* *One clock per program.*  The sidecar judges the age of the status by the
  mod's clock, on the same machine; skew is left out.  Within a tick the mod
  reads its clock twice (the tick and the context of a handler); both readings
  are taken to fall into the same second.
* *Data.*  A chat message is the number it leads with, 0 for none.  A document
  is a record; one that is missing, half written or does not decode is `None`.
  Weights are positive, so weighted sampling may return any order.
* *Published states* are told apart by age, up to `MaxAge`.  Two ticks may read
  the same clock value and then publish the same bytes; that is the only way
  the Writer ever skips a write.
* *Services.*  All-chat's service has a time for each message, in nanoseconds, in
  the order in which it sends them, and possibly the same for several (`Stamp`).
  On a connection that asks for what is later than a number of milliseconds it is
  taken to resume behind the last message that is not, by these exact times; on one
  that asks for nothing, and on Twitch, with what comes next.  The source truncates
  the time of a message to milliseconds before it asks (`UnixMilli`,
  `allchat_ws.go:123`).  A message that comes without its time (`Undated`) gets the
  sidecar's (`allchat_ws.go:215-217`), from a clock that may be early, late or set
  back (`Clock`).  No time is earlier than the epoch's first millisecond.  The time
  of a message from Twitch or the simulation is read by nobody and stands as 0.  A
  session that never got beyond dialling is
  shorter than the 30 s that count as stable (a dial gives up after 10).
* *The menu* is another mod.  It reads the registrations once in each run of the
  game, before or after the mod writes its own; a setting may change at any time
  and may have the wrong type.  A read of a shared variable that fails is taken
  for an unset one.
* *The mod seen by the sidecar and the sidecar seen by the mod* are, in all but
  `Delivery`, environments: StatusPoll lets a running game write at any moment within
  `MaxBeat`, ChaosMod lets winners appear and disappear at any moment.  Both
  are more liberal than the other program.
* *Delivery* leaves out what other modules cover: chat (an empty ballot box is
  decided at random), the menu, the steps inside a write and a poll.  The number
  of a nonce stands for its text; a run of the sidecar has numbers of its own
  unless it is seeded.  A sidecar that is down is an idle one: the file stays.
* *Promise* allows a decision to be missed (`excuse`) while the game is closed or
  its loop has not ticked yet, while the sidecar starts, and once play was resumed
  during an announcement: the two programs see a pause at different moments, the
  decision may then be replaced before it was due.
* *Leviathans*: of an engine object only matters whether it is there.  A tag taken
  from one that is gone may do nothing or what it did.  A class loads at once or
  some time later.  Whether the player is out of bounds, and what a leviathan does
  with a tagged player, is the game's.
* *Startup*: a directory of the mod is an install and a name, an install a library
  and a name; the same directory reached by two texts is two (so it is in the
  code).  Of the texts that `Validate` finds blank there are the empty one and one of
  spaces; a flag that is given empty, or 0, says nothing (`Unset`).  Settings that `run` only passes on
  (token, server, rate) are left out.

History variables (marked so at their declarations) only record; no guard reads
them, apart from the bounds named in `Countdown`, `PickLog` and `ChaosMod`
(`MaxFailed`).

## 3. Runs

| run | asks | bounds, and why they do |
|---|---|---|
| `vote_machine` | the machine's invariants; how far pauses can put the countdown off; that no phase ends early; that it implements `Election`; that every round is decided | 3 voters (a majority, a tie, an abstention), 3 events for 2 or 3 options with and without cooldowns, 2 rounds (the second has a predecessor), ticks of 1 or 2, 3 pauses or resumes in a phase, with and without heads-up and cooldown; a menu that shrinks the round and one that is ignored |
| `pick_log` | what relaxing a round's constraints costs, and that it is formed | 4 picks of 1, 2 or 5 out of 3 events, cooldowns 2, 0 and 4, gaps of 1 or 2: every relaxation happens, and cooldowns outlast several picks |
| `status_poll` | the hand-over loses and reorders nothing; a closed game pauses; a running one is followed | two settings; a status is fresh for 2 units; removal and rename apart or in one, by platform |
| `chaos_mod` | one fate per winner, heads-up, pauses, freshness; setters are taken back, effects last as owed | 2 winners, so one replaces the other or is replayed, with two events that share a timer; a heads-up of 2 with ticks of 0 or 1 and two resumes, so that one resume cannot explain a whole heads-up away; a write that fails; one reload or restart; gates that close |
| `publishing` | the file is whole, skipping is sound, a drained page is up to date, nothing stalls the machine, the file catches up | ages up to 2; one page (pages do not interact) with a queue of 2, so that it overflows; one restart; both kinds of platform |
| `chat` | what a reconnection may replay and what it may skip; Run returns when cancelled; chat catches up | 5 messages, one of them no chat (for each service another), one undated, two of the same instant, which is a whole millisecond, the last two in the middle of one; the sidecar's clock behind all of them, or ahead of some; an address that is refused at the start; 3 troubles, so a session, a failed dial and another session; room for one |
| `settings` | what the bridge cached is what the mod goes by; it ends at the menu's values | two gates and one setting of each other kind; 3 changes; a reload or a restart of the game, so that a menu that missed the registration finds it |
| `delivery` | that both programs together implement `Promise`, and that a player who keeps playing gets the last decision | 2 rounds in each of 2 runs of the sidecar, one reload, closing or restart of the game, one resume; a heads-up of 0 or 1 that the apply phase outlasts by 2; every interval 0 or 1 |
| `leviathans` | no dead tag reaches the engine; a player who stays is prey again; a kind that keeps being chosen comes | 2 volumes, so one can replace the other, one tag of each sort, a search at every second tick, 3 troubles, so a death, a travel and a reload in any order |
| `startup` | what gets ready is sound; sidecar and mod meet | all combinations of 8 sources (with neither, both and one identity, a blank channel and base address), 9 vote and overlay settings (each limit on both sides), 5 places, 9 sets of flags (also empty, 0 and blank ones), 5 catalogs, 72 surroundings with one game, two or none |
| `effects_rewin` | *violated*: an effect that expires is off | |
| `delivery_seeded` | *violated*: nonces are unique across restarts | as `delivery`, with `vote.seed` set |

The machine never stops by itself; a run ends only at a bound.  Time then still
passes up to `MaxLag` and chat, pauses and the menu go on, so deadlock is
checked everywhere but in `pick_log`, whose log is full after `MaxPicks`, in
`chat`, where Run returns, in `settings`, where a menu that is left alone has
nothing left to tell, and in `startup`, which ends.

**What they show beyond "it holds".**

* `CountdownFollowsPlay`: the machine looks at its activity on ticks only.  It
  can be too fast by less than a tick for each resume and too slow by less than
  a tick for each suspension, and not by more, however the pauses fall.
* `HeadsUpKept`: the same for the mod.  A heads-up is short by at most one tick
  interval per resume.
* `HoldOutlastsLead`: the apply phase and the execution instant are pushed
  together, so a winner is on show for `ApplyHold` after it is due.
* `PhasesGetTheirTime`: no menu change and no pause makes a phase shorter than
  the window it began with.
* `RepeatOnlyWhenStarved` and `CooldownHonoured` say exactly when a constraint
  gives way; "starved" is computed from the log, not from the picker's state.
* `EffectsLastAsOwed` relates the timer to what the *latest* winner is owed,
  counted by an independent clock.
* `DrainedShowsLatest` names the two cases in which a page that has been sent
  everything shows an old state, until the next one: the latest was dropped,
  or its snapshot was queued behind a newer state.  That the second one happens
  is so in the code; the property says that nothing else does.
* `FileCatchesUp` holds although a failed rename may leave no file at all: the
  failed state does not count as written, so the next tick tries again.
* `HandedOnceInOrder` and `NoGap` name what the resume point costs.  Handed over
  again is a message that is later than the whole milliseconds of one handed over
  before: of dated messages those in the rest of that millisecond, and none if the
  service counts in milliseconds; of others, what the sidecar's clock, if it is
  behind, lets come again.  Skipped is one of the very instant of a message before
  it that fell on a whole millisecond, or one that a clock running ahead put before
  the resume point (`OutOfReach`).  The instance has each of these happen.  `NoGap`
  needs a first message: until then a reconnection has no time to ask from.
* `SettingsFollowed` exempts a bootstrap that failed: an ill-typed log level or
  vote slider ends it (`main.lua:47` and `:85`), while the same value is ignored
  when it comes later.
* `StatusIsFresh` says how old the status may get: a failed write is remembered as
  done (`chaos.lua:139`), so each costs a heartbeat and an interval, more if the
  mod is reloaded meanwhile.
* `ImplementsPromise` needs the nonces of a restarted sidecar to be new, the
  winner to be on show longer than the mod's tick takes, and the mod to remember
  the last nonce, in whatever order the two are killed.
* `PlayersGetChaos` is where the freshness limit, the heartbeat and the pause meet:
  if the status could go stale while the mod ticks, the machine would stop before
  its last round.
* `TagsAreLive` holds without exception for the prey loop; for the void loop only
  until the class it took its tags from is unloaded, as nothing checks that
  (`void_aggro.lua:105`).  `HuntResumes` exempts the same state, and a void loop that
  a reload has ended: there the code does not hunt, so neither property covers them.
* `LeviathansCome` has the chat keep choosing the kind and the engine accept it in
  the end: a spawn that fails is not tried again, and only the collector is
  preloaded.  What the property then depends on is that a spawn loads its class.
* `ReadyIsSound` compares what is in force with what was asked for, flag by flag, and
  requires the chosen source to have all its parts, not only the ones that clash.
* `BothMeet`: if all that was said of the place is true, or nothing was said and
  the game is detected, the order of the six sources does not matter.  It says
  nothing of a `modName` other than the mod's own, as the mod's paths are fixed
  (`config.lua:41`).
* `SettingsRevert` holds across reloads because `normalize` sets what can be
  set; it does not hold for the two toggles, see below.

**Fairness.**  `vote_machine`: the ticker fires for ever and time passes (weak
fairness of `Advance`, `FirstAdvance`, `Elapse`); nothing is asked of chat, the
poller or the menu.  `status_poll`: both goroutines run; Go's `select` picks at
random among ready channels, so each receive is fair by itself; a running game
finishes its write.  `publishing`: the machine's goroutine runs; a file-system
call made again and again succeeds now and then; pages owe nothing.  `chat`: the
source's goroutine runs, and the machine receives until the cancellation; the
service owes nothing (`ChatCatchesUp` has its being up for good as a
hypothesis).  `settings`: bootstrap and loop go on.
`delivery`: the sidecar is started again when
it is down, and time does not stop; the bounds on the intervals then keep ticks
and polls coming, and nobody has to play.  `leviathans`: `LoopAsync` keeps firing
and a deferred load is done some time; chat, player and engine owe nothing
(`LeviathansCome` has the chat's insistence, and that the engine does not turn the
creature down for ever, as hypotheses).  The assumptions on failing calls are
about the disk, not the code.

## 4. Proofs

TLAPS checks these for every value of the constants.  The assumptions are the
named `ASSUME`s of the modules; they give the constants their types and say, of the
program, that the catalog is not empty and its ids distinct (`EventsAssumption`:
catalog.Parse), that no heads-up is negative (`MachineAssumption`: config.Validate),
and that bounds and intervals are natural numbers.  `None` is told apart from what
it stands beside.

What needs more than that says so in its statement:

* `0 \notin Leads` (`PauseHoldsBack`): without a heads-up a winner is executed on
  sight, paused or not (section 5).
* `EnoughResumes` (`HeadsUpIsKept`): the history stops counting resumes at
  `MaxResumes`; a lead is not longer than what it can count.
* `CheatManager` (`EffectsAreTakenBack`, `EffectsLast`): the game has its cheat
  manager.  Without one the handlers fail, and a reload cannot normalize.
* `InMilliseconds` (`OnceInMilliseconds`): the service's times are whole
  milliseconds and none is left out.  With finer ones, or with the sidecar's clock,
  messages do come again.
* `NoneIsNoFile` (`FilesMeet`): a path that is not set is no file.

Each argument is an inductive invariant with a lemma per action, or per group of
actions that leave it alone for one reason.

`VoteMachineProofs`

* `TypeCorrect`, `WinnerIsFair`, `NonceIsExact`, `HoldIsKept`, `PauseIsFrozen`:
  properties of `vote_machine` (its specification, `Countdown`, only adds history
  to the one proved about: `CountdownStep`).
* `BallotsFit`, `BallotsAreFinal`: every ballot names an option of its round, and
  none changes or is added later; TLC sees both through `ImplementsElection`.
* `MachineHoldsElections`: every behaviour of the machine is one of `Election`.
* The argument.  `IInv` is `TypeOK` with the safety invariants.  Two facts
  carry it: a round always gets at least one option (`PickForms`, from
  `PoolIsLargeEnough`: relaxing never leaves too few), without which the winner
  might be missing; and the options do not change between `StartRound` and the
  next, although the menu may change `OptionsPerRound` at any time, without
  which neither ballots nor winner could be tied to what is on show.  For the
  refinement each action maps to opening, voting, electing, or a stutter.
* `CountdownIsAccurate`, `NoPhaseIsCutShort`.  That the countdown is off by at most
  a tick per pause or resume is not inductive: between two ticks nothing has been
  charged yet.  `Account` adds `Charged`, what the next tick will charge.  Suspending
  drops it, by no more than `MaxLag`, resuming puts as much back, a tick only moves
  it from one term to the other.
* `CooldownsAreHonoured`, `RepeatsOnlyWhenStarved`.  The picker keeps one number per
  event, the properties speak of the whole log.  `NothingForgotten` and
  `NothingInvented` say that the number is the most that any offer in the log still
  owes; by `FilterIsRested` what the filter lets through is then exactly what the
  log calls rested, and the three ways through `Eligible` are the three cases of the
  properties (`PickIsHonest`).

`ChaosModProofs`

* `AtMostOnce`.  A fresh nonce is one that was neither executed nor refused and does
  not wait, because all of those are no newer than the last nonce seen, and that is
  no newer than the one published (`NoncesInOrder`).  The loop itself compares for
  inequality only; that nonces grow is what it gets from the sidecar.
* `PauseHoldsBack`: from the same invariant, with the leads.
* `HeadsUpIsKept`: the time unpaused since the announcement and what is left of the
  lead add up, but for an interval per resume.  What is left is taken as of the next
  tick (`LeftNow`), as in `Account` above.
* `EffectsAreTakenBack`, `EffectsLast`: what the independent clock says is owed is
  what is left of the timer, the time since the last tick taken off
  (`TimersMatch`); a value is changed exactly while its timer is armed (`ArmedIsOn`).
  One timer per key, and the five handlers always arming what they turn on, is what
  carries it.
* `StatusStaysFresh`: the age of the file is bounded by the time since the last
  attempt to write it plus `Slack` for each attempt in a row that failed.
* `TypeCorrect`.

`PublishingProofs`

* `FileStaysWhole`, `SkippedIsThere`: a rename is only reached with a temporary file
  that is whole (`TmpIsWhole`); `last` is set only after the rename.
* `PagesCatchUp`: the newest state on its way to a page, the last in its queue or
  the one shown, is the server's latest, or one of the two named cases holds
  (`Pipeline`).  While a page waits in subscribe nothing leaves its queue, so an
  empty queue there means that its snapshot is still the latest.
* `TypeCorrect`.

`ChatSourceProofs`

* `NothingTwice`, `NothingMissed`: the properties of the run, for any times of the
  service that are in order and any clock of the sidecar.  `OnceInMilliseconds`: in
  whole milliseconds, and dated by the service, every message is handed over once
  and in order.
* The argument.  What the source would ask from if the connection were lost now
  (`Remembered`) is the greatest of the times handed over, each truncated
  (`LatestIsRemembered`).  So what a connection has yet to bring (`RestIsNew`) is
  later than the whole milliseconds of all that came before; and what it leaves out
  (`NoneMissed`) was passed by an earlier one, or lies between the message that gave
  the resume point and the time taken for it, which for a dated message is one
  instant.
* `TypeCorrect`.

`SettingsBridgeProofs`: `NoChangeSwallowed`, `TypeCorrect`.  A polled setting is
cached (`PolledIsCached`), and from then on no step writes the cache without the live
copy: a tick leaves alone what nobody subscribes to.

`LeviathansProofs`: `NoDanglingTag`, `TypeCorrect`.  The property is inductive with
the types: a volume that streams out takes the life of the entries it leaves in the
cache, and what a tick finds lives, whether cached or new (`HarvestIsLive`).

`StartupProofs`: `NothingUnsoundStarts`, `FilesMeet`, `TypeCorrect`.  The invariant
says, stage by stage, what has been established: after `Load` each setting is the
file's or the default (`Loaded`), after the overrides what was asked for
(`Overridden`; an empty flag asks for nothing), after `Validate` it is valid or a
simulation's with at most its port replaced (`Validated`), after its parsing the
catalog is sound; nothing later changes them.  `FilesMeet` goes through the six
sources; the last one needs that a set with one element has no other.

`StatusPollProofs`

* `TypeCorrect` (no channel holds more than its slot), `ActivityIsHandedOver`,
  `SettingsAreHandedOver`.
* The argument.  The invariants are inductive together with the types and
  `PendingSettings`: at the second send there are settings to send.  The mod
  and time do not touch the hand-over (`ModStepIInv`), so the result holds for
  any timing of the mod, also one that breaks its heartbeat.

**What the attempts found.**  `ReadyIsSound` used to claim that every flag is in
force; a simulation whose port comes out at 0 or less gets 8777 instead
(`main.go:65-67`), which no instance had tried.  By `main.go:171` a flag of 0 does
not bring that about, only a negative one, or the file's port when no flag says
otherwise.  `LiveIsCached` was a CASE with overlapping arms, whose
value TLA+ leaves open.  Neither is visible to TLC on the instances of the runs.

**Only model-checked.**  Liveness: `RoundsAreDecided`, `ClosedGamePauses`,
`MachineFollowsGame`, `PublishNeverStalls`, `FileCatchesUp`, `CancelEndsRun`,
`ChatCatchesUp`, `SettingsFollowed`, `PlayersGetChaos`, `HuntResumes`,
`LeviathansCome` (fairness and ENABLED are beyond the prover).  And
`ImplementsPromise`: that the mod takes every decision before it is replaced rests
on the intervals of both programs at once.  No module uses RECURSIVE operators.

## 5. Disagreements met on the way

With a run that shows them (`findings` in `PROJECT.json`):

* God mode or noclip won again while it runs is turned off by the second win,
  and turned on for good by the one revert left.
* With `vote.seed` set a restarted sidecar draws the token of the run before
  (`machine.go:59-64`), where `machine.go:31` has it make nonces unique across
  restarts: a mod that remembers the nonce ignores the decision.

Seen while modelling, without a run of their own:

* A poll between the mod's remove and rename (on a platform that does not rename
  over files) reads no status and pauses the machine at once (`main.go:244`),
  where `status.go:24` calls such a read transient.
* With no announce lead a winner is executed on sight (`chaos.lua:99`), also
  while the game is paused, where `main.lua:114-115` says the pause menu queues
  the next event.  `PausedExecutesNothing` is therefore checked with a lead only.
* The bootstrap trusts the types of the menu's values where its subscribers
  check them, see `SettingsFollowed` above.
* All-chat is asked to resume from the last time in milliseconds
  (`allchat_ws.go:123`).  If the service's times are finer, what came in the rest of
  that millisecond comes again, and is counted in whatever round is then open; of
  several messages of the same whole millisecond those not yet handed over are lost.
* A message without a time makes the sidecar's clock the resume point
  (`allchat_ws.go:215-217`): one that runs ahead of the service skips what is sent
  up to it, one that is behind has messages sent again.
* `Validate` does not look at the scheme of all-chat's base address; one that
  `BuildAllChatURL` refuses is only found when chat starts, and chat then ends.
* Each session of a chat source leaves a goroutine behind that waits for the end
  of the program (`allchat_ws.go:90`, `twitch_irc.go:80`).
* A page whose snapshot finds its queue full waits for ever (`server.go:68`):
  nobody reads before subscribe returns.
* `Reconfigure` promises that the running round is undisturbed
  (`machine.go:84`); its deadline is, but the published
  `VoteDurationSeconds` changes at once (`machine.go:211`), and the overlay
  scales the running countdown by it.
* `SetActive` "freezes the current phase's countdown" (`machine.go:70`), up to
  the tick granularity that `CountdownFollowsPlay` states.
* `status.go:11-13` has the engine run without any mod installed; `pollStatus`
  with `requireGame` (all but `--simulate`) pauses without a status.
* ADR-0005 has the values of `config.yaml` hold until the mod connects; the
  settings of a stale status of an earlier session are applied as well
  (`main.go:265`).
* A reload while god mode or noclip is on forgets the revert, and `normalize`
  (`events.lua:202`) clears only what can be set, where `main.lua:239` speaks of
  any temporary effect.
* `config.example.yaml:3` has `$GAME_DIR` override `bridge.gameDir`; the code takes
  it only if no directory is configured (`paths.go:40-54`).  Likewise a `modDir` in
  the file beats the flag `--game-dir`.
* The discovery file is read (`paths.go:91`) but the mod never writes it.  On Linux
  the roots that are searched are usually links to each other, and paths are
  compared as text (`detect.go:91`), so one install counts as several and
  auto-detection gives up.
* `--simulate` skips `Validate`, so the picker and the machine may get a negative
  heads-up; negative `applyHoldSeconds` and `cooldownSeconds` are never refused
  (the machine treats them as unset or none).
* After Ctrl+R the void loop runs only from the next void event on
  (`void_aggro.lua:118`); a void leviathan spawned before stops hunting.
* The preload timer never stops when the catalog is empty (`main.lua:228`): there
  is no class to wait for.
* A pause and its resume, or a vote shorter than the heads-up and a restart of the
  sidecar, can have the next decision replace one that was announced; it is then
  never executed (`chaos.lua:94`).
* With the empty catalog `main.lua` falls back to, `god_mode` and `noclip` call
  the cheat and fail before they arm the revert (`events.lua:142`).

## 6. Not modelled, and the plan

Not modelled for good: JSON and logging, IRC and vdf syntax, `ParseVote`'s scan of
characters, the drawing of the overlay page, the banner (`announce.lua`),
`items.give` (it asks the game and keeps nothing), file system and registry
probing, the geometry of spawning; tools and test support.  Delivery with failing
status writes is beyond TLC's reach in the time of a run; `chaos_mod` has them for
the mod alone.

Every safety property of the runs but one now has its theorem.  Left to do is that
one: that `Delivery` implements `Promise`, for intervals short enough for the
heads-up and the apply phase.

## 7. Running

    tlasany VoteMachine.tla
    tlc -workers 2 -config MCVoteMachine.cfg MCVoteMachine
    tlapm VoteMachineProofs.tla

Definitions commented *Mutant* are wrong variants of the definition below them.
Nothing uses them: put in its place, each makes a property fail, which shows
that the property depends on that piece of code (`mutants` in `PROJECT.json`).
