--------------------------- MODULE SettingsBridge ---------------------------
(***************************************************************************)
(* How the settings menu reaches the mod: write_manifest, poll, subscribe  *)
(* and tick of mod/Scripts/settings_bridge.lua, and main.lua, which        *)
(* registers its settings with the menu, polls each of them once and then  *)
(* has itself told of its changes.                                         *)
(*                                                                         *)
(* The menu, another mod, reads the registrations once in each run of the  *)
(* game, before or after the mod has written its own.  It keeps each       *)
(* setting in a shared variable and may change it at any time; a setting   *)
(* is "low" or "high" where its type is right and "odd" where it is not.   *)
(* The polling loop is started before anything is polled, so a tick may    *)
(* fall between any two steps.                                             *)
(***************************************************************************)
EXTENDS Naturals

CONSTANTS
    GateKeys,      \* toggles: anything but true is false
    LevelKeys,     \* log_level: set_level raises on what it does not know
    TunableKeys,   \* sliders of the handlers
    VoteKeys,      \* sliders for the sidecar: math.floor raises on what is no number
    Default,       \* what config.lua says
    MaxChanges,    \* bound: changes made in the menu
    MaxReloads     \* bound: reloads of the mod and restarts of the game

ASSUME SettingsAssumption ==
    /\ Default \in {"low", "high"} /\ MaxChanges \in Nat /\ MaxReloads \in Nat
    /\ GateKeys \cap (LevelKeys \cup TunableKeys \cup VoteKeys) = {}

Keys == GateKeys \cup LevelKeys \cup TunableKeys \cup VoteKeys
Raw == {"low", "high", "odd"}

\* The settings in manifest.build, which has every key that main.lua polls.
Registration == Keys

VARIABLES
    manifest,   \* the registration file is there, shipped with the mod or written
    menu,       \* "off", "up", or "empty": up without the mod's settings
    shared,     \* key -> the menu's shared variable, "unset" without the menu
    changes,    \* changes made in the menu so far
    cache,      \* key -> settings_bridge's cache, "unset" before the first poll
    registered, \* main.lua has got past write_manifest
    stage,      \* key -> "new", "polled" or "subscribed" in this bootstrap
    live,       \* key -> what the mod goes by, "none" before the first poll
    failed,     \* the bootstrap has raised an error, and ended
    reloads     \* reloads and restarts so far

menuVars == <<manifest, menu, shared, changes>>
modVars == <<registered, cache, stage, live, failed, reloads>>
vars == <<menuVars, modVars>>

TypeOK ==
    /\ manifest \in BOOLEAN /\ registered \in BOOLEAN
    /\ menu \in {"off", "empty", "up"}
    /\ shared \in [Keys -> Raw \cup {"unset"}] /\ cache \in [Keys -> Raw \cup {"unset"}]
    /\ stage \in [Keys -> {"new", "polled", "subscribed"}]
    /\ live \in [Keys -> Raw \cup {"none"}]
    /\ \A k \in Keys : (live[k] = "none") = (stage[k] = "new")
    /\ failed \in BOOLEAN
    /\ changes \in 0..MaxChanges /\ reloads \in 0..MaxReloads

Fresh(what) == [k \in Keys |-> what]

Init ==
    /\ manifest \in BOOLEAN /\ registered = FALSE /\ menu = "off"
    /\ shared = Fresh("unset") /\ cache = Fresh("unset")
    /\ stage = Fresh("new") /\ live = Fresh("none")
    /\ failed = FALSE /\ changes = 0 /\ reloads = 0

\* The menu knows the settings of the mod only if it finds them registered.
MenuStarts ==
    /\ menu = "off"
    /\ menu' = IF manifest THEN "up" ELSE "empty"
    /\ UNCHANGED <<manifest, shared, changes, modVars>>

Change ==
    /\ menu = "up"
    /\ changes < MaxChanges /\ changes' = changes + 1
    /\ \E k \in Registration, v \in Raw : shared' = [shared EXCEPT ![k] = v]
    /\ UNCHANGED <<manifest, menu, modVars>>

-----------------------------------------------------------------------------
\* At module load; a file that cannot be opened is no reason to stop.
WriteManifest ==
    /\ ~registered /\ registered' = TRUE
    /\ manifest' \in {manifest, TRUE}
    /\ UNCHANGED <<menu, shared, changes, cache, stage, live, failed, reloads>>

AreAt(keys, stages) == \A k \in keys : stage[k] \in stages

\* bootstrap's order: all gates are polled, then the level, which is subscribed to
\* before the gates are; the sliders are polled and subscribed to one by one.
Before(k) ==
    /\ k \notin GateKeys =>
           /\ AreAt(GateKeys, {"polled", "subscribed"})
           /\ AreAt(Keys \ GateKeys, {"new", "subscribed"})
    /\ k \in TunableKeys \cup VoteKeys =>
           AreAt(GateKeys \cup LevelKeys, {"subscribed"})
    /\ k \in VoteKeys => AreAt(TunableKeys, {"subscribed"})

FirstValue(k) ==
    CASE cache[k] # "unset" -> cache[k]
      [] cache[k] = "unset" /\ shared[k] # "unset" -> shared[k]
      [] OTHER -> Default

Toggle(v) == IF v = "high" THEN "high" ELSE "low"

Raises(k, v) == k \in LevelKeys \cup VoteKeys /\ v = "odd"

\* poll, and what bootstrap makes of its answer.
Poll(k) ==
    /\ registered /\ ~failed /\ stage[k] = "new" /\ Before(k)
    /\ cache' = [cache EXCEPT ![k] = FirstValue(k)]
    /\ \/ Raises(k, cache'[k])
          /\ failed' = TRUE /\ UNCHANGED <<stage, live>>
       \/ ~Raises(k, cache'[k])
          /\ stage' = [stage EXCEPT ![k] = "polled"]
          /\ live' = [live EXCEPT ![k] = IF k \in GateKeys THEN Toggle(cache'[k])
                                                          ELSE cache'[k]]
          /\ UNCHANGED failed
    /\ UNCHANGED <<menuVars, registered, reloads>>

Subscribe(k) ==
    /\ ~failed /\ stage[k] = "polled"
    /\ k \in GateKeys => AreAt(GateKeys, {"polled", "subscribed"})
                          /\ AreAt(LevelKeys, {"subscribed"})
    /\ stage' = [stage EXCEPT ![k] = "subscribed"]
    /\ UNCHANGED <<menuVars, registered, cache, live, failed, reloads>>

Bootstrap == \E k \in Keys : Poll(k) \/ Subscribe(k)

Changed(k) == shared[k] # "unset" /\ shared[k] # cache[k]

\* What a subscriber of main.lua makes of a value.
Told(k, v) ==
    IF k \in GateKeys THEN Toggle(v) ELSE IF v = "odd" THEN live[k] ELSE v

\* Mutant: all keys ever polled are refreshed, with or without a subscriber.
TickAllKeys ==
    LET news == {k \in Keys : stage[k] # "new" /\ Changed(k)}
        told == {k \in news : stage[k] = "subscribed"}
    IN  /\ news # {}
        /\ cache' = [k \in Keys |-> IF k \in news THEN shared[k] ELSE cache[k]]
        /\ live' = [k \in Keys |-> IF k \in told THEN Told(k, shared[k]) ELSE live[k]]
        /\ UNCHANGED <<menuVars, registered, stage, failed, reloads>>

\* Mutant: the subscriber is told the two values the wrong way round.
TickSwapped ==
    LET news == {k \in Keys : stage[k] = "subscribed" /\ Changed(k)}
    IN  /\ news # {}
        /\ cache' = [k \in Keys |-> IF k \in news THEN shared[k] ELSE cache[k]]
        /\ live' = [k \in Keys |-> IF k \in news THEN Told(k, cache[k]) ELSE live[k]]
        /\ UNCHANGED <<menuVars, registered, stage, failed, reloads>>

\* tick, with notify.  One that finds nothing new changes nothing.
Tick ==
    LET news == {k \in Keys : stage[k] = "subscribed" /\ Changed(k)}
    IN  /\ news # {}
        /\ cache' = [k \in Keys |-> IF k \in news THEN shared[k] ELSE cache[k]]
        /\ live' = [k \in Keys |-> IF k \in news THEN Told(k, shared[k]) ELSE live[k]]
        /\ UNCHANGED <<menuVars, registered, stage, failed, reloads>>

\* The scripts start from scratch; shared variables stay.
ScriptsStart ==
    /\ reloads < MaxReloads /\ reloads' = reloads + 1
    /\ registered' = FALSE /\ failed' = FALSE
    /\ cache' = Fresh("unset") /\ stage' = Fresh("new") /\ live' = Fresh("none")

Reload == ScriptsStart /\ UNCHANGED menuVars

RestartGame ==
    /\ ScriptsStart
    /\ menu' = "off" /\ shared' = Fresh("unset")
    /\ UNCHANGED <<manifest, changes>>

Next ==
    MenuStarts \/ Change \/ WriteManifest \/ Bootstrap \/ Tick \/ Reload \/ RestartGame

Spec == Init /\ [][Next]_vars

\* The bootstrap runs to its end and the loop keeps ticking.
Fairness == WF_vars(WriteManifest) /\ WF_vars(Bootstrap) /\ WF_vars(Tick)

FairSpec == Spec /\ Fairness

-----------------------------------------------------------------------------
\* Whatever changes between a setting's poll and its subscription, the mod goes by
\* what the bridge has cached: a change that reached the cache reached the mod.
LiveIsCached ==
    \A k \in Keys : stage[k] # "new" =>
        /\ k \in GateKeys => live[k] = Toggle(cache[k])
        /\ k \notin GateKeys /\ cache[k] # "odd" => live[k] = cache[k]

\* A value that stays in the menu is the one the mod goes by in the end, whenever
\* it was set, through reloads, unless an odd value made the bootstrap fail.
SettingsFollowed ==
    \A k \in Keys, v \in {"low", "high"} :
        <>[](shared[k] = v) => <>[](failed \/ live[k] = v)
=============================================================================
