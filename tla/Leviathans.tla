----------------------------- MODULE Leviathans -----------------------------
(***************************************************************************)
(* Leviathans that come and hunt: the two loops that keep the player       *)
(* tagged as prey (mod/Scripts/aggro_loop.lua, void_aggro.lua, aggro.lua), *)
(* and the spawning of what the chat chose (spawn.lua, its preload timer   *)
(* in main.lua, the spawn handlers of events.lua).                         *)
(*                                                                         *)
(* Everything in the mod runs on the game thread, step by step.  Around it *)
(* the engine streams objects in and out, the player dies and travels, and *)
(* a tag taken from an object is worth nothing once the object is gone.    *)
(***************************************************************************)
EXTENDS Integers

CONSTANTS
    None,         \* Lua's nil
    Volumes,      \* the volumes of the leviathans' biome
    PreyTags,     \* PREY_TAGS
    OobTags,      \* what GE_OutOfBounds grants
    Carries,      \* volume -> the prey tags it grants
    ScanEvery,    \* _scan_every
    MaxTroubles   \* bound: deaths, travels, unloads and reloads

Kinds == {"collector", "void"}

ASSUME LeviathansAssumption ==
    /\ Carries \in [Volumes -> SUBSET PreyTags]
    /\ ScanEvery \in Nat \ {0} /\ MaxTroubles \in Nat
    /\ PreyTags \cap OobTags = {}
    /\ None \notin [src : Volumes, live : BOOLEAN] \cup {"live", "stale"}

VARIABLES
    place,        \* "travel": no world; "world": no player in it; "playing"
    loaded,       \* the volumes in memory
    oob,          \* is the class GE_OutOfBounds in memory?
    carried,      \* the tags on the player's ability system
    counter,      \* _counter, modulo ScanEvery
    cache,        \* aggro_loop's tag_cache: tag -> its source, and whether that
                  \* is still there, or None
    voidStarted,  \* void_aggro's M.started
    voidTags,     \* void_aggro's tags: None, "live", or "stale" once their class
                  \* has gone
    classes,      \* kind -> its class: "absent", "loading" or "loaded"
    preloading,   \* is the preload timer running?
    hunters,      \* history: the kinds spawned in this session of the mod
    dangling,     \* history: the kinds whose loop, this session, handed the
                  \* engine a dead tag
    troubles      \* deaths, travels, unloads and reloads so far

engineVars == <<place, loaded, oob, carried>>
preyVars == <<counter, cache>>
voidVars == <<voidStarted, voidTags>>
spawnVars == <<classes, preloading, hunters>>
vars == <<engineVars, preyVars, voidVars, spawnVars, dangling, troubles>>

Entries == [src : Volumes, live : BOOLEAN]

TypeOK ==
    /\ place \in {"travel", "world", "playing"}
    /\ loaded \subseteq Volumes /\ oob \in BOOLEAN
    /\ carried \subseteq PreyTags \cup OobTags
    /\ counter \in 0..ScanEvery-1 /\ cache \in [PreyTags -> Entries \cup {None}]
    /\ voidStarted \in BOOLEAN /\ voidTags \in {None, "live", "stale"}
    /\ classes \in [Kinds -> {"absent", "loading", "loaded"}]
    /\ preloading \in BOOLEAN /\ hunters \subseteq Kinds /\ dangling \subseteq Kinds
    /\ troubles \in 0..MaxTroubles

NoTags == [t \in PreyTags |-> None]

\* bootstrap starts the prey loop and the preload timer, at the title screen.
Init ==
    /\ place = "world" /\ loaded = {} /\ oob \in BOOLEAN /\ carried = {}
    /\ counter = 0 /\ cache = NoTags /\ voidStarted = FALSE /\ voidTags = None
    /\ classes = [k \in Kinds |-> "absent"] /\ preloading = TRUE
    /\ hunters = {} /\ dangling = {} /\ troubles = 0

(***************************************************************************)
(* The prey loop.                                                          *)
(***************************************************************************)
\* Mutant: the source of a cached tag is not looked at again.
CachedForever(t) == cache[t] # None

\* cached_tag: an entry counts while its source is valid.
Cached(t) == cache[t] # None /\ cache[t].live

Bearers(t) == {s \in loaded : t \in Carries[s]}

\* The scan, at one tick in ScanEvery, takes the first volume that grants the tag.
Search(t) ==
    IF counter' = 0 /\ Bearers(t) # {}
      THEN {[src |-> s, live |-> TRUE] : s \in Bearers(t)} ELSE {None}

\* harvest_tag: the entries it may leave for t; it returns the tag of that entry.
Harvest(t) == IF Cached(t) THEN {cache[t]} ELSE Search(t)

\* A tag whose object is gone may do nothing, or what it did.
Given(live, dead) == {carried \cup live \cup d : d \in SUBSET dead}

\* apply_prey_tags returns before it looks for a tag if there is no player.
PreyTick ==
    /\ counter' = (counter + 1) % ScanEvery
    /\ IF place = "playing"
         THEN /\ cache' \in [PreyTags -> Entries \cup {None}]
              /\ \A t \in PreyTags : cache'[t] \in Harvest(t)
              /\ LET found == {t \in PreyTags : cache'[t] # None}
                     dead  == {t \in found : ~cache'[t].live}
                 IN  /\ carried' \in Given(found \ dead, dead)
                     /\ dangling' = IF dead = {} THEN dangling
                                    ELSE dangling \cup {"collector"}
         ELSE UNCHANGED <<cache, carried, dangling>>
    /\ UNCHANGED <<place, loaded, oob, voidVars, spawnVars, troubles>>

(***************************************************************************)
(* The void loop: it takes its tags once, from the class that the player's *)
(* component names or that FindObject finds, and never looks back.         *)
(***************************************************************************)
HarvestOob == IF voidTags = None /\ oob THEN "live" ELSE voidTags

VoidTick ==
    /\ voidStarted
    /\ voidTags' = HarvestOob
    /\ IF place = "playing" /\ voidTags' # None
         THEN LET dead == IF voidTags' = "stale" THEN OobTags ELSE {}
              IN  /\ carried' \in Given(OobTags \ dead, dead)
                  /\ dangling' = IF dead = {} THEN dangling
                                 ELSE dangling \cup {"void"}
         ELSE UNCHANGED <<carried, dangling>>
    /\ UNCHANGED <<place, loaded, oob, preyVars, voidStarted, spawnVars, troubles>>

(***************************************************************************)
(* Spawning.  LoadAsset completes, or is deferred.                         *)
(***************************************************************************)
Load(state) == IF state = "loaded" THEN {"loaded"} ELSE {"loading", "loaded"}

\* The timer of main.lua: preload until the class is in memory.
PreloadTick ==
    /\ preloading
    /\ \E state \in Load(classes["collector"]) :
          /\ classes' = [classes EXCEPT !["collector"] = state]
          /\ preloading' = (state # "loaded")
    /\ UNCHANGED <<engineVars, preyVars, voidVars, hunters, dangling, troubles>>

\* Mutant: a class that is not in memory is not loaded.
LookUp(k) == {classes[k]}

\* resolve_class: look it up, and if it is not in memory load it.
Resolve(k) == Load(classes[k])

\* Mutant: no handler starts a loop of its own.
StartLoopNever(k) == UNCHANGED voidStarted

\* The loop the kind hunts by.  The prey loop runs since bootstrap.
StartLoop(k) == voidStarted' = (voidStarted \/ k = "void")

\* Spawn.spawn: without a world it does not resolve, without a class or a player it
\* does not spawn, and the engine may turn every actor down.
Spawn(k) ==
    IF place = "travel"
      THEN UNCHANGED <<classes, hunters>>
      ELSE \E state \in Resolve(k) :
             /\ classes' = [classes EXCEPT ![k] = state]
             /\ \/ UNCHANGED hunters
                \/ /\ state = "loaded" /\ place = "playing"
                   /\ hunters' = hunters \cup {k}

\* The handler of a spawn event.
SpawnEvent(k) ==
    /\ StartLoop(k) /\ Spawn(k)
    /\ UNCHANGED <<engineVars, preyVars, voidTags, preloading, dangling, troubles>>

(***************************************************************************)
(* The engine and the player.                                              *)
(***************************************************************************)
FinishLoad(k) ==
    /\ classes[k] = "loading" /\ classes' = [classes EXCEPT ![k] = "loaded"]
    /\ UNCHANGED <<engineVars, preyVars, voidVars, preloading, hunters, dangling,
                   troubles>>

\* A world is there, then the player is, with an ability system of their own.
Arrive ==
    /\ place' = CASE place = "travel" -> "world" [] OTHER -> "playing"
    /\ place # "playing"
    /\ UNCHANGED <<loaded, oob, carried, preyVars, voidVars, spawnVars, dangling,
                   troubles>>

StreamIn ==
    /\ place # "travel"
    /\ \/ /\ loaded' \in {loaded \cup {s} : s \in Volumes} /\ UNCHANGED oob
       \/ oob' = TRUE /\ UNCHANGED loaded
    /\ UNCHANGED <<place, carried, preyVars, voidVars, spawnVars, dangling, troubles>>

Trouble == troubles < MaxTroubles /\ troubles' = troubles + 1

\* What was taken from the volumes in `gone` is dead.
Orphan(gone) ==
    cache' = [t \in PreyTags |-> IF cache[t] # None /\ cache[t].src \in gone
                                   THEN [cache[t] EXCEPT !.live = FALSE]
                                   ELSE cache[t]]

OrphanOob == voidTags' = IF voidTags = None THEN None ELSE "stale"

StreamOut ==
    /\ Trouble
    /\ \/ \E s \in loaded : /\ loaded' = loaded \ {s} /\ Orphan({s})
                            /\ UNCHANGED <<oob, voidTags>>
       \/ oob /\ oob' = FALSE /\ OrphanOob /\ UNCHANGED <<loaded, cache>>
    /\ UNCHANGED <<place, carried, counter, voidStarted, spawnVars, dangling>>

\* The tags go with the player, or with the volume that gave them.
Die ==
    /\ place = "playing" /\ Trouble
    /\ place' = "world" /\ carried' = {}
    /\ UNCHANGED <<loaded, oob, preyVars, voidVars, spawnVars, dangling>>

LeaveVolume ==
    /\ Trouble
    /\ carried' = carried \ PreyTags
    /\ UNCHANGED <<place, loaded, oob, preyVars, voidVars, spawnVars, dangling>>

Travel ==
    /\ Trouble
    /\ place' = "travel" /\ carried' = {} /\ loaded' = {} /\ oob' = FALSE
    /\ Orphan(loaded) /\ OrphanOob
    /\ classes' = [k \in Kinds |-> "absent"]
    /\ UNCHANGED <<counter, voidStarted, preloading, hunters, dangling>>

\* Ctrl+R: the game goes on, the mod starts again.
Reload ==
    /\ Trouble
    /\ counter' = 0 /\ cache' = NoTags /\ voidStarted' = FALSE /\ voidTags' = None
    /\ preloading' = TRUE /\ hunters' = {} /\ dangling' = {}
    /\ UNCHANGED <<engineVars, classes>>

Engine == Arrive \/ StreamIn \/ StreamOut \/ Die \/ LeaveVolume \/ Travel
            \/ \E k \in Kinds : FinishLoad(k)

Next == PreyTick \/ VoidTick \/ PreloadTick \/ Reload \/ Engine
          \/ \E k \in Kinds : SpawnEvent(k)

Spec == Init /\ [][Next]_vars

\* The timers keep firing, and a deferred load is done some time.  Neither the
\* chat nor the player owes anything.
Fairness ==
    /\ WF_vars(PreyTick) /\ WF_vars(VoidTick) /\ WF_vars(PreloadTick)
    /\ \A k \in Kinds : WF_vars(FinishLoad(k))

FairSpec == Spec /\ Fairness

-----------------------------------------------------------------------------
\* As aggro_loop.lua says of its cache ("a freed source would dangle"): no tag is
\* handed to the engine after its source has gone, however volumes stream in and
\* out between two ticks.  void_aggro.lua makes no such check: its loop is safe
\* only as long as the class it took the tags from stays in memory.
TagsAreLive ==
    dangling \subseteq (IF voidTags = "stale" THEN {"void"} ELSE {})

\* Leviathans hunt the player anywhere: whoever stays in the world, after any
\* number of deaths and travels, is prey again, as long as some volume has the tag;
\* and once a void leviathan was spawned also by its tags, unless those were taken
\* from a class that has been unloaded since.
HuntResumes ==
    /\ \A t \in PreyTags :
          <>[](place = "playing" /\ Bearers(t) # {}) => <>[](t \in carried)
    /\ <>[](place = "playing" /\ oob /\ "void" \in hunters)
          => <>[](OobTags \subseteq carried \/ voidTags = "stale")

\* The engine takes a creature whose class is in memory.
Accepted(k) == SpawnEvent(k) /\ classes[k] = "loaded" /\ k \in hunters'

\* Also on a cold save: if the chat keeps choosing it, the player stays and the
\* engine does not turn it down for ever, a kind is spawned.
LeviathansCome ==
    \A k \in Kinds :
        /\ <>[](place = "playing")
        /\ WF_vars(SpawnEvent(k)) /\ WF_vars(Accepted(k))
        => <>(k \in hunters)
=============================================================================
