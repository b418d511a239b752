--------------------------- MODULE LeviathansProofs ---------------------------
(***************************************************************************)
(* Proofs about the leviathans, for any volumes and tags, any period of    *)
(* the scan and any number of deaths, travels, unloads and reloads.        *)
(***************************************************************************)
EXTENDS Leviathans, TLAPS

IInv == TypeOK /\ TagsAreLive

(***************************************************************************)
(* What the operators return.                                              *)
(***************************************************************************)
\* Whatever a tick finds for a tag is there, in the cache or in a fresh scan.
LEMMA HarvestIsLive ==
    ASSUME TypeOK, NEW t \in PreyTags, NEW e \in Harvest(t), e # None
    PROVE  e \in Entries /\ e.live
<1>1. cache[t] \in Entries \cup {None}
  BY DEF TypeOK
<1>2. CASE Cached(t)
  BY <1>1, <1>2 DEF Harvest, Cached
<1>3. CASE ~Cached(t)
  <2>1. e \in {[src |-> s, live |-> TRUE] : s \in Bearers(t)}
    BY <1>3 DEF Harvest, Search
  <2>2. PICK s \in Bearers(t) : e = [src |-> s, live |-> TRUE]
    BY <2>1
  <2>3. s \in Volumes
    BY DEF Bearers, TypeOK
  <2> QED BY <2>2, <2>3 DEF Entries
<1> QED BY <1>2, <1>3

\* Nothing is given but what was carried or is handed over.
LEMMA GivenType ==
    ASSUME NEW live, NEW dead, NEW tags \in Given(live, dead)
    PROVE  tags \subseteq carried \cup live \cup dead
BY DEF Given

LEMMA OrphanType ==
    ASSUME TypeOK, NEW gone, Orphan(gone)
    PROVE  cache' \in [PreyTags -> Entries \cup {None}]
<1>1. \A t \in PreyTags : cache[t] \in Entries =>
          [cache[t] EXCEPT !.live = FALSE] \in Entries
  BY DEF Entries
<1>2. \A t \in PreyTags : cache[t] \in Entries \cup {None}
  BY DEF TypeOK
<1> QED BY <1>1, <1>2 DEF Orphan

LEMMA LoadType ==
    ASSUME NEW state \in {"absent", "loading", "loaded"}
    PROVE  Load(state) \subseteq {"loading", "loaded"}
BY DEF Load

(***************************************************************************)
(* Every step keeps the invariant.                                         *)
(***************************************************************************)
LEMMA InitIInv == Init => IInv
<1> SUFFICES ASSUME Init PROVE IInv
  OBVIOUS
<1>1. counter \in 0..ScanEvery-1 /\ troubles \in 0..MaxTroubles
  BY LeviathansAssumption DEF Init
<1>2. cache \in [PreyTags -> Entries \cup {None}]
  BY DEF Init, NoTags
<1>3. TypeOK
  BY <1>1, <1>2 DEF Init, TypeOK
<1> QED BY <1>3 DEF Init, IInv, TagsAreLive

\* The prey loop hands over live tags only.
LEMMA PreyTickIInv == IInv /\ PreyTick => IInv'
<1> SUFFICES ASSUME IInv, PreyTick PROVE IInv'
  OBVIOUS
<1>1. TypeOK /\ TagsAreLive
  BY DEF IInv
<1>2. UNCHANGED <<place, loaded, oob, voidStarted, voidTags, classes, preloading,
                  hunters, troubles>>
  BY DEF PreyTick, voidVars, spawnVars
<1>3. counter' \in 0..ScanEvery-1
  <2>1. counter \in Nat /\ ScanEvery \in Nat \ {0}
    BY <1>1, LeviathansAssumption DEF TypeOK
  <2> QED BY <2>1 DEF PreyTick
<1>4. CASE place = "playing"
  <2> DEFINE found == {t \in PreyTags : cache'[t] # None}
             dead  == {t \in found : ~cache'[t].live}
  <2>1. /\ cache' \in [PreyTags -> Entries \cup {None}]
        /\ \A t \in PreyTags : cache'[t] \in Harvest(t)
        /\ carried' \in Given(found \ dead, dead)
        /\ dangling' = IF dead = {} THEN dangling ELSE dangling \cup {"collector"}
    BY <1>4 DEF PreyTick
  <2>2. dead = {}
    BY <1>1, <2>1, HarvestIsLive
  <2>3. carried' \subseteq PreyTags \cup OobTags
    <3>1. carried' \subseteq carried \cup (found \ dead) \cup dead
      BY <2>1, GivenType
    <3>2. found \subseteq PreyTags /\ dead \subseteq PreyTags
      OBVIOUS
    <3> HIDE DEF found, dead
    <3> QED BY <1>1, <3>1, <3>2 DEF TypeOK
  <2>4. dangling' = dangling
    BY <2>1, <2>2
  <2> HIDE DEF found, dead
  <2>5. TypeOK'
    BY <1>1, <1>2, <1>3, <2>1, <2>3, <2>4 DEF TypeOK
  <2> QED BY <1>1, <1>2, <2>4, <2>5 DEF IInv, TagsAreLive
<1>5. CASE place # "playing"
  <2>1. UNCHANGED <<cache, carried, dangling>>
    BY <1>5 DEF PreyTick
  <2>2. TypeOK'
    BY <1>1, <1>2, <1>3, <2>1 DEF TypeOK
  <2> QED BY <1>1, <1>2, <2>1, <2>2 DEF IInv, TagsAreLive
<1> QED BY <1>4, <1>5

\* The void loop hands over a dead tag only once its class has gone.
LEMMA VoidTickIInv == IInv /\ VoidTick => IInv'
<1> SUFFICES ASSUME IInv, VoidTick PROVE IInv'
  OBVIOUS
<1>1. TypeOK /\ TagsAreLive
  BY DEF IInv
<1>2. UNCHANGED <<place, loaded, oob, counter, cache, voidStarted, classes, preloading,
                  hunters, troubles>>
  BY DEF VoidTick, preyVars, spawnVars
<1>3. voidTags' \in {None, "live", "stale"} /\ (voidTags = "stale" => voidTags' = "stale")
  BY <1>1, LeviathansAssumption DEF VoidTick, HarvestOob, TypeOK
<1>4. CASE place = "playing" /\ voidTags' # None
  <2> DEFINE dead == IF voidTags' = "stale" THEN OobTags ELSE {}
  <2>1. /\ carried' \in Given(OobTags \ dead, dead)
        /\ dangling' = IF dead = {} THEN dangling ELSE dangling \cup {"void"}
    BY <1>4 DEF VoidTick
  <2>2. carried' \subseteq PreyTags \cup OobTags
    <3>1. carried' \subseteq carried \cup (OobTags \ dead) \cup dead
      BY <2>1, GivenType
    <3>2. dead \subseteq OobTags
      OBVIOUS
    <3> HIDE DEF dead
    <3> QED BY <1>1, <3>1, <3>2 DEF TypeOK
  <2>3. /\ dangling' \subseteq Kinds
        /\ voidTags' # "stale" => dangling' = dangling
        /\ dangling' \subseteq dangling \cup {"void"}
    BY <1>1, <2>1 DEF TypeOK, Kinds
  <2>4. TypeOK'
    BY <1>1, <1>2, <1>3, <2>2, <2>3 DEF TypeOK
  <2>5. TagsAreLive'
    BY <1>1, <1>3, <2>3 DEF TagsAreLive
  <2> QED BY <2>4, <2>5 DEF IInv
<1>5. CASE ~(place = "playing" /\ voidTags' # None)
  <2>1. UNCHANGED <<carried, dangling>>
    BY <1>5 DEF VoidTick
  <2>2. TypeOK'
    BY <1>1, <1>2, <1>3, <2>1 DEF TypeOK
  <2>3. TagsAreLive'
    BY <1>1, <1>3, <2>1 DEF TagsAreLive
  <2> QED BY <2>2, <2>3 DEF IInv
<1> QED BY <1>4, <1>5

\* Preloading, spawning and a load that completes touch no tag.
LEMMA SpawnIInv ==
    ASSUME IInv, NEW k \in Kinds, PreloadTick \/ FinishLoad(k) \/ SpawnEvent(k)
    PROVE  IInv'
<1>1. TypeOK /\ TagsAreLive
  BY DEF IInv
<1>2. UNCHANGED <<place, loaded, oob, carried, counter, cache, voidTags, dangling,
                  troubles>>
  BY DEF PreloadTick, FinishLoad, SpawnEvent, engineVars, preyVars, voidVars
<1>3. \A l \in Kinds : Load(classes[l]) \subseteq {"loading", "loaded"}
  BY <1>1, LoadType DEF TypeOK
<1>4. classes' \in [Kinds -> {"absent", "loading", "loaded"}]
  <2>0. classes \in [Kinds -> {"absent", "loading", "loaded"}] /\ "collector" \in Kinds
    BY <1>1 DEF TypeOK, Kinds
  <2>1. CASE PreloadTick
    <3>1. PICK state \in Load(classes["collector"]) :
              classes' = [classes EXCEPT !["collector"] = state]
      BY <2>1 DEF PreloadTick
    <3> QED BY <1>3, <2>0, <3>1
  <2>2. CASE FinishLoad(k)
    BY <2>0, <2>2 DEF FinishLoad
  <2>3. CASE SpawnEvent(k)
    <3>1. UNCHANGED classes \/ \E state \in Load(classes[k]) :
                                  classes' = [classes EXCEPT ![k] = state]
      BY <2>3 DEF SpawnEvent, Spawn, Resolve
    <3> QED BY <1>3, <2>0, <3>1
  <2> QED BY <2>1, <2>2, <2>3
<1>5. voidStarted' \in BOOLEAN /\ preloading' \in BOOLEAN
  <2>1. CASE PreloadTick
    BY <1>1, <2>1 DEF PreloadTick, voidVars, TypeOK
  <2>2. CASE FinishLoad(k)
    BY <1>1, <2>2 DEF FinishLoad, voidVars, TypeOK
  <2>3. CASE SpawnEvent(k)
    BY <1>1, <2>3 DEF SpawnEvent, StartLoop, TypeOK
  <2> QED BY <2>1, <2>2, <2>3
<1>6. hunters' \subseteq Kinds
  <2>1. hunters' = hunters \/ hunters' = hunters \cup {k}
    BY DEF PreloadTick, FinishLoad, SpawnEvent, Spawn
  <2> QED BY <1>1, <2>1 DEF TypeOK
<1>7. TypeOK'
  BY <1>1, <1>2, <1>4, <1>5, <1>6 DEF TypeOK
<1> QED BY <1>1, <1>2, <1>7 DEF IInv, TagsAreLive

\* The engine and the player take tags away, and what they came from; a reload
\* forgets both.
LEMMA EngineIInv ==
    ASSUME IInv,
           Arrive \/ StreamIn \/ StreamOut \/ Die \/ LeaveVolume \/ Travel \/ Reload
             \/ UNCHANGED vars
    PROVE  IInv'
<1>1. TypeOK /\ TagsAreLive
  BY DEF IInv
<1>2. troubles' \in 0..MaxTroubles
  <2>1. troubles' = troubles \/ (troubles < MaxTroubles /\ troubles' = troubles + 1)
    BY DEF Arrive, StreamIn, StreamOut, Die, LeaveVolume, Travel, Reload, Trouble, vars
  <2> QED BY <1>1, <2>1, LeviathansAssumption DEF TypeOK
<1>3. counter' \in 0..ScanEvery-1
  <2>1. counter' \in {counter, 0}
    BY DEF Arrive, StreamIn, StreamOut, Die, LeaveVolume, Travel, Reload, preyVars, vars
  <2> QED BY <1>1, <2>1, LeviathansAssumption DEF TypeOK
<1>4. cache' \in [PreyTags -> Entries \cup {None}]
  <2>1. UNCHANGED cache \/ cache' = NoTags \/ \E gone \in SUBSET Volumes : Orphan(gone)
    <3>1. CASE StreamOut
      BY <1>1, <3>1 DEF StreamOut, TypeOK
    <3>2. CASE Travel
      BY <1>1, <3>2 DEF Travel, TypeOK
    <3> QED BY <3>1, <3>2 DEF Arrive, StreamIn, Die, LeaveVolume, Reload, preyVars, vars
  <2>2. NoTags \in [PreyTags -> Entries \cup {None}]
    BY DEF NoTags
  <2> QED BY <1>1, <2>1, <2>2, OrphanType DEF TypeOK
<1>5. /\ place' \in {"travel", "world", "playing"} /\ loaded' \subseteq Volumes
      /\ oob' \in BOOLEAN
  <2>1. CASE StreamIn
    BY <1>1, <2>1 DEF StreamIn, TypeOK
  <2>2. CASE StreamOut
    BY <1>1, <2>2 DEF StreamOut, TypeOK
  <2>3. CASE Travel
    BY <1>1, <2>3 DEF Travel, TypeOK
  <2>4. CASE Arrive
    BY <1>1, <2>4 DEF Arrive, TypeOK
  <2> QED BY <1>1, <2>1, <2>2, <2>3, <2>4
          DEF Die, LeaveVolume, Reload, engineVars, vars, TypeOK
<1>6. carried' \subseteq carried
  BY DEF Arrive, StreamIn, StreamOut, Die, LeaveVolume, Travel, Reload, engineVars, vars
<1>7. /\ voidStarted' \in BOOLEAN /\ preloading' \in BOOLEAN
      /\ hunters' \subseteq Kinds
      /\ classes' \in [Kinds -> {"absent", "loading", "loaded"}]
  <2>1. CASE Travel
    BY <1>1, <2>1 DEF Travel, TypeOK
  <2>2. CASE Reload
    BY <1>1, <2>2 DEF Reload, TypeOK
  <2>3. CASE ~Travel /\ ~Reload
    <3>1. UNCHANGED <<voidStarted, preloading, hunters, classes>>
      BY <2>3 DEF Arrive, StreamIn, StreamOut, Die, LeaveVolume, voidVars, spawnVars, vars
    <3> QED BY <1>1, <3>1 DEF TypeOK
  <2> QED BY <2>1, <2>2, <2>3
<1>8. /\ voidTags' \in {None, "live", "stale"}
      /\ \/ dangling' = {}
         \/ dangling' = dangling /\ (voidTags = "stale" => voidTags' = "stale")
  <2>1. CASE Reload
    BY <2>1 DEF Reload
  <2>2. CASE ~Reload
    <3>1. dangling' = dangling /\ (UNCHANGED voidTags \/ OrphanOob)
      BY <2>2
      DEF Arrive, StreamIn, StreamOut, Die, LeaveVolume, Travel, voidVars, vars
    <3>2. voidTags' \in {voidTags, None, "stale"} /\ (voidTags = "stale" => voidTags' = "stale")
      BY <3>1, LeviathansAssumption DEF OrphanOob
    <3> QED BY <1>1, <3>1, <3>2 DEF TypeOK
  <2> QED BY <2>1, <2>2
<1>9. TypeOK'
  <2>1. carried' \subseteq PreyTags \cup OobTags /\ dangling' \subseteq Kinds
    BY <1>1, <1>6, <1>8 DEF TypeOK
  <2> QED BY <1>2, <1>3, <1>4, <1>5, <1>7, <1>8, <2>1 DEF TypeOK
<1>10. TagsAreLive'
  BY <1>1, <1>8 DEF TagsAreLive
<1> QED BY <1>9, <1>10 DEF IInv

LEMMA NextIInv == IInv /\ [Next]_vars => IInv'
BY PreyTickIInv, VoidTickIInv, SpawnIInv, EngineIInv DEF Next, Engine, Kinds

LEMMA Invariance == Spec => []IInv
BY InitIInv, NextIInv, PTL DEF Spec

(***************************************************************************)
(* The theorems.                                                           *)
(***************************************************************************)

\* The types of the loops' variables (aggro_loop.lua, void_aggro.lua, spawn.lua).
THEOREM TypeCorrect == Spec => []TypeOK
<1>1. IInv => TypeOK
  BY DEF IInv
<1> QED BY <1>1, Invariance, PTL

\* However volumes stream in and out between two ticks, aggro_loop.lua hands the
\* engine no tag whose source has gone; void_aggro.lua does so only once the class
\* it harvested from has been unloaded.
THEOREM NoDanglingTag == Spec => []TagsAreLive
<1>1. IInv => TagsAreLive
  BY DEF IInv
<1> QED BY <1>1, Invariance, PTL
=============================================================================
