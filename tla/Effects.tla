------------------------------- MODULE Effects -------------------------------
(***************************************************************************)
(* What a winning event does to the player, and what takes it back: the    *)
(* handler table and normalize of mod/Scripts/events.lua, the timers of    *)
(* mod/Scripts/buffs.lua, and, external to both, the cheats of the game.   *)
(*                                                                         *)
(* Five handlers start something temporary.  Two of them flip a cheat that *)
(* is a toggle, and their revert flips it again; three set a value, and    *)
(* their revert sets the normal one.                                       *)
(*                                                                         *)
(* Time is relative: buffs[k] is what was left of k's timer at the last    *)
(* tick of the chaos loop.                                                 *)
(***************************************************************************)
EXTENDS Integers

CONSTANTS
    None,          \* Lua's nil
    Known,         \* the events of the catalog the mod loaded (by_id)
    BaseSeconds,   \* timed event -> durationSeconds of the catalog
    Scales         \* values of the duration slider, in quarters

Toggles == {"god_mode", "noclip"}
Setters == {"super_speed", "slomo_fast", "slomo_slow"}
Timed == Toggles \cup Setters

Keys == {"god", "move", "swim", "slomo"}
ToggleKeys == {"god", "move"}
SetterKeys == Keys \ ToggleKeys

\* The buffKey of the catalog; the two slomo events share theirs.
BuffKey(e) == CASE e = "god_mode"    -> "god"
                [] e = "noclip"      -> "move"
                [] e = "super_speed" -> "swim"
                [] OTHER             -> "slomo"

ASSUME EffectsAssumption ==
    /\ None \notin Int
    /\ BaseSeconds \in [Timed -> Nat]
    /\ Scales \subseteq Nat

VARIABLES
    engine,    \* key -> "normal" or the event whose effect is on
    buffs      \* key -> seconds left at the last tick, None if not armed

EffectsTypeOK ==
    /\ engine \in [Keys -> Timed \cup {"normal"}]
    /\ buffs \in [Keys -> Nat \cup {None}]

AllNormal == [k \in Keys |-> "normal"]
NoBuffs == [k \in Keys |-> None]

\* scaled_duration: at least a second, rounded to whole ones.
ScaledDuration(base, quarters) ==
    IF base * quarters < 4 THEN 1 ELSE (base * quarters + 2) \div 4

(***************************************************************************)
(* The cheats.  `works` is FALSE while the game has no cheat manager: the  *)
(* call then changes nothing and the handler goes on.                      *)
(***************************************************************************)
ToggleOf(k) == IF k = "god" THEN "god_mode" ELSE "noclip"

Flip(eng, k) ==
    [eng EXCEPT ![k] = IF @ = "normal" THEN ToggleOf(k) ELSE "normal"]

Cheat(eng, e, works) ==
    IF ~works THEN eng
    ELSE IF e \in Toggles THEN Flip(eng, BuffKey(e))
    ELSE [eng EXCEPT ![BuffKey(e)] = e]

\* What the revert of a buff on k does.
RevertTo(eng, k) == IF k \in ToggleKeys
                      THEN IF eng[k] = "normal" THEN ToggleOf(k) ELSE "normal"
                      ELSE "normal"

\* Mutant: a running timer is not extended.
AddKeep(bfs, k, seconds) ==
    IF bfs[k] = None THEN [bfs EXCEPT ![k] = seconds] ELSE bfs

\* buffs:add arms or refreshes.
Add(bfs, k, seconds) == [bfs EXCEPT ![k] = seconds]

(***************************************************************************)
(* The handler of e, run under pcall.  Without a catalog entry (ev is nil) *)
(* the toggling handlers fail after the cheat, the setting ones before it. *)
(* Handlers of events that are not timed leave both variables alone.       *)
(***************************************************************************)
Handle(eff, e, quarters, works) ==
    IF e \in Timed /\ e \in Known
      THEN [ engine |-> Cheat(eff.engine, e, works),
             buffs  |-> Add(eff.buffs, BuffKey(e),
                            ScaledDuration(BaseSeconds[e], quarters)) ]
    ELSE IF e \in Toggles
      THEN [eff EXCEPT !.engine = Cheat(@, e, works)]
    ELSE eff

\* The timers d seconds later.
Aged(bfs, d) == [k \in Keys |->
    IF bfs[k] = None THEN None ELSE IF bfs[k] > d THEN bfs[k] - d ELSE 0]

Expired(bfs) == {k \in Keys : bfs[k] = 0}

\* buffs:tick fires and removes every buff whose time is up.
BuffsTick(eff, works) ==
    LET due == Expired(eff.buffs)
    IN  [ engine |-> [k \in Keys |-> IF works /\ k \in due
                                       THEN RevertTo(eff.engine, k)
                                       ELSE eff.engine[k]],
          buffs  |-> [k \in Keys |-> IF k \in due THEN None ELSE eff.buffs[k]] ]

\* Mutant: the world's speed is not restored.
NormalizeSwim(eng, works) ==
    [k \in Keys |-> IF works /\ k = "swim" THEN "normal" ELSE eng[k]]

\* normalize sets what can be set; walk() does nothing to the swim pawn.
Normalize(eng, works) ==
    [k \in Keys |-> IF works /\ k \in SetterKeys THEN "normal" ELSE eng[k]]
=============================================================================
