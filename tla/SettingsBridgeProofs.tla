------------------------- MODULE SettingsBridgeProofs -------------------------
(***************************************************************************)
(* Proofs about the settings bridge, for any set of keys and any number of *)
(* changes, reloads and restarts.                                          *)
(***************************************************************************)
EXTENDS SettingsBridge, TLAPS

\* What has been polled is in the cache: every poll leaves a value there.
PolledIsCached == \A k \in Keys : stage[k] # "new" => cache[k] \in Raw

IInv == TypeOK /\ PolledIsCached /\ LiveIsCached

(***************************************************************************)
(* The two ways in which a value becomes the one the mod goes by.          *)
(***************************************************************************)
\* Whatever the order of cache, shared variable and default, a poll has a value.
LEMMA FirstValueType ==
    ASSUME TypeOK, NEW k \in Keys
    PROVE  FirstValue(k) \in Raw
<1>1. cache[k] \in Raw \cup {"unset"} /\ shared[k] \in Raw \cup {"unset"} /\ Default \in Raw
  BY SettingsAssumption DEF TypeOK, Raw
<1>2. CASE cache[k] # "unset"
  BY <1>1, <1>2 DEF FirstValue
<1>3. CASE cache[k] = "unset" /\ shared[k] # "unset"
  BY <1>1, <1>3 DEF FirstValue
<1>4. CASE cache[k] = "unset" /\ shared[k] = "unset"
  BY <1>1, <1>4 DEF FirstValue
<1> QED BY <1>2, <1>3, <1>4

\* What a subscriber makes of a value is what a poll would have made of it.
LEMMA ToldType ==
    ASSUME NEW k \in Keys, NEW v \in Raw, live[k] \in Raw
    PROVE  /\ Told(k, v) \in Raw
           /\ k \in GateKeys => Told(k, v) = Toggle(v)
           /\ k \notin GateKeys /\ v # "odd" => Told(k, v) = v
BY DEF Told, Toggle, Raw

(***************************************************************************)
(* Every step keeps the invariant.                                         *)
(***************************************************************************)
LEMMA InitIInv == Init => IInv
<1> SUFFICES ASSUME Init PROVE IInv
  OBVIOUS
<1>1. changes \in 0..MaxChanges /\ reloads \in 0..MaxReloads
  BY SettingsAssumption DEF Init
<1>2. TypeOK
  BY <1>1 DEF Init, TypeOK, Fresh
<1> QED BY <1>2 DEF Init, Fresh, IInv, PolledIsCached, LiveIsCached

\* The menu starts or changes a shared variable, the manifest is written.
LEMMA OutsideIInv ==
    IInv /\ (MenuStarts \/ Change \/ WriteManifest \/ UNCHANGED vars) => IInv'
<1> SUFFICES ASSUME IInv, MenuStarts \/ Change \/ WriteManifest \/ UNCHANGED vars
             PROVE  IInv'
  OBVIOUS
<1>1. TypeOK /\ PolledIsCached /\ LiveIsCached
  BY DEF IInv
<1>2. UNCHANGED <<cache, stage, live, failed, reloads>>
  BY DEF MenuStarts, Change, WriteManifest, vars, menuVars, modVars
<1>3. changes' \in 0..MaxChanges
  <2>1. changes \in 0..MaxChanges /\ MaxChanges \in Nat
    BY <1>1, SettingsAssumption DEF TypeOK
  <2>2. CASE Change
    BY <2>1, <2>2 DEF Change
  <2> QED BY <2>1, <2>2 DEF MenuStarts, WriteManifest, vars, menuVars
<1>4. shared' \in [Keys -> Raw \cup {"unset"}]
  <2>1. CASE Change
    BY <1>1, <2>1 DEF Change, Registration, TypeOK
  <2> QED BY <1>1, <2>1 DEF MenuStarts, WriteManifest, vars, menuVars, TypeOK
<1>5. manifest' \in BOOLEAN /\ registered' \in BOOLEAN /\ menu' \in {"off", "empty", "up"}
  BY <1>1 DEF MenuStarts, Change, WriteManifest, vars, menuVars, modVars, TypeOK
<1>6. TypeOK'
  BY <1>1, <1>2, <1>3, <1>4, <1>5 DEF TypeOK
<1> QED BY <1>1, <1>2, <1>6 DEF IInv, PolledIsCached, LiveIsCached

LEMMA PollIInv == ASSUME NEW k \in Keys, IInv, Poll(k) PROVE IInv'
<1>1. TypeOK /\ PolledIsCached /\ LiveIsCached /\ stage[k] = "new"
  BY DEF IInv, Poll
<1>2. FirstValue(k) \in Raw
  BY <1>1, FirstValueType
<1>3. /\ cache' = [cache EXCEPT ![k] = FirstValue(k)] /\ cache'[k] = FirstValue(k)
      /\ UNCHANGED <<manifest, menu, shared, changes, registered, reloads>>
  BY <1>1 DEF Poll, menuVars, TypeOK
<1>4. cache' \in [Keys -> Raw \cup {"unset"}]
  BY <1>1, <1>2, <1>3 DEF TypeOK
<1>5. CASE failed' = TRUE /\ UNCHANGED <<stage, live>>
  <2>1. TypeOK'
    BY <1>1, <1>3, <1>4, <1>5 DEF TypeOK
  <2>2. \A l \in Keys : stage[l] # "new" => cache'[l] = cache[l]
    BY <1>1, <1>3 DEF TypeOK
  <2>3. PolledIsCached'
    BY <1>1, <1>5, <2>2 DEF PolledIsCached
  <2>4. LiveIsCached'
    BY <1>1, <1>5, <2>2 DEF LiveIsCached
  <2> QED BY <2>1, <2>3, <2>4 DEF IInv
<1>6. CASE /\ stage' = [stage EXCEPT ![k] = "polled"]
           /\ live' = [live EXCEPT ![k] = IF k \in GateKeys THEN Toggle(cache'[k])
                                                            ELSE cache'[k]]
           /\ UNCHANGED failed
  <2> DEFINE v == IF k \in GateKeys THEN Toggle(cache'[k]) ELSE cache'[k]
  <2>1. v \in Raw
    BY <1>2, <1>3 DEF Toggle, Raw
  <2>2. v # "none"
    BY <2>1 DEF Raw
  <2>3. /\ stage' \in [Keys -> {"new", "polled", "subscribed"}]
        /\ stage'[k] = "polled" /\ live'[k] = v
        /\ \A l \in Keys \ {k} : /\ stage'[l] = stage[l] /\ live'[l] = live[l]
                                 /\ cache'[l] = cache[l]
    BY <1>1, <1>3, <1>6 DEF TypeOK
  <2>4. live' \in [Keys -> Raw \cup {"none"}]
    BY <1>1, <1>6, <2>1 DEF TypeOK
  <2>5. \A l \in Keys : (live'[l] = "none") = (stage'[l] = "new")
    BY <1>1, <2>2, <2>3 DEF TypeOK
  <2>6. TypeOK'
    BY <1>1, <1>3, <1>4, <1>6, <2>3, <2>4, <2>5 DEF TypeOK
  <2>7. PolledIsCached'
    BY <1>1, <1>2, <1>3, <2>3 DEF PolledIsCached
  <2>8. LiveIsCached'
    BY <1>1, <2>3 DEF LiveIsCached
  <2> QED BY <2>6, <2>7, <2>8 DEF IInv
<1> QED BY <1>5, <1>6 DEF Poll

LEMMA SubscribeIInv == ASSUME NEW k \in Keys, IInv, Subscribe(k) PROVE IInv'
<1>1. TypeOK /\ PolledIsCached /\ LiveIsCached
  BY DEF IInv
<1>2. /\ stage[k] = "polled" /\ stage' = [stage EXCEPT ![k] = "subscribed"]
      /\ UNCHANGED <<manifest, menu, shared, changes, registered, cache, live, failed,
                     reloads>>
  BY DEF Subscribe, menuVars
<1>3. /\ stage' \in [Keys -> {"new", "polled", "subscribed"}]
      /\ \A l \in Keys : (stage'[l] = "new") = (stage[l] = "new")
  BY <1>1, <1>2 DEF TypeOK
<1>4. TypeOK'
  BY <1>1, <1>2, <1>3 DEF TypeOK
<1> QED BY <1>1, <1>2, <1>3, <1>4 DEF IInv, PolledIsCached, LiveIsCached

\* Cache and subscriber get the same value, or neither does.
LEMMA TickIInv == IInv /\ Tick => IInv'
<1> SUFFICES ASSUME IInv, Tick PROVE IInv'
  OBVIOUS
<1>1. TypeOK /\ PolledIsCached /\ LiveIsCached
  BY DEF IInv
<1> DEFINE news == {k \in Keys : stage[k] = "subscribed" /\ Changed(k)}
<1>2. /\ cache' = [k \in Keys |-> IF k \in news THEN shared[k] ELSE cache[k]]
      /\ live' = [k \in Keys |-> IF k \in news THEN Told(k, shared[k]) ELSE live[k]]
      /\ UNCHANGED <<manifest, menu, shared, changes, registered, stage, failed, reloads>>
  BY DEF Tick, menuVars
<1>3. \A k \in news : k \in Keys /\ stage[k] = "subscribed" /\ shared[k] \in Raw
                      /\ live[k] \in Raw
  BY <1>1 DEF TypeOK, Changed
<1>4. \A k \in news : /\ Told(k, shared[k]) \in Raw
                      /\ k \in GateKeys => Told(k, shared[k]) = Toggle(shared[k])
                      /\ k \notin GateKeys /\ shared[k] # "odd"
                           => Told(k, shared[k]) = shared[k]
  BY <1>3, ToldType
<1> HIDE DEF news
<1>5. TypeOK'
  <2>1. cache' \in [Keys -> Raw \cup {"unset"}] /\ live' \in [Keys -> Raw \cup {"none"}]
    BY <1>1, <1>2, <1>3, <1>4 DEF TypeOK
  <2>2. \A k \in Keys : (live'[k] = "none") = (stage[k] = "new")
    BY <1>1, <1>2, <1>3, <1>4 DEF TypeOK, Raw
  <2> QED BY <1>1, <1>2, <2>1, <2>2 DEF TypeOK
<1>6. PolledIsCached'
  BY <1>1, <1>2, <1>3 DEF PolledIsCached
<1>7. LiveIsCached'
  BY <1>1, <1>2, <1>3, <1>4 DEF LiveIsCached
<1> QED BY <1>5, <1>6, <1>7 DEF IInv

LEMMA ScriptsIInv == IInv /\ (Reload \/ RestartGame) => IInv'
<1> SUFFICES ASSUME IInv, Reload \/ RestartGame PROVE IInv'
  OBVIOUS
<1>1. TypeOK
  BY DEF IInv
<1>2. /\ reloads' \in 0..MaxReloads /\ registered' = FALSE /\ failed' = FALSE
      /\ cache' = Fresh("unset") /\ stage' = Fresh("new") /\ live' = Fresh("none")
  BY <1>1, SettingsAssumption DEF Reload, RestartGame, ScriptsStart, TypeOK
<1>3. /\ manifest' \in BOOLEAN /\ menu' \in {"off", "empty", "up"}
      /\ shared' \in [Keys -> Raw \cup {"unset"}] /\ changes' \in 0..MaxChanges
  BY <1>1 DEF Reload, RestartGame, menuVars, TypeOK, Fresh
<1>4. TypeOK'
  BY <1>2, <1>3 DEF TypeOK, Fresh
<1> QED BY <1>2, <1>4 DEF IInv, PolledIsCached, LiveIsCached, Fresh

LEMMA NextIInv == IInv /\ [Next]_vars => IInv'
<1>1. IInv /\ Bootstrap => IInv'
  BY PollIInv, SubscribeIInv DEF Bootstrap
<1> QED BY <1>1, OutsideIInv, TickIInv, ScriptsIInv DEF Next

LEMMA Invariance == Spec => []IInv
BY InitIInv, NextIInv, PTL DEF Spec

(***************************************************************************)
(* The theorems.                                                           *)
(***************************************************************************)

\* The types of the bridge's variables: what the mod goes by is unset exactly as
\* long as the setting has not been polled (settings_bridge.lua, main.lua).
THEOREM TypeCorrect == Spec => []TypeOK
<1>1. IInv => TypeOK
  BY DEF IInv
<1> QED BY <1>1, Invariance, PTL

\* A change that reaches settings_bridge's cache has reached the mod, at whatever
\* point of main.lua's bootstrap the polling loop ticks: poll and tick are the only
\* writers of the cache, and tick leaves alone what nobody subscribes to.
THEOREM NoChangeSwallowed == Spec => []LiveIsCached
<1>1. IInv => LiveIsCached
  BY DEF IInv
<1> QED BY <1>1, Invariance, PTL
=============================================================================
