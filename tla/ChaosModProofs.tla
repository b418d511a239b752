---------------------------- MODULE ChaosModProofs ----------------------------
(***************************************************************************)
(* Proofs about the chaos loop of the mod, for every catalog, menu, slider *)
(* and heartbeat, and for any number of winners and reloads.               *)
(***************************************************************************)
EXTENDS ChaosMod, TLAPS

(***************************************************************************)
(* Facts about the effects.                                                *)
(***************************************************************************)
EffectType == [engine : [Keys -> Timed \cup {"normal"}],
               buffs : [Keys -> Nat \cup {None}]]

\* A timer never lasts less than a second.
LEMMA DurationType ==
    ASSUME NEW base \in Nat, NEW quarters \in Nat
    PROVE  ScaledDuration(base, quarters) \in Nat \ {0}
<1> DEFINE p == base * quarters
<1>1. p \in Nat
  OBVIOUS
<1> HIDE DEF p
<1>2. (p < 4) \/ (p >= 4 /\ (p + 2) \div 4 \in Nat \ {0})
  BY <1>1
<1> QED BY <1>1, <1>2 DEF ScaledDuration, p

LEMMA BuffKeyType ==
    /\ \A e \in Timed : BuffKey(e) \in Keys
    /\ \A e \in Toggles : BuffKey(e) \in ToggleKeys
    /\ \A e \in Setters : BuffKey(e) \in SetterKeys
    /\ \A e \in Timed : e # "normal"
BY DEF BuffKey, Keys, ToggleKeys, SetterKeys, Timed, Toggles, Setters

LEMMA CheatType ==
    ASSUME NEW eng \in [Keys -> Timed \cup {"normal"}], NEW e \in Timed,
           NEW works \in BOOLEAN
    PROVE  /\ Cheat(eng, e, works) \in [Keys -> Timed \cup {"normal"}]
           /\ \A k \in Keys : k # BuffKey(e) => Cheat(eng, e, works)[k] = eng[k]
           /\ e \in Setters /\ works => Cheat(eng, e, works)[BuffKey(e)] = e
<1>1. BuffKey(e) \in Keys
  BY BuffKeyType
<1>2. \A k \in Keys : ToggleOf(k) \in Timed
  BY DEF ToggleOf, Timed, Toggles
<1>3. e \in Setters => e \notin Toggles
  BY DEF Setters, Toggles
<1>4. Flip(eng, BuffKey(e)) \in [Keys -> Timed \cup {"normal"}]
      /\ \A k \in Keys : k # BuffKey(e) => Flip(eng, BuffKey(e))[k] = eng[k]
  BY <1>1, <1>2 DEF Flip
<1> HIDE DEF Timed, Toggles, Setters, Keys
<1>5. [eng EXCEPT ![BuffKey(e)] = e] \in [Keys -> Timed \cup {"normal"}]
      /\ \A k \in Keys : k # BuffKey(e) => [eng EXCEPT ![BuffKey(e)] = e][k] = eng[k]
      /\ [eng EXCEPT ![BuffKey(e)] = e][BuffKey(e)] = e
  BY <1>1
<1> QED BY <1>3, <1>4, <1>5 DEF Cheat

\* What the handler of an event does: it arms the timer of a timed event of the
\* catalog, and changes at most the value of the event's own key.
LEMMA HandleForms ==
    ASSUME NEW eff \in EffectType, NEW e \in Events,
           NEW quarters \in Scales, NEW works \in BOOLEAN
    PROVE  /\ Handle(eff, e, quarters, works) \in EffectType
           /\ \A k \in Keys :
                IF e \in Timed \cap Known /\ BuffKey(e) = k
                  THEN /\ Handle(eff, e, quarters, works).buffs[k]
                            = ScaledDuration(BaseSeconds[e], quarters)
                       /\ k \in SetterKeys /\ works =>
                            Handle(eff, e, quarters, works).engine[k] = e
                  ELSE /\ Handle(eff, e, quarters, works).buffs[k] = eff.buffs[k]
                       /\ k \in SetterKeys =>
                            Handle(eff, e, quarters, works).engine[k] = eff.engine[k]
<1>0. eff.engine \in [Keys -> Timed \cup {"normal"}]
      /\ eff.buffs \in [Keys -> Nat \cup {None}]
      /\ eff = [engine |-> eff.engine, buffs |-> eff.buffs]
  BY DEF EffectType
<1>1. CASE e \in Timed /\ e \in Known
  <2> DEFINE d == ScaledDuration(BaseSeconds[e], quarters)
             eng == Cheat(eff.engine, e, works)
             bfs == Add(eff.buffs, BuffKey(e), d)
  <2>1. d \in Nat
    BY <1>1, EffectsAssumption, DurationType
  <2>2. Handle(eff, e, quarters, works) = [engine |-> eng, buffs |-> bfs]
    BY <1>1 DEF Handle
  <2>3. eng \in [Keys -> Timed \cup {"normal"}]
        /\ (\A k \in Keys : k # BuffKey(e) => eng[k] = eff.engine[k])
        /\ (e \in Setters /\ works => eng[BuffKey(e)] = e)
    BY <1>0, <1>1, CheatType
  <2>4. BuffKey(e) \in Keys /\ (BuffKey(e) \in SetterKeys => e \in Setters)
    BY <1>1, BuffKeyType DEF SetterKeys, Timed
  <2> HIDE DEF d, eng
  <2>5. bfs \in [Keys -> Nat \cup {None}] /\ bfs[BuffKey(e)] = d
        /\ \A k \in Keys : k # BuffKey(e) => bfs[k] = eff.buffs[k]
    BY <1>0, <2>1, <2>4 DEF Add
  <2> HIDE DEF bfs
  <2>6. Handle(eff, e, quarters, works) \in EffectType
        /\ Handle(eff, e, quarters, works).engine = eng
        /\ Handle(eff, e, quarters, works).buffs = bfs
    BY <2>2, <2>3, <2>5 DEF EffectType
  <2> QED BY <1>1, <2>3, <2>4, <2>5, <2>6 DEF d, SetterKeys
<1>2. CASE ~(e \in Timed /\ e \in Known) /\ e \in Toggles
  <2> DEFINE eng == Cheat(eff.engine, e, works)
  <2>1. Handle(eff, e, quarters, works) = [engine |-> eng, buffs |-> eff.buffs]
    BY <1>0, <1>2 DEF Handle
  <2>2. eng \in [Keys -> Timed \cup {"normal"}]
        /\ (\A k \in Keys : k # BuffKey(e) => eng[k] = eff.engine[k])
        /\ BuffKey(e) \in ToggleKeys
    BY <1>0, <1>2, CheatType, BuffKeyType DEF Timed
  <2> HIDE DEF eng
  <2>3. Handle(eff, e, quarters, works) \in EffectType
        /\ Handle(eff, e, quarters, works).engine = eng
        /\ Handle(eff, e, quarters, works).buffs = eff.buffs
    BY <1>0, <2>1, <2>2 DEF EffectType
  <2> QED BY <1>2, <2>2, <2>3 DEF SetterKeys
<1>3. CASE ~(e \in Timed /\ e \in Known) /\ e \notin Toggles
  <2>1. Handle(eff, e, quarters, works) = eff
    BY <1>3 DEF Handle
  <2> QED BY <1>3, <2>1
<1> QED BY <1>1, <1>2, <1>3

\* When the timers are looked at, those whose time is up are taken back.
LEMMA BuffsTickForms ==
    ASSUME NEW eff \in EffectType, NEW works \in BOOLEAN
    PROVE  /\ BuffsTick(eff, works) \in EffectType
           /\ \A k \in Keys :
                /\ BuffsTick(eff, works).buffs[k]
                     = IF eff.buffs[k] = 0 THEN None ELSE eff.buffs[k]
                /\ k \in SetterKeys =>
                     BuffsTick(eff, works).engine[k]
                       = IF works /\ eff.buffs[k] = 0 THEN "normal" ELSE eff.engine[k]
<1>1. \A k \in Keys : ToggleOf(k) \in Timed
  BY DEF ToggleOf, Timed, Toggles
<1>2. \A k \in Keys : RevertTo(eff.engine, k) \in Timed \cup {"normal"}
                      /\ (k \in SetterKeys => RevertTo(eff.engine, k) = "normal")
  BY <1>1 DEF RevertTo, SetterKeys
<1>3. eff.engine \in [Keys -> Timed \cup {"normal"}]
      /\ eff.buffs \in [Keys -> Nat \cup {None}]
  BY DEF EffectType
<1> HIDE DEF Timed, Keys, SetterKeys
<1>4. /\ BuffsTick(eff, works).engine = [k \in Keys |->
             IF works /\ eff.buffs[k] = 0 THEN RevertTo(eff.engine, k)
             ELSE eff.engine[k]]
      /\ BuffsTick(eff, works).buffs = [k \in Keys |->
             IF eff.buffs[k] = 0 THEN None ELSE eff.buffs[k]]
      /\ BuffsTick(eff, works) = [engine |-> BuffsTick(eff, works).engine,
                                  buffs |-> BuffsTick(eff, works).buffs]
  BY DEF BuffsTick, Expired
<1>5. BuffsTick(eff, works).engine \in [Keys -> Timed \cup {"normal"}]
      /\ BuffsTick(eff, works).buffs \in [Keys -> Nat \cup {None}]
  BY <1>2, <1>3, <1>4
<1>6. BuffsTick(eff, works) \in EffectType
  BY <1>4, <1>5 DEF EffectType
<1> QED BY <1>2, <1>4, <1>6

LEMMA AgedType ==
    ASSUME NEW bfs \in [Keys -> Nat \cup {None}], NEW d \in Nat
    PROVE  /\ Aged(bfs, d) \in [Keys -> Nat \cup {None}]
           /\ \A k \in Keys : Aged(bfs, d)[k]
                = IF bfs[k] = None THEN None ELSE IF bfs[k] > d THEN bfs[k] - d ELSE 0
<1> HIDE DEF Keys
<1> QED BY EffectsAssumption DEF Aged

(***************************************************************************)
(* Facts about a tick.                                                     *)
(***************************************************************************)
Inputs == {published, None}

LEMMA StateForms ==
    ASSUME TypeOK, NEW state \in Inputs, state # None
    PROVE  /\ state = published
           /\ state.winner \in Events /\ state.nonce \in Nonces /\ state.lead \in Nat
BY DEF Inputs, TypeOK, StateType

LEMMA NowPendingForms ==
    ASSUME TypeOK, NEW state \in Inputs
    PROVE  /\ NowPending(state) \in PendingType \cup {None}
           /\ IF Announced(state)
                THEN /\ NowPending(state) # None
                     /\ NowPending(state).nonce = state.nonce
                     /\ NowPending(state).left >= state.lead
                     /\ ~Due(state)
              ELSE IF pending = None THEN NowPending(state) = None
              ELSE /\ NowPending(state) # None
                   /\ NowPending(state).nonce = pending.nonce
                   /\ NowPending(state).left =
                        IF pending.left > Counted THEN pending.left - Counted ELSE 0
<1>1. SinceTick \in Nat /\ Counted \in Nat /\ SinceTick - Counted \in Nat
  BY ChaosAssumption DEF TypeOK, SinceTick, Counted
<1>2. None \notin PendingType
  BY ChaosAssumption DEF PendingType, Nonces
<1>3. CASE Announced(state)
  <2>1. state # None /\ state.lead > 0
    BY <1>3 DEF Announced, Fresh
  <2>2. state.winner \in Events /\ state.nonce \in Nonces /\ state.lead \in Nat
    BY <2>1, StateForms
  <2> DEFINE l == state.lead + (SinceTick - Counted)
  <2>3. l \in Nat /\ l >= state.lead /\ l # 0
    BY <1>1, <2>1, <2>2
  <2> HIDE DEF l
  <2>4. NowPending(state) = [id |-> state.winner, nonce |-> state.nonce, left |-> l]
    BY <1>3 DEF NowPending, l
  <2>5. NowPending(state) \in PendingType
    BY <2>2, <2>3, <2>4 DEF PendingType
  <2>6. NowPending(state).nonce = state.nonce /\ NowPending(state).left = l
    BY <2>4
  <2>7. ~Due(state)
    BY <2>3, <2>6 DEF Due
  <2> QED BY <1>2, <1>3, <2>3, <2>5, <2>6, <2>7
<1>4. CASE ~Announced(state) /\ pending = None
  BY <1>4 DEF NowPending
<1>5. CASE ~Announced(state) /\ pending # None
  <2> DEFINE l == IF pending.left > Counted THEN pending.left - Counted ELSE 0
  <2>1. pending \in PendingType
    BY <1>5 DEF TypeOK
  <2>2. pending.id \in Events /\ pending.nonce \in Nonces /\ pending.left \in Nat
        /\ pending = [id |-> pending.id, nonce |-> pending.nonce, left |-> pending.left]
    BY <2>1 DEF PendingType
  <2>3. l \in Nat
    BY <1>1, <2>2
  <2>4. NowPending(state) = [pending EXCEPT !.left = l]
    BY <1>5 DEF NowPending
  <2> HIDE DEF l
  <2>5. NowPending(state) = [id |-> pending.id, nonce |-> pending.nonce, left |-> l]
    BY <2>2, <2>4
  <2>6. NowPending(state) \in PendingType
    BY <2>2, <2>3, <2>5 DEF PendingType
  <2> QED BY <1>2, <1>5, <2>5, <2>6 DEF l
<1> QED BY <1>3, <1>4, <1>5

\* A tick arms the timer of every key it executes an event for, with what the
\* last of them is owed; of the other timers it takes back those that are over.
LEMMA EffectsForms ==
    ASSUME TypeOK, NEW state \in Inputs, NEW quarters \in Scales,
           NEW works \in BOOLEAN
    PROVE  /\ EffectsOf(state, quarters, works) \in EffectType
           /\ \A k \in Keys :
                IF Users(state, k) # {}
                  THEN /\ EffectsOf(state, quarters, works).buffs[k]
                            = ScaledDuration(BaseSeconds[LastUser(state, k)], quarters)
                       /\ EffectsOf(state, quarters, works).buffs[k] \in Nat \ {0}
                       /\ k \in SetterKeys /\ works =>
                            EffectsOf(state, quarters, works).engine[k] # "normal"
                  ELSE /\ EffectsOf(state, quarters, works).buffs[k]
                            = IF buffs[k] = None \/ buffs[k] <= SinceTick THEN None
                              ELSE buffs[k] - SinceTick
                       /\ k \in SetterKeys /\ works =>
                            EffectsOf(state, quarters, works).engine[k]
                              = IF buffs[k] # None /\ buffs[k] <= SinceTick
                                  THEN "normal" ELSE engine[k]
<1> DEFINE before == [engine |-> engine, buffs |-> Aged(buffs, SinceTick)]
           sight == IF Immediate(state)
                      THEN Handle(before, state.winner, quarters, works) ELSE before
           held == IF Due(state)
                     THEN Handle(sight, NowPending(state).id, quarters, works)
                     ELSE sight
<1>1. EffectsOf(state, quarters, works) = BuffsTick(held, works)
  BY DEF EffectsOf
<1>2. SinceTick \in Nat /\ buffs \in [Keys -> Nat \cup {None}]
      /\ engine \in [Keys -> Timed \cup {"normal"}]
  BY DEF TypeOK, EffectsTypeOK, SinceTick
<1>3. before \in EffectType
  BY <1>2, AgedType DEF EffectType
<1>4. \A k \in Keys :
        /\ before.engine[k] = engine[k]
        /\ before.buffs[k] = IF buffs[k] = None THEN None
                             ELSE IF buffs[k] > SinceTick THEN buffs[k] - SinceTick
                             ELSE 0
  BY <1>2, AgedType
<1> HIDE DEF before
<1>5. Immediate(state) => state.winner \in Events
  BY StateForms DEF Immediate, Fresh
<1>6. Due(state) => NowPending(state).id \in Events
  BY NowPendingForms DEF Due, PendingType
<1>7. sight \in EffectType
      /\ \A k \in Keys :
           IF Immediate(state) /\ state.winner \in Timed \cap Known
              /\ BuffKey(state.winner) = k
             THEN /\ sight.buffs[k] = ScaledDuration(BaseSeconds[state.winner], quarters)
                  /\ k \in SetterKeys /\ works => sight.engine[k] = state.winner
             ELSE /\ sight.buffs[k] = before.buffs[k]
                  /\ k \in SetterKeys => sight.engine[k] = before.engine[k]
  <2>1. CASE Immediate(state)
    <3>1. sight = Handle(before, state.winner, quarters, works)
      BY <2>1
    <3> QED BY <1>3, <1>5, <2>1, <3>1, HandleForms
  <2>2. CASE ~Immediate(state)
    BY <1>3, <2>2
  <2> QED BY <2>1, <2>2
<1> HIDE DEF sight
<1>8. held \in EffectType
      /\ \A k \in Keys :
           IF Due(state) /\ NowPending(state).id \in Timed \cap Known
              /\ BuffKey(NowPending(state).id) = k
             THEN /\ held.buffs[k] = ScaledDuration(BaseSeconds[NowPending(state).id], quarters)
                  /\ k \in SetterKeys /\ works => held.engine[k] = NowPending(state).id
             ELSE /\ held.buffs[k] = sight.buffs[k]
                  /\ k \in SetterKeys => held.engine[k] = sight.engine[k]
  <2>1. CASE Due(state)
    <3>1. held = Handle(sight, NowPending(state).id, quarters, works)
      BY <2>1
    <3> QED BY <1>7, <1>6, <2>1, <3>1, HandleForms
  <2>2. CASE ~Due(state)
    BY <1>7, <2>2
  <2> QED BY <2>1, <2>2
<1> HIDE DEF held
<1>9. EffectsOf(state, quarters, works) \in EffectType
  BY <1>1, <1>8, BuffsTickForms
<1>10. ASSUME NEW k \in Keys, Users(state, k) # {}
       PROVE  /\ held.buffs[k] = ScaledDuration(BaseSeconds[LastUser(state, k)], quarters)
              /\ held.buffs[k] \in Nat \ {0}
              /\ k \in SetterKeys /\ works => held.engine[k] # "normal"
  <2>1. LastUser(state, k) \in Timed
        /\ held.buffs[k] = ScaledDuration(BaseSeconds[LastUser(state, k)], quarters)
        /\ (k \in SetterKeys /\ works => held.engine[k] \in Timed)
    BY <1>7, <1>8, <1>10 DEF Users, LastUser
  <2>2. ScaledDuration(BaseSeconds[LastUser(state, k)], quarters) \in Nat \ {0}
    BY <2>1, DurationType, EffectsAssumption
  <2> QED BY <2>1, <2>2, BuffKeyType
<1>11. ASSUME NEW k \in Keys, Users(state, k) = {}
       PROVE  /\ held.buffs[k] = before.buffs[k]
              /\ k \in SetterKeys => held.engine[k] = before.engine[k]
  BY <1>7, <1>8, <1>11 DEF Users
<1>12. \A k \in Keys :
         /\ EffectsOf(state, quarters, works).buffs[k]
              = IF held.buffs[k] = 0 THEN None ELSE held.buffs[k]
         /\ k \in SetterKeys =>
              EffectsOf(state, quarters, works).engine[k]
                = IF works /\ held.buffs[k] = 0 THEN "normal" ELSE held.engine[k]
  BY <1>1, <1>8, BuffsTickForms
<1>13. ASSUME NEW k \in Keys
       PROVE  buffs[k] = None \/ buffs[k] \in Nat
  BY <1>2
<1>14. None \notin Int
  BY EffectsAssumption
<1> HIDE DEF Keys, SetterKeys
<1> QED BY <1>2, <1>4, <1>9, <1>10, <1>11, <1>12, <1>13, <1>14

(***************************************************************************)
(* Type correctness.                                                       *)
(***************************************************************************)
LEMMA InitTypeOK == Init => TypeOK
<1> SUFFICES ASSUME Init PROVE TypeOK
  OBVIOUS
<1>1. EffectsTypeOK
  BY DEF Init, EffectsTypeOK, AllNormal, NoBuffs
<1>2. runs \in [Nonces -> Nat] /\ owed \in [Keys -> Nat]
  BY DEF Init
<1>3. /\ winners \in 0..MaxWinners /\ dt \in 0..MaxDt /\ reloads \in 0..MaxReloads
      /\ resumes \in 0..MaxResumes /\ failed \in 0..MaxFailed
  BY ChaosAssumption DEF Init
<1> QED BY <1>1, <1>2, <1>3 DEF Init, TypeOK

\* What a tick writes, and when.
LEMMA ReportForms ==
    ASSUME TypeOK, NEW written \in BOOLEAN, ReportStatus(written),
           lastNonce' \in Nonces \cup {None}, ~written => failed < MaxFailed
    PROVE  /\ lastStatus' \in StatusType /\ status' \in StatusType \cup {None}
           /\ sinceWrite' \in 0..Heartbeat-1
           /\ age' \in Nat /\ failed' \in 0..MaxFailed
           /\ \/ sinceWrite' = 0 /\ age' = 0 /\ failed' = 0
              \/ sinceWrite' = 0 /\ age' = age /\ failed' = failed + 1
              \/ /\ lastStatus # None /\ sinceWrite # None
                 /\ sinceWrite' = sinceWrite + dt /\ age' = age /\ failed' = failed
<1>1. Signature \in StatusType
  BY DEF Signature, StatusType, TypeOK
<1>2. None \notin StatusType
  BY ChaosAssumption DEF StatusType, Nonces
<1>3. SinceTick \in Nat /\ (lastStatus # None => SinceTick = dt)
  BY DEF SinceTick, TypeOK
<1>4. CASE WriteDue
  BY <1>1, <1>4, ChaosAssumption DEF ReportStatus, TypeOK
<1>5. CASE ~WriteDue
  <2>1. lastStatus = Signature /\ Since < Heartbeat /\ Since \in Nat
    BY <1>3, <1>5, ChaosAssumption DEF WriteDue, Since, TypeOK
  <2>2. sinceWrite # None /\ Since = sinceWrite + SinceTick
    BY <2>1, ChaosAssumption DEF Since
  <2> QED BY <1>1, <1>2, <1>3, <1>5, <2>1, <2>2, ChaosAssumption
          DEF ReportStatus, TypeOK
<1> QED BY <1>4, <1>5

LEMMA NewNonceType ==
    ASSUME TypeOK, NEW state \in Inputs
    PROVE  (IF Fresh(state) THEN state.nonce ELSE lastNonce) \in Nonces \cup {None}
BY StateForms DEF Fresh, TypeOK

LEMMA TickTypeOK ==
    ASSUME TypeOK, NEW state \in Inputs, NEW quarters \in Scales,
           NEW works \in BOOLEAN, NEW written \in BOOLEAN,
           ~written => failed < MaxFailed, Tick(state, quarters, works, written)
    PROVE  TypeOK'
<1>1. UNCHANGED <<envVars, reloads>> /\ dt' = 0
  BY DEF Tick
<1>2. lastNonce' \in Nonces \cup {None}
  <2>1. lastNonce' = IF Fresh(state) THEN state.nonce ELSE lastNonce
    BY DEF Tick
  <2> QED BY <2>1, NewNonceType
<1>3. pending' \in PendingType \cup {None}
  BY NowPendingForms DEF Tick
<1>4. EffectsTypeOK'
  BY EffectsForms DEF Tick, EffectsTypeOK, EffectType
<1>5. /\ lastStatus' \in StatusType \cup {None} /\ status' \in StatusType \cup {None}
      /\ sinceWrite' \in 0..Heartbeat-1 \cup {None}
      /\ age' \in Nat /\ failed' \in 0..MaxFailed
  <2>1. ReportStatus(written)
    BY DEF Tick
  <2> QED BY <1>2, <2>1, ReportForms
<1>6. runs' \in [Nonces -> Nat]
  <2>1. \A n \in Nonces : runs[n] + (IF n \in Executed(state) THEN 1 ELSE 0) \in Nat
    BY DEF TypeOK
  <2> QED BY <2>1 DEF Tick
<1>7. refused' \subseteq Nonces
  BY StateForms DEF Tick, Fresh, TypeOK
<1>8. headsUp' \in Nat /\ resumes' \in 0..MaxResumes
  <2>1. Announced(state) => state.lead \in Nat
    BY StateForms DEF Announced, Fresh
  <2>2. 0 \in 0..MaxResumes
    BY ChaosAssumption
  <2>3. headsUp' = (IF Announced(state) THEN state.lead
                    ELSE IF pending' = None THEN 0 ELSE headsUp)
        /\ resumes' = IF Announced(state) \/ pending' = None THEN 0 ELSE resumes
    BY DEF Tick
  <2> QED BY <2>1, <2>2, <2>3 DEF TypeOK
<1>9. owed' \in [Keys -> Nat]
  <2>1. \A k \in Keys : (IF Users(state, k) = {} THEN owed[k]
           ELSE ScaledDuration(BaseSeconds[LastUser(state, k)], quarters)) \in Nat
    <3>1. \A k \in Keys : Users(state, k) # {} => LastUser(state, k) \in Timed
      BY DEF Users, LastUser
    <3>2. \A e \in Timed : ScaledDuration(BaseSeconds[e], quarters) \in Nat
      BY DurationType, EffectsAssumption
    <3> QED BY <3>1, <3>2 DEF TypeOK
  <2>2. owed' = [k \in Keys |-> IF Users(state, k) = {} THEN owed[k]
           ELSE ScaledDuration(BaseSeconds[LastUser(state, k)], quarters)]
    BY DEF Tick
  <2> QED BY <2>1, <2>2
<1>10. dt' \in 0..MaxDt
  BY <1>1, ChaosAssumption
<1>11. /\ published' \in StateType \cup {None} /\ winners' \in 0..MaxWinners
       /\ gates' \in GateSettings /\ playing' \in BOOLEAN /\ paused' \in BOOLEAN
       /\ sliders' \in Sliders /\ reloads' \in 0..MaxReloads
  BY <1>1 DEF TypeOK, envVars, playerVars
<1> QED BY <1>2, <1>3, <1>4, <1>5, <1>6, <1>7, <1>8, <1>9, <1>10, <1>11 DEF TypeOK

\* A step of Ticks is such a tick.
LEMMA TicksForms ==
    Ticks => \E state \in Inputs, quarters \in Scales, works \in CheatsWork,
                written \in BOOLEAN :
               /\ ~written => failed < MaxFailed
               /\ Tick(state, quarters, works, written)
BY ChaosAssumption DEF Ticks, SomeTick, Inputs

\* Reload and RestartGame begin a session.
LEMMA NewSession ==
    ASSUME TypeOK, Reload \/ RestartGame
    PROVE  /\ reloads < MaxReloads /\ reloads' = reloads + 1
           /\ dt' = 0 /\ lastNonce' = None /\ pending' = None
           /\ lastStatus' = None /\ sinceWrite' = None
           /\ runs' = [n \in Nonces |-> 0] /\ refused' = {}
           /\ headsUp' = 0 /\ resumes' = 0 /\ owed' = [k \in Keys |-> 0]
           /\ buffs' = NoBuffs
           /\ UNCHANGED <<published, winners, gates, sliders, status, age, failed>>
           /\ playing' \in BOOLEAN /\ paused' \in BOOLEAN
           /\ \E works \in CheatsWork, eng \in [Keys -> Timed \cup {"normal"}] :
                engine' = Normalize(eng, works)
<1>1. CASE Reload
  BY <1>1 DEF Reload, Bootstrap, envVars, playerVars, TypeOK, EffectsTypeOK
<1>2. CASE RestartGame
  <2>1. AllNormal \in [Keys -> Timed \cup {"normal"}]
    BY DEF AllNormal
  <2> QED BY <1>2, <2>1 DEF RestartGame, Bootstrap
<1> QED BY <1>1, <1>2

LEMMA NewSessionTypeOK == TypeOK /\ (Reload \/ RestartGame) => TypeOK'
<1> SUFFICES ASSUME TypeOK, Reload \/ RestartGame PROVE TypeOK'
  OBVIOUS
<1>1. EffectsTypeOK'
  BY NewSession DEF EffectsTypeOK, NoBuffs, Normalize
<1>2. runs' \in [Nonces -> Nat] /\ owed' \in [Keys -> Nat]
  BY NewSession
<1>3. /\ reloads' \in 0..MaxReloads /\ dt' \in 0..MaxDt /\ resumes' \in 0..MaxResumes
  BY NewSession, ChaosAssumption DEF TypeOK
<1> QED BY <1>1, <1>2, <1>3, NewSession DEF TypeOK

\* The surroundings leave the loop, the effects and the session's past alone.
LEMMA SurroundingsForms ==
    Surroundings =>
        UNCHANGED <<loopVars, effectVars, status, reloads, runs, refused, failed>>
BY DEF Surroundings, Publish, Retract, Settings, StartOrLeavePlay, Pause, Elapse,
       historyVars

LEMMA SurroundingsTypeOK == TypeOK /\ Surroundings => TypeOK'
<1> SUFFICES ASSUME TypeOK, Surroundings PROVE TypeOK'
  OBVIOUS
<1>1. UNCHANGED <<loopVars, effectVars, status, reloads, runs, refused, failed>>
  BY SurroundingsForms
<1>2. published' \in StateType \cup {None} /\ winners' \in 0..MaxWinners
  <2>1. CASE Publish
    <3>1. PICK e \in Events, lead \in Leads :
            published' = [winner |-> e, nonce |-> winners', lead |-> lead]
      BY <2>1 DEF Publish
    <3>2. winners' \in Nonces /\ lead \in Nat
      BY <2>1, ChaosAssumption DEF Publish, Nonces, TypeOK
    <3> QED BY <3>1, <3>2, ChaosAssumption DEF StateType, Nonces
  <2>2. CASE ~Publish
    BY <2>2 DEF Surroundings, Retract, Settings, StartOrLeavePlay, Pause, Elapse,
                envVars, TypeOK
  <2> QED BY <2>1, <2>2
<1>3. gates' \in GateSettings /\ playing' \in BOOLEAN /\ paused' \in BOOLEAN
      /\ sliders' \in Sliders
  BY DEF Surroundings, Publish, Retract, Settings, StartOrLeavePlay, Pause, Elapse,
         envVars, playerVars, TypeOK
<1>4. CASE Elapse
  <2>1. dt' \in 0..MaxDt /\ age' \in Nat /\ headsUp' \in Nat /\ resumes' = resumes
    BY <1>4, ChaosAssumption DEF Elapse, Capped, Less, TypeOK
  <2>2. owed' \in [Keys -> Nat]
    BY <1>4 DEF Elapse, Less, TypeOK
  <2> QED BY <1>1, <1>2, <1>3, <2>1, <2>2
          DEF TypeOK, EffectsTypeOK, loopVars, effectVars
<1>5. CASE ~Elapse
  <2>1. UNCHANGED <<dt, headsUp, owed, age>> /\ resumes' \in 0..MaxResumes
    BY <1>5, ChaosAssumption
    DEF Surroundings, Publish, Retract, Settings, StartOrLeavePlay, Pause,
        historyVars, Capped, TypeOK
  <2> QED BY <1>1, <1>2, <1>3, <2>1 DEF TypeOK, EffectsTypeOK, loopVars, effectVars
<1> QED BY <1>4, <1>5

LEMMA NextTypeOK == TypeOK /\ [Next]_vars => TypeOK'
<1> SUFFICES ASSUME TypeOK, [Next]_vars PROVE TypeOK'
  OBVIOUS
<1>1. CASE Ticks
  BY <1>1, TicksForms, TickTypeOK, ChaosAssumption
<1>2. CASE Reload \/ RestartGame
  BY <1>2, NewSessionTypeOK
<1>3. CASE Surroundings
  BY <1>3, SurroundingsTypeOK
<1>4. CASE UNCHANGED vars
  BY <1>4 DEF vars, envVars, playerVars, loopVars, effectVars, historyVars,
              TypeOK, EffectsTypeOK
<1> QED BY <1>1, <1>2, <1>3, <1>4 DEF Next

\* Every variable of the loop, of the timers and of the histories keeps its type,
\* whatever the sidecar publishes and the player does.
THEOREM TypeCorrect == Spec => []TypeOK
BY InitTypeOK, NextTypeOK, PTL DEF Spec

(***************************************************************************)
(* One fate per winner.  The nonces come in order: what the loop has ever  *)
(* taken up is no newer than the last nonce it saw, and that one is no     *)
(* newer than the winner in the file.  A fresh nonce is therefore one that *)
(* was neither executed nor refused and that does not wait.                *)
(***************************************************************************)
Seen(n) == lastNonce # None /\ n <= lastNonce

NoncesInOrder ==
    /\ published # None => published.nonce = winners /\ published.lead \in Leads
    /\ lastNonce # None => lastNonce <= winners
    /\ pending # None => Seen(pending.nonce)
    /\ \A n \in Nonces : runs[n] > 0 \/ n \in refused => Seen(n)

FateInv == TypeOK /\ NoncesInOrder /\ OneFate

LEMMA NonceType ==
    /\ \A n \in Nonces : n \in Nat /\ n # None
    /\ TypeOK => winners \in Nat /\ (lastNonce # None => lastNonce \in Nonces)
BY ChaosAssumption, EffectsAssumption DEF Nonces, TypeOK

LEMMA InitFateInv == Init => FateInv
<1> SUFFICES ASSUME Init PROVE FateInv
  OBVIOUS
<1>1. \A n \in Nonces : runs[n] = 0 /\ n \notin refused
  BY DEF Init
<1>2. published = None /\ lastNonce = None /\ pending = None
  BY DEF Init
<1> QED BY <1>1, <1>2, InitTypeOK DEF FateInv, NoncesInOrder, OneFate

\* A fresh nonce is newer than all the loop has dealt with.
LEMMA FreshIsNew ==
    ASSUME FateInv, NEW state \in Inputs, Fresh(state)
    PROVE  /\ state.nonce \in Nonces /\ state.nonce = winners
           /\ \A n \in Nonces : Seen(n) => n < state.nonce
<1>1. state # None /\ state.nonce # lastNonce
  BY DEF Fresh
<1>2. state.nonce \in Nonces /\ state.nonce = winners
  BY <1>1, StateForms DEF FateInv, NoncesInOrder
<1>3. lastNonce # None => lastNonce \in Nonces /\ lastNonce <= winners
  BY DEF FateInv, NoncesInOrder, TypeOK
<1>4. ASSUME NEW n \in Nonces, Seen(n) PROVE n < state.nonce
  <2>1. lastNonce \in Nonces /\ n <= lastNonce /\ lastNonce <= winners
    BY <1>3, <1>4 DEF Seen
  <2>2. n \in Nat /\ lastNonce \in Nat /\ state.nonce \in Nat
    BY <1>2, <2>1, NonceType
  <2> QED BY <1>1, <1>2, <2>1, <2>2
<1> QED BY <1>2, <1>4

LEMMA TickFateInv ==
    ASSUME FateInv, NEW state \in Inputs, NEW quarters \in Scales,
           NEW works \in BOOLEAN, NEW written \in BOOLEAN,
           ~written => failed < MaxFailed, Tick(state, quarters, works, written)
    PROVE  FateInv'
<1>1. TypeOK /\ TypeOK'
  BY TickTypeOK DEF FateInv
<1>2. lastNonce' = IF Fresh(state) THEN state.nonce ELSE lastNonce
  BY DEF Tick
<1>3. UNCHANGED <<published, winners>>
  BY DEF Tick, envVars
\* What was seen stays seen, and so is what is fresh now.
<1>4. ASSUME NEW n \in Nonces, Seen(n) PROVE Seen(n)'
  BY <1>2, <1>4, FreshIsNew, NonceType DEF Seen
<1>5. Fresh(state) => Seen(state.nonce)'
  BY <1>2, FreshIsNew, NonceType DEF Seen
<1>6. Fresh(state) => /\ state.nonce \in Nonces /\ runs[state.nonce] = 0
                      /\ state.nonce \notin refused
                      /\ pending # None => pending.nonce # state.nonce
  <2> SUFFICES ASSUME Fresh(state)
               PROVE  /\ state.nonce \in Nonces /\ runs[state.nonce] = 0
                      /\ state.nonce \notin refused
                      /\ pending # None => pending.nonce # state.nonce
    OBVIOUS
  <2>1. state.nonce \in Nonces /\ ~Seen(state.nonce)
    BY FreshIsNew, NonceType
  <2> QED BY <1>1, <2>1 DEF FateInv, NoncesInOrder, TypeOK
<1>7. pending # None => /\ pending.nonce \in Nonces /\ runs[pending.nonce] = 0
                        /\ pending.nonce \notin refused /\ Seen(pending.nonce)
  BY <1>1 DEF FateInv, NoncesInOrder, OneFate, TypeOK, PendingType
<1>8. NowPending(state) # None =>
        /\ NowPending(state).nonce \in Nonces
        /\ \/ Announced(state) /\ ~Due(state) /\ NowPending(state).nonce = state.nonce
           \/ ~Announced(state) /\ pending # None
              /\ NowPending(state).nonce = pending.nonce
  BY <1>1, NowPendingForms DEF PendingType
<1>9. Announced(state) \/ Immediate(state) => Fresh(state) /\ Allowed(state.winner)
  BY DEF Announced, Immediate
<1>10. ~(Announced(state) /\ Immediate(state))
  BY StateForms, <1>1 DEF Announced, Immediate, Fresh
<1>11. \A n \in Nonces :
         n \in Executed(state) <=> \/ Immediate(state) /\ n = state.nonce
                                   \/ Due(state) /\ n = NowPending(state).nonce
  BY DEF Executed
<1>12. Due(state) => NowPending(state) # None
  BY DEF Due
\* Executed is only what was never executed or refused.
<1>13. \A n \in Executed(state) : runs[n] = 0 /\ n \notin refused /\ Seen(n)'
  BY <1>4, <1>5, <1>6, <1>7, <1>8, <1>9, <1>11, <1>12 DEF Executed
<1>14. \A n \in Nonces : runs'[n] = runs[n] + (IF n \in Executed(state) THEN 1 ELSE 0)
  BY DEF Tick
<1>15. \A n \in refused' : n \in refused \/ (n = state.nonce /\ Fresh(state)
                                            /\ ~Allowed(state.winner))
  BY DEF Tick
<1>16. pending' # None => /\ pending'.nonce = NowPending(state).nonce
                          /\ NowPending(state) # None /\ ~Due(state)
  BY DEF Tick
<1>17. NoncesInOrder'
  <2>1. lastNonce' # None => lastNonce' <= winners'
    BY <1>2, <1>3, FreshIsNew, NonceType DEF FateInv, NoncesInOrder
  <2>2. pending' # None => lastNonce' # None /\ pending'.nonce <= lastNonce'
    BY <1>4, <1>5, <1>7, <1>8, <1>9, <1>16 DEF Seen
  <2>3. ASSUME NEW n \in Nonces, runs'[n] > 0 \/ n \in refused' PROVE Seen(n)'
    <3>1. CASE n \in Executed(state)
      BY <1>13, <3>1
    <3>2. CASE n \notin Executed(state) /\ runs'[n] > 0
      <4>1. runs[n] > 0
        BY <1>1, <1>14, <3>2 DEF TypeOK
      <4> QED BY <4>1, <1>4 DEF FateInv, NoncesInOrder
    <3>3. CASE n \in refused'
      BY <1>4, <1>5, <1>15, <3>3 DEF FateInv, NoncesInOrder
    <3> QED BY <2>3, <3>1, <3>2, <3>3
  <2> QED BY <1>3, <2>1, <2>2, <2>3 DEF FateInv, NoncesInOrder, Seen
<1>18. OneFate'
  <2> SUFFICES ASSUME NEW n \in Nonces
               PROVE  /\ runs'[n] <= 1
                      /\ n \in refused' => runs'[n] = 0
                      /\ pending' # None => runs'[pending'.nonce] = 0
                                            /\ pending'.nonce \notin refused'
    BY DEF OneFate
  <2>1. runs[n] \in Nat /\ runs[n] <= 1 /\ (n \in refused => runs[n] = 0)
    BY <1>1 DEF FateInv, OneFate, TypeOK
  <2>2. runs'[n] <= 1
    BY <1>13, <1>14, <2>1
  <2>3. n \in refused' => n \notin Executed(state)
    <3> SUFFICES ASSUME n \in refused', n \in Executed(state) PROVE FALSE
      OBVIOUS
    <3>1. n = state.nonce /\ Fresh(state) /\ ~Allowed(state.winner)
      BY <1>13, <1>15
    <3> QED BY <3>1, <1>6, <1>7, <1>8, <1>9, <1>11, <1>12
  <2>4. n \in refused' => runs'[n] = 0
    <3>1. n \in refused' => runs[n] = 0
      BY <1>6, <1>15, <2>1
    <3> QED BY <1>14, <2>1, <2>3, <3>1
  <2>5. pending' # None => runs'[pending'.nonce] = 0 /\ pending'.nonce \notin refused'
    <3> SUFFICES ASSUME pending' # None
                 PROVE  runs'[pending'.nonce] = 0 /\ pending'.nonce \notin refused'
      OBVIOUS
    <3> DEFINE m == NowPending(state).nonce
    <3>1. m \in Nonces /\ pending'.nonce = m /\ runs[m] = 0 /\ m \notin refused
      BY <1>6, <1>7, <1>8, <1>9, <1>16
    <3>2. m \notin Executed(state)
      BY <3>1, <1>6, <1>7, <1>8, <1>9, <1>10, <1>11, <1>16
    <3>3. m = state.nonce /\ Fresh(state) => Allowed(state.winner)
      BY <1>6, <1>7, <1>8, <1>9, <1>16
    <3> HIDE DEF m
    <3> QED BY <1>14, <1>15, <3>1, <3>2, <3>3
  <2> QED BY <2>2, <2>4, <2>5
<1> QED BY <1>1, <1>17, <1>18 DEF FateInv

LEMMA NewSessionFateInv == FateInv /\ (Reload \/ RestartGame) => FateInv'
<1> SUFFICES ASSUME FateInv, Reload \/ RestartGame PROVE FateInv'
  OBVIOUS
<1>1. TypeOK /\ TypeOK'
  BY NewSessionTypeOK DEF FateInv
<1>2. /\ lastNonce' = None /\ pending' = None /\ UNCHANGED <<published, winners>>
      /\ \A n \in Nonces : runs'[n] = 0 /\ n \notin refused'
  BY <1>1, NewSession
<1> QED BY <1>1, <1>2 DEF FateInv, NoncesInOrder, OneFate

LEMMA SurroundingsFateInv == FateInv /\ Surroundings => FateInv'
<1> SUFFICES ASSUME FateInv, Surroundings PROVE FateInv'
  OBVIOUS
<1>1. TypeOK /\ TypeOK'
  BY SurroundingsTypeOK DEF FateInv
<1>2. UNCHANGED <<lastNonce, pending, runs, refused>>
  BY SurroundingsForms DEF loopVars
<1>3. winners' \in Nat /\ winners \in Nat /\ winners <= winners'
      /\ (published' # None => published'.nonce = winners' /\ published'.lead \in Leads)
  <2>1. CASE Publish
    BY <1>1, <2>1, ChaosAssumption DEF Publish, TypeOK
  <2>2. CASE ~Publish
    BY <1>1, <2>2, ChaosAssumption
    DEF Surroundings, Retract, Settings, StartOrLeavePlay, Pause, Elapse, envVars,
        TypeOK, FateInv, NoncesInOrder
  <2> QED BY <2>1, <2>2
<1>4. lastNonce # None => lastNonce \in Nat
  BY <1>1, NonceType DEF TypeOK
<1>5. NoncesInOrder'
  BY <1>2, <1>3, <1>4 DEF FateInv, NoncesInOrder, Seen
<1> QED BY <1>1, <1>2, <1>5 DEF FateInv, OneFate

LEMMA NextFateInv == FateInv /\ [Next]_vars => FateInv'
<1> SUFFICES ASSUME FateInv, [Next]_vars PROVE FateInv'
  OBVIOUS
<1>1. CASE Ticks
  BY <1>1, TicksForms, TickFateInv, ChaosAssumption
<1>2. CASE Reload \/ RestartGame
  BY <1>2, NewSessionFateInv
<1>3. CASE Surroundings
  BY <1>3, SurroundingsFateInv
<1>4. CASE UNCHANGED vars
  <2>1. UNCHANGED <<published, winners, lastNonce, pending, runs, refused>>
    BY <1>4 DEF vars, envVars, loopVars, historyVars
  <2>2. TypeOK'
    BY <1>4, NextTypeOK DEF FateInv
  <2> QED BY <2>1, <2>2 DEF FateInv, NoncesInOrder, Seen, OneFate
<1> QED BY <1>1, <1>2, <1>3, <1>4 DEF Next

LEMMA FateInvariance == Spec => []FateInv
BY InitFateInv, NextFateInv, PTL DEF Spec

\* Whenever the player reloads or closes gates and whatever the sidecar shows or
\* takes back, a winner is executed at most once in a session of the mod, never
\* after a closed gate consumed it, and not while it waits for its lead.
THEOREM AtMostOnce == Spec => []OneFate
BY FateInvariance, PTL DEF FateInv

(***************************************************************************)
(* Pauses and the heads-up.                                                *)
(***************************************************************************)
\* What a tick executes was shown without a heads-up, or it is the pending winner
\* and its time is up.
LEMMA ExecutedForms ==
    ASSUME FateInv, NEW state \in Inputs, NEW n \in Executed(state)
    PROVE  \/ Fresh(state) /\ published # None /\ published.lead = 0
              /\ n = state.nonce
           \/ /\ pending # None /\ n = pending.nonce /\ ~paused
              /\ pending.left <= SinceTick
<1>1. TypeOK /\ n \in Nonces
  BY DEF FateInv, Executed
<1>2. CASE Immediate(state) /\ n = state.nonce
  BY <1>1, <1>2, StateForms DEF Immediate, Fresh
<1>3. CASE Due(state) /\ n = NowPending(state).nonce
  <2>1. NowPending(state) # None /\ NowPending(state).left = 0 /\ ~paused
    BY <1>3 DEF Due
  <2>2. pending # None /\ n = pending.nonce
        /\ (IF pending.left > Counted THEN pending.left - Counted ELSE 0) = 0
    BY <1>1, <1>3, <2>1, NowPendingForms
  <2>3. pending.left \in Nat /\ SinceTick \in Nat /\ Counted = SinceTick
    BY <1>1, <2>1, <2>2 DEF TypeOK, PendingType, SinceTick, Counted
  <2> QED BY <2>1, <2>2, <2>3
<1> QED BY <1>2, <1>3 DEF Executed

\* What was executed more often after a step was executed by a tick of it.
LEMMA RunsByTick ==
    ASSUME FateInv, [Next]_vars, NEW n \in Nonces, runs'[n] > runs[n]
    PROVE  \E state \in Inputs : n \in Executed(state)
<1>1. runs \in [Nonces -> Nat]
  BY DEF FateInv, TypeOK
<1>2. CASE Ticks
  <2>1. PICK state \in Inputs, quarters \in Scales, works \in CheatsWork,
             written \in BOOLEAN : Tick(state, quarters, works, written)
    BY <1>2, TicksForms
  <2>2. runs'[n] = runs[n] + (IF n \in Executed(state) THEN 1 ELSE 0)
    BY <2>1 DEF Tick
  <2> QED BY <1>1, <2>2
<1>3. CASE Reload \/ RestartGame
  BY <1>1, <1>3, NewSession DEF FateInv
<1>4. CASE Surroundings \/ UNCHANGED vars
  BY <1>1, <1>4, SurroundingsForms DEF vars, historyVars
<1> QED BY <1>2, <1>3, <1>4 DEF Next

\* Without a reload, a nonce that was executed is one that was executed more often.
LEMMA RunsGrow ==
    ASSUME FateInv, [Next]_vars, runs' # runs, reloads' = reloads
    PROVE  \E n \in Nonces : runs'[n] > runs[n]
<1>1. runs \in [Nonces -> Nat] /\ reloads \in Nat
  BY DEF FateInv, TypeOK
<1>2. CASE Ticks
  <2>1. PICK state \in Inputs, quarters \in Scales, works \in CheatsWork,
             written \in BOOLEAN : Tick(state, quarters, works, written)
    BY <1>2, TicksForms
  <2>2. runs' = [n \in Nonces |-> runs[n] + (IF n \in Executed(state) THEN 1 ELSE 0)]
    BY <2>1 DEF Tick
  <2>3. PICK n \in Nonces : n \in Executed(state)
    BY <1>1, <2>2
  <2> QED BY <1>1, <2>2, <2>3
<1>3. CASE Reload \/ RestartGame
  BY <1>1, <1>3, NewSession DEF FateInv
<1>4. CASE Surroundings \/ UNCHANGED vars
  BY <1>4, SurroundingsForms DEF vars, historyVars
<1> QED BY <1>2, <1>3, <1>4 DEF Next

\* As long as the sidecar gives every winner a heads-up, nothing is executed while
\* the game is paused.  (A winner without one is executed on sight.)
THEOREM PauseHoldsBack == 0 \notin Leads => (Spec => PausedExecutesNothing)
<1> SUFFICES ASSUME 0 \notin Leads PROVE Spec => PausedExecutesNothing
  OBVIOUS
<1>1. FateInv /\ [Next]_vars => [runs' # runs /\ reloads' = reloads => ~paused]_vars
  <2> SUFFICES ASSUME FateInv, [Next]_vars, runs' # runs, reloads' = reloads
               PROVE  ~paused
    OBVIOUS
  <2>1. PICK n \in Nonces : runs'[n] > runs[n]
    BY RunsGrow
  <2>2. PICK state \in Inputs : n \in Executed(state)
    BY <2>1, RunsByTick
  <2>3. published # None => published.lead # 0
    BY DEF FateInv, NoncesInOrder
  <2> QED BY <2>2, <2>3, ExecutedForms
<1> QED BY <1>1, FateInvariance, PTL DEF Spec, PausedExecutesNothing

(***************************************************************************)
(* While a winner waits, what the player is still owed of its heads-up is  *)
(* what is left of its lead at the last tick, without the seconds that the *)
(* next tick is going to count, and no more than an interval for each time *)
(* play was resumed.  Resumes are counted up to a bound: it must be enough *)
(* to tell apart what a lead can lose.                                     *)
(***************************************************************************)
Started ==
    lastStatus = None => /\ pending = None
                         /\ \A k \in Keys : buffs[k] = None

LeftNow ==
    IF paused THEN pending.left
    ELSE IF pending.left > dt THEN pending.left - dt ELSE 0

HeadsUpInTime ==
    /\ headsUp <= MaxDt * MaxResumes
    /\ pending # None => headsUp <= LeftNow + MaxDt * resumes

EnoughResumes == \A lead \in Leads : lead <= MaxDt * MaxResumes

HeadsUpInv == FateInv /\ Started /\ HeadsUpInTime

LEMMA NewSessionStarted == TypeOK /\ (Reload \/ RestartGame) => Started'
BY NewSession DEF Started, NoBuffs

LEMMA TickStarted ==
    ASSUME TypeOK, NEW state \in Inputs, NEW quarters \in Scales,
           NEW works \in BOOLEAN, NEW written \in BOOLEAN,
           ~written => failed < MaxFailed, Tick(state, quarters, works, written)
    PROVE  lastStatus' # None /\ Started'
<1>1. ReportStatus(written) /\ lastNonce' \in Nonces \cup {None}
  BY NewNonceType DEF Tick
<1>2. lastStatus' \in StatusType
  BY <1>1, ReportForms
<1> QED BY <1>2, ChaosAssumption DEF Started, StatusType, Nonces

LEMMA SurroundingsStarted == Started /\ (Surroundings \/ UNCHANGED vars) => Started'
BY SurroundingsForms DEF Started, loopVars, effectVars, vars

LEMMA NextStarted == TypeOK /\ Started /\ [Next]_vars => Started'
<1>1. TypeOK /\ Ticks => Started'
  BY TicksForms, TickStarted, ChaosAssumption
<1> QED BY <1>1, NewSessionStarted, SurroundingsStarted DEF Next

LEMMA InitHeadsUpInv == Init => HeadsUpInv
<1> SUFFICES ASSUME Init PROVE HeadsUpInv
  OBVIOUS
<1>1. 0 <= MaxDt * MaxResumes
  BY ChaosAssumption
<1>2. pending = None /\ headsUp = 0
  BY DEF Init
<1>3. Started
  BY <1>2 DEF Init, NoBuffs, Started
<1> QED BY <1>1, <1>2, <1>3, InitFateInv DEF HeadsUpInv, HeadsUpInTime

LEMMA TickHeadsUp ==
    ASSUME HeadsUpInv, EnoughResumes, NEW state \in Inputs, NEW quarters \in Scales,
           NEW works \in BOOLEAN, NEW written \in BOOLEAN,
           Tick(state, quarters, works, written)
    PROVE  HeadsUpInTime'
<1>1. TypeOK /\ FateInv /\ Started
  BY DEF HeadsUpInv, FateInv
<1>2. /\ dt' = 0 /\ paused' = paused
      /\ pending' = IF Due(state) THEN None ELSE NowPending(state)
      /\ headsUp' = (IF Announced(state) THEN state.lead
                     ELSE IF pending' = None THEN 0 ELSE headsUp)
      /\ resumes' = IF Announced(state) \/ pending' = None THEN 0 ELSE resumes
  BY DEF Tick, envVars, playerVars
<1>3. pending' # None => pending' \in PendingType /\ pending'.left \in Nat
                         /\ LeftNow' = pending'.left
  BY <1>1, <1>2, NowPendingForms DEF PendingType, LeftNow
<1>4. MaxDt \in Nat /\ MaxResumes \in Nat /\ 0 <= MaxDt * MaxResumes /\ MaxDt * 0 = 0
  BY ChaosAssumption
<1>5. CASE Announced(state)
  <2>1. state.lead \in Leads /\ state.lead \in Nat
    BY <1>1, <1>5, StateForms DEF Announced, Fresh, FateInv, NoncesInOrder
  <2>2. pending' # None /\ pending'.left >= state.lead
    BY <1>1, <1>2, <1>5, NowPendingForms
  <2>3. headsUp' = state.lead /\ resumes' = 0
    BY <1>2, <1>5
  <2>4. headsUp' <= MaxDt * MaxResumes
    BY <2>1, <2>3 DEF EnoughResumes
  <2>5. headsUp' <= LeftNow' + MaxDt * resumes'
    BY <1>3, <1>4, <2>1, <2>2, <2>3
  <2> QED BY <2>4, <2>5 DEF HeadsUpInTime
<1>6. CASE ~Announced(state) /\ pending' = None
  BY <1>2, <1>4, <1>6 DEF HeadsUpInTime
<1>7. CASE ~Announced(state) /\ pending' # None
  <2>1. /\ pending # None /\ headsUp' = headsUp /\ resumes' = resumes
        /\ pending'.left = IF pending.left > Counted THEN pending.left - Counted ELSE 0
    BY <1>1, <1>2, <1>7, NowPendingForms
  <2>2. SinceTick = dt /\ pending.left \in Nat
    BY <1>1, <2>1 DEF SinceTick, Started, TypeOK, PendingType
  <2>3. LeftNow' = LeftNow
    BY <1>3, <1>7, <2>1, <2>2 DEF LeftNow, Counted
  <2> QED BY <2>1, <2>3 DEF HeadsUpInv, HeadsUpInTime
<1> QED BY <1>5, <1>6, <1>7

LEMMA PauseHeadsUp == HeadsUpInv /\ Pause => HeadsUpInTime'
<1> SUFFICES ASSUME HeadsUpInv, Pause PROVE HeadsUpInTime'
  OBVIOUS
<1>1. TypeOK /\ HeadsUpInTime
  BY DEF HeadsUpInv, FateInv
<1>2. /\ paused' = ~paused /\ UNCHANGED <<dt, pending, headsUp>>
      /\ resumes' = IF paused /\ pending # None THEN Capped(resumes, MaxResumes)
                    ELSE resumes
  BY DEF Pause, loopVars
<1>3. CASE pending = None
  BY <1>1, <1>2, <1>3 DEF HeadsUpInTime
<1>4. CASE pending # None
  <2>1. pending.left \in Nat /\ dt \in Nat /\ dt <= MaxDt /\ MaxDt \in Nat
        /\ resumes \in Nat /\ resumes <= MaxResumes /\ headsUp \in Nat
    BY <1>1, <1>4, ChaosAssumption DEF TypeOK, PendingType
  <2>2. CASE paused
    <3>1. LeftNow = pending.left
          /\ LeftNow' = IF pending.left > dt THEN pending.left - dt ELSE 0
      BY <1>2, <2>2 DEF LeftNow
    <3>2. LeftNow' \in Nat /\ LeftNow <= LeftNow' + MaxDt
      BY <2>1, <3>1
    <3>3. headsUp <= LeftNow + MaxDt * resumes /\ headsUp <= MaxDt * MaxResumes
      BY <1>1, <1>4 DEF HeadsUpInTime
    <3>4. CASE resumes < MaxResumes
      <4>1. resumes' = resumes + 1
        BY <1>2, <1>4, <2>2, <3>4 DEF Capped
      <4>2. MaxDt * (resumes + 1) = MaxDt * resumes + MaxDt
        BY <2>1
      <4>3. MaxDt * resumes \in Nat
        BY <2>1
      <4>4. headsUp <= LeftNow' + MaxDt * resumes'
        BY <2>1, <3>1, <3>2, <3>3, <4>1, <4>2, <4>3
      <4> QED BY <1>2, <3>3, <4>4 DEF HeadsUpInTime
    <3>5. CASE ~(resumes < MaxResumes)
      <4>1. resumes' = resumes /\ resumes = MaxResumes
        BY <1>2, <1>4, <2>1, <2>2, <3>5, ChaosAssumption DEF Capped
      <4>2. MaxDt * resumes' = MaxDt * MaxResumes /\ MaxDt * MaxResumes \in Nat
        BY <2>1, <4>1
      <4>3. headsUp <= LeftNow' + MaxDt * resumes'
        BY <2>1, <3>2, <3>3, <4>2
      <4> QED BY <1>2, <3>3, <4>3 DEF HeadsUpInTime
    <3> QED BY <3>4, <3>5
  <2>3. CASE ~paused
    <3>1. LeftNow' = pending.left
          /\ LeftNow = IF pending.left > dt THEN pending.left - dt ELSE 0
      BY <1>1, <1>2, <2>3 DEF LeftNow, TypeOK
    <3>2. LeftNow \in Nat /\ LeftNow <= LeftNow'
      BY <2>1, <3>1
    <3>3. headsUp <= LeftNow + MaxDt * resumes /\ headsUp <= MaxDt * MaxResumes
      BY <1>1, <1>4 DEF HeadsUpInTime
    <3>4. MaxDt * resumes \in Nat /\ resumes' = resumes
      BY <1>2, <2>1, <2>3
    <3>5. headsUp <= LeftNow' + MaxDt * resumes'
      BY <2>1, <3>1, <3>2, <3>3, <3>4
    <3> QED BY <1>2, <3>3, <3>5 DEF HeadsUpInTime
  <2> QED BY <2>2, <2>3
<1> QED BY <1>3, <1>4

LEMMA ElapseHeadsUp == HeadsUpInv /\ Elapse => HeadsUpInTime'
<1> SUFFICES ASSUME HeadsUpInv, Elapse PROVE HeadsUpInTime'
  OBVIOUS
<1>1. TypeOK /\ HeadsUpInTime
  BY DEF HeadsUpInv, FateInv
<1>2. /\ dt' = dt + 1 /\ UNCHANGED <<paused, pending, resumes>>
      /\ headsUp' = IF paused THEN headsUp ELSE Less(headsUp)
  BY DEF Elapse, envVars, playerVars, loopVars
<1>3. headsUp \in Nat /\ dt \in Nat /\ MaxDt * MaxResumes \in Nat
      /\ MaxDt * resumes \in Nat
  BY <1>1, ChaosAssumption DEF TypeOK
<1>4. headsUp' <= MaxDt * MaxResumes
  BY <1>1, <1>2, <1>3 DEF HeadsUpInTime, Less
<1>5. pending # None => headsUp' <= LeftNow' + MaxDt * resumes
  <2> SUFFICES ASSUME pending # None PROVE headsUp' <= LeftNow' + MaxDt * resumes
    OBVIOUS
  <2>1. pending.left \in Nat /\ headsUp <= LeftNow + MaxDt * resumes
    BY <1>1 DEF TypeOK, PendingType, HeadsUpInTime
  <2>2. CASE paused
    BY <1>2, <2>1, <2>2 DEF LeftNow
  <2>3. CASE ~paused
    <3>1. LeftNow = IF pending.left > dt THEN pending.left - dt ELSE 0
      BY <2>3 DEF LeftNow
    <3>2. LeftNow' = IF pending.left > dt + 1 THEN pending.left - (dt + 1) ELSE 0
      BY <1>2, <2>3 DEF LeftNow
    <3>3. headsUp' = IF headsUp > 0 THEN headsUp - 1 ELSE 0
      BY <1>2, <2>3 DEF Less
    <3> HIDE DEF LeftNow
    <3> QED BY <1>3, <2>1, <3>1, <3>2, <3>3
  <2> QED BY <2>2, <2>3
<1> QED BY <1>2, <1>4, <1>5 DEF HeadsUpInTime

LEMMA NextHeadsUpInv == EnoughResumes /\ HeadsUpInv /\ [Next]_vars => HeadsUpInv'
<1> SUFFICES ASSUME EnoughResumes, HeadsUpInv, [Next]_vars PROVE HeadsUpInv'
  OBVIOUS
<1>1. TypeOK /\ FateInv' /\ Started'
  BY NextFateInv, NextStarted DEF HeadsUpInv, FateInv
<1>2. CASE Ticks
  BY <1>1, <1>2, TicksForms, TickHeadsUp, ChaosAssumption DEF HeadsUpInv
<1>3. CASE Reload \/ RestartGame
  <2>1. headsUp' = 0 /\ pending' = None
    BY <1>1, <1>3, NewSession
  <2>2. 0 <= MaxDt * MaxResumes
    BY ChaosAssumption
  <2> QED BY <1>1, <2>1, <2>2 DEF HeadsUpInv, HeadsUpInTime
<1>4. CASE Pause \/ Elapse
  BY <1>1, <1>4, PauseHeadsUp, ElapseHeadsUp DEF HeadsUpInv
<1>5. CASE Publish \/ Retract \/ Settings \/ StartOrLeavePlay \/ UNCHANGED vars
  <2>1. UNCHANGED <<dt, pending, paused, headsUp, resumes>>
    BY <1>5 DEF Publish, Retract, Settings, StartOrLeavePlay, vars, envVars,
                playerVars, loopVars, historyVars
  <2> QED BY <1>1, <2>1 DEF HeadsUpInv, HeadsUpInTime, LeftNow
<1> QED BY <1>2, <1>3, <1>4, <1>5 DEF Next, Surroundings

\* However the player pauses and resumes, an announced winner is executed only when
\* its lead has run off in unpaused seconds, less at most one interval between two
\* ticks for each resume: what a tick counts as played it counts whole.
THEOREM HeadsUpIsKept == EnoughResumes => (Spec => HeadsUpKept)
<1> SUFFICES ASSUME EnoughResumes PROVE Spec => HeadsUpKept
  OBVIOUS
<1>1. HeadsUpInv /\ [Next]_vars =>
        [\A n \in Nonces :
           pending # None /\ n = pending.nonce /\ runs'[n] > runs[n]
             => headsUp <= MaxDt * resumes]_vars
  <2> SUFFICES ASSUME HeadsUpInv, [Next]_vars, NEW n \in Nonces,
                      pending # None, n = pending.nonce, runs'[n] > runs[n]
               PROVE  headsUp <= MaxDt * resumes
    OBVIOUS
  <2>1. FateInv /\ TypeOK /\ Started /\ HeadsUpInTime
    BY DEF HeadsUpInv, FateInv
  <2>2. PICK state \in Inputs : n \in Executed(state)
    BY <2>1, RunsByTick
  <2>3. ~Fresh(state) \/ n # state.nonce
    BY <2>1, FreshIsNew, NonceType DEF FateInv, NoncesInOrder
  <2>4. ~paused /\ pending.left <= SinceTick
    BY <2>1, <2>2, <2>3, ExecutedForms
  <2>5. pending.left \in Nat /\ SinceTick = dt /\ dt \in Nat
    BY <2>1 DEF TypeOK, PendingType, SinceTick, Started
  <2>6. LeftNow = 0
    BY <2>4, <2>5 DEF LeftNow
  <2>7. MaxDt * resumes \in Nat /\ headsUp \in Nat
    BY <2>1, ChaosAssumption DEF TypeOK
  <2> QED BY <2>1, <2>6, <2>7 DEF HeadsUpInTime
<1> QED BY <1>1, InitHeadsUpInv, NextHeadsUpInv, PTL DEF Spec, HeadsUpKept

(***************************************************************************)
(* Temporary effects, while the game has a cheat manager.  What an effect  *)
(* is owed is what is left of its timer, the time since the last tick      *)
(* taken off; and a value is another than the normal one exactly while its *)
(* timer is armed.                                                         *)
(***************************************************************************)
CheatManager == CheatsWork \subseteq {TRUE}

TimersMatch ==
    \A k \in Keys :
        owed[k] = IF buffs[k] = None \/ buffs[k] <= dt THEN 0 ELSE buffs[k] - dt

ArmedIsOn == \A k \in SetterKeys : engine[k] # "normal" <=> buffs[k] # None

EffectsInv == TypeOK /\ Started /\ TimersMatch /\ ArmedIsOn

LEMMA SetterKeysAreKeys == \A k \in SetterKeys : k \in Keys
BY DEF SetterKeys

LEMMA InitEffectsInv == Init => EffectsInv
<1> SUFFICES ASSUME Init PROVE EffectsInv
  OBVIOUS
<1>1. pending = None /\ \A k \in Keys : /\ buffs[k] = None /\ owed[k] = 0
                                        /\ engine[k] = "normal"
  BY DEF Init, NoBuffs, AllNormal
<1> QED BY <1>1, InitTypeOK, SetterKeysAreKeys
        DEF EffectsInv, Started, TimersMatch, ArmedIsOn

LEMMA TickEffects ==
    ASSUME EffectsInv, NEW state \in Inputs, NEW quarters \in Scales,
           NEW works \in BOOLEAN, works, NEW written \in BOOLEAN,
           Tick(state, quarters, works, written)
    PROVE  TimersMatch' /\ ArmedIsOn'
<1>1. TypeOK /\ None \notin Int
  BY EffectsAssumption DEF EffectsInv
<1>2. /\ engine' = EffectsOf(state, quarters, works).engine
      /\ buffs' = EffectsOf(state, quarters, works).buffs
      /\ dt' = 0
      /\ \A k \in Keys : owed'[k] =
            IF Users(state, k) = {} THEN owed[k]
            ELSE ScaledDuration(BaseSeconds[LastUser(state, k)], quarters)
  BY DEF Tick
<1>3. \A k \in Keys : buffs[k] # None => SinceTick = dt /\ dt \in Nat
  BY <1>1 DEF SinceTick, EffectsInv, Started, TypeOK
<1>4. \A k \in Keys : buffs[k] = None \/ buffs[k] \in Nat
  BY <1>1 DEF TypeOK, EffectsTypeOK
\* A key whose timer is armed anew.
<1>5. ASSUME NEW k \in Keys, Users(state, k) # {}
      PROVE  /\ buffs'[k] \in Nat \ {0} /\ owed'[k] = buffs'[k]
             /\ k \in SetterKeys => engine'[k] # "normal"
  BY <1>1, <1>2, <1>5, EffectsForms
\* Any other key.
<1>6. ASSUME NEW k \in Keys, Users(state, k) = {}
      PROVE  /\ owed'[k] = owed[k]
             /\ \/ buffs[k] = None /\ buffs'[k] = None
                   /\ (k \in SetterKeys => engine'[k] = engine[k])
                \/ buffs[k] # None /\ buffs[k] <= dt /\ buffs'[k] = None
                   /\ (k \in SetterKeys => engine'[k] = "normal")
                \/ buffs[k] # None /\ buffs[k] > dt /\ buffs'[k] = buffs[k] - dt
                   /\ (k \in SetterKeys => engine'[k] = engine[k])
  <2>1. /\ buffs'[k] = IF buffs[k] = None \/ buffs[k] <= SinceTick THEN None
                       ELSE buffs[k] - SinceTick
        /\ k \in SetterKeys =>
             engine'[k] = IF buffs[k] # None /\ buffs[k] <= SinceTick
                            THEN "normal" ELSE engine[k]
    BY <1>1, <1>2, <1>6, EffectsForms
  <2>2. owed'[k] = owed[k]
    BY <1>2, <1>6
  <2>3. CASE buffs[k] = None
    BY <2>1, <2>2, <2>3
  <2>4. CASE buffs[k] # None
    <3>1. buffs[k] \in Nat /\ SinceTick = dt /\ dt \in Nat
      BY <1>3, <1>4, <2>4
    <3> QED BY <2>1, <2>2, <2>4, <3>1
  <2> QED BY <2>3, <2>4
<1>7. TimersMatch'
  <2> SUFFICES ASSUME NEW k \in Keys
               PROVE  owed'[k] = IF buffs'[k] = None \/ buffs'[k] <= dt' THEN 0
                                 ELSE buffs'[k] - dt'
    BY DEF TimersMatch
  <2>1. owed[k] = IF buffs[k] = None \/ buffs[k] <= dt THEN 0 ELSE buffs[k] - dt
    BY DEF EffectsInv, TimersMatch
  <2>2. CASE Users(state, k) # {}
    <3>1. dt' = 0 /\ buffs'[k] \in Nat \ {0} /\ owed'[k] = buffs'[k]
      BY <1>2, <1>5, <2>2
    <3> QED BY <1>1, <3>1
  <2>3. CASE Users(state, k) = {}
    <3>1. dt' = 0 /\ (buffs[k] # None => buffs[k] \in Nat /\ dt \in Nat)
      BY <1>2, <1>3, <1>4
    <3> QED BY <1>1, <1>6, <2>1, <2>3, <3>1
  <2> QED BY <2>2, <2>3
<1>8. ArmedIsOn'
  <2> SUFFICES ASSUME NEW k \in SetterKeys
               PROVE  engine'[k] # "normal" <=> buffs'[k] # None
    BY DEF ArmedIsOn
  <2>1. k \in Keys /\ (engine[k] # "normal" <=> buffs[k] # None)
    BY SetterKeysAreKeys DEF EffectsInv, ArmedIsOn
  <2>2. CASE Users(state, k) # {}
    BY <1>1, <1>5, <2>1, <2>2
  <2>3. CASE Users(state, k) = {}
    <3>1. buffs[k] # None => buffs[k] - dt \in Int
      BY <1>3, <1>4, <2>1
    <3> QED BY <1>1, <1>6, <2>1, <2>3, <3>1
  <2> QED BY <2>2, <2>3
<1> QED BY <1>7, <1>8

LEMMA NextEffectsInv == CheatManager /\ EffectsInv /\ [Next]_vars => EffectsInv'
<1> SUFFICES ASSUME CheatManager, EffectsInv, [Next]_vars PROVE EffectsInv'
  OBVIOUS
<1>1. TypeOK /\ TypeOK' /\ Started' /\ None \notin Int
  BY NextTypeOK, NextStarted, EffectsAssumption DEF EffectsInv
<1>2. CASE Ticks
  <2>1. PICK state \in Inputs, quarters \in Scales, works \in CheatsWork,
             written \in BOOLEAN : Tick(state, quarters, works, written)
    BY <1>2, TicksForms
  <2>2. works \in BOOLEAN /\ works
    BY DEF CheatManager
  <2> QED BY <1>1, <2>1, <2>2, TickEffects DEF EffectsInv
<1>3. CASE Reload \/ RestartGame
  <2>1. PICK works \in CheatsWork, eng \in [Keys -> Timed \cup {"normal"}] :
          engine' = Normalize(eng, works)
    BY <1>1, <1>3, NewSession
  <2>2. works = TRUE
    BY DEF CheatManager
  <2>3. \A k \in SetterKeys : engine'[k] = "normal"
    BY <2>1, <2>2, SetterKeysAreKeys DEF Normalize
  <2>4. \A k \in Keys : buffs'[k] = None /\ owed'[k] = 0
    BY <1>1, <1>3, NewSession DEF NoBuffs
  <2> QED BY <1>1, <2>3, <2>4, SetterKeysAreKeys
          DEF EffectsInv, TimersMatch, ArmedIsOn
<1>4. CASE Elapse
  <2>1. engine' = engine /\ buffs' = buffs /\ dt' = dt + 1
        /\ \A k \in Keys : owed'[k] = Less(owed[k])
    BY <1>4 DEF Elapse, effectVars
  <2>2. TimersMatch'
    <3> SUFFICES ASSUME NEW k \in Keys
                 PROVE  owed'[k] = IF buffs'[k] = None \/ buffs'[k] <= dt' THEN 0
                                   ELSE buffs'[k] - dt'
      BY DEF TimersMatch
    <3>1. owed[k] = IF buffs[k] = None \/ buffs[k] <= dt THEN 0 ELSE buffs[k] - dt
      BY DEF EffectsInv, TimersMatch
    <3>2. dt \in Nat /\ (buffs[k] = None \/ buffs[k] \in Nat)
      BY <1>1 DEF TypeOK, EffectsTypeOK
    <3>3. owed'[k] = IF owed[k] > 0 THEN owed[k] - 1 ELSE 0
      BY <2>1 DEF Less
    <3> QED BY <2>1, <3>1, <3>2, <3>3
  <2> QED BY <1>1, <2>1, <2>2 DEF EffectsInv, ArmedIsOn
<1>5. CASE Publish \/ Retract \/ Settings \/ StartOrLeavePlay \/ Pause
           \/ UNCHANGED vars
  <2>1. UNCHANGED <<dt, engine, buffs, owed>>
    BY <1>5 DEF Publish, Retract, Settings, StartOrLeavePlay, Pause, vars,
                effectVars, historyVars
  <2> QED BY <1>1, <2>1 DEF EffectsInv, TimersMatch, ArmedIsOn
<1> QED BY <1>2, <1>3, <1>4, <1>5 DEF Next, Surroundings

LEMMA EffectsInvariance == CheatManager => (Spec => []EffectsInv)
<1> SUFFICES ASSUME CheatManager PROVE Spec => []EffectsInv
  OBVIOUS
<1> QED BY InitEffectsInv, NextEffectsInv, PTL DEF Spec

\* While the game has a cheat manager, a value that is not the normal one has a
\* timer armed that takes it back, also after a reload or a restart in between.
THEOREM EffectsAreTakenBack == CheatManager => (Spec => []SettingsRevert)
<1> SUFFICES ASSUME CheatManager PROVE Spec => []SettingsRevert
  OBVIOUS
<1>1. EffectsInv => SettingsRevert
  BY DEF EffectsInv, ArmedIsOn, SettingsRevert
<1> QED BY <1>1, EffectsInvariance, PTL

\* While the game has a cheat manager, an effect is on and armed as long as its
\* latest winner is owed it, however its events follow on each other, and it is
\* armed no longer than until the next tick after that.
THEOREM EffectsLast == CheatManager => (Spec => []EffectsLastAsOwed)
<1> SUFFICES ASSUME CheatManager PROVE Spec => []EffectsLastAsOwed
  OBVIOUS
<1>1. EffectsInv => EffectsLastAsOwed
  <2> SUFFICES ASSUME EffectsInv, NEW k \in Keys
               PROVE  /\ owed[k] > 0 => buffs[k] # None
                      /\ k \in SetterKeys /\ owed[k] > 0 => engine[k] # "normal"
                      /\ buffs[k] # None => buffs[k] <= owed[k] + dt
    BY DEF EffectsLastAsOwed
  <2>1. owed[k] = IF buffs[k] = None \/ buffs[k] <= dt THEN 0 ELSE buffs[k] - dt
    BY DEF EffectsInv, TimersMatch
  <2>2. dt \in Nat /\ (buffs[k] = None \/ buffs[k] \in Nat)
    BY DEF EffectsInv, TypeOK, EffectsTypeOK
  <2> QED BY <2>1, <2>2 DEF EffectsInv, ArmedIsOn
<1> QED BY <1>1, EffectsInvariance, PTL

(***************************************************************************)
(* The age of the status file.  Between two attempts to write it passes at *)
(* most a heartbeat and a tick, and a tick for every session in between in *)
(* which the loop did not get to write; every failed write allows that     *)
(* much more.                                                              *)
(***************************************************************************)
Slack == Heartbeat + (reloads + 1) * MaxDt

\* What may have passed from the last attempt to the last tick.
SinceAttempt ==
    IF lastStatus = None THEN (Heartbeat - 1) + reloads * MaxDt ELSE sinceWrite

AgeBound ==
    /\ lastStatus # None => sinceWrite # None
    /\ age <= failed * Slack + SinceAttempt + dt

FreshInv == TypeOK /\ AgeBound

LEMMA Products ==
    ASSUME NEW f \in Nat, NEW s \in Nat, NEW r \in Nat, NEW m \in Nat
    PROVE  /\ f * s \in Nat /\ r * m \in Nat
           /\ (f + 1) * s = f * s + s
           /\ (r + 1) * m = r * m + m
           /\ f * (s + m) = f * s + f * m /\ f * m \in Nat
           /\ 0 * s = 0
OBVIOUS

LEMMA SlackForms ==
    ASSUME TypeOK
    PROVE  /\ Slack \in Nat /\ failed * Slack \in Nat /\ failed \in Nat
           /\ reloads * MaxDt \in Nat /\ Heartbeat \in Nat \ {0} /\ MaxDt \in Nat
           /\ Slack = Heartbeat + reloads * MaxDt + MaxDt
           /\ dt \in Nat /\ dt <= MaxDt /\ age \in Nat
           /\ sinceWrite # None => sinceWrite \in Nat /\ sinceWrite < Heartbeat
<1>1. /\ failed \in Nat /\ reloads \in Nat /\ Heartbeat \in Nat \ {0} /\ MaxDt \in Nat
      /\ dt \in Nat /\ dt <= MaxDt /\ age \in Nat
      /\ sinceWrite # None => sinceWrite \in Nat /\ sinceWrite < Heartbeat
  BY ChaosAssumption DEF TypeOK
<1>2. reloads * MaxDt \in Nat /\ (reloads + 1) * MaxDt = reloads * MaxDt + MaxDt
  BY <1>1, Products
<1>3. Slack \in Nat /\ Slack = Heartbeat + reloads * MaxDt + MaxDt
  BY <1>1, <1>2 DEF Slack
<1> QED BY <1>1, <1>2, <1>3, Products

LEMMA AttemptForms ==
    ASSUME TypeOK, AgeBound
    PROVE  /\ SinceAttempt \in Nat
           /\ SinceAttempt <= (Heartbeat - 1) + reloads * MaxDt
           /\ SinceAttempt + dt <= Slack
<1> DEFINE rm == reloads * MaxDt
<1>1. /\ rm \in Nat /\ Heartbeat \in Nat \ {0} /\ MaxDt \in Nat
      /\ Slack = Heartbeat + rm + MaxDt
      /\ dt \in Nat /\ dt <= MaxDt
      /\ sinceWrite # None => sinceWrite \in Nat /\ sinceWrite < Heartbeat
  BY SlackForms
<1>2. \/ SinceAttempt = (Heartbeat - 1) + rm
      \/ sinceWrite # None /\ SinceAttempt = sinceWrite
  BY DEF SinceAttempt, AgeBound
<1> HIDE DEF rm
<1>3. SinceAttempt \in Nat /\ SinceAttempt <= (Heartbeat - 1) + rm
      /\ SinceAttempt + dt <= Slack
  BY <1>1, <1>2
<1> QED BY <1>3 DEF rm

LEMMA InitFreshInv == Init => FreshInv
<1> SUFFICES ASSUME Init PROVE FreshInv
  OBVIOUS
<1>1. age = 0 /\ failed = 0 /\ dt = 0 /\ lastStatus = None /\ reloads = 0
  BY DEF Init
<1>2. TypeOK
  BY InitTypeOK
<1> QED BY <1>1, <1>2, SlackForms DEF FreshInv, AgeBound, SinceAttempt

LEMMA TickAge ==
    ASSUME FreshInv, NEW state \in Inputs, NEW quarters \in Scales,
           NEW works \in BOOLEAN, NEW written \in BOOLEAN,
           ~written => failed < MaxFailed, Tick(state, quarters, works, written)
    PROVE  AgeBound'
<1>1. TypeOK /\ TypeOK' /\ age <= failed * Slack + SinceAttempt + dt
  BY TickTypeOK DEF FreshInv, AgeBound
<1>2. dt' = 0 /\ reloads' = reloads /\ ReportStatus(written)
      /\ lastNonce' \in Nonces \cup {None}
  BY <1>1, NewNonceType DEF Tick
<1>3. None \notin StatusType /\ None \notin Int
  BY ChaosAssumption, EffectsAssumption DEF StatusType, Nonces
<1>4. Slack' = Slack
  BY <1>2 DEF Slack
<1>5. lastStatus' # None /\ sinceWrite' # None /\ SinceAttempt' = sinceWrite'
  BY <1>1, <1>2, <1>3, ReportForms DEF SinceAttempt
<1>6. CASE sinceWrite' = 0 /\ age' = 0 /\ failed' = 0
  <2>1. failed' * Slack' = 0
    BY <1>1, <1>4, <1>6, SlackForms, Products
  <2> QED BY <1>2, <1>5, <1>6, <2>1 DEF AgeBound
<1>7. CASE sinceWrite' = 0 /\ age' = age /\ failed' = failed + 1
  <2>1. failed' * Slack' = failed * Slack + Slack
    BY <1>1, <1>4, <1>7, SlackForms, Products
  <2>2. SinceAttempt \in Nat /\ SinceAttempt + dt <= Slack
    BY <1>1, AttemptForms DEF FreshInv
  <2>3. age' <= failed' * Slack' + SinceAttempt' + dt'
    <3>1. failed * Slack \in Nat /\ Slack \in Nat /\ dt \in Nat /\ age \in Nat
      BY <1>1, SlackForms
    <3> QED BY <1>1, <1>2, <1>5, <1>7, <2>1, <2>2, <3>1
  <2> QED BY <1>5, <2>3 DEF AgeBound
<1>8. CASE /\ lastStatus # None /\ sinceWrite # None
           /\ sinceWrite' = sinceWrite + dt /\ age' = age /\ failed' = failed
  <2>1. SinceAttempt = sinceWrite
    BY <1>8 DEF SinceAttempt
  <2>2. failed * Slack \in Nat /\ dt \in Nat /\ age \in Nat /\ sinceWrite \in Nat
    BY <1>1, <1>8, SlackForms
  <2>3. age' <= failed' * Slack' + SinceAttempt' + dt'
    BY <1>1, <1>2, <1>4, <1>5, <1>8, <2>1, <2>2
  <2> QED BY <1>5, <2>3 DEF AgeBound
<1> QED BY <1>1, <1>2, <1>6, <1>7, <1>8, ReportForms

LEMMA NewSessionAge == FreshInv /\ (Reload \/ RestartGame) => AgeBound'
<1> SUFFICES ASSUME FreshInv, Reload \/ RestartGame PROVE AgeBound'
  OBVIOUS
<1>1. TypeOK /\ TypeOK' /\ age <= failed * Slack + SinceAttempt + dt
  BY NewSessionTypeOK DEF FreshInv, AgeBound
<1>2. /\ reloads' = reloads + 1 /\ dt' = 0 /\ lastStatus' = None
      /\ UNCHANGED <<age, failed>>
  BY <1>1, NewSession
<1>3. reloads \in Nat
  BY <1>1 DEF TypeOK
<1>4. reloads' * MaxDt = reloads * MaxDt + MaxDt
  BY <1>1, <1>2, <1>3, SlackForms, Products
<1>5. Slack' = Slack + MaxDt
  <2>1. (reloads' + 1) * MaxDt = reloads' * MaxDt + MaxDt
    BY <1>1, <1>2, <1>3, SlackForms, Products
  <2>2. Slack' = Heartbeat + (reloads' + 1) * MaxDt
    BY DEF Slack
  <2> QED BY <1>1, <1>4, <2>1, <2>2, SlackForms
<1>6. failed' * Slack' = failed * Slack + failed * MaxDt /\ failed * MaxDt \in Nat
  BY <1>1, <1>2, <1>5, SlackForms, Products
<1>7. SinceAttempt \in Nat /\ SinceAttempt <= (Heartbeat - 1) + reloads * MaxDt
  BY <1>1, AttemptForms DEF FreshInv
<1>8. SinceAttempt' = (Heartbeat - 1) + reloads * MaxDt + MaxDt
  BY <1>1, <1>2, <1>4, SlackForms DEF SinceAttempt
<1>9. /\ failed * Slack \in Nat /\ dt \in Nat /\ dt <= MaxDt /\ age \in Nat
      /\ reloads * MaxDt \in Nat /\ Heartbeat \in Nat /\ MaxDt \in Nat
  BY <1>1, SlackForms
<1>10. age' <= failed' * Slack' + SinceAttempt' + dt'
  BY <1>1, <1>2, <1>6, <1>7, <1>8, <1>9
<1> QED BY <1>2, <1>10 DEF AgeBound

LEMMA NextFreshInv == FreshInv /\ [Next]_vars => FreshInv'
<1> SUFFICES ASSUME FreshInv, [Next]_vars PROVE FreshInv'
  OBVIOUS
<1>1. TypeOK /\ TypeOK' /\ AgeBound
  BY NextTypeOK DEF FreshInv
<1>2. CASE Ticks
  BY <1>1, <1>2, TicksForms, TickAge, ChaosAssumption DEF FreshInv
<1>3. CASE Reload \/ RestartGame
  BY <1>1, <1>3, NewSessionAge DEF FreshInv
<1>4. CASE Elapse
  <2>1. /\ dt' = dt + 1 /\ UNCHANGED <<lastStatus, sinceWrite, reloads, failed>>
        /\ age' = IF age < MaxAge THEN age + 1 ELSE age
    BY <1>4 DEF Elapse, loopVars, Capped
  <2>2. SinceAttempt' = SinceAttempt /\ failed' * Slack' = failed * Slack
    BY <2>1 DEF SinceAttempt, Slack
  <2>3. failed * Slack \in Nat /\ dt \in Nat /\ age \in Nat /\ SinceAttempt \in Int
    BY <1>1, SlackForms DEF AgeBound, SinceAttempt
  <2>4. age' <= failed' * Slack' + SinceAttempt' + dt'
    BY <1>1, <2>1, <2>2, <2>3 DEF AgeBound
  <2> QED BY <1>1, <2>1, <2>4 DEF FreshInv, AgeBound
<1>5. CASE Publish \/ Retract \/ Settings \/ StartOrLeavePlay \/ Pause
           \/ UNCHANGED vars
  <2>1. UNCHANGED <<dt, lastStatus, sinceWrite, reloads, age, failed>>
    BY <1>5 DEF Publish, Retract, Settings, StartOrLeavePlay, Pause, vars,
                loopVars, historyVars
  <2> QED BY <1>1, <2>1 DEF FreshInv, AgeBound, SinceAttempt, Slack
<1> QED BY <1>2, <1>3, <1>4, <1>5 DEF Next, Surroundings

\* While the loop ticks, the status file is never older than a heartbeat and the
\* interval of a tick, plus as much (and an interval for each reload) for every
\* write in a row that failed: what a freshness limit in the sidecar has to exceed.
THEOREM StatusStaysFresh == Spec => []StatusIsFresh
<1>1. FreshInv => StatusIsFresh
  <2> SUFFICES ASSUME FreshInv, lastStatus # None
               PROVE  age < Heartbeat + MaxDt + failed * Slack
    BY DEF StatusIsFresh, Slack
  <2>1. TypeOK /\ sinceWrite # None /\ age <= failed * Slack + sinceWrite + dt
    BY DEF FreshInv, AgeBound, SinceAttempt
  <2>2. /\ failed * Slack \in Nat /\ dt \in Nat /\ dt <= MaxDt /\ age \in Nat
        /\ sinceWrite \in Nat /\ sinceWrite < Heartbeat
        /\ Heartbeat \in Nat /\ MaxDt \in Nat
    BY <2>1, SlackForms
  <2> QED BY <2>1, <2>2
<1> QED BY <1>1, InitFreshInv, NextFreshInv, PTL DEF Spec

=============================================================================
