--------------------------- MODULE StatusPollProofs ---------------------------
(***************************************************************************)
(* The handover from pollStatus to the vote machine loses, repeats and     *)
(* reorders nothing, for any settings and any timing of the mod.           *)
(***************************************************************************)
EXTENDS StatusPoll, TLAPS

(***************************************************************************)
(* The invariant is inductive with the types: a channel's only slot holds  *)
(* the newest value, and the poller is at a send only when its newest      *)
(* decision differs from the one before.                                   *)
(***************************************************************************)
PendingSettings == pc = "sendReconfig" => lastRC \in Settings

IInv == TypeOK /\ ActivityInOrder /\ SettingsInOrder /\ PendingSettings

LEMMA OneSlot ==
    ASSUME NEW S, NEW ch \in Seq(S), Len(ch) <= 1
    PROVE  /\ ch # << >> => Head(ch) \in S /\ Tail(ch) = << >>
           /\ Len(ch) < 1 => ch = << >>
           /\ \A x \in S : /\ Append(<< >>, x) \in Seq(S)
                           /\ Append(<< >>, x) # << >>
                           /\ Head(Append(<< >>, x)) = x
                           /\ Len(Append(<< >>, x)) = 1
OBVIOUS

LEMMA InitIInv == Init => IInv
<1> SUFFICES ASSUME Init PROVE IInv
  OBVIOUS
<1>1. TypeOK
  <2>1. activeCh \in Seq(BOOLEAN) /\ Len(activeCh) <= 1
        /\ reconfigCh \in Seq(Settings) /\ Len(reconfigCh) <= 1
    BY DEF Init
  <2>2. age \in 0..StaleAfter+1 /\ beat \in 0..MaxBeat
    BY PollAssumption DEF Init
  <2>3. overwrites \in BOOLEAN
    BY PollAssumption DEF Init
  <2> QED BY <2>1, <2>2, <2>3 DEF Init, TypeOK, MaybeSettings, MaybeStatus
<1>2. activeCh = << >> /\ reconfigCh = << >> /\ pc = "wait"
      /\ last = TRUE /\ mActive = TRUE /\ lastRC = None /\ mConfig = None
  BY DEF Init
<1>3. ActivityInOrder
  BY <1>2 DEF ActivityInOrder
<1>4. SettingsInOrder /\ PendingSettings
  BY <1>2 DEF SettingsInOrder, PendingSettings
<1> QED BY <1>1, <1>3, <1>4 DEF IInv

\* The handover is untouched by the mod and by time.
LEMMA ModStepIInv ==
    ASSUME IInv, Mod \/ Elapse
    PROVE  IInv'
<1>1. UNCHANGED others
  BY DEF Mod, StartGame, StopGame, ChangePlay, ChangeMenu, RemoveStatus,
         WriteStatus, Elapse
<1>2. /\ gameUp' \in BOOLEAN /\ playing' \in BOOLEAN /\ menu' \in MaybeSettings
      /\ gap' \in BOOLEAN
  BY DEF IInv, TypeOK, MaybeSettings, Mod, StartGame, StopGame, ChangePlay,
         ChangeMenu, RemoveStatus, WriteStatus, Elapse
<1>3. file' \in MaybeStatus
  BY DEF IInv, TypeOK, MaybeStatus, StatusType, Mod, StartGame, StopGame,
         ChangePlay, ChangeMenu, RemoveStatus, WriteStatus, Elapse
<1>4. age' \in 0..StaleAfter+1 /\ beat' \in 0..MaxBeat
  BY PollAssumption
  DEF IInv, TypeOK, Mod, StartGame, StopGame, ChangePlay, ChangeMenu,
      RemoveStatus, WriteStatus, Elapse
<1>5. TypeOK'
  BY <1>1, <1>2, <1>3, <1>4
  DEF IInv, TypeOK, others, pollVars, chanVars, machineVars
<1>6. ActivityInOrder' /\ SettingsInOrder' /\ PendingSettings'
  BY <1>1 DEF IInv, ActivityInOrder, SettingsInOrder, PendingSettings, others,
              pollVars, chanVars, machineVars
<1> QED BY <1>5, <1>6 DEF IInv

\* What the poller takes from a status is a menu setting or nothing.
LEMMA NewSettings ==
    ASSUME NEW st \in MaybeStatus, NewRC(st)
    PROVE  RCOf(st) \in Settings
BY DEF NewRC, RCOf, MaybeStatus, StatusType, MaybeSettings

\* The activity a tick decides on is one of the two.
LEMMA Decision ==
    ASSUME NEW st \in MaybeStatus
    PROVE  (Running(st) /\ Active(st)) \in BOOLEAN
<1>1. Active(st) \in BOOLEAN
  BY DEF Active, MaybeStatus, StatusType
<1>2. Running(st) \in BOOLEAN
  BY DEF Running
<1> QED BY <1>1, <1>2

LEMMA PollTickIInv == IInv /\ PollTick => IInv'
<1> SUFFICES ASSUME IInv, PollTick PROVE IInv'
  OBVIOUS
<1> DEFINE a == Running(file) /\ Active(file)
<1>1. UNCHANGED <<modVars, chanVars, machineVars>> /\ seen' = file /\ pc = "wait"
  BY DEF PollTick
<1>2. a \in BOOLEAN /\ file \in MaybeStatus /\ last \in BOOLEAN
  BY Decision DEF IInv, TypeOK
<1>3. \/ a # last /\ pc' = "sendActive" /\ last' = a /\ lastRC' = lastRC
      \/ /\ last' = last
         /\ \/ NewRC(file) /\ pc' = "sendReconfig" /\ lastRC' = RCOf(file)
            \/ pc' = "wait" /\ lastRC' = lastRC
  BY DEF PollTick
<1> HIDE DEF a
<1>4. \/ pc' = "sendActive" /\ last' = ~last /\ lastRC' = lastRC
      \/ pc' = "sendReconfig" /\ last' = last /\ lastRC' \in Settings
      \/ pc' = "wait" /\ last' = last /\ lastRC' = lastRC
  BY <1>2, <1>3, NewSettings
<1>5. TypeOK'
  <2>1. /\ pc' \in {"wait", "sendActive", "sendReconfig"}
        /\ last' \in BOOLEAN /\ lastRC' \in MaybeSettings
    BY <1>4, <1>2 DEF IInv, TypeOK, MaybeSettings
  <2> QED BY <1>1, <2>1 DEF IInv, TypeOK, modVars, chanVars, machineVars
<1>6. ActivityInOrder'
  <2>1. activeCh' = activeCh /\ mActive' = mActive
    BY <1>1 DEF chanVars, machineVars
  <2>2. /\ activeCh # << >> => Head(activeCh) = ~mActive
        /\ last = IF activeCh # << >> THEN Head(activeCh) ELSE mActive
    BY <1>1 DEF IInv, ActivityInOrder
  <2> QED BY <1>4, <2>1, <2>2 DEF ActivityInOrder
<1>7. SettingsInOrder' /\ PendingSettings'
  BY <1>1, <1>4 DEF IInv, SettingsInOrder, PendingSettings, chanVars, machineVars
<1> QED BY <1>5, <1>6, <1>7 DEF IInv

LEMMA SendActiveIInv == IInv /\ SendActive => IInv'
<1> SUFFICES ASSUME IInv, SendActive PROVE IInv'
  OBVIOUS
<1>1. /\ pc = "sendActive" /\ activeCh = << >>
      /\ activeCh' = Append(<< >>, last)
      /\ UNCHANGED <<modVars, seen, last, reconfigCh, machineVars>>
  BY OneSlot DEF IInv, TypeOK, SendActive
<1>2. \/ pc' = "sendReconfig" /\ lastRC' \in Settings
      \/ pc' = "wait" /\ lastRC' = lastRC
  BY NewSettings DEF IInv, TypeOK, SendActive, AfterActive
<1>3. /\ activeCh' \in Seq(BOOLEAN) /\ activeCh' # << >>
      /\ Head(activeCh') = last /\ Len(activeCh') = 1
  BY <1>1, OneSlot DEF IInv, TypeOK
<1>4. TypeOK'
  <2>1. pc' \in {"wait", "sendActive", "sendReconfig"} /\ lastRC' \in MaybeSettings
    BY <1>2 DEF IInv, TypeOK, MaybeSettings
  <2> QED BY <1>1, <1>3, <2>1 DEF IInv, TypeOK, modVars, machineVars
<1>5. ActivityInOrder'
  <2>1. last = ~mActive
    BY <1>1 DEF IInv, ActivityInOrder
  <2>2. last' = last /\ mActive' = mActive
    BY <1>1 DEF machineVars
  <2>3. pc' # "sendActive"
    BY <1>2
  <2> QED BY <1>3, <2>1, <2>2, <2>3 DEF ActivityInOrder
<1>6. SettingsInOrder' /\ PendingSettings'
  BY <1>1, <1>2 DEF IInv, SettingsInOrder, PendingSettings, machineVars
<1> QED BY <1>4, <1>5, <1>6 DEF IInv

LEMMA SendReconfigIInv == IInv /\ SendReconfig => IInv'
<1> SUFFICES ASSUME IInv, SendReconfig PROVE IInv'
  OBVIOUS
<1>1. /\ pc = "sendReconfig" /\ pc' = "wait" /\ reconfigCh = << >>
      /\ reconfigCh' = Append(<< >>, lastRC)
      /\ UNCHANGED <<modVars, seen, last, lastRC, activeCh, machineVars>>
  BY OneSlot DEF IInv, TypeOK, SendReconfig
<1>2. lastRC \in Settings
  BY <1>1 DEF IInv, PendingSettings
<1>3. /\ reconfigCh' \in Seq(Settings) /\ reconfigCh' # << >>
      /\ Head(reconfigCh') = lastRC /\ Len(reconfigCh') = 1
  BY <1>1, <1>2, OneSlot
<1>4. TypeOK'
  BY <1>1, <1>3 DEF IInv, TypeOK, modVars, machineVars
<1>5. ActivityInOrder'
  BY <1>1 DEF IInv, ActivityInOrder, machineVars
<1>6. SettingsInOrder' /\ PendingSettings'
  BY <1>1, <1>3 DEF SettingsInOrder, PendingSettings
<1> QED BY <1>4, <1>5, <1>6 DEF IInv

LEMMA ReceiveActiveIInv == IInv /\ ReceiveActive => IInv'
<1> SUFFICES ASSUME IInv, ReceiveActive PROVE IInv'
  OBVIOUS
<1>1. /\ activeCh # << >> /\ activeCh' = << >> /\ mActive' = Head(activeCh)
      /\ Head(activeCh) \in BOOLEAN
      /\ UNCHANGED <<modVars, pollVars, reconfigCh, mConfig>>
  BY OneSlot DEF IInv, TypeOK, ReceiveActive
<1>2. << >> \in Seq(BOOLEAN) /\ Len(<< >>) <= 1
  OBVIOUS
<1>3. TypeOK'
  BY <1>1, <1>2 DEF IInv, TypeOK, modVars, pollVars
<1>4. ActivityInOrder'
  <2>1. last = IF pc = "sendActive" THEN ~Head(activeCh) ELSE Head(activeCh)
    BY <1>1 DEF IInv, ActivityInOrder
  <2>2. last' = last /\ pc' = pc
    BY <1>1 DEF pollVars
  <2> QED BY <1>1, <2>1, <2>2 DEF ActivityInOrder
<1>5. SettingsInOrder' /\ PendingSettings'
  BY <1>1 DEF IInv, SettingsInOrder, PendingSettings, pollVars
<1> QED BY <1>3, <1>4, <1>5 DEF IInv

LEMMA ReceiveReconfigIInv == IInv /\ ReceiveReconfig => IInv'
<1> SUFFICES ASSUME IInv, ReceiveReconfig PROVE IInv'
  OBVIOUS
<1>1. /\ reconfigCh # << >> /\ reconfigCh' = << >> /\ mConfig' = Head(reconfigCh)
      /\ Head(reconfigCh) \in Settings
      /\ UNCHANGED <<modVars, pollVars, activeCh, mActive>>
  BY OneSlot DEF IInv, TypeOK, ReceiveReconfig
<1>2. << >> \in Seq(Settings) /\ Len(<< >>) <= 1
  OBVIOUS
<1>3. TypeOK'
  BY <1>1, <1>2 DEF IInv, TypeOK, modVars, pollVars, MaybeSettings
<1>4. ActivityInOrder'
  BY <1>1 DEF IInv, ActivityInOrder, pollVars
<1>5. SettingsInOrder' /\ PendingSettings'
  BY <1>1 DEF IInv, SettingsInOrder, PendingSettings, pollVars
<1> QED BY <1>3, <1>4, <1>5 DEF IInv

LEMMA NextIInv == IInv /\ [Next]_vars => IInv'
<1> SUFFICES ASSUME IInv, [Next]_vars PROVE IInv'
  OBVIOUS
<1>1. CASE Mod \/ Elapse
  BY <1>1, ModStepIInv
<1>2. CASE Poller
  BY <1>2, PollTickIInv, SendActiveIInv, SendReconfigIInv DEF Poller
<1>3. CASE ReceiveActive \/ ReceiveReconfig
  BY <1>3, ReceiveActiveIInv, ReceiveReconfigIInv
<1>4. CASE UNCHANGED vars
  BY <1>4 DEF vars, modVars, others, pollVars, chanVars, machineVars, IInv,
              TypeOK, ActivityInOrder, SettingsInOrder, PendingSettings
<1> QED BY <1>1, <1>2, <1>3, <1>4 DEF Next

LEMMA Invariance == Spec => []IInv
BY InitIInv, NextIInv, PTL DEF Spec

\* The channels never hold more than their one slot and only what their
\* receiver takes: pollStatus's types.
THEOREM TypeCorrect == Spec => []TypeOK
BY Invariance, PTL DEF IInv

\* The vote machine sees every pause and every resume once and in order,
\* whatever it is busy with when they are sent.
THEOREM ActivityIsHandedOver == Spec => []ActivityInOrder
BY Invariance, PTL DEF IInv

\* The settings the poller decided on last are the ones the machine gets last.
THEOREM SettingsAreHandedOver == Spec => []SettingsInOrder
BY Invariance, PTL DEF IInv
=============================================================================
