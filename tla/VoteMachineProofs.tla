-------------------------- MODULE VoteMachineProofs --------------------------
(***************************************************************************)
(* Proofs about VoteMachine for every catalog, viewer set, configuration   *)
(* and menu; about the countdown it keeps (Countdown), for any rhythm of   *)
(* ticks and pauses; and about the picker it draws from (PickLog), for any *)
(* sequence of picks.                                                      *)
(***************************************************************************)
EXTENDS Countdown, PickLog, FiniteSetTheorems, SequenceTheorems, TLAPS

(***************************************************************************)
(* Facts about the picker.                                                 *)
(***************************************************************************)
LEMMA CatalogSize ==
    /\ Cardinality(Events) \in Nat \ {0}
    /\ \A S \in SUBSET Events : IsFiniteSet(S) /\ Cardinality(S) \in Nat
<1>1. \A S \in SUBSET Events : IsFiniteSet(S) /\ Cardinality(S) \in Nat
  BY EventsAssumption, FS_Subset, FS_CardinalityType
<1>2. Cardinality(Events) # 0
  BY EventsAssumption, FS_EmptySet
<1> QED BY <1>1, <1>2

\* Whatever has to be relaxed, the pool holds enough events for the round.
LEMMA PoolIsLargeEnough ==
    ASSUME NEW n \in Nat, n <= Cardinality(Events), NEW avoidRepeat, NEW left
    PROVE  /\ Eligible(n, avoidRepeat, left) \subseteq Events
           /\ Cardinality(Eligible(n, avoidRepeat, left)) >= n
<1> DEFINE fresh == Filter(avoidRepeat, left)
           ready == Filter(FALSE, left)
<1>1. fresh \subseteq Events /\ ready \subseteq Events
  BY DEF Filter
<1>2. Cardinality(Events) \in Nat /\ Cardinality(fresh) \in Nat
      /\ Cardinality(ready) \in Nat
  BY <1>1, CatalogSize
<1> HIDE DEF fresh, ready
<1>3. Eligible(n, avoidRepeat, left) =
        IF Cardinality(fresh) >= n THEN fresh
        ELSE IF Cardinality(ready) >= n THEN ready
        ELSE Events
  BY DEF Eligible, fresh, ready
<1> QED BY <1>1, <1>2, <1>3

\* A pick gives as many distinct events of the pool as were asked for, or the whole
\* catalog, and remembers them.
LEMMA PickSamples ==
    ASSUME NEW n \in Nat, NEW avoidRepeat, NEW d \in Nat, PickerTypeOK,
           Pick(n, avoidRepeat, d)
    PROVE  LET size == Capped(n, Events)
           IN  /\ PickerTypeOK'
               /\ size \in Nat
               /\ Len(options') = size
               /\ Cardinality(Range(options')) = size
               /\ Range(options') \subseteq Eligible(size, avoidRepeat, Cooled(d))
               /\ Record(options', Cooled(d))
<1> DEFINE left == Cooled(d)
           size == Capped(n, Events)
           pool == Eligible(size, avoidRepeat, left)
<1>1. PICK chosen \in Sample(pool, size) : options' = chosen /\ Record(chosen, left)
  BY DEF Pick
<1>2. size \in Nat /\ size <= Cardinality(Events)
  BY CatalogSize DEF Capped
<1>3. pool \subseteq Events /\ Cardinality(pool) >= size /\ Cardinality(pool) \in Nat
  <2>1. pool \subseteq Events /\ Cardinality(pool) >= size
    <3> HIDE DEF size, left
    <3> QED BY <1>2, PoolIsLargeEnough
  <2> QED BY <2>1, CatalogSize
<1>4. Capped(size, pool) = size
  <2> HIDE DEF size, pool
  <2> QED BY <1>2, <1>3 DEF Capped
<1> HIDE DEF size, pool, left
<1>5. chosen \in [1..size -> pool] /\ IsInjective(chosen)
  BY <1>4 DEF Sample, Injection
<1>6. chosen \in Seq(Events) /\ Len(chosen) = size
  BY <1>2, <1>3, <1>5
<1>7. Range(chosen) \subseteq pool
  BY <1>5 DEF Range
<1>8. Cardinality(Range(chosen)) = size
  <2>1. chosen \in [1..size -> Range(chosen)]
    BY <1>5 DEF Range
  <2>2. chosen \in Surjection(1..size, Range(chosen))
    BY <2>1 DEF Range, Surjection
  <2>3. chosen \in Injection(1..size, Range(chosen))
    BY <1>5, <2>1 DEF Injection
  <2>4. IsFiniteSet(1..size) /\ Cardinality(1..size) = size
    BY <1>2, FS_Interval
  <2> QED BY <2>2, <2>3, <2>4, FS_Surjection
<1>9. cooling' \in [Events -> Nat]
  <2>1. left \in [Events -> Nat]
    BY DEF left, Cooled, PickerTypeOK
  <2> QED BY <1>1, <2>1, EventsAssumption DEF Record
<1>10. PickerTypeOK'
  BY <1>1, <1>3, <1>6, <1>7, <1>9 DEF PickerTypeOK, Record
<1> QED BY <1>1, <1>2, <1>6, <1>7, <1>8, <1>10 DEF size, pool, left

\* The machine's own pick: at least one option, at most the configured number.
LEMMA PickForms ==
    TypeOK /\ Pick(cfg.OptionsPerRound, cfg.AvoidImmediateRepeat, lag)
      => PickerTypeOK' /\ Len(options') = Capped(cfg.OptionsPerRound, Events)
                       /\ Len(options') > 0
<1> SUFFICES ASSUME TypeOK, Pick(cfg.OptionsPerRound, cfg.AvoidImmediateRepeat, lag)
             PROVE  PickerTypeOK' /\ Len(options') = Capped(cfg.OptionsPerRound, Events)
                                  /\ Len(options') > 0
  OBVIOUS
<1>1. cfg.OptionsPerRound \in Nat /\ cfg.OptionsPerRound > 0 /\ lag \in Nat
      /\ PickerTypeOK
  BY DEF TypeOK, ConfigType
<1>2. PickerTypeOK' /\ Len(options') = Capped(cfg.OptionsPerRound, Events)
  BY <1>1, PickSamples
<1>3. Capped(cfg.OptionsPerRound, Events) > 0
  BY <1>1, CatalogSize DEF Capped
<1> QED BY <1>2, <1>3

(***************************************************************************)
(* Facts about the tally.                                                  *)
(***************************************************************************)
LEMMA CountsType ==
    ASSUME NEW n \in Nat, NEW box \in [Voters -> Nat \cup {None}]
    PROVE  Counts(box, n) \in [0..n-1 -> Nat]
<1> SUFFICES ASSUME NEW i \in 0..n-1
             PROVE  Cardinality({v \in DOMAIN box : box[v] = i}) \in Nat
  BY DEF Counts
<1> QED BY MachineAssumption, FS_Subset, FS_CardinalityType

\* What Resolve may return is an option, and one nobody outvoted.
LEMMA ResolveElectsLeader ==
    ASSUME NEW n \in Nat \ {0}, NEW counts \in [0..n-1 -> Nat]
    PROVE  Resolve(counts) \subseteq Leaders(counts) /\ Leaders(counts) \subseteq 0..n-1
<1>1. DOMAIN counts = 0..n-1 /\ 0 \in 0..n-1
  OBVIOUS
<1>2. CASE \A i \in DOMAIN counts : counts[i] = 0
  BY <1>1, <1>2 DEF Resolve, Leaders
<1>3. CASE ~(\A i \in DOMAIN counts : counts[i] = 0)
  BY <1>1, <1>3 DEF Resolve, Leaders
<1> QED BY <1>2, <1>3

\* Cast leaves the box as it is, or files a first ballot for an option.
LEMMA CastFirst ==
    ASSUME NEW n \in Nat, NEW box \in [Voters -> Nat \cup {None}],
           NEW v \in Voters, NEW idx \in Int
    PROVE  \/ Cast(box, n, v, idx) = box
           \/ /\ idx \in 0..n-1 /\ box[v] = None
              /\ Cast(box, n, v, idx) = [box EXCEPT ![v] = idx]
BY DEF Cast

(***************************************************************************)
(* Type correctness.                                                       *)
(***************************************************************************)
LEMMA NewBoxType == NewRound(Voters) \in [Voters -> Nat \cup {None}]
BY DEF NewRound

LEMMA InitType == Init => TypeOK
<1> SUFFICES ASSUME Init PROVE TypeOK
  OBVIOUS
<1>1. PickerTypeOK
  BY DEF Init, NewPicker, PickerTypeOK
<1>2. cfg \in ConfigType /\ cfg.OptionsPerRound > 0 /\ cfg.VoteDuration > 0
      /\ cfg.ApplyHold > 0
  <2>1. PICK c \in ConfigType : cfg = WithDefaults(c)
    BY MachineAssumption DEF Init
  <2>2. cfg = [OptionsPerRound |-> OrDefault(c.OptionsPerRound, 4),
               VoteDuration |-> OrDefault(c.VoteDuration, 30),
               Cooldown |-> c.Cooldown,
               ApplyHold |-> OrDefault(c.ApplyHold, 3),
               AnnounceLead |-> c.AnnounceLead,
               AvoidImmediateRepeat |-> c.AvoidImmediateRepeat]
    BY <2>1 DEF WithDefaults, ConfigType
  <2>3. \A x \in Int, y \in Nat \ {0} :
           OrDefault(x, y) \in Int /\ OrDefault(x, y) > 0
    BY DEF OrDefault
  <2> QED BY <2>2, <2>3 DEF ConfigType
<1>3. votes \in [Voters -> Nat \cup {None}]
  BY NewBoxType DEF Init
<1> QED BY <1>1, <1>2, <1>3 DEF Init, TypeOK, Phases

LEMMA StartRoundType ==
    TypeOK /\ StartRound
      => /\ PickerTypeOK'
         /\ round' \in Nat /\ phase' = "voting" /\ phaseEnds' \in Nat
         /\ votes' \in [Voters -> Nat \cup {None}]
         /\ winner' = None /\ winnerNonce' = None /\ applyAt' = None
<1> SUFFICES ASSUME TypeOK, StartRound
             PROVE  /\ PickerTypeOK'
                    /\ round' \in Nat /\ phase' = "voting" /\ phaseEnds' \in Nat
                    /\ votes' \in [Voters -> Nat \cup {None}]
                    /\ winner' = None /\ winnerNonce' = None /\ applyAt' = None
  OBVIOUS
<1>1. PickerTypeOK'
  BY PickForms DEF StartRound
<1>2. votes' \in [Voters -> Nat \cup {None}]
  BY NewBoxType DEF StartRound, NewBox
<1> QED BY <1>1, <1>2 DEF StartRound, ClearWinner, TypeOK, ConfigType

\* The winner is one of the options, and nobody outvoted it.
LEMMA ResolveRoundPicksLeader ==
    TypeOK /\ Len(options) > 0 /\ ResolveRound
      => /\ winner' \in [Index : Nat \ {0}, ID : Events]
         /\ winner'.Index \in DOMAIN options
         /\ winner'.ID = options[winner'.Index]
         /\ (winner'.Index - 1) \in Leaders(Counts(votes, Len(options)))
<1> SUFFICES ASSUME TypeOK, Len(options) > 0, ResolveRound
             PROVE  /\ winner' \in [Index : Nat \ {0}, ID : Events]
                    /\ winner'.Index \in DOMAIN options
                    /\ winner'.ID = options[winner'.Index]
                    /\ (winner'.Index - 1) \in Leaders(Counts(votes, Len(options)))
  OBVIOUS
<1> DEFINE n == Len(options)
           counts == Counts(votes, n)
<1>1. options \in Seq(Events) /\ n \in Nat \ {0} /\ DOMAIN options = 1..n
  BY DEF TypeOK, PickerTypeOK
<1>2. counts \in [0..n-1 -> Nat]
  BY <1>1, CountsType DEF TypeOK
<1>3. PICK idx \in Resolve(counts) :
         winner' = IF idx < n THEN [Index |-> idx + 1, ID |-> options[idx + 1]]
                   ELSE winner
  BY DEF ResolveRound
<1> HIDE DEF n, counts
<1>4. idx \in Leaders(counts) /\ idx \in 0..n-1
  BY <1>1, <1>2, ResolveElectsLeader
<1>5. winner' = [Index |-> idx + 1, ID |-> options[idx + 1]] /\ idx + 1 \in 1..n
  BY <1>1, <1>3, <1>4
<1>6. options[idx + 1] \in Events
  BY <1>1, <1>5
<1> QED BY <1>1, <1>4, <1>5, <1>6 DEF n, counts

\* Decisions are only taken about rounds that have options.
HasOptions == phase # "idle" => Len(options) > 0

LEMMA NextType == TypeOK /\ HasOptions /\ [Next]_vars => TypeOK'
<1> SUFFICES ASSUME TypeOK, HasOptions, [Next]_vars PROVE TypeOK'
  OBVIOUS
<1>1. CASE FirstAdvance
  BY <1>1, StartRoundType DEF FirstAdvance, TypeOK, Phases
<1>2. CASE KeepPhase
  <2>1. phaseEnds' \in Nat /\ applyAt' \in Int \cup {None} /\ lag' = 0
    BY <1>2 DEF KeepPhase, Tick, Due, Charged, CloserApplyAt, TypeOK
  <2>2. PickerTypeOK'
    BY <1>2 DEF KeepPhase, Cooled, PickerTypeOK, TypeOK
  <2> QED BY <1>2, <2>1, <2>2 DEF KeepPhase, Tick, TypeOK
<1>3. CASE CloseVoting
  <2>1. winner' \in [Index : Nat \ {0}, ID : Events]
    BY <1>3, ResolveRoundPicksLeader DEF CloseVoting, HasOptions
  <2>2. PickerTypeOK'
    BY <1>3 DEF CloseVoting, Cooled, PickerTypeOK, TypeOK
  <2>3. winnerNonce' \in [token : Tokens, round : Nat] /\ phase' \in Phases
        /\ applyAt' \in Int /\ phaseEnds' \in Nat
    BY <1>3 DEF CloseVoting, ResolveRound, ApplyWindow, TypeOK, ConfigType, Phases
  <2> QED BY <1>3, <2>1, <2>2, <2>3 DEF CloseVoting, Tick, TypeOK
<1>4. CASE EndApply
  <2>1. CASE cfg.Cooldown <= 0 /\ StartRound
    BY <1>4, <2>1, StartRoundType DEF EndApply, Tick, TypeOK, Phases
  <2>2. CASE ~(cfg.Cooldown <= 0 /\ StartRound)
    <3>1. PickerTypeOK'
      BY <1>4, <2>2 DEF EndApply, Cooled, PickerTypeOK, TypeOK
    <3>2. phase' \in Phases /\ phaseEnds' \in Nat /\ applyAt' \in Int \cup {None}
      BY <1>4, <2>2
      DEF EndApply, CloserApplyAt, Charged, TypeOK, ConfigType, Phases
    <3> QED BY <1>4, <2>2, <3>1, <3>2 DEF EndApply, Tick, TypeOK
  <2> QED BY <2>1, <2>2
<1>5. CASE EndCooldown
  BY <1>5, StartRoundType DEF EndCooldown, Tick, TypeOK, Phases
<1>6. ASSUME NEW v \in Voters, NEW number \in Numbers, Offer(v, number)
      PROVE  TypeOK'
  <2>1. votes' \in [Voters -> Nat \cup {None}]
    BY <1>6, CastFirst, MachineAssumption
    DEF Offer, TypeOK, PickerTypeOK, IsVote
  <2> QED BY <1>6, <2>1 DEF Offer, TypeOK, PickerTypeOK, pickerVars
<1>7. ASSUME NEW a \in BOOLEAN, SetActive(a)
      PROVE  TypeOK'
  BY <1>7 DEF SetActive, TypeOK, PickerTypeOK, pickerVars
<1>8. ASSUME NEW rc \in Reconfigs, Reconfigure(rc)
      PROVE  TypeOK'
  <2>1. rc \in ReconfigType /\ cfg \in ConfigType
    BY MachineAssumption DEF TypeOK
  <2> DEFINE duration == IF rc.VoteDuration > 0 THEN rc.VoteDuration
                         ELSE cfg.VoteDuration
             cooldown == IF rc.HasCooldown /\ rc.Cooldown >= 0 THEN rc.Cooldown
                         ELSE cfg.Cooldown
             number == IF rc.Options \in 2..9 THEN rc.Options
                       ELSE cfg.OptionsPerRound
  <2>2. cfg' = [cfg EXCEPT !.VoteDuration = duration, !.Cooldown = cooldown,
                           !.OptionsPerRound = number]
    BY <1>8 DEF Reconfigure
  <2>3. duration \in Int /\ duration > 0 /\ cooldown \in Int
        /\ number \in Int /\ number > 0
    BY <2>1 DEF TypeOK, ConfigType, ReconfigType
  <2> HIDE DEF duration, cooldown, number
  <2>4. cfg' = [OptionsPerRound |-> number, VoteDuration |-> duration,
                Cooldown |-> cooldown, ApplyHold |-> cfg.ApplyHold,
                AnnounceLead |-> cfg.AnnounceLead,
                AvoidImmediateRepeat |-> cfg.AvoidImmediateRepeat]
    BY <2>1, <2>2 DEF ConfigType
  <2>5. cfg' \in ConfigType /\ cfg'.OptionsPerRound > 0 /\ cfg'.VoteDuration > 0
        /\ cfg'.ApplyHold > 0
    BY <2>1, <2>3, <2>4 DEF TypeOK, ConfigType
  <2> QED BY <1>8, <2>5 DEF Reconfigure, TypeOK, PickerTypeOK, pickerVars
<1>9. CASE Elapse
  BY <1>9 DEF Elapse, machineVars, TypeOK, PickerTypeOK, pickerVars
<1>10. CASE UNCHANGED vars
  BY <1>10 DEF vars, machineVars, TypeOK, PickerTypeOK, pickerVars
<1> QED
  BY <1>1, <1>2, <1>3, <1>4, <1>5, <1>6, <1>7, <1>8, <1>9, <1>10
  DEF Next, Advance, Select

(***************************************************************************)
(* The inductive invariant.  The published winner leads the tally because  *)
(* the box and the options are frozen while Decided, and a leader exists   *)
(* because a round has options; the hold outlasts the announcement because *)
(* a pause pushes both deadlines; so the safety invariants are inductive   *)
(* together with the types and HasOptions, not one by one.                 *)
(***************************************************************************)
IInv ==
    /\ TypeOK
    /\ HasOptions
    /\ BallotsFitOptions
    /\ WinnerLeadsPublishedTally
    /\ NonceNamesDecision
    /\ HoldOutlastsLead

LEMMA InitIInv == Init => IInv
<1> SUFFICES ASSUME Init PROVE IInv
  OBVIOUS
<1>1. TypeOK
  BY InitType
<1>2. phase = "idle" /\ ~Decided /\ \A v \in Voters : votes[v] = None
  BY DEF Init, Decided, NewRound
<1>3. winnerNonce = None /\ applyAt = None
  BY DEF Init
<1> QED
  BY <1>1, <1>2, <1>3
  DEF IInv, HasOptions, BallotsFitOptions, WinnerLeadsPublishedTally,
      NonceNamesDecision, HoldOutlastsLead

\* A fresh round satisfies everything the invariant asks of it.
LEMMA StartRoundIInv ==
    TypeOK /\ StartRound
      => HasOptions' /\ BallotsFitOptions' /\ WinnerLeadsPublishedTally'
         /\ NonceNamesDecision' /\ HoldOutlastsLead'
<1> SUFFICES ASSUME TypeOK, StartRound
             PROVE  HasOptions' /\ BallotsFitOptions' /\ WinnerLeadsPublishedTally'
                    /\ NonceNamesDecision' /\ HoldOutlastsLead'
  OBVIOUS
<1>1. Len(options') > 0
  BY PickForms DEF StartRound
<1>2. phase' = "voting" /\ ~Decided'
  BY DEF StartRound, Decided
<1>3. \A v \in Voters : votes'[v] = None
  BY DEF StartRound, NewBox, NewRound
<1>4. winnerNonce' = None /\ applyAt' = None
  BY DEF StartRound, ClearWinner
<1> QED
  BY <1>1, <1>2, <1>3, <1>4
  DEF HasOptions, BallotsFitOptions, WinnerLeadsPublishedTally,
      NonceNamesDecision, HoldOutlastsLead

\* A step that leaves the round's data alone keeps what is said about it.
LEMMA SameRoundIInv ==
    ( /\ IInv
      /\ Decided' = Decided /\ (phase' = "idle" <=> phase = "idle")
      /\ UNCHANGED <<token, round, options, votes, winner, winnerNonce>> )
    => /\ HasOptions' /\ BallotsFitOptions' /\ WinnerLeadsPublishedTally'
       /\ (Decided <=> applyAt' # None) => NonceNamesDecision'
<1> SUFFICES ASSUME IInv, Decided' = Decided, phase' = "idle" <=> phase = "idle",
                    UNCHANGED <<token, round, options, votes, winner, winnerNonce>>
             PROVE  /\ HasOptions' /\ BallotsFitOptions'
                    /\ WinnerLeadsPublishedTally'
                    /\ (Decided <=> applyAt' # None) => NonceNamesDecision'
  OBVIOUS
<1>1. HasOptions' /\ BallotsFitOptions'
  BY DEF IInv, HasOptions, BallotsFitOptions
<1>2. WinnerLeadsPublishedTally'
  BY DEF IInv, WinnerLeadsPublishedTally
<1>3. ASSUME Decided <=> applyAt' # None PROVE NonceNamesDecision'
  <2>1. Decided' <=> applyAt' # None
    BY <1>3, Zenon
  <2>2. winnerNonce' = winnerNonce /\ token' = token /\ round' = round
    OBVIOUS
  <2>3. Decided' <=> winnerNonce' # None
    BY <2>2, Zenon DEF IInv, NonceNamesDecision
  <2>4. Decided' => winnerNonce' = [token |-> token', round |-> round']
    BY <2>2, Zenon DEF IInv, NonceNamesDecision
  <2> QED BY <2>1, <2>3, <2>4, Zenon DEF NonceNamesDecision
<1> QED BY <1>1, <1>2, <1>3

LEMMA NextIInv == IInv /\ [Next]_vars => IInv'
<1> SUFFICES ASSUME IInv, [Next]_vars PROVE IInv'
  OBVIOUS
<1>0. TypeOK'
  BY NextType DEF IInv
<1>1. CASE FirstAdvance
  BY <1>0, <1>1, StartRoundIInv DEF FirstAdvance, IInv
<1>2. CASE KeepPhase
  <2>1. UNCHANGED <<token, round, options, votes, winner, winnerNonce, phase, cfg>>
    BY <1>2 DEF KeepPhase, Tick
  <2>2. applyAt' # None <=> applyAt # None
    BY <1>2, NoneAssumption
    DEF KeepPhase, CloserApplyAt, Charged, IInv, TypeOK
  <2>3. HoldOutlastsLead'
    <3>1. SUFFICES ASSUME phase = "apply"
                   PROVE  phaseEnds' = applyAt' + cfg.ApplyHold
      BY <2>1 DEF HoldOutlastsLead
    <3>2. applyAt \in Int /\ applyAt # None /\ phaseEnds = applyAt + cfg.ApplyHold
      BY <3>1 DEF IInv, TypeOK, HoldOutlastsLead, NonceNamesDecision, Decided
    <3>3. Charged \in Int /\ cfg.ApplyHold \in Int
      BY DEF IInv, TypeOK, ConfigType, Charged
    <3>4. applyAt' = applyAt - Charged /\ phaseEnds' = phaseEnds - Charged
      BY <1>2, <3>2 DEF KeepPhase, CloserApplyAt
    <3> QED BY <3>2, <3>3, <3>4
  <2> QED BY <1>0, <2>1, <2>2, <2>3, SameRoundIInv
          DEF IInv, Decided, NonceNamesDecision
<1>3. CASE CloseVoting
  <2>1. /\ phase = "voting" /\ phase' = "apply" /\ Decided'
        /\ UNCHANGED <<token, round, options, votes, cfg>>
        /\ ResolveRound
    BY <1>3 DEF CloseVoting, Tick, ResolveRound, Decided
  <2>2. HasOptions' /\ BallotsFitOptions'
    BY <2>1 DEF IInv, HasOptions, BallotsFitOptions
  <2>3. WinnerLeadsPublishedTally'
    <3>1. /\ winner' \in [Index : Nat \ {0}, ID : Events]
          /\ winner'.Index \in DOMAIN options
          /\ winner'.ID = options[winner'.Index]
          /\ (winner'.Index - 1) \in Leaders(Counts(votes, Len(options)))
      BY <2>1, ResolveRoundPicksLeader DEF IInv, HasOptions
    <3>2. winner' # None
      BY <3>1, MachineAssumption
    <3> QED BY <2>1, <3>1, <3>2 DEF WinnerLeadsPublishedTally
  <2>4. applyAt' \in Nat /\ applyAt' = cfg.AnnounceLead
        /\ phaseEnds' = cfg.AnnounceLead + cfg.ApplyHold
    BY <2>1 DEF ResolveRound, ApplyWindow, IInv, TypeOK, ConfigType
  <2>5. NonceNamesDecision'
    <3>1. winnerNonce' = [token |-> token, round |-> round]
      BY <2>1 DEF ResolveRound
    <3>2. winnerNonce' # None /\ applyAt' # None
      BY <3>1, <2>4, MachineAssumption, NoneAssumption DEF IInv, TypeOK
    <3> QED BY <2>1, <3>1, <3>2 DEF NonceNamesDecision
  <2>6. HoldOutlastsLead'
    BY <2>1, <2>4 DEF HoldOutlastsLead
  <2> QED BY <1>0, <2>2, <2>3, <2>5, <2>6 DEF IInv
<1>4. CASE EndApply
  <2>1. CASE cfg.Cooldown <= 0 /\ StartRound
    BY <1>0, <2>1, StartRoundIInv DEF IInv
  <2>2. CASE ~(cfg.Cooldown <= 0 /\ StartRound)
    <3>1. /\ phase = "apply" /\ phase' = "cooldown"
          /\ applyAt' = CloserApplyAt
          /\ UNCHANGED <<token, round, options, votes, winner, winnerNonce>>
      BY <1>4, <2>2 DEF EndApply, Tick
    <3>2. Decided /\ Decided'
      BY <3>1 DEF Decided
    <3>3. applyAt \in Int /\ applyAt' # None
      BY <3>1, <3>2, NoneAssumption
      DEF IInv, TypeOK, NonceNamesDecision, CloserApplyAt, Charged
    <3>4. HoldOutlastsLead'
      BY <3>1 DEF HoldOutlastsLead
    <3> QED BY <1>0, <3>1, <3>2, <3>3, <3>4, SameRoundIInv DEF IInv
  <2> QED BY <2>1, <2>2
<1>5. CASE EndCooldown
  BY <1>0, <1>5, StartRoundIInv DEF EndCooldown, IInv
<1>6. ASSUME NEW v \in Voters, NEW number \in Numbers, Offer(v, number)
      PROVE  IInv'
  <2>1. /\ phase = "voting" /\ ~Decided /\ ~Decided'
        /\ UNCHANGED <<phase, options, winnerNonce, applyAt>>
    BY <1>6 DEF Offer, Decided, pickerVars
  <2>2. BallotsFitOptions'
    <3> DEFINE idx == number - 1
               n == Len(options)
    <3>1. n \in Nat /\ idx \in Int /\ votes \in [Voters -> Nat \cup {None}]
      BY MachineAssumption DEF IInv, TypeOK, PickerTypeOK
    <3>2. \/ Cast(votes, n, v, idx) = votes
          \/ idx \in 0..n-1 /\ Cast(votes, n, v, idx) = [votes EXCEPT ![v] = idx]
      <4> HIDE DEF idx, n
      <4> QED BY <3>1, CastFirst
    <3>3. votes' = Cast(votes, n, v, idx)
      BY <1>6 DEF Offer
    <3> QED BY <2>1, <3>1, <3>2, <3>3 DEF IInv, BallotsFitOptions
  <2> QED BY <1>0, <2>1, <2>2
          DEF IInv, HasOptions, WinnerLeadsPublishedTally, NonceNamesDecision,
              HoldOutlastsLead
<1>7. ASSUME NEW a \in BOOLEAN, SetActive(a)
      PROVE  IInv'
  <2>1. UNCHANGED <<cfg, token, round, options, votes, winner, winnerNonce,
                    phase, phaseEnds, applyAt>>
    BY <1>7 DEF SetActive, pickerVars
  <2> QED BY <1>0, <2>1, SameRoundIInv
          DEF IInv, Decided, NonceNamesDecision, HoldOutlastsLead
<1>8. ASSUME NEW rc \in Reconfigs, Reconfigure(rc)
      PROVE  IInv'
  <2>1. UNCHANGED <<token, round, options, votes, winner, winnerNonce,
                    phase, phaseEnds, applyAt>>
    BY <1>8 DEF Reconfigure, pickerVars
  <2>2. cfg'.ApplyHold = cfg.ApplyHold
    BY <1>8 DEF Reconfigure, IInv, TypeOK, ConfigType
  <2> QED BY <1>0, <2>1, <2>2, SameRoundIInv
          DEF IInv, Decided, NonceNamesDecision, HoldOutlastsLead
<1>9. CASE Elapse
  BY <1>0, <1>9, SameRoundIInv
  DEF Elapse, machineVars, pickerVars, IInv, Decided, NonceNamesDecision,
      HoldOutlastsLead
<1>10. CASE UNCHANGED vars
  BY <1>0, <1>10, SameRoundIInv
  DEF vars, machineVars, pickerVars, IInv, Decided, NonceNamesDecision,
      HoldOutlastsLead
<1> QED
  BY <1>1, <1>2, <1>3, <1>4, <1>5, <1>6, <1>7, <1>8, <1>9, <1>10
  DEF Next, Advance, Select

THEOREM Invariance == Spec => []IInv
BY InitIInv, NextIInv, PTL DEF Spec

\* The machine's state stays within its types.
THEOREM TypeCorrect == Spec => []TypeOK
BY Invariance, PTL DEF IInv

\* The published winner is the option nobody outvoted in the published tally.
THEOREM WinnerIsFair == Spec => []WinnerLeadsPublishedTally
BY Invariance, PTL DEF IInv

\* No ballot points past the options of its round.
THEOREM BallotsFit == Spec => []BallotsFitOptions
BY Invariance, PTL DEF IInv

\* A nonce is published exactly with its round's winner.
THEOREM NonceIsExact == Spec => []NonceNamesDecision
BY Invariance, PTL DEF IInv

\* The winner stays published for ApplyHold past its execution instant.
THEOREM HoldIsKept == Spec => []HoldOutlastsLead
BY Invariance, PTL DEF IInv

(***************************************************************************)
(* Action properties.                                                      *)
(***************************************************************************)
LEMMA StepKeepsBallots ==
    IInv /\ [Next]_vars =>
      (round' = round =>
         /\ \A v \in Voters : votes[v] # None => votes'[v] = votes[v]
         /\ Decided => votes' = votes)
<1> SUFFICES ASSUME IInv, [Next]_vars, round' = round
             PROVE  /\ \A v \in Voters : votes[v] # None => votes'[v] = votes[v]
                    /\ Decided => votes' = votes
  OBVIOUS
<1>0. round \in Nat /\ votes \in [Voters -> Nat \cup {None}]
  BY DEF IInv, TypeOK
<1>1. ~StartRound
  BY <1>0 DEF StartRound
<1>2. CASE \E v \in Voters, number \in Numbers : Offer(v, number)
  <2>1. PICK v \in Voters, number \in Numbers : Offer(v, number)
    BY <1>2
  <2>2. ~Decided
    BY <2>1 DEF Offer, Decided
  <2>3. \A u \in Voters : votes[u] # None => votes'[u] = votes[u]
    BY <1>0, <2>1 DEF Offer, Cast
  <2> QED BY <2>2, <2>3
<1>3. CASE ~(\E v \in Voters, number \in Numbers : Offer(v, number))
  <2>1. votes' = votes
    BY <1>1, <1>3
    DEF Next, FirstAdvance, Advance, KeepPhase, CloseVoting, EndApply,
        EndCooldown, Select, SetActive, Reconfigure, Elapse, vars, machineVars
  <2> QED BY <2>1
<1> QED BY <1>2, <1>3

\* A ballot stands to the end of its round; none is added to a decided round.
THEOREM BallotsAreFinal == Spec => BallotsStand
BY Invariance, StepKeepsBallots, PTL DEF Spec, BallotsStand

\* Gameplay can only be reported as suspended once Run has started a round.
StartsActive == phase = "idle" => active

LEMMA StartsActiveInductive ==
    /\ Init => StartsActive
    /\ StartsActive /\ [Next]_vars => StartsActive'
<1>1. Init => StartsActive
  BY DEF Init, StartsActive
<1>2. StartsActive /\ [Next]_vars => StartsActive'
  BY DEF StartsActive, Next, FirstAdvance, Advance, KeepPhase, CloseVoting,
         EndApply, EndCooldown, StartRound, ResolveRound, Tick, Select, Offer,
         SetActive, Reconfigure, Elapse, vars, machineVars
<1> QED BY <1>1, <1>2

LEMMA StepFreezes ==
    IInv /\ StartsActive /\ [Next]_vars =>
      (~active => UNCHANGED <<phase, round, phaseEnds, applyAt, winner,
                              winnerNonce, options>>)
<1> SUFFICES ASSUME IInv, StartsActive, [Next]_vars, ~active
             PROVE  UNCHANGED <<phase, round, phaseEnds, applyAt, winner,
                                winnerNonce, options>>
  OBVIOUS
<1>1. ~FirstAdvance /\ ~CloseVoting /\ ~EndApply /\ ~EndCooldown
  BY DEF StartsActive, FirstAdvance, CloseVoting, EndApply, EndCooldown
<1>2. CASE KeepPhase
  <2>1. Charged = 0 /\ phaseEnds \in Nat /\ applyAt \in Int \cup {None}
    BY DEF Charged, IInv, TypeOK
  <2>2. phaseEnds' = phaseEnds /\ applyAt' = applyAt
    BY <1>2, <2>1 DEF KeepPhase, CloserApplyAt
  <2> QED BY <1>2, <2>2 DEF KeepPhase
<1>3. CASE ~KeepPhase
  BY <1>1, <1>3
  DEF Next, Advance, Select, Offer, SetActive, Reconfigure, Elapse, vars,
      machineVars, pickerVars
<1> QED BY <1>2, <1>3

\* While gameplay is suspended nothing is decided and no countdown moves.
THEOREM PauseIsFrozen == Spec => PauseFreezes
BY Invariance, StartsActiveInductive, StepFreezes, PTL DEF Spec, PauseFreezes

(***************************************************************************)
(* The machine implements Election.                                        *)
(***************************************************************************)
LEMMA PollCounts ==
    \A box, n : Poll!Counts(box, n) = Counts(box, n)
<1>1. \A S : Poll!Cardinality(S) = Cardinality(S)
  BY DEF Poll!Cardinality, Cardinality
<1> QED BY <1>1 DEF Poll!Counts, Counts

LEMMA RefineInit == Init => Poll!Init
BY DEF Init, Poll!Init, NewPicker, NewRound, Poll!NewRound

LEMMA StartRoundOpens ==
    IInv /\ StartRound /\ phase # "voting" => Poll!Open
<1> SUFFICES ASSUME IInv, StartRound, phase # "voting" PROVE Poll!Open
  OBVIOUS
<1>1. Len(options') \in Nat \ {0}
  BY PickForms DEF StartRound, IInv, PickerTypeOK
<1> QED BY <1>1 DEF Poll!Open, StartRound, NewBox, NewRound, Poll!NewRound,
                     ClearWinner

LEMMA RefineNext ==
    IInv /\ [Next]_vars => [Poll!Next]_(Poll!electionVars)
<1> SUFFICES ASSUME IInv, [Next]_vars
             PROVE  Poll!Next \/ UNCHANGED Poll!electionVars
  OBVIOUS
<1>1. CASE FirstAdvance
  BY <1>1, StartRoundOpens DEF FirstAdvance, Poll!Next
<1>2. CASE KeepPhase
  BY <1>2 DEF KeepPhase, Poll!electionVars
<1>3. CASE CloseVoting
  <2>1. (winner'.Index - 1) \in Leaders(Counts(votes, Len(options)))
        /\ winner' \in [Index : Nat \ {0}, ID : Events]
    BY <1>3, ResolveRoundPicksLeader DEF CloseVoting, IInv, HasOptions
  <2>2. winner' # None
    BY <2>1, MachineAssumption
  <2> QED BY <1>3, <2>1, <2>2, PollCounts
          DEF CloseVoting, ResolveRound, Poll!Next, Poll!Decide, Poll!Leaders,
              Leaders
<1>4. CASE EndApply
  <2>1. CASE StartRound
    BY <1>4, <2>1, StartRoundOpens DEF EndApply, Poll!Next
  <2>2. CASE ~StartRound
    BY <1>4, <2>2 DEF EndApply, Poll!electionVars
  <2> QED BY <2>1, <2>2
<1>5. CASE EndCooldown
  BY <1>5, StartRoundOpens DEF EndCooldown, Poll!Next
<1>6. ASSUME NEW v \in Voters, NEW number \in Numbers, Offer(v, number)
      PROVE  Poll!Next \/ UNCHANGED Poll!electionVars
  <2>1. /\ phase = "voting"
        /\ UNCHANGED <<phase, round, options, winner>>
        /\ votes' = Cast(votes, Len(options), v, number - 1)
    BY <1>6 DEF Offer, pickerVars
  <2>2. CASE Cast(votes, Len(options), v, number - 1) = votes
    BY <2>1, <2>2 DEF Poll!electionVars
  <2>3. CASE Cast(votes, Len(options), v, number - 1) # votes
    <3> DEFINE n == Len(options)
               idx == number - 1
    <3>1. votes[v] = None /\ idx \in 0..n-1 /\ votes' = [votes EXCEPT ![v] = idx]
      BY <2>1, <2>3 DEF Cast
    <3> HIDE DEF idx
    <3>2. \E u \in Voters, i \in 0..n-1 :
             votes[u] = None /\ votes' = [votes EXCEPT ![u] = i]
      BY <3>1
    <3> QED BY <2>1, <3>2 DEF Poll!Next, Poll!Vote
  <2> QED BY <2>2, <2>3
<1>7. CASE \/ \E a \in BOOLEAN : SetActive(a)
           \/ \E rc \in Reconfigs : Reconfigure(rc)
           \/ Elapse \/ UNCHANGED vars
  BY <1>7 DEF SetActive, Reconfigure, Elapse, vars, machineVars, pickerVars,
              Poll!electionVars
<1> QED
  BY <1>1, <1>2, <1>3, <1>4, <1>5, <1>6, <1>7 DEF Next, Advance, Select

\* Whatever the clock, the pauses and the menu do, every step of the machine is
\* a step of the Election viewers were promised, or none.
THEOREM MachineHoldsElections == Spec => ImplementsElection
BY RefineInit, RefineNext, Invariance, PTL DEF Spec, ImplementsElection, Poll!Spec

(***************************************************************************)
(* The countdown and the time really played.  The invariant counts in what *)
(* the next tick will charge: suspending play drops that from the charge,  *)
(* resuming puts it back, a tick moves it into Counted.                    *)
(***************************************************************************)
HistoryType ==
    /\ window \in Nat /\ played \in Nat /\ open \in Nat
    /\ resumes \in Nat /\ suspends \in Nat
    /\ lag <= MaxLag

Account ==
    phase # "idle" =>
      /\ Counted + Charged <= played + MaxLag * resumes
      /\ played <= Counted + Charged + MaxLag * suspends
      /\ open >= window \/ Counted + lag <= open

CountdownInv == IInv /\ HistoryType /\ Account

\* Every step of the countdown is one of the machine.
LEMMA CountdownStep == [CountdownNext]_countdownVars => [Next]_vars
<1>1. Toggle \/ Menu \/ Ballot => Select
  BY DEF Toggle, Menu, Ballot, Select
<1>2. TimePasses => Elapse
  BY DEF TimePasses
<1> QED BY <1>1, <1>2 DEF CountdownNext, Next, countdownVars

LEMMA CountdownTypes ==
    ASSUME CountdownInv
    PROVE  /\ window \in Nat /\ played \in Nat /\ open \in Nat /\ phaseEnds \in Nat
           /\ resumes \in Nat /\ suspends \in Nat /\ lag \in Nat /\ lag <= MaxLag
           /\ MaxLag \in Nat /\ Counted \in Int /\ Counted <= window
           /\ Charged \in 0..lag /\ (active => Charged = lag) /\ (~active => Charged = 0)
           /\ MaxLag * resumes \in Nat /\ MaxLag * suspends \in Nat
<1>1. /\ window \in Nat /\ played \in Nat /\ open \in Nat /\ phaseEnds \in Nat
      /\ resumes \in Nat /\ suspends \in Nat /\ lag \in Nat /\ lag <= MaxLag
      /\ MaxLag \in Nat
  BY MachineAssumption DEF CountdownInv, HistoryType, IInv, TypeOK
<1>2. Counted \in Int /\ Counted <= window
  BY <1>1 DEF Counted
<1>3. Charged \in 0..lag /\ (active => Charged = lag) /\ (~active => Charged = 0)
  BY <1>1 DEF Charged
<1>4. MaxLag * resumes \in Nat /\ MaxLag * suspends \in Nat
  BY <1>1
<1> QED BY <1>1, <1>2, <1>3, <1>4

\* One more toggle makes room for one more interval.
LEMMA OneMore ==
    ASSUME NEW n \in Nat, NEW k \in Nat
    PROVE  n * (k + 1) = n * k + n /\ n * k \in Nat /\ n * (k + 2) >= n
<1>1. n * (k + 1) = n * k + n /\ n * (k + 2) = n * k + n + n /\ n * k \in Nat
  OBVIOUS
<1> DEFINE p == n * k
           q == n * (k + 2)
<1>2. p \in Nat /\ q = p + n + n
  BY <1>1
<1> HIDE DEF p, q
<1>3. q >= n
  BY <1>2
<1> QED BY <1>1, <1>3 DEF q

LEMMA CountdownInitInv == CountdownInit => CountdownInv
<1> SUFFICES ASSUME CountdownInit PROVE CountdownInv
  OBVIOUS
<1>1. IInv /\ phase = "idle" /\ lag = 0
  BY InitIInv DEF CountdownInit, Init
<1> QED BY <1>1, MachineAssumption
        DEF CountdownInit, CountdownInv, HistoryType, Account

LEMMA TickInv ==
    ASSUME CountdownInv, IInv', (FirstAdvance \/ Advance) /\ Follow
    PROVE  CountdownInv'
<1>1. lag' = 0 /\ phase' # "idle" /\ phaseEnds' \in Nat /\ Charged' = 0
  <2>1. lag' = 0
    BY DEF FirstAdvance, Advance, KeepPhase, CloseVoting, EndApply, EndCooldown, Tick
  <2>2. phase' # "idle"
    BY DEF FirstAdvance, Advance, KeepPhase, CloseVoting, EndApply, EndCooldown,
           StartRound, ResolveRound
  <2> QED BY <2>1, <2>2 DEF Charged, IInv, TypeOK
<1>2. CASE NewPhase
  <2>1. /\ window' = phaseEnds' /\ played' = 0 /\ open' = 0
        /\ resumes' = 0 /\ suspends' = 0
    BY <1>2 DEF Follow
  <2>2. Counted' = 0
    <3>1. \A n \in Nat : n - n = 0
      OBVIOUS
    <3>2. phaseEnds' - phaseEnds' = 0
      BY <1>1, <3>1
    <3> QED BY <2>1, <3>2 DEF Counted
  <2>3. HistoryType'
    BY <1>1, <2>1, MachineAssumption DEF HistoryType
  <2>4. Account'
    BY <1>1, <2>1, <2>2, MachineAssumption DEF Account
  <2> QED BY <2>3, <2>4 DEF CountdownInv
<1>3. CASE ~NewPhase
  <2>1. KeepPhase
    <3>1. ~StartRound
      BY <1>3 DEF NewPhase, StartRound, CountdownInv, IInv, TypeOK
    <3> QED BY <1>3, <3>1
        DEF NewPhase, FirstAdvance, Advance, CloseVoting, ResolveRound, EndApply,
            EndCooldown
  <2>2. UNCHANGED <<window, played, open, resumes, suspends>>
        /\ phaseEnds' = phaseEnds - Charged /\ phase # "idle"
    BY <1>3, <2>1 DEF Follow, history, KeepPhase
  <2>3. Account
    BY DEF CountdownInv
  <2>4. Counted' = Counted + Charged
    BY <2>2, CountdownTypes DEF Counted
  <2>5. HistoryType'
    BY <1>1, <2>2, CountdownTypes DEF HistoryType
  <2>6. MaxLag * resumes \in Nat /\ MaxLag * suspends \in Nat
    BY CountdownTypes
  <2>7. Account'
    <3>1. Counted' + Charged' <= played' + MaxLag * resumes'
      BY <1>1, <2>2, <2>3, <2>4, <2>6, CountdownTypes DEF Account
    <3>2. played' <= Counted' + Charged' + MaxLag * suspends'
      BY <1>1, <2>2, <2>3, <2>4, <2>6, CountdownTypes DEF Account
    <3>3. open' >= window' \/ Counted' + lag' <= open'
      BY <1>1, <2>2, <2>3, <2>4, CountdownTypes DEF Account
    <3> QED BY <3>1, <3>2, <3>3 DEF Account
  <2> QED BY <2>5, <2>7 DEF CountdownInv
<1> QED BY <1>2, <1>3

LEMMA TimePassesInv ==
    ASSUME CountdownInv, IInv', TimePasses
    PROVE  CountdownInv'
<1>1. /\ phase # "idle" /\ lag < MaxLag /\ lag' = lag + 1
      /\ open' = IF open < window THEN open + 1 ELSE open
      /\ played' = IF active /\ played < MaxPlayed THEN played + 1 ELSE played
      /\ UNCHANGED <<phase, phaseEnds, active, window, resumes, suspends>>
  BY DEF TimePasses, Elapse, machineVars
<1>2. Account
  BY DEF CountdownInv
<1>3. Counted' = Counted /\ Charged' = IF active THEN Charged + 1 ELSE Charged
  BY <1>1, CountdownTypes DEF Counted, Charged
<1>4. HistoryType'
  BY <1>1, CountdownTypes DEF HistoryType
<1>5. MaxPlayed \in Nat /\ MaxPlayed >= window + MaxLag
  <2>1. MaxLag * (MaxToggles + 2) >= MaxLag /\ MaxLag * (MaxToggles + 2) \in Nat
    BY OneMore, CountdownTypes, CountdownAssumption
  <2> QED BY <2>1, CountdownTypes DEF MaxPlayed
<1> DEFINE r == MaxLag * resumes
           s == MaxLag * suspends
<1>6. /\ r \in Nat /\ s \in Nat /\ r' = r /\ s' = s
      /\ Counted + Charged <= played + r /\ played <= Counted + Charged + s
      /\ open >= window \/ Counted + lag <= open
  BY <1>1, <1>2, CountdownTypes DEF Account
<1> HIDE DEF r, s
<1>7. Counted' + Charged' <= played' + r
  BY <1>1, <1>3, <1>5, <1>6, CountdownTypes
<1>8. played' <= Counted' + Charged' + s
  BY <1>1, <1>3, <1>6, CountdownTypes
<1>9. open' >= window' \/ Counted' + lag' <= open'
  BY <1>1, <1>3, <1>6, CountdownTypes
<1>10. Account'
  BY <1>6, <1>7, <1>8, <1>9 DEF Account, r, s
<1> QED BY <1>4, <1>10 DEF CountdownInv

LEMMA ToggleInv ==
    ASSUME CountdownInv, IInv', Toggle
    PROVE  CountdownInv'
<1>1. /\ phase # "idle" /\ active' = ~active
      /\ resumes' = resumes + (IF active THEN 0 ELSE 1)
      /\ suspends' = suspends + (IF active THEN 1 ELSE 0)
      /\ UNCHANGED <<phase, phaseEnds, lag, window, played, open>>
  BY DEF Toggle, SetActive
<1>2. Account /\ active \in BOOLEAN
  BY DEF CountdownInv, IInv, TypeOK
<1>3. Counted' = Counted /\ Charged' = IF active THEN 0 ELSE lag
  BY <1>1, <1>2 DEF Counted, Charged
<1>4. HistoryType'
  BY <1>1, CountdownTypes DEF HistoryType
<1>5. /\ MaxLag * (resumes + 1) = MaxLag * resumes + MaxLag
      /\ MaxLag * (suspends + 1) = MaxLag * suspends + MaxLag
  BY CountdownTypes, OneMore
<1> DEFINE r == MaxLag * resumes
           s == MaxLag * suspends
<1>6. /\ r \in Nat /\ s \in Nat
      /\ Counted + Charged <= played + r /\ played <= Counted + Charged + s
      /\ open >= window \/ Counted + lag <= open
  BY <1>1, <1>2, CountdownTypes DEF Account
<1>7. CASE active
  <2>1. MaxLag * resumes' = r /\ MaxLag * suspends' = s + MaxLag /\ Charged = lag
    BY <1>1, <1>5, <1>7, CountdownTypes
  <2> HIDE DEF r, s
  <2>2. Counted' + Charged' <= played' + r /\ played' <= Counted' + Charged' + s + MaxLag
    BY <1>1, <1>3, <1>6, <1>7, <2>1, CountdownTypes
  <2>3. Counted' + Charged' <= played' + MaxLag * resumes'
        /\ played' <= Counted' + Charged' + MaxLag * suspends'
    BY <1>1, <1>3, <1>6, <1>7, <2>1, <2>2, CountdownTypes
  <2> QED BY <1>1, <1>3, <1>4, <1>6, <2>3 DEF CountdownInv, Account
<1>8. CASE ~active
  <2>1. MaxLag * resumes' = r + MaxLag /\ MaxLag * suspends' = s /\ Charged = 0
    BY <1>1, <1>5, <1>8, CountdownTypes
  <2> HIDE DEF r, s
  <2>3. Counted' + Charged' <= played' + MaxLag * resumes'
        /\ played' <= Counted' + Charged' + MaxLag * suspends'
    BY <1>1, <1>3, <1>6, <1>8, <2>1, CountdownTypes
  <2> QED BY <1>1, <1>3, <1>4, <1>6, <2>3 DEF CountdownInv, Account
<1> QED BY <1>7, <1>8

LEMMA CountdownNextInv ==
    CountdownInv /\ [CountdownNext]_countdownVars => CountdownInv'
<1> SUFFICES ASSUME CountdownInv, [CountdownNext]_countdownVars PROVE CountdownInv'
  OBVIOUS
<1>1. IInv'
  BY CountdownStep, NextIInv DEF CountdownInv
<1>2. CASE Menu \/ Ballot \/ UNCHANGED countdownVars
  <2>1. UNCHANGED <<phase, phaseEnds, lag, active, window, played, open, resumes,
                    suspends>>
    BY <1>2 DEF Menu, Reconfigure, Ballot, Offer, countdownVars, history, vars,
                machineVars
  <2> QED BY <1>1, <2>1 DEF CountdownInv, HistoryType, Account, Counted, Charged
<1> QED BY <1>1, <1>2, TickInv, TimePassesInv, ToggleInv DEF CountdownNext

LEMMA CountdownInvariance == CountdownSpec => []CountdownInv
BY CountdownInitInv, CountdownNextInv, PTL DEF CountdownSpec

\* The machine charges whole intervals between ticks (machine.go Advance), and yet
\* its countdown is never off the time really played by more than one interval for
\* each pause or resume.
THEOREM CountdownIsAccurate == CountdownSpec => []CountdownFollowsPlay
<1>1. CountdownInv => CountdownFollowsPlay
  <2> SUFFICES ASSUME CountdownInv, phase # "idle"
               PROVE  /\ Counted <= played + MaxLag * resumes
                      /\ played <= Counted + lag + MaxLag * suspends
    BY DEF CountdownFollowsPlay
  <2>1. Account
    BY DEF CountdownInv
  <2> DEFINE r == MaxLag * resumes
             s == MaxLag * suspends
  <2>2. /\ r \in Nat /\ s \in Nat
        /\ Counted + Charged <= played + r /\ played <= Counted + Charged + s
    BY <2>1, CountdownTypes DEF Account
  <2> HIDE DEF r, s
  <2>3. Counted <= played + r /\ played <= Counted + lag + s
    BY <2>2, CountdownTypes
  <2> QED BY <2>3 DEF r, s
<1> QED BY <1>1, CountdownInvariance, PTL

\* A phase that ends has lasted, on the clock, at least as long as it was given when
\* it began: neither the menu nor a pause can cut a vote or a hold short.
THEOREM NoPhaseIsCutShort == CountdownSpec => PhasesGetTheirTime
<1>1. CountdownInv /\ [CountdownNext]_countdownVars
        => (phase # "idle" /\ NewPhase => open >= window)
  <2> SUFFICES ASSUME CountdownInv, [CountdownNext]_countdownVars, phase # "idle",
                      NewPhase
               PROVE  open >= window
    OBVIOUS
  <2>1. Account
    BY DEF CountdownInv
  <2>2. CloseVoting \/ EndApply \/ EndCooldown
    BY DEF NewPhase, CountdownNext, FirstAdvance, Advance, KeepPhase, TimePasses,
           Elapse, Toggle, SetActive, Menu, Reconfigure, Ballot, Offer, countdownVars,
           vars, machineVars
  <2>3. phaseEnds <= lag
    BY <2>2 DEF CloseVoting, EndApply, EndCooldown, Due
  <2>4. Counted + lag >= window
    BY <2>3, CountdownTypes DEF Counted
  <2> QED BY <2>1, <2>4, CountdownTypes DEF Account
<1> QED BY <1>1, CountdownInvariance, PTL DEF CountdownSpec, PhasesGetTheirTime

(***************************************************************************)
(* The picker (PickLog).  It keeps only what is left of each cooldown; the *)
(* invariant says that this is what the whole log would give.              *)
(***************************************************************************)
Entries == [at : Nat, size : Nat, avoid : BOOLEAN, offered : SUBSET Events, slots : Nat]

LogType ==
    /\ PickerTypeOK
    /\ now \in Nat
    /\ log \in Seq(Entries)
    /\ \A i \in 1..Len(log) : log[i].at <= now

LastRound == prevRound = IF Len(log) = 0 THEN {} ELSE Offered(Len(log))

\* No offer still owes more than the picker remembers, ...
NothingForgotten ==
    \A e \in Events : \A i \in 1..Len(log) :
        e \in Offered(i) => cooling[e] >= CooldownSeconds[e] - (now - log[i].at)

\* ... and what it remembers is owed to some offer.
NothingInvented ==
    \A e \in Events :
        cooling[e] > 0 =>
            \E i \in 1..Len(log) :
                e \in Offered(i) /\ cooling[e] = CooldownSeconds[e] - (now - log[i].at)

LogInv == LogType /\ LastRound /\ NothingForgotten /\ NothingInvented

LEMMA LogInitInv == LogInit => LogInv
BY DEF LogInit, NewPicker, LogInv, LogType, LastRound, NothingForgotten,
       NothingInvented, PickerTypeOK

LEMMA LogTimes ==
    LogInv => /\ now \in Nat /\ Len(log) \in Nat
              /\ \A i \in 1..Len(log) : log[i].at \in Nat /\ log[i].at <= now
<1> SUFFICES ASSUME LogInv
             PROVE  /\ now \in Nat /\ Len(log) \in Nat
                    /\ \A i \in 1..Len(log) : log[i].at \in Nat /\ log[i].at <= now
  OBVIOUS
<1>1. log \in Seq(Entries)
  BY DEF LogInv, LogType
<1>2. Len(log) \in Nat /\ \A i \in 1..Len(log) : log[i] \in Entries
  BY <1>1
<1> QED BY <1>2 DEF Entries, LogInv, LogType

\* What filter lets through after d more seconds: the events all of whose offers have
\* rested by then.
LEMMA FilterIsRested ==
    ASSUME LogInv, NEW d \in Nat
    PROVE  Filter(FALSE, Cooled(d)) =
             {e \in Events : \A i \in 1..Len(log) :
                  e \in Offered(i) => now + d - log[i].at >= CooldownSeconds[e]}
<1> SUFFICES ASSUME NEW e \in Events
             PROVE  Cooled(d)[e] = 0 <=>
                      \A i \in 1..Len(log) :
                        e \in Offered(i) => now + d - log[i].at >= CooldownSeconds[e]
  BY DEF Filter
<1>1. /\ cooling[e] \in Nat /\ CooldownSeconds[e] \in Int /\ now \in Nat
      /\ \A i \in 1..Len(log) : log[i].at \in Nat
  BY EventsAssumption, LogTimes DEF LogInv, LogType, PickerTypeOK
<1>2. Cooled(d)[e] = 0 <=> cooling[e] <= d
  BY <1>1 DEF Cooled
<1>3. ASSUME cooling[e] <= d, NEW i \in 1..Len(log), e \in Offered(i)
      PROVE  now + d - log[i].at >= CooldownSeconds[e]
  <2>1. cooling[e] >= CooldownSeconds[e] - (now - log[i].at)
    BY <1>3 DEF LogInv, NothingForgotten
  <2> QED BY <1>1, <1>3, <2>1
<1>4. ASSUME ~(cooling[e] <= d)
      PROVE  \E i \in 1..Len(log) :
               e \in Offered(i) /\ ~(now + d - log[i].at >= CooldownSeconds[e])
  <2>1. PICK i \in 1..Len(log) :
               e \in Offered(i) /\ cooling[e] = CooldownSeconds[e] - (now - log[i].at)
    BY <1>1, <1>4 DEF LogInv, NothingInvented
  <2> QED BY <1>1, <1>4, <2>1
<1> QED BY <1>2, <1>3, <1>4

\* The pick as an entry of the log.
LEMMA PickIsLogged ==
    ASSUME LogInv, NEW n \in Nat, NEW avoidRepeat \in BOOLEAN, NEW d \in Nat,
           PickRound(n, avoidRepeat, d)
    PROVE  LET entry == [at |-> now + d, size |-> n, avoid |-> avoidRepeat,
                         offered |-> Range(options'), slots |-> Len(options')]
           IN  /\ entry \in Entries
               /\ log' \in Seq(Entries)
               /\ Len(log) \in Nat
               /\ Len(log') = Len(log) + 1
               /\ log'[Len(log) + 1] = entry
               /\ \A i \in 1..Len(log) : log'[i] = log[i]
<1> DEFINE entry == [at |-> now + d, size |-> n, avoid |-> avoidRepeat,
                     offered |-> Range(options'), slots |-> Len(options')]
<1>1. options' \in Seq(Events)
  BY PickSamples DEF PickRound, LogInv, LogType, PickerTypeOK
<1>2. Range(options') \subseteq Events /\ Len(options') \in Nat
  BY <1>1 DEF Range
<1>3. entry \in Entries
  BY <1>2 DEF Entries, LogInv, LogType
<1>4. log' = Append(log, entry) /\ log \in Seq(Entries)
  BY DEF PickRound, LogInv, LogType
<1> HIDE DEF entry
<1>5. log' \in Seq(Entries) /\ Len(log) \in Nat /\ Len(log') = Len(log) + 1
      /\ log'[Len(log) + 1] = entry /\ \A i \in 1..Len(log) : log'[i] = log[i]
  BY <1>3, <1>4
<1> QED BY <1>3, <1>5 DEF entry

LEMMA PickRoundInv ==
    ASSUME LogInv, NEW n \in Nat, NEW avoidRepeat \in BOOLEAN, NEW d \in Nat,
           PickRound(n, avoidRepeat, d)
    PROVE  LogInv'
<1> DEFINE entry == [at |-> now + d, size |-> n, avoid |-> avoidRepeat,
                     offered |-> Range(options'), slots |-> Len(options')]
           left == Cooled(d)
<1>1. PICK k \in Nat : k = Len(log)
  BY LogTimes
<1>2. /\ entry \in Entries /\ log' \in Seq(Entries) /\ Len(log') = k + 1
      /\ log'[k + 1] = entry /\ \A i \in 1..k : log'[i] = log[i]
  BY <1>1, PickIsLogged
<1>3. PickerTypeOK' /\ PickerTypeOK /\ Record(options', left)
  BY PickSamples DEF PickRound, LogInv, LogType
<1>4. /\ now \in Nat /\ now' = now + d
      /\ \A i \in 1..k : log[i].at \in Nat /\ log[i].at <= now
  BY <1>1, LogTimes DEF PickRound
<1>5. entry.at = now' /\ entry.offered = prevRound'
  BY <1>3, <1>4 DEF Record
<1>6. /\ Offered(k + 1)' = prevRound' /\ log'[k + 1].at = now'
      /\ \A i \in 1..k : Offered(i)' = Offered(i) /\ log'[i].at = log[i].at
  <2> HIDE DEF entry
  <2> QED BY <1>2, <1>5 DEF Offered
<1>7. ASSUME NEW e \in Events
      PROVE  /\ cooling[e] \in Nat /\ CooldownSeconds[e] \in Int
             /\ left[e] = IF cooling[e] > d THEN cooling[e] - d ELSE 0
             /\ cooling'[e] = IF e \in prevRound' /\ CooldownSeconds[e] > 0
                                THEN CooldownSeconds[e] ELSE left[e]
  BY <1>3, EventsAssumption DEF Record, Cooled, PickerTypeOK
<1> HIDE DEF entry, left
<1>8. LogType'
  <2>1. ASSUME NEW i \in 1..k + 1 PROVE log'[i].at <= now'
    BY <1>4, <1>6
  <2> QED BY <1>2, <1>3, <1>4, <2>1 DEF LogType
<1>9. LastRound'
  BY <1>2, <1>6 DEF LastRound
<1>10. NothingForgotten'
  <2> SUFFICES ASSUME NEW e \in Events, NEW i \in 1..k + 1, e \in Offered(i)'
               PROVE  cooling'[e] >= CooldownSeconds[e] - (now' - log'[i].at)
    BY <1>2 DEF NothingForgotten
  <2>1. CASE i = k + 1
    BY <1>4, <1>6, <1>7, <2>1
  <2>2. CASE i \in 1..k
    <3>1. cooling[e] >= CooldownSeconds[e] - (now - log[i].at)
      BY <1>1, <1>6, <2>2 DEF LogInv, NothingForgotten
    <3> QED BY <1>4, <1>6, <1>7, <2>2, <3>1
  <2> QED BY <2>1, <2>2
<1>11. NothingInvented'
  <2> SUFFICES ASSUME NEW e \in Events, cooling'[e] > 0
               PROVE  \E i \in 1..k + 1 :
                        /\ e \in Offered(i)'
                        /\ cooling'[e] = CooldownSeconds[e] - (now' - log'[i].at)
    BY <1>2 DEF NothingInvented
  <2>1. CASE e \in prevRound' /\ CooldownSeconds[e] > 0
    <3>1. k + 1 \in 1..k + 1
      OBVIOUS
    <3>2. now' - log'[k + 1].at = 0
      BY <1>4, <1>6
    <3> QED BY <1>6, <1>7, <2>1, <3>1, <3>2
  <2>2. CASE ~(e \in prevRound' /\ CooldownSeconds[e] > 0)
    <3>1. cooling[e] > d /\ cooling'[e] = cooling[e] - d
      BY <1>7, <2>2
    <3>2. PICK i \in 1..k :
              e \in Offered(i) /\ cooling[e] = CooldownSeconds[e] - (now - log[i].at)
      BY <1>1, <1>7, <3>1 DEF LogInv, NothingInvented
    <3>3. i \in 1..k + 1 /\ e \in Offered(i)'
      BY <1>6, <3>2
    <3> QED BY <1>4, <1>6, <1>7, <3>1, <3>2, <3>3
  <2> QED BY <2>1, <2>2
<1> QED BY <1>8, <1>9, <1>10, <1>11 DEF LogInv

LEMMA LogNextInv == LogInv /\ [LogNext]_logVars => LogInv'
<1> SUFFICES ASSUME LogInv, [LogNext]_logVars PROVE LogInv'
  OBVIOUS
<1>1. CASE LogNext
  <2>1. PICK n \in Sizes, avoidRepeat \in BOOLEAN, d \in 1..MaxGap :
            PickRound(n, avoidRepeat, d)
    BY <1>1 DEF LogNext
  <2>2. n \in Nat /\ d \in Nat
    BY SizesAssumption
  <2> QED BY <2>1, <2>2, PickRoundInv
<1>2. CASE UNCHANGED logVars
  BY <1>2 DEF logVars, pickerVars, LogInv, LogType, LastRound, NothingForgotten,
              NothingInvented, PickerTypeOK, Offered
<1> QED BY <1>1, <1>2

LEMMA LogInvariance == LogSpec => []LogInv
BY LogInitInv, LogNextInv, PTL DEF LogSpec

\* A pick adds one entry to the log, whose events have rested if they could.
LEMMA PickIsHonest ==
    ASSUME LogInv, NEW n \in Nat, NEW avoidRepeat \in BOOLEAN, NEW d \in Nat,
           PickRound(n, avoidRepeat, d), NEW k \in Nat, k = Len(log)
    PROVE  /\ Len(log') = k + 1
           /\ \A j \in 1..k : Rested(j)' = Rested(j) /\ Offered(j)' = Offered(j)
                              /\ log'[j] = log[j]
           /\ log'[k + 1].slots = Wanted(k + 1)'
           /\ Cardinality(Offered(k + 1)') = Wanted(k + 1)'
           /\ Offered(k + 1)' \subseteq Rested(k + 1)'
                \/ Cardinality(Rested(k + 1)') < Wanted(k + 1)'
           /\ k > 0 /\ avoidRepeat =>
                \/ Offered(k + 1)' \cap Offered(k) = {}
                \/ Cardinality(Rested(k + 1)' \ Offered(k)) < Wanted(k + 1)'
           /\ log'[k + 1].avoid = avoidRepeat
<1> DEFINE entry == [at |-> now + d, size |-> n, avoid |-> avoidRepeat,
                     offered |-> Range(options'), slots |-> Len(options')]
           size == Capped(n, Events)
           fresh == Filter(avoidRepeat, Cooled(d))
           ready == Filter(FALSE, Cooled(d))
<1>1. /\ Len(log') = k + 1 /\ log'[k + 1] = entry
      /\ \A i \in 1..k : log'[i] = log[i]
  BY PickIsLogged
<1>2. /\ size \in Nat /\ Len(options') = size /\ Cardinality(Range(options')) = size
      /\ Range(options') \subseteq Eligible(size, avoidRepeat, Cooled(d))
  BY PickSamples DEF PickRound, LogInv, LogType
<1>3. /\ Offered(k + 1)' = Range(options') /\ Wanted(k + 1)' = size
      /\ log'[k + 1].slots = Len(options') /\ log'[k + 1].at = now + d
      /\ log'[k + 1].avoid = avoidRepeat
  BY <1>1 DEF Offered, Wanted
<1>4. Rested(k + 1)' = ready
  <2>1. ready = {e \in Events : \A i \in 1..k :
                   e \in Offered(i) => now + d - log[i].at >= CooldownSeconds[e]}
    BY FilterIsRested
  <2>2. Rested(k + 1)' = {e \in Events : \A i \in 1..k :
                   e \in Offered(i)' => log'[k + 1].at - log'[i].at >= CooldownSeconds[e]}
    BY DEF Rested
  <2> HIDE DEF ready, entry
  <2>3. \A i \in 1..k : Offered(i)' = Offered(i) /\ log'[i].at = log[i].at
    BY <1>1 DEF Offered
  <2>4. \A i \in 1..k : log'[k + 1].at - log'[i].at = now + d - log[i].at
    <3>1. now \in Nat /\ \A i \in 1..k : log[i].at \in Nat
      BY LogTimes
    <3> QED BY <1>3, <2>3, <3>1
  <2>5. Rested(k + 1)' = {e \in Events : \A i \in 1..k :
                   e \in Offered(i) => now + d - log[i].at >= CooldownSeconds[e]}
    BY <2>2, <2>3, <2>4
  <2> QED BY <2>1, <2>5
<1>5. ASSUME NEW j \in 1..k
      PROVE  Rested(j)' = Rested(j) /\ Offered(j)' = Offered(j) /\ log'[j] = log[j]
  <2> HIDE DEF entry
  <2>1. \A i \in 1..j - 1 : i \in 1..k
    OBVIOUS
  <2> QED BY <1>1, <1>5, <2>1 DEF Rested, Offered
<1>6. Eligible(size, avoidRepeat, Cooled(d)) =
        IF Cardinality(fresh) >= size THEN fresh
        ELSE IF Cardinality(ready) >= size THEN ready
        ELSE Events
  BY DEF Eligible
<1>7. /\ fresh \subseteq ready
      /\ k > 0 /\ avoidRepeat => fresh = ready \ Offered(k)
  BY DEF Filter, LogInv, LastRound
<1>8. Cardinality(fresh) \in Nat /\ Cardinality(ready) \in Nat
  BY CatalogSize DEF Filter
<1> HIDE DEF size, fresh, ready, entry
<1>9. \/ Offered(k + 1)' \subseteq Rested(k + 1)'
      \/ Cardinality(Rested(k + 1)') < Wanted(k + 1)'
  BY <1>2, <1>3, <1>4, <1>6, <1>7, <1>8
<1>10. ASSUME k > 0, avoidRepeat
       PROVE  \/ Offered(k + 1)' \cap Offered(k) = {}
              \/ Cardinality(Rested(k + 1)' \ Offered(k)) < Wanted(k + 1)'
  <2>1. CASE Cardinality(fresh) >= size
    BY <1>2, <1>3, <1>6, <1>7, <1>10, <2>1
  <2>2. CASE ~(Cardinality(fresh) >= size)
    <3>1. fresh = Rested(k + 1)' \ Offered(k)
      BY <1>4, <1>7, <1>10
    <3>2. Cardinality(fresh) < Wanted(k + 1)'
      BY <1>2, <1>3, <1>8, <2>2
    <3> QED BY <3>1, <3>2
  <2> QED BY <2>1, <2>2
<1> QED BY <1>1, <1>2, <1>3, <1>5, <1>9, <1>10

\* Every round gets the size asked for, or the whole catalog, and an event returns
\* before its cooldown is over only when those rested are too few: for any catalog,
\* cooldowns and sequence of picks (Picker.Pick and filter in catalog.go).
THEOREM CooldownsAreHonoured == LogSpec => []CooldownHonoured
<1>1. LogInit => CooldownHonoured
  BY DEF LogInit, CooldownHonoured
<1>2. LogInv /\ CooldownHonoured /\ [LogNext]_logVars => CooldownHonoured'
  <2> SUFFICES ASSUME LogInv, CooldownHonoured, [LogNext]_logVars
               PROVE  CooldownHonoured'
    OBVIOUS
  <2>1. CASE LogNext
    <3>1. PICK n \in Sizes, avoidRepeat \in BOOLEAN, d \in 1..MaxGap :
              PickRound(n, avoidRepeat, d)
      BY <2>1 DEF LogNext
    <3>2. n \in Nat /\ d \in Nat
      BY SizesAssumption
    <3>3. PICK k \in Nat : k = Len(log)
      BY LogTimes
    <3>4. /\ Len(log') = k + 1
          /\ \A j \in 1..k : Rested(j)' = Rested(j) /\ Offered(j)' = Offered(j)
                             /\ log'[j] = log[j]
          /\ log'[k + 1].slots = Wanted(k + 1)'
          /\ Cardinality(Offered(k + 1)') = Wanted(k + 1)'
          /\ Offered(k + 1)' \subseteq Rested(k + 1)'
               \/ Cardinality(Rested(k + 1)') < Wanted(k + 1)'
      BY <3>1, <3>2, <3>3, PickIsHonest
    <3>5. ASSUME NEW j \in 1..k + 1
          PROVE  /\ log'[j].slots = Wanted(j)' /\ Cardinality(Offered(j)') = Wanted(j)'
                 /\ Offered(j)' \subseteq Rested(j)' \/ Cardinality(Rested(j)') < Wanted(j)'
      <4>1. CASE j = k + 1
        BY <3>4, <4>1
      <4>2. CASE j \in 1..k
        <5>1. /\ log[j].slots = Wanted(j) /\ Cardinality(Offered(j)) = Wanted(j)
              /\ Offered(j) \subseteq Rested(j) \/ Cardinality(Rested(j)) < Wanted(j)
          BY <3>3, <4>2 DEF CooldownHonoured
        <5>2. Wanted(j)' = Wanted(j) /\ log'[j] = log[j]
              /\ Rested(j)' = Rested(j) /\ Offered(j)' = Offered(j)
          BY <3>4, <4>2 DEF Wanted
        <5> QED BY <5>1, <5>2
      <4> QED BY <4>1, <4>2
    <3> QED BY <3>4, <3>5 DEF CooldownHonoured
  <2>2. CASE UNCHANGED logVars
    BY <2>2 DEF logVars, CooldownHonoured, Wanted, Rested, Offered
  <2> QED BY <2>1, <2>2
<1> QED BY <1>1, <1>2, LogInvariance, PTL DEF LogSpec

\* With avoid_immediate_repeat on, an event of the last round returns at once only
\* when the rested events outside that round are too few.
THEOREM RepeatsOnlyWhenStarved == LogSpec => []RepeatOnlyWhenStarved
<1>1. LogInit => RepeatOnlyWhenStarved
  BY DEF LogInit, RepeatOnlyWhenStarved
<1>2. LogInv /\ RepeatOnlyWhenStarved /\ [LogNext]_logVars => RepeatOnlyWhenStarved'
  <2> SUFFICES ASSUME LogInv, RepeatOnlyWhenStarved, [LogNext]_logVars
               PROVE  RepeatOnlyWhenStarved'
    OBVIOUS
  <2>1. CASE LogNext
    <3>1. PICK n \in Sizes, avoidRepeat \in BOOLEAN, d \in 1..MaxGap :
              PickRound(n, avoidRepeat, d)
      BY <2>1 DEF LogNext
    <3>2. n \in Nat /\ d \in Nat
      BY SizesAssumption
    <3>3. PICK k \in Nat : k = Len(log)
      BY LogTimes
    <3>4. /\ Len(log') = k + 1
          /\ \A j \in 1..k : Rested(j)' = Rested(j) /\ Offered(j)' = Offered(j)
                             /\ log'[j] = log[j]
          /\ (k > 0 /\ avoidRepeat) =>
               \/ Offered(k + 1)' \cap Offered(k) = {}
               \/ Cardinality(Rested(k + 1)' \ Offered(k)) < Wanted(k + 1)'
          /\ log'[k + 1].avoid = avoidRepeat
      BY <3>1, <3>2, <3>3, PickIsHonest
    <3>5. ASSUME NEW j \in 2..k + 1, log'[j].avoid
          PROVE  \/ Offered(j)' \cap Offered(j - 1)' = {}
                 \/ Cardinality(Rested(j)' \ Offered(j - 1)') < Wanted(j)'
      <4>1. j - 1 \in 1..k /\ Offered(j - 1)' = Offered(j - 1)
        <5>1. j - 1 \in 1..k
          OBVIOUS
        <5> QED BY <3>4, <5>1
      <4>2. CASE j = k + 1
        <5>1. k = j - 1 /\ k > 0
          BY <4>2
        <5> QED BY <3>4, <3>5, <4>1, <4>2, <5>1
      <4>3. CASE j \in 2..k
        <5>1. log[j].avoid => \/ Offered(j) \cap Offered(j - 1) = {}
                              \/ Cardinality(Rested(j) \ Offered(j - 1)) < Wanted(j)
          BY <3>3, <4>3 DEF RepeatOnlyWhenStarved
        <5>2. Wanted(j)' = Wanted(j) /\ log'[j] = log[j]
              /\ Rested(j)' = Rested(j) /\ Offered(j)' = Offered(j)
          BY <3>4, <4>3 DEF Wanted
        <5> QED BY <3>5, <4>1, <5>1, <5>2
      <4> QED BY <4>2, <4>3
    <3>6. \A j \in 2..k + 1 : (log'[j].avoid =>
             \/ Offered(j)' \cap Offered(j - 1)' = {}
             \/ Cardinality(Rested(j)' \ Offered(j - 1)') < Wanted(j)')
      BY <3>5
    <3> QED BY <3>4, <3>6 DEF RepeatOnlyWhenStarved
  <2>2. CASE UNCHANGED logVars
    BY <2>2 DEF logVars, RepeatOnlyWhenStarved, Wanted, Rested, Offered
  <2> QED BY <2>1, <2>2
<1> QED BY <1>1, <1>2, LogInvariance, PTL DEF LogSpec

=============================================================================
