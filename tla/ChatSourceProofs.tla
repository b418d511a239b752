--------------------------- MODULE ChatSourceProofs ---------------------------
(***************************************************************************)
(* Proofs about the chat sources, for any mix of messages and of times,    *)
(* any clock of the sidecar, any number of broken connections and any room *)
(* in the channel.                                                         *)
(***************************************************************************)
EXTENDS ChatSource, SequenceTheorems, TLAPS

(***************************************************************************)
(* How far this connection has been read, and the milliseconds the source  *)
(* would ask from if it lost it now.                                       *)
(***************************************************************************)
Connected == phase \in {"read", "hand"}

Position == IF phase = "read" THEN sent ELSE sent - 1

Remembered == IF Connected THEN seen ELSE lastMs

\* A simulation has no connection to lose; Twitch remembers nothing.
InPlace ==
    /\ kind = "simulate" => /\ service = "up" /\ ~broken /\ sent = posted
                            /\ phase \in {"read", "hand", "returned"}
    /\ kind = "twitch" => lastMs = 0
    /\ phase = "hand" => sent > 0

\* The times of all-chat's messages are their own, but for those of the clock.
TimesAreTrue ==
    kind = "all-chat" =>
        \A i \in DOMAIN handed :
            /\ handed[i].ts >= Milli
            /\ handed[i].no \notin Undated => handed[i].ts = Stamp[handed[i].no]

\* The source remembers the latest of the times of what it has handed over.
LatestIsRemembered ==
    kind = "all-chat" =>
        /\ lastMs <= Remembered
        /\ \A i \in DOMAIN handed : UnixMilli(handed[i].ts) <= Remembered
        /\ IF handed = << >> THEN Remembered = 0
           ELSE \E i \in DOMAIN handed : UnixMilli(handed[i].ts) = Remembered

\* What may come before i without being a replay.
Behind(i, m) ==
    \/ handed[i].no < m
    \/ kind = "all-chat" /\ WholeMs(handed[i].ts) < Stamp[m]

\* What this connection has yet to bring is behind all that was handed over.
RestIsNew ==
    Connected =>
        \A i \in DOMAIN handed, m \in 1..MaxPosted : Position < m => Behind(i, m)

Passed(m) ==
    \/ Connected /\ m <= Position
    \/ \E i \in DOMAIN handed : m <= handed[i].no

NoneMissed ==
    kind # "twitch" /\ handed # << >> =>
        \A m \in Chatter :
            handed[1].no < m /\ Passed(m) => HasHanded(m) \/ OutOfReach(m)

IInv ==
    /\ TypeOK /\ InPlace /\ TimesAreTrue /\ LatestIsRemembered /\ RestIsNew
    /\ NoneMissed /\ HandedOnceInOrder

(***************************************************************************)
(* Times, and the messages handed over.                                    *)
(***************************************************************************)
LEMMA MilliForms ==
    ASSUME NEW t \in Nat
    PROVE  /\ UnixMilli(t) \in Nat /\ UnixMilli(t) * Milli = WholeMs(t)
           /\ WholeMs(t) <= t /\ WholeMs(t) \in Nat
           /\ t >= Milli => UnixMilli(t) > 0
BY SMT DEF UnixMilli, WholeMs, Milli

LEMMA Numbers ==
    ASSUME TypeOK
    PROVE  /\ posted \in Nat /\ posted <= MaxPosted /\ MaxPosted \in Nat
           /\ sent \in Nat /\ sent <= posted /\ seen \in Nat /\ lastMs \in Nat
           /\ Remembered \in Nat /\ Position \in Int
           /\ Len(handed) \in Nat /\ DOMAIN handed = 1..Len(handed)
           /\ handed # << >> => 1 \in DOMAIN handed
           /\ \A i \in DOMAIN handed : /\ handed[i] \in [no : 1..posted, ts : Nat]
                                       /\ handed[i].no \in 1..posted
                                       /\ handed[i].ts \in Nat
<1>1. /\ posted \in Nat /\ posted <= MaxPosted /\ MaxPosted \in Nat
      /\ sent \in Nat /\ sent <= posted /\ seen \in Nat /\ lastMs \in Nat
  BY ChatAssumption DEF TypeOK
<1>2. Remembered \in Nat /\ Position \in Int
  BY <1>1 DEF Remembered, Position
<1>3. handed \in Seq([no : 1..posted, ts : Nat])
  BY DEF TypeOK
<1>4. Len(handed) \in Nat /\ DOMAIN handed = 1..Len(handed)
  BY <1>3, LenProperties
<1>5. handed # << >> => 1 \in DOMAIN handed
  BY <1>3, <1>4, EmptySeq
<1>6. \A i \in DOMAIN handed : handed[i] \in [no : 1..posted, ts : Nat]
  BY <1>3, <1>4, ElementOfSeq
<1> QED BY <1>1, <1>2, <1>4, <1>5, <1>6

\* One more message is handed over.
LEMMA HandForms ==
    ASSUME TypeOK, NEW m \in 1..posted, NEW ts \in Nat, posted' = posted,
           handed' = Append(handed, [no |-> m, ts |-> ts])
    PROVE  /\ handed' \in Seq([no : 1..posted', ts : Nat]) /\ handed' # << >>
           /\ DOMAIN handed' = 1..Len(handed)+1
           /\ \A i \in 1..Len(handed) : handed'[i] = handed[i]
           /\ handed'[Len(handed)+1] = [no |-> m, ts |-> ts]
<1> DEFINE new == [no |-> m, ts |-> ts]
           Kinded == [no : 1..posted, ts : Nat]
<1>1. handed \in Seq(Kinded) /\ new \in Kinded
  BY DEF TypeOK
<1> HIDE DEF new, Kinded
<1>2. Append(handed, new) \in Seq(Kinded) /\ Len(Append(handed, new)) = Len(handed) + 1
      /\ Append(handed, new)[Len(handed)+1] = new
      /\ (\A i \in 1..Len(handed) : Append(handed, new)[i] = handed[i])
      /\ Len(handed) \in Nat
  BY <1>1
<1>3. handed' = Append(handed, new)
  BY DEF new
<1>4. DOMAIN handed' = 1..Len(handed') /\ handed' # << >>
  BY <1>2, <1>3, LenProperties, EmptySeq
<1> QED BY <1>2, <1>3, <1>4 DEF new, Kinded

\* More messages of the service do not change the types of those handed over.
LEMMA HandedGrows ==
    ASSUME TypeOK, posted' \in Nat, posted <= posted', handed' = handed
    PROVE  handed' \in Seq([no : 1..posted', ts : Nat])
<1>1. posted \in Nat
  BY Numbers
<1>2. [no : 1..posted, ts : Nat] \subseteq [no : 1..posted', ts : Nat]
  BY <1>1
<1> QED BY <1>2, SeqMonotonic DEF TypeOK

\* What was found of the messages handed over stays true if none is added.
LEMMA SameHanded ==
    ASSUME IInv, TypeOK', InPlace', UNCHANGED <<kind, handed>>,
           LatestIsRemembered', RestIsNew',
           kind # "twitch" /\ handed # << >> =>
               \A m \in Chatter : handed[1].no < m /\ Passed(m)'
                                    => Passed(m) \/ HasHanded(m) \/ OutOfReach(m)
    PROVE  IInv'
<1>1. TimesAreTrue' /\ HandedOnceInOrder'
  BY DEF IInv, TimesAreTrue, HandedOnceInOrder
<1>2. NoneMissed'
  BY DEF IInv, NoneMissed, HasHanded, OutOfReach
<1> QED BY <1>1, <1>2 DEF IInv

(***************************************************************************)
(* Ending a session.                                                       *)
(***************************************************************************)
LEMMA EndSessionForms ==
    ASSUME TypeOK, NEW ms \in Nat, NEW fatal, NEW stable,
           EndSession(ms, fatal, stable)
    PROVE  /\ phase' \in {"wait", "returned"} /\ (cancelled => phase' = "returned")
           /\ backoff' \in Backoffs /\ result' \in {"none", "nil", "fatal"}
           /\ lastMs' \in Nat
           /\ lastMs' = IF kind = "all-chat" THEN Later(ms, lastMs) ELSE lastMs
           /\ UNCHANGED <<svcVars, cancelled, seen, sent, broken, handed, waiting>>
<1>1. phase' \in {"wait", "returned"} /\ (cancelled => phase' = "returned")
      /\ backoff' \in Backoffs /\ result' \in {"none", "nil", "fatal"}
  BY DEF EndSession, AfterSession, Return, TypeOK, Backoffs
<1>2. lastMs' = IF kind = "all-chat" THEN Later(ms, lastMs) ELSE lastMs
  BY DEF EndSession
<1>3. lastMs' \in Nat
  BY <1>2 DEF Later, TypeOK
<1> QED BY <1>1, <1>2, <1>3 DEF EndSession

\* A session that ends with what the source remembers forgets nothing.
LEMMA EndSessionIInv ==
    ASSUME IInv, NEW ms \in Nat, NEW fatal, NEW stable,
           EndSession(ms, fatal, stable),
           kind = "all-chat" => Later(ms, lastMs) = Remembered,
           kind = "simulate" => cancelled
    PROVE  IInv'
<1>1. TypeOK /\ InPlace /\ LatestIsRemembered
  BY DEF IInv
<1>2. /\ phase' \in {"wait", "returned"} /\ (cancelled => phase' = "returned")
      /\ backoff' \in Backoffs /\ result' \in {"none", "nil", "fatal"}
      /\ lastMs' \in Nat
      /\ lastMs' = IF kind = "all-chat" THEN Later(ms, lastMs) ELSE lastMs
      /\ UNCHANGED <<kind, service, posted, troubles, cancelled, seen, sent, broken,
                     handed, waiting>>
  BY <1>1, EndSessionForms DEF svcVars
<1>3. TypeOK'
  BY <1>1, <1>2 DEF TypeOK
<1>4. ~Connected' /\ Remembered' = lastMs'
  BY <1>2 DEF Connected, Remembered
<1>5. InPlace'
  BY <1>1, <1>2 DEF InPlace
<1>6. LatestIsRemembered'
  <2>1. kind = "all-chat" => lastMs' = Remembered
    BY <1>2
  <2>2. lastMs' \in Nat
    BY <1>2
  <2> QED BY <1>1, <1>2, <1>4, <2>1, <2>2 DEF LatestIsRemembered
<1>7. RestIsNew'
  BY <1>4 DEF RestIsNew
<1>8. \A m \in Chatter : Passed(m)' => Passed(m)
  BY <1>2, <1>4 DEF Passed
<1> QED BY <1>2, <1>3, <1>5, <1>6, <1>7, <1>8, SameHanded

(***************************************************************************)
(* Every step keeps the invariant.                                         *)
(***************************************************************************)
LEMMA InitIInv == Init => IInv
<1> SUFFICES ASSUME Init PROVE IInv
  OBVIOUS
<1>1. handed = << >> /\ handed \in Seq([no : 1..posted, ts : Nat]) /\ DOMAIN handed = {}
  BY EmptySeq DEF Init
<1>2. /\ posted = 0 /\ lastMs = 0 /\ seen = 0 /\ sent = 0 /\ service = "up" /\ ~broken
      /\ phase \in {"start", "read"} /\ (kind = "simulate" <=> phase = "read")
  BY DEF Init
<1>3. TypeOK
  <2>1. /\ posted \in 0..MaxPosted /\ troubles \in 0..MaxTroubles
        /\ waiting \in 0..Room /\ backoff \in Backoffs
    BY ChatAssumption DEF Init, Backoffs
  <2>2. lastMs \in Nat /\ seen \in Nat /\ sent \in 0..posted
    BY <1>2
  <2>3. /\ kind \in Kinds /\ cancelled \in BOOLEAN /\ broken \in BOOLEAN
        /\ result \in {"none", "nil", "fatal"} /\ service \in {"up", "down", "gone"}
        /\ phase \in {"start", "dial", "read", "hand", "wait", "returned"}
    BY DEF Init
  <2> QED BY <1>1, <2>1, <2>2, <2>3 DEF TypeOK
<1>4. InPlace
  BY <1>2 DEF InPlace
<1>5. LatestIsRemembered
  BY <1>1, <1>2 DEF LatestIsRemembered, Remembered
<1> QED
  BY <1>1, <1>3, <1>4, <1>5
  DEF IInv, HandedOnceInOrder, NoneMissed, TimesAreTrue, RestIsNew

\* The service has more messages, or breaks, or the context is cancelled, or the
\* machine receives: the source is where it was.
LEMMA OutsideIInv ==
    ASSUME IInv, Post \/ Trouble \/ Cancel \/ Receive \/ UNCHANGED vars
    PROVE  IInv'
<1>1. TypeOK /\ InPlace /\ LatestIsRemembered /\ RestIsNew
  BY DEF IInv
<1>2. UNCHANGED <<kind, phase, backoff, lastMs, seen, sent, handed, result>>
  BY DEF Post, Trouble, Cancel, Receive, svcVars, vars
<1>3. /\ kind = "simulate" => UNCHANGED <<posted, service, broken>>
      /\ posted' \in 0..MaxPosted /\ posted <= posted' /\ posted \in Nat
  BY <1>1, ChatAssumption DEF Post, Trouble, Cancel, Receive, svcVars, vars, TypeOK
<1>4. TypeOK'
  <2>0. /\ service \in {"up", "down", "gone"} /\ troubles \in 0..MaxTroubles
        /\ cancelled \in BOOLEAN /\ broken \in BOOLEAN
    BY <1>1 DEF TypeOK
  <2>1. service' \in {"up", "down", "gone"} /\ troubles' \in 0..MaxTroubles
        /\ cancelled' \in BOOLEAN /\ broken' \in BOOLEAN
    <3>1. CASE Trouble
      <4>1. troubles' \in 0..MaxTroubles
        BY <2>0, <3>1, ChatAssumption DEF Trouble
      <4>2. service' \in {"up", "down", "gone"} /\ broken' \in BOOLEAN
            /\ cancelled' \in BOOLEAN
        BY <2>0, <3>1 DEF Trouble
      <4> QED BY <4>1, <4>2
    <3>2. CASE Post \/ Cancel \/ Receive \/ UNCHANGED vars
      BY <2>0, <3>2 DEF Post, Cancel, Receive, svcVars, vars
    <3> QED BY <3>1, <3>2
  <2>2. waiting' \in 0..Room
    BY <1>1, ChatAssumption
    DEF Post, Trouble, Cancel, Receive, svcVars, vars, TypeOK
  <2>3. sent' \in 0..posted'
    BY <1>1, <1>2, <1>3, ChatAssumption DEF TypeOK
  <2>4. handed' \in Seq([no : 1..posted', ts : Nat])
    BY <1>1, <1>2, <1>3, ChatAssumption, HandedGrows
  <2> QED BY <1>1, <1>2, <1>3, <2>1, <2>2, <2>3, <2>4 DEF TypeOK
<1>5. Connected' = Connected /\ Position' = Position /\ Remembered' = Remembered
  BY <1>2 DEF Connected, Position, Remembered
<1>6. InPlace'
  BY <1>1, <1>2, <1>3 DEF InPlace
<1>7. LatestIsRemembered' /\ RestIsNew'
  BY <1>1, <1>2, <1>5 DEF LatestIsRemembered, RestIsNew, Behind
<1>8. \A m \in Chatter : Passed(m)' => Passed(m)
  BY <1>2, <1>5 DEF Passed
<1> QED BY <1>2, <1>4, <1>6, <1>7, <1>8, SameHanded

LEMMA StartWaitIInv == IInv /\ (Start \/ Wait) => IInv'
<1> SUFFICES ASSUME IInv, Start \/ Wait PROVE IInv'
  OBVIOUS
<1>1. TypeOK /\ InPlace /\ LatestIsRemembered
  BY DEF IInv
<1>2. /\ UNCHANGED <<svcVars, cancelled, lastMs, seen, sent, broken, handed, waiting>>
      /\ phase \in {"start", "wait"} /\ phase' \in {"dial", "returned"}
      /\ result' \in {"none", "nil", "fatal"}
  BY <1>1 DEF Start, Wait, Return, TypeOK
<1>3. backoff' \in Backoffs
  <2>1. backoff \in Backoffs /\ Doubled(backoff) \in Backoffs
    BY <1>1 DEF TypeOK, Doubled, Backoffs
  <2> QED BY <2>1 DEF Start, Wait, Return
<1>4. TypeOK'
  BY <1>1, <1>2, <1>3 DEF TypeOK, svcVars
<1>5. ~Connected /\ ~Connected' /\ Remembered' = Remembered
  BY <1>2 DEF Connected, Remembered
<1>6. InPlace'
  BY <1>1, <1>2 DEF InPlace, svcVars
<1>7. LatestIsRemembered' /\ RestIsNew'
  BY <1>1, <1>2, <1>5 DEF LatestIsRemembered, RestIsNew, svcVars
<1>8. \A m \in Chatter : Passed(m)' => Passed(m)
  BY <1>2, <1>5 DEF Passed
<1> QED BY <1>2, <1>4, <1>6, <1>7, <1>8, SameHanded DEF svcVars

\* All-chat resumes behind what is no later than the time remembered, or with what
\* comes next.
LEMMA ConnectIInv == IInv /\ Connect => IInv'
<1> SUFFICES ASSUME IInv, Connect PROVE IInv'
  OBVIOUS
<1>1. /\ TypeOK /\ InPlace /\ TimesAreTrue /\ LatestIsRemembered
      /\ phase = "dial" /\ kind # "simulate"
  BY DEF IInv, InPlace, Connect
<1>2. /\ phase' = "read" /\ seen' = lastMs /\ broken' = FALSE
      /\ sent' \in 0..posted /\ ResumesBehind(sent', lastMs)
      /\ UNCHANGED <<svcVars, cancelled, backoff, lastMs, handed, waiting, result>>
      /\ UNCHANGED <<kind, posted>>
  BY DEF Connect, svcVars
<1>3. /\ posted \in Nat /\ posted <= MaxPosted /\ MaxPosted \in Nat /\ lastMs \in Nat
      /\ \A i \in DOMAIN handed : handed[i].no \in 1..posted /\ handed[i].ts \in Nat
  BY <1>1, Numbers
<1>4. TypeOK'
  BY <1>1, <1>2 DEF TypeOK, svcVars
<1>5. InPlace'
  BY <1>1, <1>2 DEF InPlace
<1>6. /\ Remembered = lastMs /\ Remembered' = lastMs
      /\ Connected' /\ Position' = sent' /\ sent' \in Nat
  BY <1>1, <1>2, <1>3 DEF Connected, Remembered, Position
<1>7. LatestIsRemembered'
  BY <1>1, <1>2, <1>6 DEF LatestIsRemembered
<1>8. ASSUME lastMs > 0, NEW m \in 1..posted
      PROVE  m <= sent' <=> Stamp[m] <= lastMs * Milli
  BY <1>2, <1>8 DEF ResumesBehind
<1>9. lastMs = 0 => sent' = posted
  BY <1>2, <1>3 DEF ResumesBehind
<1>10. RestIsNew'
  <2> SUFFICES ASSUME NEW i \in DOMAIN handed, NEW m \in 1..MaxPosted, sent' < m
               PROVE  \/ handed[i].no < m
                      \/ kind = "all-chat" /\ WholeMs(handed[i].ts) < Stamp[m]
    BY <1>2, <1>6 DEF RestIsNew, Behind
  <2>1. CASE m > posted
    BY <1>3, <2>1
  <2>2. CASE m <= posted
    <3>1. lastMs > 0 /\ m \in 1..posted
      BY <1>3, <1>9, <2>2
    <3>2. kind = "all-chat"
      BY <1>1, <3>1, ChatAssumption DEF TypeOK, InPlace
    <3>3. Stamp[m] > lastMs * Milli
      <4>1. ~(m <= sent')
        BY <1>6
      <4>2. Stamp[m] \in Nat /\ lastMs * Milli \in Nat
        BY <1>3, ChatAssumption DEF Milli
      <4> QED BY <1>8, <3>1, <4>1, <4>2
    <3>4. UnixMilli(handed[i].ts) <= lastMs
      BY <1>1, <1>6, <3>2 DEF LatestIsRemembered
    <3>5. /\ UnixMilli(handed[i].ts) \in Nat /\ WholeMs(handed[i].ts) \in Nat
          /\ UnixMilli(handed[i].ts) * Milli = WholeMs(handed[i].ts)
      BY <1>3, MilliForms
    <3>6. WholeMs(handed[i].ts) <= lastMs * Milli
      BY <1>3, <3>4, <3>5 DEF Milli
    <3>7. Stamp[m] \in Nat /\ lastMs * Milli \in Nat
      BY <1>3, ChatAssumption DEF Milli
    <3> QED BY <3>2, <3>3, <3>5, <3>6, <3>7
  <2> QED BY <1>3, <2>1, <2>2
<1>11. ASSUME kind # "twitch", handed # << >>, NEW m \in Chatter,
              handed[1].no < m, Passed(m)'
       PROVE  Passed(m) \/ OutOfReach(m)
  <2>1. kind = "all-chat" /\ m \in 1..MaxPosted
    BY <1>1, <1>11, ChatAssumption DEF TypeOK
  <2>2. m <= sent' \/ Passed(m)
    BY <1>2, <1>6, <1>11 DEF Passed
  <2>3. ASSUME m <= sent' PROVE Passed(m) \/ OutOfReach(m)
    <3>1. PICK i \in DOMAIN handed : UnixMilli(handed[i].ts) = lastMs
      BY <1>1, <1>6, <1>11, <2>1 DEF LatestIsRemembered
    <3>2. /\ handed[i].no \in 1..posted /\ handed[i].ts \in Nat /\ handed[i].ts >= Milli
          /\ handed[i].no \notin Undated => handed[i].ts = Stamp[handed[i].no]
      BY <1>1, <1>3, <2>1 DEF TimesAreTrue
    <3>3. /\ lastMs > 0 /\ lastMs * Milli <= handed[i].ts
          /\ lastMs * Milli = WholeMs(handed[i].ts)
      <4>1. /\ UnixMilli(handed[i].ts) > 0 /\ WholeMs(handed[i].ts) <= handed[i].ts
            /\ UnixMilli(handed[i].ts) * Milli = WholeMs(handed[i].ts)
        BY <3>2, MilliForms
      <4> QED BY <3>1, <4>1
    <3>4. m \in 1..posted
      BY <1>2, <1>3, <2>1, <2>3
    <3>5. Stamp[m] <= lastMs * Milli
      BY <1>8, <2>3, <3>3, <3>4
    <3>6. Stamp[m] \in Nat /\ Stamp[handed[i].no] \in Nat /\ lastMs * Milli \in Nat
      BY <1>3, <2>1, <3>2, ChatAssumption DEF Milli
    <3>7. Stamp[m] <= handed[i].ts
      BY <3>2, <3>3, <3>5, <3>6
    <3>8. CASE handed[i].no < m
      <4>1. Stamp[handed[i].no] <= Stamp[m]
        BY <1>3, <2>1, <3>2, <3>8, ChatAssumption
      <4>2. Stamp[m] <= WholeMs(handed[i].ts)
        BY <3>3, <3>5
      <4>3. CASE handed[i].no \notin Undated
        <5>1. handed[i].ts = Stamp[handed[i].no]
          BY <3>2, <4>3
        <5>2. Stamp[m] = Stamp[handed[i].no] /\ WholeMs(handed[i].ts) = handed[i].ts
          BY <3>3, <3>5, <3>6, <4>1, <5>1
        <5>3. Stamp[m] = WholeMs(Stamp[m])
          BY <5>1, <5>2
        <5> QED BY <2>1, <3>8, <5>2, <5>3 DEF OutOfReach
      <4> QED BY <2>1, <3>8, <4>2, <4>3 DEF OutOfReach
    <3>9. CASE m <= handed[i].no
      BY <3>9 DEF Passed
    <3> QED BY <3>2, <3>4, <3>8, <3>9
  <2> QED BY <2>2, <2>3
<1> QED BY <1>2, <1>4, <1>5, <1>7, <1>10, <1>11, SameHanded

LEMMA ReadIInv == IInv /\ Read => IInv'
<1> SUFFICES ASSUME IInv, Read PROVE IInv'
  OBVIOUS
<1>1. TypeOK /\ InPlace /\ LatestIsRemembered /\ RestIsNew /\ phase = "read"
  BY DEF IInv, Read
<1>2. /\ sent < posted /\ sent' = sent + 1
      /\ phase' = IF IsChat(sent') THEN "hand" ELSE "read"
      /\ UNCHANGED <<svcVars, cancelled, backoff, lastMs, seen, broken, handed,
                     waiting, result>>
      /\ UNCHANGED <<kind, posted>>
  BY DEF Read, svcVars
<1>3. sent \in Nat /\ posted \in Nat
  BY <1>1, Numbers
<1>4. TypeOK'
  <2>1. sent' \in 0..posted
    BY <1>2, <1>3
  <2> QED BY <1>1, <1>2, <2>1 DEF TypeOK, svcVars
<1>5. /\ Connected /\ Connected' /\ Remembered' = Remembered /\ Position = sent
      /\ Position' = IF IsChat(sent') THEN sent ELSE sent + 1
  BY <1>1, <1>2, <1>3 DEF Connected, Position, Remembered
<1>6. InPlace'
  BY <1>1, <1>2, <1>3 DEF InPlace, svcVars
<1>7. LatestIsRemembered'
  BY <1>1, <1>2, <1>5 DEF LatestIsRemembered
<1>8. RestIsNew'
  <2>1. \A m \in 1..MaxPosted : Position' < m => Position < m
    BY <1>3, <1>5, ChatAssumption
  <2> QED BY <1>1, <1>2, <1>5, <2>1 DEF RestIsNew, Behind
<1>9. ASSUME NEW m \in Chatter, kind # "twitch", Passed(m)'
      PROVE  Passed(m)
  <2>1. m \in Nat
    BY ChatAssumption
  <2>2. m = sent + 1 => IsChat(sent')
    BY <1>2, <1>9 DEF IsChat, IsChatData
  <2>3. m <= Position' => m <= Position
    BY <1>3, <1>5, <2>1, <2>2
  <2> QED BY <1>2, <1>5, <1>9, <2>3 DEF Passed
<1> QED BY <1>2, <1>4, <1>6, <1>7, <1>8, <1>9, SameHanded

LEMMA EmitIInv == IInv /\ Emit => IInv'
<1> SUFFICES ASSUME IInv, Emit PROVE IInv'
  OBVIOUS
<1>1. /\ TypeOK /\ InPlace /\ LatestIsRemembered /\ RestIsNew
      /\ phase = "read" /\ kind = "simulate" /\ sent = posted
  BY DEF IInv, InPlace, Emit
<1>2. /\ posted < MaxPosted /\ posted' = posted + 1 /\ sent' = posted'
      /\ phase' = "hand"
      /\ UNCHANGED <<kind, service, troubles, cancelled, backoff, lastMs, seen,
                     broken, handed, waiting, result>>
  BY DEF Emit
<1>3. posted \in Nat /\ MaxPosted \in Nat
  BY <1>1, Numbers
<1>4. TypeOK'
  <2>1. posted' \in 0..MaxPosted /\ sent' \in 0..posted'
    BY <1>2, <1>3
  <2>2. handed' \in Seq([no : 1..posted', ts : Nat])
    BY <1>1, <1>2, <1>3, HandedGrows
  <2> QED BY <1>1, <1>2, <2>1, <2>2 DEF TypeOK
<1>5. /\ Connected /\ Connected' /\ Position' = Position /\ Remembered' = Remembered
  BY <1>1, <1>2, <1>3 DEF Connected, Position, Remembered
<1>6. InPlace'
  BY <1>1, <1>2, <1>3 DEF InPlace
<1>7. LatestIsRemembered' /\ RestIsNew'
  BY <1>1, <1>2, <1>5 DEF LatestIsRemembered, RestIsNew, Behind
<1>8. \A m \in Chatter : Passed(m)' => Passed(m)
  BY <1>2, <1>5 DEF Passed
<1> QED BY <1>2, <1>4, <1>6, <1>7, <1>8, SameHanded

LEMMA FailedIInv == IInv /\ (DialFails \/ ReadFails \/ GiveUp) => IInv'
<1> SUFFICES ASSUME IInv, DialFails \/ ReadFails \/ GiveUp PROVE IInv'
  OBVIOUS
<1>1. TypeOK /\ InPlace /\ LatestIsRemembered
  BY DEF IInv
<1>2. seen \in Nat /\ lastMs \in Nat
  BY <1>1, Numbers
<1>3. CASE DialFails
  <2>1. phase = "dial" /\ kind # "simulate"
        /\ EndSession(0, service = "gone" /\ kind = "all-chat", FALSE)
    BY <1>1, <1>3 DEF DialFails, InPlace
  <2>2. Later(0, lastMs) = Remembered
    BY <1>2, <2>1 DEF Remembered, Connected, Later
  <2> QED BY <2>1, <2>2, EndSessionIInv
<1>4. CASE ReadFails \/ GiveUp
  <2>1. PICK stable \in BOOLEAN : EndSession(seen, FALSE, stable)
    BY <1>4 DEF ReadFails, GiveUp
  <2>2. phase \in {"read", "hand"} /\ (kind = "simulate" => cancelled)
    BY <1>1, <1>4 DEF ReadFails, GiveUp, InPlace
  <2>3. Remembered = seen
    BY <2>2 DEF Remembered, Connected
  <2>4. kind = "all-chat" => Later(seen, lastMs) = Remembered
    BY <1>1, <1>2, <2>3 DEF LatestIsRemembered, Later
  <2> QED BY <1>2, <2>1, <2>2, <2>4, EndSessionIInv
<1> QED BY <1>3, <1>4

\* The message read last is handed over.
LEMMA HandOverIInv == IInv /\ HandOver => IInv'
<1> SUFFICES ASSUME IInv, HandOver PROVE IInv'
  OBVIOUS
<1>1. /\ TypeOK /\ InPlace /\ TimesAreTrue /\ LatestIsRemembered /\ RestIsNew
      /\ NoneMissed /\ HandedOnceInOrder /\ phase = "hand"
  BY DEF IInv, HandOver
<1>2. PICK ts \in TimesOf(sent) :
          /\ handed' = Append(handed, [no |-> sent, ts |-> ts])
          /\ seen' = IF kind = "all-chat" THEN Later(UnixMilli(ts), seen) ELSE seen
  BY DEF HandOver
<1>3. /\ phase' = "read" /\ waiting < Room /\ waiting' = waiting + 1
      /\ UNCHANGED <<kind, service, posted, troubles, cancelled, backoff, lastMs, sent,
                     broken, result>>
  BY DEF HandOver, svcVars
<1>4. /\ posted \in Nat /\ posted <= MaxPosted /\ MaxPosted \in Nat /\ seen \in Nat
      /\ lastMs \in Nat /\ sent \in 1..posted /\ sent \in 1..MaxPosted
      /\ Len(handed) \in Nat /\ DOMAIN handed = 1..Len(handed)
      /\ handed # << >> => 1 \in DOMAIN handed
      /\ \A i \in DOMAIN handed : handed[i].no \in 1..posted /\ handed[i].ts \in Nat
  BY <1>1, Numbers DEF InPlace
<1>5. /\ ts \in Nat
      /\ kind = "all-chat" => ts >= Milli /\ (sent \notin Undated => ts = Stamp[sent])
  BY <1>2, <1>4, ChatAssumption DEF TimesOf
<1>6. UnixMilli(ts) \in Nat
  BY <1>5, MilliForms
<1> DEFINE last == Len(handed) + 1
<1>7. /\ handed' \in Seq([no : 1..posted', ts : Nat]) /\ handed' # << >>
      /\ DOMAIN handed' = 1..last
      /\ \A i \in 1..Len(handed) : handed'[i] = handed[i]
      /\ handed'[last] = [no |-> sent, ts |-> ts]
  BY <1>1, <1>2, <1>3, <1>4, <1>5, HandForms
<1>8. /\ last \in 1..last /\ handed'[last].no = sent /\ handed'[last].ts = ts
      /\ \A i \in 1..last : i \in DOMAIN handed \/ i = last
      /\ \A i \in DOMAIN handed : i \in 1..last /\ i < last /\ handed'[i] = handed[i]
  BY <1>4, <1>7
<1>9. /\ Connected /\ Connected' /\ Position = sent - 1 /\ Position' = sent
      /\ Remembered = seen /\ Remembered' = seen' /\ seen' \in Nat
      /\ kind = "all-chat" => /\ seen <= seen' /\ UnixMilli(ts) <= seen'
                              /\ seen' = UnixMilli(ts) \/ seen' = seen
  BY <1>1, <1>2, <1>3, <1>4, <1>6 DEF Connected, Position, Remembered, Later
<1> HIDE DEF last
<1>10. TypeOK'
  <2>1. waiting' \in 0..Room
    BY <1>1, <1>3, ChatAssumption DEF TypeOK
  <2> QED BY <1>1, <1>3, <1>7, <1>9, <2>1 DEF TypeOK
<1>11. InPlace'
  BY <1>1, <1>3 DEF InPlace
<1>12. TimesAreTrue'
  BY <1>1, <1>3, <1>5, <1>7, <1>8 DEF TimesAreTrue
<1>13. LatestIsRemembered'
  <2> SUFFICES ASSUME kind = "all-chat"
               PROVE  /\ lastMs <= seen'
                      /\ \A i \in 1..last : UnixMilli(handed'[i].ts) <= seen'
                      /\ \E i \in 1..last : UnixMilli(handed'[i].ts) = seen'
    BY <1>3, <1>7, <1>9 DEF LatestIsRemembered
  <2>1. lastMs <= seen'
    BY <1>1, <1>4, <1>9 DEF LatestIsRemembered
  <2>2. ASSUME NEW i \in 1..last PROVE UnixMilli(handed'[i].ts) <= seen'
    <3>1. CASE i = last
      BY <1>8, <1>9, <3>1
    <3>2. CASE i \in DOMAIN handed
      <4>1. UnixMilli(handed[i].ts) <= seen /\ UnixMilli(handed[i].ts) \in Nat
        BY <1>1, <1>4, <1>9, <3>2, MilliForms DEF LatestIsRemembered
      <4> QED BY <1>4, <1>8, <1>9, <3>2, <4>1
    <3> QED BY <1>8, <3>1, <3>2
  <2>3. \E i \in 1..last : UnixMilli(handed'[i].ts) = seen'
    <3>1. CASE seen' = UnixMilli(ts)
      BY <1>8, <3>1
    <3>2. CASE seen' = seen /\ handed # << >>
      <4>1. PICK i \in DOMAIN handed : UnixMilli(handed[i].ts) = seen
        BY <1>1, <1>9, <3>2 DEF LatestIsRemembered
      <4> QED BY <1>8, <3>2, <4>1
    <3>3. CASE seen' = seen /\ handed = << >>
      <4>1. seen = 0
        BY <1>1, <1>9, <3>3 DEF LatestIsRemembered
      <4>2. UnixMilli(ts) = seen'
        BY <1>6, <1>9, <3>3, <4>1
      <4> QED BY <3>1, <4>2
    <3> QED BY <1>9, <3>1, <3>2, <3>3
  <2> QED BY <2>1, <2>2, <2>3
<1>14. RestIsNew'
  <2> SUFFICES ASSUME NEW i \in 1..last, NEW m \in 1..MaxPosted, sent < m
               PROVE  \/ handed'[i].no < m
                      \/ kind = "all-chat" /\ WholeMs(handed'[i].ts) < Stamp[m]
    BY <1>3, <1>7, <1>9 DEF RestIsNew, Behind
  <2>1. CASE i = last
    BY <1>8, <2>1
  <2>2. CASE i \in DOMAIN handed
    <3>1. Position < m
      BY <1>4, <1>9
    <3>2. Behind(i, m)
      BY <1>1, <1>9, <2>2, <3>1 DEF RestIsNew
    <3> QED BY <1>8, <2>2, <3>2 DEF Behind
  <2> QED BY <1>8, <2>1, <2>2
<1>15. HandedOnceInOrder'
  <2> SUFFICES ASSUME NEW i \in 1..last, NEW j \in 1..last, i < j
               PROVE  \/ handed'[i].no < handed'[j].no
                      \/ /\ kind = "all-chat"
                         /\ WholeMs(handed'[i].ts) < Stamp[handed'[j].no]
    BY <1>3, <1>7 DEF HandedOnceInOrder
  <2>1. i \in DOMAIN handed /\ handed'[i] = handed[i]
    BY <1>4, <1>8 DEF last
  <2>2. CASE j \in DOMAIN handed
    BY <1>1, <1>8, <2>1, <2>2 DEF HandedOnceInOrder
  <2>3. CASE j = last
    <3>1. Position < sent
      BY <1>4, <1>9
    <3>2. Behind(i, sent)
      BY <1>1, <1>4, <1>9, <2>1, <3>1 DEF RestIsNew
    <3> QED BY <1>8, <2>1, <2>3, <3>2 DEF Behind
  <2> QED BY <1>8, <2>2, <2>3
<1>16. ASSUME NEW m, HasHanded(m) \/ OutOfReach(m)
       PROVE  HasHanded(m)' \/ OutOfReach(m)'
  BY <1>3, <1>7, <1>8, <1>16 DEF HasHanded, OutOfReach
<1>17. NoneMissed'
  <2> SUFFICES ASSUME kind # "twitch", NEW m \in Chatter, handed'[1].no < m, Passed(m)'
               PROVE  HasHanded(m)' \/ OutOfReach(m)'
    BY <1>3 DEF NoneMissed
  <2>1. m \in Nat
    BY ChatAssumption
  <2>2. CASE m = sent
    BY <1>7, <1>8, <2>2 DEF HasHanded
  <2>3. CASE m # sent
    <3>1. Passed(m)
      <4>1. CASE m <= sent
        BY <1>4, <1>9, <2>1, <2>3, <4>1 DEF Passed
      <4>2. CASE ~(m <= sent)
        <5>1. PICK i \in 1..last : m <= handed'[i].no
          BY <1>7, <1>9, <4>2 DEF Passed
        <5>2. i \in DOMAIN handed /\ m <= handed[i].no
          BY <1>8, <4>2, <5>1
        <5> QED BY <5>2 DEF Passed
      <4> QED BY <4>1, <4>2
    <3>2. handed # << >>
      <4>1. CASE handed = << >>
        <5>1. last = 1
          BY <4>1 DEF last
        <5>2. sent < m
          BY <1>8, <5>1
        <5>3. \A i \in 1..last : handed'[i].no = sent
          BY <1>8, <5>1
        <5> QED BY <1>4, <1>7, <1>9, <2>1, <5>2, <5>3 DEF Passed
      <4> QED BY <4>1
    <3>3. 1 \in DOMAIN handed /\ handed'[1] = handed[1]
      BY <1>4, <1>8, <3>2
    <3>4. HasHanded(m) \/ OutOfReach(m)
      BY <1>1, <3>1, <3>2, <3>3 DEF NoneMissed
    <3> QED BY <1>16, <3>4
  <2> QED BY <2>2, <2>3
<1> QED BY <1>10, <1>11, <1>12, <1>13, <1>14, <1>15, <1>17 DEF IInv

LEMMA NextIInv == IInv /\ [Next]_vars => IInv'
BY OutsideIInv, StartWaitIInv, ConnectIInv, ReadIInv, EmitIInv, FailedIInv, HandOverIInv
DEF Next, Session

LEMMA Invariance == Spec => []IInv
BY InitIInv, NextIInv, PTL DEF Spec

(***************************************************************************)
(* The theorems.                                                           *)
(***************************************************************************)

\* The types of a source's variables (allchat_ws.go, twitch_irc.go, fake.go).
THEOREM TypeCorrect == Spec => []TypeOK
<1>1. IInv => TypeOK
  BY DEF IInv
<1> QED BY <1>1, Invariance, PTL

\* Whatever breaks and is dialled again, and whatever the sidecar's clock shows, a
\* message comes again or late only if it is later than the whole milliseconds of the
\* one before it (allchat_ws.go:123, and :214-217 for messages without a time).
THEOREM NothingTwice == Spec => []HandedOnceInOrder
<1>1. IInv => HandedOnceInOrder
  BY DEF IInv
<1> QED BY <1>1, Invariance, PTL

\* A service that dates all its messages, in whole milliseconds, has each counted once
\* and in order: what allchat_ws.go:123 rounds off is all that can be replayed.
InMilliseconds == Undated = {} /\ \A m \in 1..MaxPosted : WholeMs(Stamp[m]) = Stamp[m]

StrictlyInOrder ==
    \A i, j \in DOMAIN handed : i < j => handed[i].no < handed[j].no

THEOREM OnceInMilliseconds == InMilliseconds => (Spec => []StrictlyInOrder)
<1> SUFFICES ASSUME InMilliseconds PROVE Spec => []StrictlyInOrder
  OBVIOUS
<1>1. IInv => StrictlyInOrder
  <2> SUFFICES ASSUME IInv, NEW i \in DOMAIN handed, NEW j \in DOMAIN handed, i < j,
                      ~(handed[i].no < handed[j].no)
               PROVE  FALSE
    BY DEF StrictlyInOrder
  <2>1. TypeOK /\ TimesAreTrue /\ HandedOnceInOrder
    BY DEF IInv
  <2>2. kind = "all-chat" /\ WholeMs(handed[i].ts) < Stamp[handed[j].no]
    BY <2>1 DEF HandedOnceInOrder
  <2>3. /\ handed[i].no \in 1..MaxPosted /\ handed[j].no \in 1..MaxPosted
        /\ handed[j].no <= handed[i].no
    BY <2>1, Numbers
  <2>4. WholeMs(handed[i].ts) = Stamp[handed[i].no]
    BY <2>1, <2>2, <2>3 DEF TimesAreTrue, InMilliseconds
  <2>5. Stamp[handed[j].no] <= Stamp[handed[i].no]
    BY <2>3, ChatAssumption
  <2>6. Stamp[handed[i].no] \in Nat /\ Stamp[handed[j].no] \in Nat
    BY <2>3, ChatAssumption
  <2> QED BY <2>2, <2>4, <2>5, <2>6
<1> QED BY <1>1, Invariance, PTL

\* From the first message it has handed over to the latest, all-chat's source has
\* handed over all the chat that a reconnection can ask for, and the simulation all
\* there was (allchat_ws.go Run and session, fake.go Run).
THEOREM NothingMissed == Spec => []NoGap
<1>1. IInv => NoGap
  <2> SUFFICES ASSUME IInv, kind # "twitch", NEW m \in Chatter,
                      NEW i \in DOMAIN handed, handed[1].no < m, m < handed[i].no
               PROVE  HasHanded(m) \/ OutOfReach(m)
    BY DEF NoGap
  <2>1. TypeOK /\ NoneMissed
    BY DEF IInv
  <2>2. handed # << >>
    <3>1. Len(handed) \in Nat /\ DOMAIN handed = 1..Len(handed)
      BY <2>1, Numbers
    <3> QED BY <3>1
  <2>3. m <= handed[i].no
    BY <2>1, Numbers, ChatAssumption
  <2> QED BY <2>1, <2>2, <2>3 DEF NoneMissed, Passed
<1> QED BY <1>1, Invariance, PTL

=============================================================================
