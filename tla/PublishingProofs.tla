--------------------------- MODULE PublishingProofs ---------------------------
(***************************************************************************)
(* Proofs about the way of a published state into the bridge file and to   *)
(* the overlay pages, for any platform, number of pages and queue size.    *)
(***************************************************************************)
EXTENDS Publishing, SequenceTheorems, TLAPS

(***************************************************************************)
(* Ages and queues.                                                        *)
(***************************************************************************)
LEMMA OlderForms ==
    /\ None \notin AgeOf /\ Torn \notin AgeOf /\ Torn # None
    /\ 0 \in AgeOf /\ 0 # None /\ 0 # Torn
    /\ Older(None) = None /\ Older(Torn) = Torn
    /\ \A x \in AgeOf : Older(x) \in AgeOf
BY AgesAssumption, FileAssumption DEF AgeOf, Older

\* The newest state of a queue is the one at its end.
LEMMA AppendForms ==
    ASSUME NEW S, NEW q \in Seq(S), NEW x \in S
    PROVE  /\ Append(q, x) \in Seq(S) /\ Append(q, x) # << >>
           /\ Len(Append(q, x)) = Len(q) + 1
           /\ Append(q, x)[Len(Append(q, x))] = x
OBVIOUS

LEMMA TailForms ==
    ASSUME NEW S, NEW q \in Seq(S), q # << >>
    PROVE  /\ Head(q) \in S /\ Tail(q) \in Seq(S) /\ Len(Tail(q)) = Len(q) - 1
           /\ Tail(q) = << >> => Head(q) = q[Len(q)]
           /\ Tail(q) # << >> => Tail(q)[Len(Tail(q))] = q[Len(q)]
<1>1. Len(q) \in Nat /\ Len(q) > 0
  OBVIOUS
<1>2. Head(q) \in S /\ Tail(q) \in Seq(S) /\ Len(Tail(q)) = Len(q) - 1
      /\ Head(q) = q[1]
  OBVIOUS
<1>3. Tail(q) = << >> => Len(q) = 1
  <2>1. Tail(q) = << >> => Len(Tail(q)) = 0
    BY EmptySeq
  <2> QED BY <1>1, <1>2, <2>1
<1>4. Tail(q) # << >> => Tail(q)[Len(Tail(q))] = q[Len(q)]
  <2>1. \A i \in 1..Len(Tail(q)) : Tail(q)[i] = q[i + 1]
    OBVIOUS
  <2>2. Tail(q) # << >> => Len(Tail(q)) \in 1..Len(Tail(q))
    BY <1>1, <1>2
  <2> QED BY <1>1, <1>2, <2>1, <2>2
<1> QED BY <1>2, <1>3, <1>4

AgedQueue(q) == [i \in DOMAIN q |-> Older(q[i])]

LEMMA AgedQueueForms ==
    ASSUME NEW q \in Seq(AgeOf)
    PROVE  /\ AgedQueue(q) \in Seq(AgeOf) /\ Len(AgedQueue(q)) = Len(q)
           /\ AgedQueue(q) = << >> <=> q = << >>
           /\ q # << >> => AgedQueue(q)[Len(q)] = Older(q[Len(q)])
<1>1. DOMAIN q = 1..Len(q) /\ Len(q) \in Nat /\ \A i \in 1..Len(q) : q[i] \in AgeOf
  OBVIOUS
<1>2. \A i \in 1..Len(q) : Older(q[i]) \in AgeOf
  BY <1>1, OlderForms
<1>3. AgedQueue(q) = [i \in 1..Len(q) |-> Older(q[i])]
  BY <1>1 DEF AgedQueue
<1> HIDE DEF AgeOf
<1>4. AgedQueue(q) \in Seq(AgeOf) /\ Len(AgedQueue(q)) = Len(q)
  BY <1>1, <1>2, <1>3
<1>5. q # << >> => Len(q) \in 1..Len(q)
  BY <1>1
<1>6. q # << >> => AgedQueue(q)[Len(q)] = Older(q[Len(q)])
  BY <1>3, <1>5
<1>7. AgedQueue(q) = << >> <=> q = << >>
  BY <1>1, <1>4
<1> QED BY <1>4, <1>6, <1>7

(***************************************************************************)
(* The file.  A temporary file that may be renamed holds the state whole;  *)
(* the goroutine is back from the Writer before it publishes again.        *)
(***************************************************************************)
TmpIsWhole ==
    /\ pc = "idle" => step = "done"
    /\ step \in {"rename", "remove", "again"} => tmp = 0

FileInv == FileTypeOK /\ TmpIsWhole /\ FileIsWhole /\ SkipIsSound

LEMMA BeginWriteFile ==
    ASSUME FileInv, NEW new \in BOOLEAN, BeginWrite(new), pc' = "publish"
    PROVE  FileInv'
<1>1. /\ overwrites' = overwrites
      /\ step' \in {"done", "create"}
      /\ \/ file' = Older(file) /\ tmp' = Older(tmp) /\ last' = Older(last)
         \/ file' = file /\ tmp' = tmp /\ last' = last
  BY DEF BeginWrite, AgeFile
<1>2. /\ file \in AgeOf \cup {None} /\ tmp \in AgeOf \cup {None, Torn}
      /\ last \in AgeOf \cup {None} /\ (last # None /\ file # None => file = last)
  BY DEF FileInv, FileTypeOK, FileIsWhole, SkipIsSound
<1>3. /\ file' \in AgeOf \cup {None} /\ tmp' \in AgeOf \cup {None, Torn}
      /\ last' \in AgeOf \cup {None} /\ (last' # None /\ file' # None => file' = last')
  BY <1>1, <1>2, OlderForms
<1> QED BY <1>1, <1>3, OlderForms
        DEF FileInv, FileTypeOK, TmpIsWhole, FileIsWhole, SkipIsSound

\* Replacing the file makes it, and what the Writer remembers, the newest state.
LEMMA ReplaceFile ==
    ASSUME FileInv, tmp = 0, Replace, overwrites' = overwrites, pc' = "publish"
    PROVE  FileInv'
BY OlderForms DEF Replace, FileInv, FileTypeOK, TmpIsWhole, FileIsWhole, SkipIsSound

LEMMA WriteFile ==
    ASSUME FileInv, WriteStep, pc' = "publish"
    PROVE  FileInv'
<1> USE DEF FileInv, FileTypeOK, TmpIsWhole, FileIsWhole, SkipIsSound
<1>1. CASE CreateTmp
  <2>1. /\ UNCHANGED <<overwrites, file, last>> /\ step' \in {"fill", "done"}
        /\ tmp' = Torn \/ tmp' = tmp
    BY <1>1 DEF CreateTmp
  <2> QED BY <2>1
<1>2. CASE FillTmp
  BY <1>2, OlderForms DEF FillTmp
<1>3. CASE Rename
  <2>1. CASE Replace
    BY <1>3, <2>1, ReplaceFile DEF Rename
  <2>2. CASE ~Replace
    BY <1>3, <2>2 DEF Rename
  <2> QED BY <2>1, <2>2
<1>4. CASE Remove
  <2>1. /\ UNCHANGED <<overwrites, tmp, last>> /\ step = "remove" /\ step' = "again"
        /\ file' = None \/ file' = file
    BY <1>4 DEF Remove
  <2>2. FileTypeOK' /\ TmpIsWhole'
    BY <2>1
  <2>3. FileIsWhole' /\ SkipIsSound'
    BY <2>1, OlderForms
  <2> QED BY <2>2, <2>3
<1>5. CASE RenameAgain
  <2>1. CASE Replace
    BY <1>5, <2>1, ReplaceFile DEF RenameAgain
  <2>2. CASE ~Replace
    BY <1>5, <2>2 DEF RenameAgain
  <2> QED BY <2>1, <2>2
<1>6. CASE CleanUp
  BY <1>6 DEF CleanUp
<1> QED BY <1>1, <1>2, <1>3, <1>4, <1>5, <1>6 DEF WriteStep

LEMMA InitFileInv == Init => FileInv
BY FileAssumption
   DEF Init, FileInit, FileInv, FileTypeOK, TmpIsWhole, FileIsWhole, SkipIsSound

LEMMA NextFileInv == FileInv /\ [Next]_vars => FileInv'
<1> SUFFICES ASSUME FileInv, [Next]_vars PROVE FileInv'
  OBVIOUS
<1>1. CASE Publish
  BY <1>1, BeginWriteFile DEF Publish
<1>2. CASE Write
  BY <1>2, WriteFile DEF Write
<1>3. CASE Show
  BY <1>3 DEF Show, fileVars, FileInv, FileTypeOK, TmpIsWhole, FileIsWhole,
              SkipIsSound
<1>4. CASE Page \/ UNCHANGED vars
  BY <1>4 DEF Page, vars, fileVars, FileInv, FileTypeOK, TmpIsWhole, FileIsWhole,
              SkipIsSound
<1>5. CASE Restart
  BY <1>5 DEF Restart, RestartWriter, FileInv, FileTypeOK, TmpIsWhole,
              FileIsWhole, SkipIsSound
<1> QED BY <1>1, <1>2, <1>3, <1>4, <1>5 DEF Next

LEMMA FileInvariance == Spec => []FileInv
BY InitFileInv, NextFileInv, PTL DEF Spec

\* Whichever call to the file system fails, on a platform that renames over a file
\* and on one that does not, and wherever the sidecar dies and is started again:
\* the mod never reads a torn state.
THEOREM FileStaysWhole == Spec => []FileIsWhole
BY FileInvariance, PTL DEF FileInv

\* Likewise, a write that is skipped as a repetition would have changed nothing,
\* unless the file has been taken away by a rename that failed half way.
THEOREM SkippedIsThere == Spec => []SkipIsSound
BY FileInvariance, PTL DEF FileInv

(***************************************************************************)
(* The pages.  The newest state on its way to a page is the last in its    *)
(* queue, or the one it shows.  It is the server's latest, unless that was *)
(* dropped, or the page's snapshot came behind it.  While a page waits in  *)
(* subscribe nothing leaves its queue, so that an empty queue then means   *)
(* that nothing newer than the snapshot has come.                          *)
(***************************************************************************)
Newest(c) == IF queue[c] = << >> THEN shown[c] ELSE queue[c][Len(queue[c])]

Pipeline(c) ==
    /\ conn[c] = "off" => queue[c] = << >>
    /\ conn[c] = "joining" => /\ snapshot[c] # None
                              /\ queue[c] = << >> => snapshot[c] = latest
    /\ conn[c] = "streaming" /\ latest # None =>
          Newest(c) = latest \/ dropped[c] \/ overtaken[c]

PagesInv == OverlayTypeOK /\ \A c \in Clients : Pipeline(c)

LEMMA InitPagesInv == Init => PagesInv
<1> SUFFICES ASSUME Init PROVE PagesInv
  OBVIOUS
<1>1. OverlayInit
  BY DEF Init
<1>2. \A c \in Clients : /\ conn[c] = "off" /\ queue[c] = << >>
                         /\ Len(queue[c]) = 0
  BY <1>1, EmptySeq DEF OverlayInit
<1>3. OverlayTypeOK
  <2>1. queue \in [Clients -> Seq(AgeOf)]
    BY <1>1, EmptySeq DEF OverlayInit
  <2> QED BY <1>1, <1>2, <2>1, OverlayAssumption DEF OverlayInit, OverlayTypeOK
<1> QED BY <1>2, <1>3 DEF PagesInv, Pipeline

\* When a new state is published, all that is on its way ages alike.
LEMMA AgeFramesPages ==
    ASSUME PagesInv, AgeFrames
    PROVE  PagesInv'
<1>1. /\ latest' = Older(latest) /\ UNCHANGED <<conn, dropped, overtaken>>
      /\ queue' = [c \in Clients |-> AgedQueue(queue[c])]
      /\ snapshot' = [c \in Clients |-> Older(snapshot[c])]
      /\ shown' = [c \in Clients |-> Older(shown[c])]
  BY DEF AgeFrames, AgedQueue
<1>2. \A x \in AgeOf \cup {None} : Older(x) \in AgeOf \cup {None}
                                   /\ (Older(x) = None <=> x = None)
  BY OlderForms
<1>3. \A c \in Clients :
        /\ queue[c] \in Seq(AgeOf) /\ snapshot[c] \in AgeOf \cup {None}
        /\ shown[c] \in AgeOf \cup {None} /\ latest \in AgeOf \cup {None}
        /\ Len(queue[c]) <= QueueSize
  BY DEF PagesInv, OverlayTypeOK
<1>4. \A c \in Clients :
        /\ queue'[c] \in Seq(AgeOf) /\ Len(queue'[c]) = Len(queue[c])
        /\ queue'[c] = << >> <=> queue[c] = << >>
        /\ queue[c] # << >> => queue'[c][Len(queue'[c])] = Older(queue[c][Len(queue[c])])
        /\ snapshot'[c] = Older(snapshot[c]) /\ shown'[c] = Older(shown[c])
  BY <1>1, <1>3, AgedQueueForms
<1>5. OverlayTypeOK'
  <2>1. queue' \in [Clients -> Seq(AgeOf)]
    BY <1>1, <1>4
  <2>2. snapshot' \in [Clients -> AgeOf \cup {None}]
        /\ shown' \in [Clients -> AgeOf \cup {None}]
    BY <1>1, <1>2, <1>3
  <2>3. latest' \in AgeOf \cup {None}
    BY <1>1, <1>2 DEF PagesInv, OverlayTypeOK
  <2> QED BY <1>1, <1>3, <1>4, <2>1, <2>2, <2>3 DEF PagesInv, OverlayTypeOK
<1>6. ASSUME NEW c \in Clients PROVE Pipeline(c)'
  <2>1. Newest(c)' = Older(Newest(c))
    BY <1>4 DEF Newest
  <2>2. Pipeline(c)
    BY DEF PagesInv
  <2>3. snapshot[c] # None => snapshot'[c] # None
    BY <1>2, <1>3, <1>4
  <2>4. latest' # None => latest # None
    BY <1>1, <1>2, <1>3
  <2> QED BY <1>1, <1>4, <2>1, <2>2, <2>3, <2>4 DEF Pipeline
<1> QED BY <1>5, <1>6 DEF PagesInv

LEMMA BroadcastPages ==
    ASSUME PagesInv, Broadcast
    PROVE  PagesInv'
<1> DEFINE pages == {c \in Clients : Registered(c)}
<1>1. /\ latest' = 0 /\ UNCHANGED <<conn, snapshot, shown>>
      /\ queue' = [c \in Clients |-> IF c \in pages /\ ~Full(c)
                                       THEN Append(queue[c], 0) ELSE queue[c]]
      /\ dropped' = [c \in Clients |-> c \in pages /\ Full(c)]
      /\ overtaken' = [c \in Clients |-> overtaken[c] /\ (c \notin pages \/ Full(c))]
  BY DEF Broadcast, SendTo
<1>2. ASSUME NEW c \in Clients
      PROVE  /\ queue[c] \in Seq(AgeOf) /\ Len(queue[c]) \in Nat
             /\ Len(queue[c]) <= QueueSize /\ QueueSize \in Nat \ {0}
             /\ overtaken[c] \in BOOLEAN
  BY OverlayAssumption, LenProperties DEF PagesInv, OverlayTypeOK
<1>3. ASSUME NEW c \in Clients
      PROVE  \/ /\ c \in pages /\ ~Full(c) /\ queue'[c] = Append(queue[c], 0)
                /\ queue'[c] \in Seq(AgeOf) /\ queue'[c] # << >>
                /\ queue'[c][Len(queue'[c])] = 0 /\ Len(queue'[c]) <= QueueSize
             \/ c \in pages /\ Full(c) /\ queue'[c] = queue[c] /\ dropped'[c]
                /\ queue[c] # << >>
             \/ c \notin pages /\ queue'[c] = queue[c]
  <2>1. CASE c \in pages /\ ~Full(c)
    <3>1. queue'[c] = Append(queue[c], 0)
      BY <1>1, <2>1
    <3>2. Len(queue[c]) < QueueSize
      BY <1>2, <2>1 DEF Full
    <3> QED BY <1>2, <2>1, <3>1, <3>2, AppendForms, OlderForms
  <2>2. CASE c \in pages /\ Full(c)
    <3>1. queue[c] # << >>
      BY <1>2, <2>2, EmptySeq DEF Full
    <3> QED BY <1>1, <2>2, <3>1
  <2>3. CASE c \notin pages
    BY <1>1, <2>3
  <2> QED BY <2>1, <2>2, <2>3
<1>4. OverlayTypeOK'
  <2>1. queue' \in [Clients -> Seq(AgeOf)]
    BY <1>1, <1>2, <1>3
  <2>2. \A c \in Clients : Len(queue'[c]) <= QueueSize
    BY <1>2, <1>3
  <2>3. dropped' \in [Clients -> BOOLEAN] /\ overtaken' \in [Clients -> BOOLEAN]
    <3>1. \A c \in Clients : (c \in pages /\ Full(c)) \in BOOLEAN
            /\ (overtaken[c] /\ (c \notin pages \/ Full(c))) \in BOOLEAN
      OBVIOUS
    <3> QED BY <1>1, <3>1
  <2>4. latest' \in AgeOf \cup {None}
    BY <1>1, OlderForms
  <2> QED BY <1>1, <2>1, <2>2, <2>3, <2>4 DEF PagesInv, OverlayTypeOK
<1>5. ASSUME NEW c \in Clients PROVE Pipeline(c)'
  <2>1. Pipeline(c) /\ conn'[c] = conn[c] /\ snapshot'[c] = snapshot[c]
    BY <1>1 DEF PagesInv
  <2>2. c \in pages <=> conn[c] # "off"
    BY DEF Registered
  <2> QED BY <1>1, <1>3, <2>1, <2>2 DEF Pipeline, Newest
<1> QED BY <1>4, <1>5 DEF PagesInv

\* What a step of one page does to the others: nothing.
LEMMA OtherPages ==
    ASSUME PagesInv, NEW c \in Clients, PageStep(c), NEW d \in Clients, d # c
    PROVE  Pipeline(d)'
<1>1. /\ latest' = latest /\ conn'[d] = conn[d] /\ queue'[d] = queue[d]
      /\ snapshot'[d] = snapshot[d] /\ shown'[d] = shown[d]
      /\ dropped'[d] = dropped[d] /\ overtaken'[d] = overtaken[d]
  BY DEF PagesInv, OverlayTypeOK, PageStep, Subscribe, SendSnapshot, Stream, Leave
<1> QED BY <1>1 DEF PagesInv, Pipeline, Newest

LEMMA SubscribePages ==
    ASSUME PagesInv, NEW c \in Clients, Subscribe(c)
    PROVE  OverlayTypeOK' /\ Pipeline(c)'
<1>1. /\ conn[c] = "off" /\ queue[c] = << >>
      /\ conn' = [conn EXCEPT ![c] = IF latest = None THEN "streaming" ELSE "joining"]
      /\ snapshot' = [snapshot EXCEPT ![c] = latest]
      /\ UNCHANGED <<latest, queue, shown, dropped, overtaken>>
  BY DEF Subscribe, PagesInv, Pipeline
<1>2. conn'[c] = (IF latest = None THEN "streaming" ELSE "joining")
      /\ snapshot'[c] = latest
  BY <1>1 DEF PagesInv, OverlayTypeOK
<1>3. OverlayTypeOK'
  BY <1>1 DEF PagesInv, OverlayTypeOK
<1> QED BY <1>1, <1>2, <1>3 DEF Pipeline

LEMMA SendSnapshotPages ==
    ASSUME PagesInv, NEW c \in Clients, SendSnapshot(c)
    PROVE  OverlayTypeOK' /\ Pipeline(c)'
<1>1. /\ conn[c] = "joining" /\ ~Full(c) /\ snapshot[c] \in AgeOf
      /\ queue[c] \in Seq(AgeOf) /\ (queue[c] = << >> => snapshot[c] = latest)
      /\ Len(queue[c]) \in Nat /\ Len(queue[c]) < QueueSize
  <2>1. conn[c] = "joining" /\ ~Full(c) /\ Pipeline(c) /\ queue[c] \in Seq(AgeOf)
        /\ snapshot[c] \in AgeOf \cup {None}
    BY DEF SendSnapshot, PagesInv, OverlayTypeOK
  <2>2. Len(queue[c]) \in Nat /\ QueueSize \in Nat
    BY <2>1, LenProperties, OverlayAssumption
  <2> QED BY <2>1, <2>2 DEF Pipeline, Full
<1>2. /\ queue' = [queue EXCEPT ![c] = Append(queue[c], snapshot[c])]
      /\ overtaken' = [overtaken EXCEPT ![c] = queue[c] # << >>]
      /\ dropped' = [dropped EXCEPT ![c] = FALSE]
      /\ snapshot' = [snapshot EXCEPT ![c] = None]
      /\ conn' = [conn EXCEPT ![c] = "streaming"]
      /\ UNCHANGED <<latest, shown>>
  BY DEF SendSnapshot
<1>3. /\ Append(queue[c], snapshot[c]) \in Seq(AgeOf)
      /\ Append(queue[c], snapshot[c]) # << >>
      /\ Len(Append(queue[c], snapshot[c])) <= QueueSize
      /\ Append(queue[c], snapshot[c])[Len(Append(queue[c], snapshot[c]))] = snapshot[c]
  BY <1>1, AppendForms, OverlayAssumption
<1>4. /\ queue'[c] = Append(queue[c], snapshot[c]) /\ conn'[c] = "streaming"
      /\ overtaken'[c] = (queue[c] # << >>) /\ \A d \in Clients \ {c} : queue'[d] = queue[d]
  BY <1>2 DEF PagesInv, OverlayTypeOK
<1>5. OverlayTypeOK'
  <2>1. queue' \in [Clients -> Seq(AgeOf)]
    BY <1>2, <1>3 DEF PagesInv, OverlayTypeOK
  <2>2. \A d \in Clients : Len(queue'[d]) <= QueueSize
    BY <1>3, <1>4 DEF PagesInv, OverlayTypeOK
  <2>3. overtaken' \in [Clients -> BOOLEAN] /\ dropped' \in [Clients -> BOOLEAN]
    <3>1. (queue[c] # << >>) \in BOOLEAN
      OBVIOUS
    <3> QED BY <1>2, <3>1 DEF PagesInv, OverlayTypeOK
  <2>4. snapshot' \in [Clients -> AgeOf \cup {None}]
        /\ conn' \in [Clients -> {"off", "joining", "streaming"}]
    BY <1>2 DEF PagesInv, OverlayTypeOK
  <2> QED BY <1>2, <2>1, <2>2, <2>3, <2>4 DEF PagesInv, OverlayTypeOK
<1>6. Newest(c)' = snapshot[c]
  BY <1>3, <1>4 DEF Newest
<1>7. Newest(c)' = latest' \/ overtaken'[c]
  BY <1>1, <1>2, <1>4, <1>6
<1> QED BY <1>4, <1>5, <1>7 DEF Pipeline

LEMMA StreamPages ==
    ASSUME PagesInv, NEW c \in Clients, Stream(c)
    PROVE  OverlayTypeOK' /\ Pipeline(c)'
<1>1. /\ conn[c] = "streaming" /\ queue[c] # << >> /\ queue[c] \in Seq(AgeOf)
      /\ Len(queue[c]) \in Nat /\ Len(queue[c]) <= QueueSize /\ QueueSize \in Nat
  BY LenProperties, OverlayAssumption DEF Stream, PagesInv, OverlayTypeOK
<1>2. /\ shown' = [shown EXCEPT ![c] = Head(queue[c])]
      /\ queue' = [queue EXCEPT ![c] = Tail(queue[c])]
      /\ UNCHANGED <<latest, conn, snapshot, dropped, overtaken>>
  BY DEF Stream
<1>3. /\ Head(queue[c]) \in AgeOf /\ Tail(queue[c]) \in Seq(AgeOf)
      /\ Len(Tail(queue[c])) <= QueueSize
      /\ Tail(queue[c]) = << >> => Head(queue[c]) = queue[c][Len(queue[c])]
      /\ Tail(queue[c]) # << >> =>
           Tail(queue[c])[Len(Tail(queue[c]))] = queue[c][Len(queue[c])]
  BY <1>1, TailForms
<1>4. /\ queue'[c] = Tail(queue[c]) /\ shown'[c] = Head(queue[c])
      /\ \A d \in Clients \ {c} : queue'[d] = queue[d]
  BY <1>2 DEF PagesInv, OverlayTypeOK
<1>5. OverlayTypeOK'
  <2>1. queue' \in [Clients -> Seq(AgeOf)] /\ shown' \in [Clients -> AgeOf \cup {None}]
    BY <1>2, <1>3 DEF PagesInv, OverlayTypeOK
  <2>2. \A d \in Clients : Len(queue'[d]) <= QueueSize
    BY <1>3, <1>4 DEF PagesInv, OverlayTypeOK
  <2> QED BY <1>2, <2>1, <2>2 DEF PagesInv, OverlayTypeOK
<1>6. Newest(c)' = Newest(c)
  BY <1>1, <1>3, <1>4 DEF Newest
<1> QED BY <1>1, <1>2, <1>5, <1>6 DEF PagesInv, Pipeline

LEMMA LeavePages ==
    ASSUME PagesInv, NEW c \in Clients, Leave(c)
    PROVE  OverlayTypeOK' /\ Pipeline(c)'
<1>1. /\ conn' = [conn EXCEPT ![c] = "off"] /\ queue' = [queue EXCEPT ![c] = << >>]
      /\ shown' = [shown EXCEPT ![c] = None]
      /\ dropped' = [dropped EXCEPT ![c] = FALSE]
      /\ overtaken' = [overtaken EXCEPT ![c] = FALSE]
      /\ UNCHANGED <<latest, snapshot>>
  BY DEF Leave
<1>2. << >> \in Seq(AgeOf) /\ Len(<< >>) <= QueueSize
  BY EmptySeq, OverlayAssumption
<1>3. /\ queue'[c] = << >> /\ conn'[c] = "off"
      /\ \A d \in Clients \ {c} : queue'[d] = queue[d]
  BY <1>1 DEF PagesInv, OverlayTypeOK
<1>4. queue' \in [Clients -> Seq(AgeOf)]
  BY <1>1, <1>2 DEF PagesInv, OverlayTypeOK
<1>5. \A d \in Clients : Len(queue'[d]) <= QueueSize
  BY <1>2, <1>3 DEF PagesInv, OverlayTypeOK
<1>6. OverlayTypeOK'
  BY <1>1, <1>4, <1>5 DEF PagesInv, OverlayTypeOK
<1> QED BY <1>3, <1>6 DEF Pipeline

LEMMA NextPagesInv == PagesInv /\ [Next]_vars => PagesInv'
<1> SUFFICES ASSUME PagesInv, [Next]_vars PROVE PagesInv'
  OBVIOUS
<1>1. ASSUME UNCHANGED overlayVars PROVE PagesInv'
  BY <1>1 DEF overlayVars, PagesInv, OverlayTypeOK, Pipeline, Newest
<1>2. CASE Publish
  BY <1>1, <1>2, AgeFramesPages DEF Publish
<1>3. CASE Write
  BY <1>1, <1>3 DEF Write
<1>4. CASE Show
  BY <1>4, BroadcastPages DEF Show
<1>5. CASE Page
  <2>1. PICK c \in Clients : PageStep(c)
    BY <1>5 DEF Page
  <2>2. OverlayTypeOK' /\ Pipeline(c)'
    BY <2>1, SubscribePages, SendSnapshotPages, StreamPages, LeavePages
    DEF PageStep
  <2> QED BY <2>1, <2>2, OtherPages DEF PagesInv
<1>6. CASE Restart
  <2>1. /\ latest' = None /\ conn' = [c \in Clients |-> "off"]
        /\ queue' = [c \in Clients |-> << >>]
        /\ snapshot' = [c \in Clients |-> None] /\ shown' = [c \in Clients |-> None]
        /\ dropped' = [c \in Clients |-> FALSE]
        /\ overtaken' = [c \in Clients |-> FALSE]
    BY <1>6 DEF Restart
  <2>2. << >> \in Seq(AgeOf) /\ Len(<< >>) <= QueueSize
    BY EmptySeq, OverlayAssumption
  <2>3. OverlayTypeOK'
    BY <2>1, <2>2 DEF OverlayTypeOK
  <2>4. \A c \in Clients : Pipeline(c)'
    BY <2>1 DEF Pipeline
  <2> QED BY <2>3, <2>4 DEF PagesInv
<1>7. CASE UNCHANGED vars
  BY <1>1, <1>7 DEF vars
<1> QED BY <1>2, <1>3, <1>4, <1>5, <1>6, <1>7 DEF Next

\* However pages come, go and fall behind, a page that was sent all there was for
\* it shows the server's latest state, unless that one did not fit into its queue
\* or the page's snapshot was queued behind a newer state.
THEOREM PagesCatchUp == Spec => []DrainedShowsLatest
<1>1. PagesInv => DrainedShowsLatest
  BY DEF PagesInv, Pipeline, Newest, DrainedShowsLatest
<1> QED BY <1>1, InitPagesInv, NextPagesInv, PTL DEF Spec

\* The variables of the Writer and of the server keep their types.
THEOREM TypeCorrect == Spec => []TypeOK
<1> DEFINE Bounded == pc \in {"idle", "publish"} /\ restarts \in 0..MaxRestarts
<1>1. Init => Bounded
  BY PublishingAssumption DEF Init
<1>2. Bounded /\ [Next]_vars => Bounded'
  <2> SUFFICES ASSUME Bounded, [Next]_vars PROVE Bounded'
    OBVIOUS
  <2>1. CASE Restart
    BY <2>1, PublishingAssumption DEF Restart
  <2>2. CASE Publish \/ Write \/ Show \/ Page \/ UNCHANGED vars
    <3>1. restarts' = restarts
      BY <2>2 DEF Publish, Write, Show, Page, vars
    <3>2. pc' \in {"idle", "publish"}
      BY <2>2 DEF Publish, Write, Show, Page, vars
    <3> QED BY <3>1, <3>2
  <2> QED BY <2>1, <2>2 DEF Next
<1>3. FileInv /\ PagesInv /\ Bounded => TypeOK
  BY DEF FileInv, PagesInv, TypeOK
<1> HIDE DEF Bounded
<1> QED BY <1>1, <1>2, <1>3, FileInvariance, InitPagesInv, NextPagesInv, PTL DEF Spec
=============================================================================
