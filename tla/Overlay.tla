------------------------------- MODULE Overlay -------------------------------
(***************************************************************************)
(* The server that streams published states to overlay pages:              *)
(* vote-engine/internal/overlay/server.go.                                 *)
(*                                                                         *)
(* Broadcast runs under the server's lock on the machine's goroutine; each *)
(* page has a goroutine in handleEvents, which registers it, sends it the  *)
(* latest state and then streams from its queue.                           *)
(***************************************************************************)
EXTENDS Ages, Sequences

CONSTANTS
    Clients,     \* the pages that may connect
    QueueSize    \* room in a page's channel

ASSUME OverlayAssumption == QueueSize \in Nat \ {0}

VARIABLES
    latest,      \* Server.latest, or None
    conn,        \* page -> "off", "joining" (in subscribe) or "streaming"
    queue,       \* page -> its channel
    snapshot,    \* page -> the state subscribe is about to send, or None
    shown,       \* page -> the state it was sent last, or None
    dropped,     \* history: page -> the latest broadcast found its queue full
    overtaken    \* history: page -> its snapshot was queued after a newer state

overlayVars == <<latest, conn, queue, snapshot, shown, dropped, overtaken>>

OverlayTypeOK ==
    /\ latest \in AgeOf \cup {None}
    /\ conn \in [Clients -> {"off", "joining", "streaming"}]
    /\ queue \in [Clients -> Seq(AgeOf)]
    /\ \A c \in Clients : Len(queue[c]) <= QueueSize
    /\ snapshot \in [Clients -> AgeOf \cup {None}]
    /\ shown \in [Clients -> AgeOf \cup {None}]
    /\ dropped \in [Clients -> BOOLEAN] /\ overtaken \in [Clients -> BOOLEAN]

OverlayInit ==
    /\ latest = None
    /\ conn = [c \in Clients |-> "off"]
    /\ queue = [c \in Clients |-> << >>]
    /\ snapshot = [c \in Clients |-> None] /\ shown = [c \in Clients |-> None]
    /\ dropped = [c \in Clients |-> FALSE] /\ overtaken = [c \in Clients |-> FALSE]

\* Every state the server and its pages have ages with the next publication.
AgeFrames ==
    /\ latest' = Older(latest)
    /\ queue' = [c \in Clients |-> [i \in DOMAIN queue[c] |-> Older(queue[c][i])]]
    /\ snapshot' = [c \in Clients |-> Older(snapshot[c])]
    /\ shown' = [c \in Clients |-> Older(shown[c])]
    /\ UNCHANGED <<conn, dropped, overtaken>>

Registered(c) == conn[c] # "off"
Full(c) == Len(queue[c]) >= QueueSize

\* Send the newest state to the pages of a set; what does not fit is dropped.
SendTo(pages) ==
    /\ latest' = 0
    /\ queue' = [c \in Clients |-> IF c \in pages /\ ~Full(c)
                                     THEN Append(queue[c], 0) ELSE queue[c]]
    /\ dropped' = [c \in Clients |-> c \in pages /\ Full(c)]
    /\ overtaken' = [c \in Clients |-> overtaken[c] /\ (c \notin pages \/ Full(c))]
    /\ UNCHANGED <<conn, snapshot, shown>>

\* Mutants: wait for room in every queue; leave out the pages in subscribe.
BroadcastOrWait ==
    /\ \A c \in Clients : Registered(c) => ~Full(c)
    /\ SendTo({c \in Clients : Registered(c)})

BroadcastStreaming == SendTo({c \in Clients : conn[c] = "streaming"})

Broadcast == SendTo({c \in Clients : Registered(c)})

\* subscribe, up to where it releases the lock.
Subscribe(c) ==
    /\ conn[c] = "off"
    /\ conn' = [conn EXCEPT ![c] = IF latest = None THEN "streaming" ELSE "joining"]
    /\ snapshot' = [snapshot EXCEPT ![c] = latest]
    /\ UNCHANGED <<latest, queue, shown, dropped, overtaken>>

\* The rest of subscribe: a send that waits for room.
SendSnapshot(c) ==
    /\ conn[c] = "joining" /\ ~Full(c)
    /\ queue' = [queue EXCEPT ![c] = Append(@, snapshot[c])]
    /\ overtaken' = [overtaken EXCEPT ![c] = queue[c] # << >>]
    /\ dropped' = [dropped EXCEPT ![c] = FALSE]
    /\ snapshot' = [snapshot EXCEPT ![c] = None]
    /\ conn' = [conn EXCEPT ![c] = "streaming"]
    /\ UNCHANGED <<latest, shown>>

\* handleEvents receives and writes one state.
Stream(c) ==
    /\ conn[c] = "streaming" /\ queue[c] # << >>
    /\ shown' = [shown EXCEPT ![c] = Head(queue[c])]
    /\ queue' = [queue EXCEPT ![c] = Tail(@)]
    /\ UNCHANGED <<latest, conn, snapshot, dropped, overtaken>>

\* The page goes away; subscribe does not notice, the stream does.
Leave(c) ==
    /\ conn[c] = "streaming"
    /\ conn' = [conn EXCEPT ![c] = "off"]
    /\ queue' = [queue EXCEPT ![c] = << >>]
    /\ shown' = [shown EXCEPT ![c] = None]
    /\ dropped' = [dropped EXCEPT ![c] = FALSE]
    /\ overtaken' = [overtaken EXCEPT ![c] = FALSE]
    /\ UNCHANGED <<latest, snapshot>>

PageStep(c) == Subscribe(c) \/ SendSnapshot(c) \/ Stream(c) \/ Leave(c)
=============================================================================
