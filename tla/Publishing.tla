----------------------------- MODULE Publishing -----------------------------
(***************************************************************************)
(* What becomes of each state the machine publishes: main.go hands it      *)
(* first to the Writer, then to the overlay server, on the machine's own   *)
(* goroutine, while overlay pages come and go.                             *)
(***************************************************************************)
EXTENDS BridgeFile, Overlay

CONSTANT MaxRestarts    \* bound: restarts of the sidecar

ASSUME PublishingAssumption == MaxRestarts \in Nat

VARIABLES
    pc,         \* the machine's goroutine: "idle" or in "publish"
    restarts    \* restarts of the sidecar so far

vars == <<fileVars, overlayVars, pc, restarts>>

TypeOK ==
    /\ FileTypeOK /\ OverlayTypeOK
    /\ pc \in {"idle", "publish"} /\ restarts \in 0..MaxRestarts

Init == FileInit /\ OverlayInit /\ pc = "idle" /\ restarts = 0

\* The next tick's state goes to the Writer, ...
Publish ==
    /\ pc = "idle" /\ pc' = "publish"
    /\ \/ BeginWrite(TRUE) /\ AgeFrames
       \/ latest # None /\ BeginWrite(FALSE) /\ UNCHANGED overlayVars
    /\ UNCHANGED restarts

Write ==
    /\ pc = "publish" /\ WriteStep
    /\ UNCHANGED <<overlayVars, pc, restarts>>

\* ... and, whether or not that could write it, to the overlay.
Show ==
    /\ pc = "publish" /\ step = "done"
    /\ Broadcast
    /\ pc' = "idle"
    /\ UNCHANGED <<fileVars, restarts>>

Page ==
    /\ \E c \in Clients : PageStep(c)
    /\ UNCHANGED <<fileVars, pc, restarts>>

Restart ==
    /\ restarts < MaxRestarts /\ restarts' = restarts + 1
    /\ RestartWriter
    /\ latest' = None
    /\ conn' = [c \in Clients |-> "off"]
    /\ queue' = [c \in Clients |-> << >>]
    /\ snapshot' = [c \in Clients |-> None] /\ shown' = [c \in Clients |-> None]
    /\ dropped' = [c \in Clients |-> FALSE]
    /\ overtaken' = [c \in Clients |-> FALSE]
    /\ pc' = "idle"

Next == Publish \/ Write \/ Show \/ Page \/ Restart

Spec == Init /\ [][Next]_vars

\* The machine's goroutine runs; a call to the file system that is made again
\* and again does not fail for ever.  No page owes a step.
Fairness ==
    /\ WF_vars(Publish) /\ WF_vars(Write) /\ WF_vars(Show)
    /\ SF_vars(Write /\ CreateTmp /\ step' = "fill")
    /\ SF_vars(Write /\ FillTmp /\ step' = "rename")
    /\ SF_vars(Write /\ Remove /\ file' = None)
    /\ SF_vars(Write /\ RenameAgain /\ step' = "done")

FairSpec == Spec /\ Fairness

-----------------------------------------------------------------------------
\* As state.go promises of the bridge file: whatever fails, and wherever the
\* sidecar dies, the mod never reads a torn file.
FileIsWhole == file # Torn

\* What the Writer takes for written, and would skip, is what the file holds, if
\* there is a file at all.
SkipIsSound == last # None /\ file # None => file = last

\* A page that has been sent all there was for it shows the server's latest
\* state, unless that was dropped for want of room or its snapshot came after it.
DrainedShowsLatest ==
    \A c \in Clients :
        conn[c] = "streaming" /\ queue[c] = << >> /\ latest # None
          => shown[c] = latest \/ dropped[c] \/ overtaken[c]

\* Whatever the pages do or fail to do, publishing goes on.
PublishNeverStalls == []<>(pc = "idle")

\* The file catches up with the machine again and again, even where a rename
\* never replaces a file and calls fail now and then.
FileCatchesUp == []<>(file = 0)
=============================================================================
