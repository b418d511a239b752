----------------------------- MODULE BridgeFile -----------------------------
(***************************************************************************)
(* How a published state gets into chaos_state.json: Writer and            *)
(* writeAtomic of vote-engine/internal/bridge/writer.go.                   *)
(*                                                                         *)
(* Every call to the file system is a step and may fail.  Between any two  *)
(* the mod may read, and the sidecar may die.                              *)
(***************************************************************************)
EXTENDS Ages

CONSTANTS
    Torn,        \* the content of a file that is only partly written
    Platforms    \* whether renaming over an existing file works

ASSUME FileAssumption ==
    /\ Torn \notin Nat /\ Torn # None
    /\ Platforms \subseteq BOOLEAN

VARIABLES
    overwrites,   \* whether this platform renames over an existing file
    file,         \* chaos_state.json: a state, or None
    tmp,          \* chaos_state.json.tmp: a state, Torn or None
    last,         \* Writer.last: the state it takes for written, or None
    step          \* where writeAtomic is

fileVars == <<overwrites, file, tmp, last, step>>

FileTypeOK ==
    /\ overwrites \in BOOLEAN
    /\ file \in AgeOf \cup {None, Torn}
    /\ tmp \in AgeOf \cup {None, Torn}
    /\ last \in AgeOf \cup {None}
    /\ step \in {"done", "create", "fill", "rename", "remove", "again", "clean"}

FileInit ==
    /\ overwrites \in Platforms
    /\ file = None /\ tmp = None /\ last = None /\ step = "done"

AgeFile ==
    /\ file' = Older(file) /\ tmp' = Older(tmp) /\ last' = Older(last)

\* Writer.Write up to writeAtomic, with a new state or with the same bytes again.
BeginWrite(new) ==
    /\ IF new THEN AgeFile ELSE UNCHANGED <<file, tmp, last>>
    /\ step' = IF last' = 0 THEN "done" ELSE "create"
    /\ UNCHANGED overwrites

\* os.WriteFile creates or empties the temporary file, then fills it.
CreateTmp ==
    /\ step = "create"
    /\ \/ tmp' = Torn /\ step' = "fill"
       \/ UNCHANGED tmp /\ step' = "done"
    /\ UNCHANGED <<overwrites, file, last>>

\* Mutant: an error of os.WriteFile is ignored.
FillTmpOrGoOn ==
    /\ step = "fill"
    /\ tmp' \in {0, tmp} /\ step' = "rename"
    /\ UNCHANGED <<overwrites, file, last>>

FillTmp ==
    /\ step = "fill"
    /\ \/ tmp' = 0 /\ step' = "rename"
       \/ UNCHANGED tmp /\ step' = "done"
    /\ UNCHANGED <<overwrites, file, last>>

Replace ==
    /\ overwrites \/ file = None
    /\ file' = tmp /\ tmp' = None /\ last' = 0
    /\ step' = "done"

Rename ==
    /\ step = "rename"
    /\ Replace \/ (step' = "remove" /\ UNCHANGED <<file, tmp, last>>)
    /\ UNCHANGED overwrites

\* Mutant: the old file is left where it is.
RemoveNothing ==
    /\ step = "remove" /\ step' = "again"
    /\ UNCHANGED <<overwrites, file, tmp, last>>

Remove ==
    /\ step = "remove" /\ step' = "again"
    /\ file' \in {None, file}
    /\ UNCHANGED <<overwrites, tmp, last>>

RenameAgain ==
    /\ step = "again"
    /\ Replace \/ (step' = "clean" /\ UNCHANGED <<file, tmp, last>>)
    /\ UNCHANGED overwrites

\* Mutant: the state counts as written although it is not.
CleanUpAsWritten ==
    /\ step = "clean" /\ step' = "done"
    /\ tmp' \in {None, tmp} /\ last' = 0
    /\ UNCHANGED <<overwrites, file>>

CleanUp ==
    /\ step = "clean" /\ step' = "done"
    /\ tmp' \in {None, tmp}
    /\ UNCHANGED <<overwrites, file, last>>

WriteStep ==
    CreateTmp \/ FillTmp \/ Rename \/ Remove \/ RenameAgain \/ CleanUp

\* The sidecar ends, wherever it is, and is started again.
RestartWriter ==
    /\ last' = None /\ step' = "done"
    /\ UNCHANGED <<overwrites, file, tmp>>
=============================================================================
