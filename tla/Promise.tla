------------------------------ MODULE Promise ------------------------------
(***************************************************************************)
(* What the sidecar and the mod together promise about each decision of    *)
(* the chat, whichever of them crashes, reloads or is paused: a decision   *)
(* is put on show once, the game takes it before it is gone, and carries   *)
(* it out at most once a session.                                          *)
(***************************************************************************)
EXTENDS Naturals

CONSTANT Decisions

VARIABLES
    fate,     \* how the game's session stands to each decision
    past,     \* the decisions that have been put on show
    session,  \* the game's sessions so far
    excuse    \* TRUE while a decision may be missed

Fates == {"unknown", "shown", "announced", "executed", "refused"}

Init ==
    /\ fate = [d \in Decisions |-> "unknown"]
    /\ past = {} /\ session = 0 /\ excuse \in BOOLEAN

\* What may become of a decision within a session.
Moves(d) ==
    \/ d \notin past /\ fate[d] = "unknown" /\ fate'[d] = "shown"
    \/ fate[d] = "shown" /\ fate'[d] \in {"announced", "executed", "refused"}
    \/ fate[d] = "announced" /\ fate'[d] = "executed"
    \/ excuse /\ fate[d] \in {"shown", "announced"} /\ fate'[d] = "unknown"

Onward ==
    /\ \A d \in Decisions : fate'[d] = fate[d] \/ Moves(d)
    /\ UNCHANGED session

\* A new session forgets, and takes up what is still on show.
Restart ==
    /\ session' = session + 1
    /\ \A d \in Decisions : fate'[d] # "unknown" => fate'[d] = "shown" /\ d \in past

Next ==
    /\ Onward \/ Restart
    /\ fate' \in [Decisions -> Fates]
    /\ past' = past \cup {d \in Decisions : fate'[d] # "unknown"}
    /\ excuse' \in BOOLEAN

Spec == Init /\ [][Next]_<<fate, past, session, excuse>>
=============================================================================
