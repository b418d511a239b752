----------------------------- MODULE MCDelivery -----------------------------
(* Small instances of Delivery for TLC. *)
EXTENDS Delivery

MCCategory == [e \in Events |-> "bad"]
MCBaseSeconds == [e \in Timed |-> 1]
AllGates == {Gates}
NoSeconds == [e \in Events |-> 0]

\* A winner stays on show longer than a tick of the mod takes, with and without
\* a heads-up, and a vote is longer than the heads-up.
MCConfigs ==
    {[OptionsPerRound |-> 2, VoteDuration |-> 3, Cooldown |-> 0, ApplyHold |-> 2,
      AnnounceLead |-> lead, AvoidImmediateRepeat |-> TRUE] : lead \in Leads}
=============================================================================
