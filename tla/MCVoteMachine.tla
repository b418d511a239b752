--------------------------- MODULE MCVoteMachine ---------------------------
(* A small instance of VoteMachine, with the account of Countdown, for TLC. *)
EXTENDS Countdown, TLC

CONSTANTS e1, e2, e3, v1, v2, v3

Three == {e1, e2, e3}
ThreeSeconds == (e1 :> 2) @@ (e2 :> 0) @@ (e3 :> 3)

ThreeVoters == {v1, v2, v3}

Config(n, duration, cooldown, lead, avoid) ==
    [OptionsPerRound |-> n, VoteDuration |-> duration, Cooldown |-> cooldown,
     ApplyHold |-> 1, AnnounceLead |-> lead, AvoidImmediateRepeat |-> avoid]

MenuSends(n, duration, cooldown) ==
    [VoteDuration |-> duration, Cooldown |-> cooldown, HasCooldown |-> TRUE,
     Options |-> n]

\* Two options, a cooldown between rounds, no heads-up; and with a heads-up.
MCConfigs == {Config(2, 3, 1, 0, TRUE), Config(3, 1, 0, 1, FALSE)}

\* The menu shrinks the round and drops the cooldown, or sends what is ignored.
MCReconfigs == {MenuSends(2, 1, 0), MenuSends(10, 0, -1)}
=============================================================================
