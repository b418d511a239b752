------------------------------ MODULE PickLog ------------------------------
(***************************************************************************)
(* The Picker on its own, driven by rounds of changing size at arbitrary   *)
(* times, with a log of every pick against an absolute clock.  The Picker  *)
(* keeps only the last pick of each event; the properties are about the    *)
(* log.                                                                    *)
(***************************************************************************)
EXTENDS Picker

CONSTANTS
    Sizes,      \* the round sizes asked for
    MaxPicks,   \* bound: picks
    MaxGap      \* bound: time between two picks

\* Nobody asks for a negative number of options (make would panic).
ASSUME SizesAssumption == Sizes \subseteq Nat /\ MaxGap \in Nat

VARIABLES
    now,        \* history: absolute time
    log         \* history: of every pick

logVars == <<pickerVars, now, log>>

LogInit == NewPicker /\ now = 0 /\ log = << >>

PickRound(n, avoidRepeat, d) ==
    /\ Len(log) < MaxPicks
    /\ Pick(n, avoidRepeat, d)
    /\ now' = now + d
    /\ log' = Append(log, [at |-> now + d, size |-> n, avoid |-> avoidRepeat,
                           offered |-> Range(options'), slots |-> Len(options')])

LogNext ==
    \E n \in Sizes, avoidRepeat \in BOOLEAN, d \in 1..MaxGap :
        PickRound(n, avoidRepeat, d)

LogSpec == LogInit /\ [][LogNext]_logVars

-----------------------------------------------------------------------------
Offered(i) == log[i].offered

\* The events whose every earlier offer lies a cooldown or more before pick j.
Rested(j) ==
    {e \in Events : \A i \in 1..j-1 :
        e \in Offered(i) => log[j].at - log[i].at >= CooldownSeconds[e]}

Wanted(j) == Capped(log[j].size, Events)

\* A round of the size asked for (or of the whole catalog) is always formed, no
\* event twice in it, and an event comes back before its cooldown is over only when
\* the events that have rested are too few for the round.
CooldownHonoured ==
    \A j \in 1..Len(log) :
        /\ log[j].slots = Wanted(j) /\ Cardinality(Offered(j)) = Wanted(j)
        /\ Offered(j) \subseteq Rested(j) \/ Cardinality(Rested(j)) < Wanted(j)

\* With the repeat guard on, an event of the last round comes back only when the
\* rested events outside that round are too few.
RepeatOnlyWhenStarved ==
    \A j \in 2..Len(log) :
        log[j].avoid =>
          \/ Offered(j) \cap Offered(j-1) = {}
          \/ Cardinality(Rested(j) \ Offered(j-1)) < Wanted(j)
=============================================================================
