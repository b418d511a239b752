----------------------------- MODULE ChatSource -----------------------------
(***************************************************************************)
(* A chat source of the sidecar: Run and session of                        *)
(* vote-engine/internal/chat/allchat_ws.go and twitch_irc.go, which differ *)
(* in what a reconnection asks for and in what is fatal, and Run of        *)
(* fake.go, which connects to nothing and makes up its messages.           *)
(*                                                                         *)
(* Messages are numbered in the order in which the service sends them.     *)
(* All-chat's service has a time for each, in nanoseconds and in order,    *)
(* and some may have the same.  What it sends of a message may leave the   *)
(* time out, which the source then takes from its own clock.  A            *)
(* reconnection asks for what is later than a time in milliseconds.        *)
(***************************************************************************)
EXTENDS Integers, Sequences

CONSTANTS
    Kinds,         \* of "all-chat", "twitch" and "simulate", those to consider
    Chatter,       \* the messages of all-chat that are chat, not events, pings, ...
    Privmsgs,      \* the lines of Twitch that are chat
    Stamp,         \* message -> when all-chat's service had it
    Undated,       \* the messages all-chat's service sends without that time
    Clock,         \* what the sidecar's clock may show, early, late or set back
    Configured,    \* whether all-chat's address can be built from the configuration
    Room,          \* room in the channel to the machine
    MaxPosted,     \* bound: messages posted
    MaxTroubles    \* bound: changes of the service and broken connections

Milli == 1000000

\* Times are later than the first millisecond of the epoch.
ASSUME ChatAssumption ==
    /\ Kinds \subseteq {"all-chat", "twitch", "simulate"}
    /\ MaxPosted \in Nat /\ MaxTroubles \in Nat /\ Room \in Nat \ {0}
    /\ Chatter \subseteq 1..MaxPosted /\ Privmsgs \subseteq 1..MaxPosted
    /\ Configured \subseteq BOOLEAN
    /\ Undated \subseteq 1..MaxPosted
    /\ Clock \subseteq Nat /\ \A t \in Clock : t >= Milli
    /\ Stamp \in [1..MaxPosted -> Nat] /\ \A m \in 1..MaxPosted : Stamp[m] >= Milli
    /\ \A m, n \in 1..MaxPosted : m <= n => Stamp[m] <= Stamp[n]

VARIABLES
    kind,        \* which source this is
    service,     \* "up", "down", or "gone": it answers 404
    posted,      \* how many messages the service has had
    troubles,    \* service changes and broken connections so far
    cancelled,   \* the context is cancelled
    phase,       \* where Run and session are
    backoff,     \* in seconds
    lastMs,      \* Run's: the milliseconds a reconnection asks from
    seen,        \* session's lastSeen
    sent,        \* the last message the service sent on this connection
    broken,      \* this connection has died
    handed,      \* history: the messages put into the channel, in order: the number
                 \* of each and its TS, 0 from the sources where nobody reads it
    waiting,     \* how many of them are still in it
    result       \* what Run returned, "none" as long as it runs

svcVars == <<kind, service, posted, troubles>>
vars == <<svcVars, cancelled, phase, backoff, lastMs, seen, sent, broken, handed,
          waiting, result>>

Backoffs == {1, 2, 4, 8, 16, 30}

TypeOK ==
    /\ kind \in Kinds /\ service \in {"up", "down", "gone"}
    /\ posted \in 0..MaxPosted /\ troubles \in 0..MaxTroubles
    /\ cancelled \in BOOLEAN /\ broken \in BOOLEAN
    /\ phase \in {"start", "dial", "read", "hand", "wait", "returned"}
    /\ backoff \in Backoffs
    /\ lastMs \in Nat /\ seen \in Nat /\ sent \in 0..posted
    /\ handed \in Seq([no : 1..posted, ts : Nat]) /\ waiting \in 0..Room
    /\ result \in {"none", "nil", "fatal"}

Init ==
    /\ kind \in Kinds /\ service = "up" /\ posted = 0 /\ troubles = 0
    /\ cancelled = FALSE /\ backoff = 1
    /\ phase = IF kind = "simulate" THEN "read" ELSE "start"
    /\ lastMs = 0 /\ seen = 0 /\ sent = 0 /\ broken = FALSE
    /\ handed = << >> /\ waiting = 0 /\ result = "none"

-----------------------------------------------------------------------------
(* What happens to the source.                                              *)

Post ==
    /\ kind # "simulate"
    /\ posted < MaxPosted /\ posted' = posted + 1
    /\ UNCHANGED <<kind, service, troubles, cancelled, phase, backoff, lastMs, seen,
                   sent, broken, handed, waiting, result>>

Trouble ==
    /\ kind # "simulate"
    /\ troubles < MaxTroubles /\ troubles' = troubles + 1
    /\ \/ service' \in {"up", "down", "gone"} \ {service} /\ UNCHANGED broken
       \/ broken' = TRUE /\ phase \in {"read", "hand"} /\ UNCHANGED service
    /\ UNCHANGED <<kind, posted, cancelled, phase, backoff, lastMs, seen, sent,
                   handed, waiting, result>>

Cancel ==
    /\ ~cancelled /\ cancelled' = TRUE
    /\ UNCHANGED <<svcVars, phase, backoff, lastMs, seen, sent, broken, handed,
                   waiting, result>>

\* The machine's select takes the next message; it stops at the cancellation.
Receive ==
    /\ waiting > 0 /\ waiting' = waiting - 1
    /\ UNCHANGED <<svcVars, cancelled, phase, backoff, lastMs, seen, sent, broken,
                   handed, result>>

-----------------------------------------------------------------------------
(* Run and session.                                                         *)

\* Mutant: what a session returns replaces the timestamp, a failed dial's 0 too.
LaterOf(ms, before) == ms

Later(ms, before) == IF ms > before THEN ms ELSE before

Return(what) == phase' = "returned" /\ result' = what /\ UNCHANGED backoff

\* Run once session has returned: done, or wait and dial again.
AfterSession(fatal, stable) ==
    IF cancelled THEN Return("nil")
    ELSE IF fatal THEN Return("fatal")
    ELSE /\ backoff' = IF stable THEN 1 ELSE backoff
         /\ phase' = "wait" /\ UNCHANGED result

EndSession(ms, fatal, stable) ==
    /\ lastMs' = IF kind = "all-chat" THEN Later(ms, lastMs) ELSE lastMs
    /\ AfterSession(fatal, stable)
    /\ UNCHANGED <<svcVars, cancelled, seen, sent, broken, handed, waiting>>

\* BuildAllChatURL succeeds or fails once and for all: what it is given is constant
\* but for the timestamp.
Start ==
    /\ phase = "start"
    /\ \/ /\ kind = "twitch" \/ TRUE \in Configured
          /\ phase' = "dial" /\ UNCHANGED <<backoff, result>>
       \/ kind = "all-chat" /\ FALSE \in Configured /\ Return("fatal")
    /\ UNCHANGED <<svcVars, cancelled, lastMs, seen, sent, broken, handed, waiting>>

\* The URL asks for what is later than a number of milliseconds, if there is one.
\* The service then resumes behind the message m, by its own times, and otherwise
\* with what comes next.
ResumesBehind(m, ms) ==
    IF ms > 0 THEN \A n \in 1..posted : n <= m <=> Stamp[n] <= ms * Milli
              ELSE m = posted

Connect ==
    /\ phase = "dial" /\ service = "up"
    /\ phase' = "read" /\ broken' = FALSE
    /\ seen' = lastMs
    /\ sent' \in 0..posted /\ ResumesBehind(sent', lastMs)
    /\ UNCHANGED <<svcVars, cancelled, backoff, lastMs, handed, waiting, result>>

\* A dial gives up after ten seconds at most, too few to count as stable.
DialFails ==
    /\ phase = "dial" /\ (service # "up" \/ cancelled)
    /\ EndSession(0, service = "gone" /\ kind = "all-chat", FALSE)

\* decodeEnvelope and ParseAllChatData: a chat_message that is no event.
IsChatData(m) == m \in Chatter

\* What ParseAllChatData may take for the time of a message: the one it came with,
\* or time.Now().
TimesOf(m) ==
    IF kind # "all-chat" THEN {0} ELSE IF m \in Undated THEN Clock ELSE {Stamp[m]}

\* Mutant: seconds in place of milliseconds, Unix() * 1000.
UnixSeconds(t) == (t \div (1000 * Milli)) * 1000

UnixMilli(t) == t \div Milli

\* parsePrivmsg: a PRIVMSG line, with or without tags.
IsPrivmsg(m) == m \in Privmsgs

IsChat(m) == IF kind = "twitch" THEN IsPrivmsg(m) ELSE IsChatData(m)

Read ==
    /\ phase = "read" /\ sent < posted
    /\ sent' = sent + 1
    /\ phase' = IF IsChat(sent') THEN "hand" ELSE "read"
    /\ UNCHANGED <<svcVars, cancelled, backoff, lastMs, seen, broken, handed,
                   waiting, result>>

\* The simulation's ticker: a made-up vote.
Emit ==
    /\ kind = "simulate" /\ phase = "read"
    /\ posted < MaxPosted /\ posted' = posted + 1
    /\ sent' = posted' /\ phase' = "hand"
    /\ UNCHANGED <<kind, service, troubles, cancelled, backoff, lastMs, seen, broken,
                   handed, waiting, result>>

\* A connection that has died, or that the context closes, fails at a deadline
\* at the latest.
ReadFails ==
    /\ phase = "read" /\ (broken \/ cancelled \/ service # "up")
    /\ \E stable \in BOOLEAN : EndSession(seen, FALSE, stable)

\* Mutant: a message that does not fit is dropped.
HandOverOrDrop ==
    /\ phase = "hand" /\ phase' = "read"
    /\ \E ts \in TimesOf(sent) :
          /\ IF waiting < Room
               THEN /\ handed' = Append(handed, [no |-> sent, ts |-> ts])
                    /\ waiting' = waiting + 1
               ELSE UNCHANGED <<handed, waiting>>
          /\ seen' = IF kind = "all-chat" THEN Later(UnixMilli(ts), seen) ELSE seen
    /\ UNCHANGED <<svcVars, cancelled, backoff, lastMs, sent, broken, result>>

HandOver ==
    /\ phase = "hand" /\ phase' = "read"
    /\ waiting < Room /\ waiting' = waiting + 1
    /\ \E ts \in TimesOf(sent) :
          /\ handed' = Append(handed, [no |-> sent, ts |-> ts])
          /\ seen' = IF kind = "all-chat" THEN Later(UnixMilli(ts), seen) ELSE seen
    /\ UNCHANGED <<svcVars, cancelled, backoff, lastMs, sent, broken, result>>

\* Mutant: a full channel is waited for, whatever happens to the context.
GiveUpNever == FALSE /\ UNCHANGED vars

GiveUp ==
    /\ phase = "hand" /\ cancelled
    /\ \E stable \in BOOLEAN : EndSession(seen, FALSE, stable)

Doubled(b) == IF 2 * b > 30 THEN 30 ELSE 2 * b

Wait ==
    /\ phase = "wait"
    /\ \/ ~cancelled /\ backoff' = Doubled(backoff) /\ phase' = "dial" /\ UNCHANGED result
       \/ cancelled /\ Return("nil")
    /\ UNCHANGED <<svcVars, cancelled, lastMs, seen, sent, broken, handed, waiting>>

Session ==
    Start \/ Connect \/ DialFails \/ Read \/ Emit \/ ReadFails \/ HandOver \/ GiveUp \/ Wait

Next == Post \/ Trouble \/ Cancel \/ Receive \/ Session

Spec == Init /\ [][Next]_vars

\* The source's goroutine runs, and as long as it is not cancelled the machine
\* receives.  The service owes nothing.
Fairness == WF_vars(Session) /\ WF_vars(Receive /\ ~cancelled)

FairSpec == Spec /\ Fairness

-----------------------------------------------------------------------------
HasHanded(m) == \E i \in DOMAIN handed : handed[i].no = m

WholeMs(t) == t - (t % Milli)

\* A message is counted again, or overtaken on its way to the machine, only through
\* all-chat's rounding: it is later than the milliseconds of the one before it.  So
\* of messages that come dated, those of a single millisecond are replayed, and none
\* if the service counts in milliseconds; of the others, those that the sidecar's
\* clock dated too early.  Twitch and the simulation never repeat a message.
HandedOnceInOrder ==
    \A i, j \in DOMAIN handed :
        i < j => \/ handed[i].no < handed[j].no
                 \/ /\ kind = "all-chat"
                    /\ WholeMs(handed[i].ts) < Stamp[handed[j].no]

\* What a reconnection cannot ask for: a message of the very instant of one handed
\* over before it, if that is a whole millisecond, or one no later than the whole
\* milliseconds of the time the sidecar's clock gave to one.
OutOfReach(m) ==
    /\ kind = "all-chat"
    /\ \E i \in DOMAIN handed :
          /\ handed[i].no < m
          /\ \/ Stamp[m] = Stamp[handed[i].no] /\ Stamp[m] = WholeMs(Stamp[m])
             \/ handed[i].no \in Undated /\ Stamp[m] <= WholeMs(handed[i].ts)

\* Once all-chat has given it a first message, the source misses none of the chat,
\* through reconnections, failed dials and a full channel, but for what is out of
\* reach; nor does a simulation.
NoGap ==
    kind # "twitch" =>
        \A m \in Chatter, i \in DOMAIN handed :
            handed[1].no < m /\ m < handed[i].no => HasHanded(m) \/ OutOfReach(m)

\* As source.go promises: Run ends when it is cancelled, though nobody receives any
\* longer.
CancelEndsRun == cancelled ~> phase = "returned"

\* While the service is up for good, all that all-chat was sent since the first
\* message is handed over in the end, unless Run has returned or a reconnection
\* could not ask for it.
ChatCatchesUp ==
    <>[](service = "up") =>
        \A m \in Chatter :
            (kind = "all-chat" /\ handed # << >> /\ handed[1].no < m /\ m <= posted)
              ~> (HasHanded(m) \/ OutOfReach(m) \/ cancelled \/ phase = "returned")
=============================================================================
