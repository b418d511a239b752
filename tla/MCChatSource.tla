---------------------------- MODULE MCChatSource ----------------------------
(* A small instance of ChatSource for TLC. *)
EXTENDS ChatSource

\* The second and the third message of the very same instant, a whole millisecond,
\* the last two in the middle of one; all within a second.
MCStamp == [m \in 1..MaxPosted |->
    1000 * Milli + (CASE m = 1 -> 2 * Milli + 5 [] m \in {2, 3} -> 3 * Milli
                      [] OTHER -> 4 * Milli + 5)]
\* A clock that is behind all of these, and one that is ahead of the first three.
MCClock == {1000 * Milli, 1000 * Milli + 3 * Milli + 7}
=============================================================================
