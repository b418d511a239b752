------------------------------- MODULE Tally -------------------------------
(***************************************************************************)
(* Counting one round's chat votes: vote-engine/internal/vote/tally.go.    *)
(*                                                                         *)
(* A ballot box is a function from the voters (platform + user id) to the  *)
(* 0-based index each one chose, None while the voter has not voted.       *)
(***************************************************************************)
EXTENDS Integers, FiniteSets

CONSTANT None    \* Go's nil / zero value: no ballot, no winner, no nonce

ASSUME NoneAssumption == None \notin Int

(***************************************************************************)
(* NewRound: an empty box.                                                 *)
(***************************************************************************)
NewRound(voters) == [v \in voters |-> None]

(***************************************************************************)
(* ParseVote, seen from the machine: a message is the number it leads      *)
(* with, 0 when it leads with none, and is a vote when it names one of the *)
(* n options.                                                              *)
(***************************************************************************)
IsVote(number, n) == number \in 1..n

(***************************************************************************)
(* Cast: the first vote of a voter counts if its index is in range.        *)
(***************************************************************************)
Cast(votes, n, v, idx) ==
    IF idx \in 0..n-1 /\ votes[v] = None
      THEN [votes EXCEPT ![v] = idx]
      ELSE votes

Counts(votes, n) ==
    [i \in 0..n-1 |-> Cardinality({v \in DOMAIN votes : votes[v] = i})]

Total(votes) == Cardinality({v \in DOMAIN votes : votes[v] # None})

(***************************************************************************)
(* The indices no other index beats.                                       *)
(***************************************************************************)
Leaders(counts) ==
    {i \in DOMAIN counts : \A j \in DOMAIN counts : counts[j] <= counts[i]}

\* Mutant: the scan stops before the last option.
ResolveButLast(counts) ==
    LET seen == {i \in DOMAIN counts : i + 1 \in DOMAIN counts}
    IN  IF seen = {} THEN {0}
        ELSE {i \in seen : \A j \in seen : counts[j] <= counts[i]}

(***************************************************************************)
(* Resolve: every index the random generator may return.  Without options  *)
(* it returns 0, without votes any option, else one of the leaders.        *)
(***************************************************************************)
Resolve(counts) ==
    IF DOMAIN counts = {} THEN {0}
    ELSE IF \A i \in DOMAIN counts : counts[i] = 0 THEN DOMAIN counts
    ELSE Leaders(counts)
=============================================================================
