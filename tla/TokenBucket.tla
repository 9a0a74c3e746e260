----------------------------- MODULE TokenBucket -----------------------------
(***************************************************************************)
(* What a rate limiter promises: buckets that fill at a steady rate up to  *)
(* their capacity, from which nobody takes more than there is, and nothing *)
(* while the bucket is on hold.  The server may set a level and prolong a  *)
(* hold; only time ends one.                                               *)
(***************************************************************************)
EXTENDS Integers

CONSTANTS
    Buckets,
    Capacity,
    Rate            \* units per tick

VARIABLES
    level,
    hold,           \* ticks until the hold ends
    granted         \* units handed out so far

vars == <<level, hold, granted>>

Least(a, b) == IF a < b THEN a ELSE b

Init ==
    /\ level = [b \in Buckets |-> Capacity]
    /\ hold = [b \in Buckets |-> 0]
    /\ granted = [b \in Buckets |-> 0]

Take(b, n) ==
    /\ hold[b] = 0
    /\ n \in 1..level[b]
    /\ level' = [level EXCEPT ![b] = @ - n]
    /\ granted' = [granted EXCEPT ![b] = @ + n]
    /\ UNCHANGED hold

\* What an answer of the server says of the buckets.
Feedback ==
    /\ level' \in [Buckets -> 0..Capacity]
    /\ hold' \in [Buckets -> Nat]
    /\ \A b \in Buckets : hold'[b] >= hold[b]
    /\ UNCHANGED granted

Tick ==
    /\ level' = [b \in Buckets |-> Least(Capacity, level[b] + Rate)]
    /\ hold' = [b \in Buckets |-> IF hold[b] = 0 THEN 0 ELSE hold[b] - 1]
    /\ UNCHANGED granted

Next ==
    \/ \E b \in Buckets, n \in 1..Capacity : Take(b, n)
    \/ Feedback
    \/ Tick

Spec == Init /\ [][Next]_vars
=============================================================================
