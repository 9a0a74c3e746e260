------------------------------ MODULE RateLimit ------------------------------
(***************************************************************************)
(* The rateLimit plugin, src/src/ratelimit/index.ts: every call takes a    *)
(* slot of the bucket of requests, then its cost of the bucket of tokens,  *)
(* and what the server answers overwrites both.  Time is counted from now: *)
(* durations left and elapsed, in ticks in which a bucket gains Rate; the  *)
(* 50 ms a caller sleeps at least, and the second a 429 without a reset    *)
(* holds, are one tick.  An infinite budget is a cost of 0.                *)
(***************************************************************************)
EXTENDS Integers

CONSTANTS
    Calls,
    Cost,           \* estimateTokens of each call
    Capacity,
    Rate,
    Reports         \* what an answer may say of a bucket, see Report

BucketNames == {"requests", "tokens"}

\* readBucket: -1 for a header that is missing; a reset of 0 has passed.
Report == [remaining : Int, reset : Int]

RateLimitAssumption ==
    /\ Capacity \in Nat \ {0} /\ Rate \in Nat \ {0}
    /\ Cost \in [Calls -> Nat]
    /\ Reports \subseteq Report

VARIABLES
    available,      \* at the last refill
    elapsed,        \* since the last refill
    bypass,         \* until bypassUntil
    at,             \* where a call is
    sleeping,       \* until the sleep of a call ends
    granted         \* units taken so far, read by properties only

vars == <<available, elapsed, bypass, at, sleeping, granted>>

Places == BucketNames \cup {"sent", "done", "aborted"}

TypeOK ==
    /\ available \in [BucketNames -> 0..Capacity]
    /\ elapsed \in [BucketNames -> 0..Capacity]
    /\ bypass \in [BucketNames -> Nat]
    /\ at \in [Calls -> Places]
    /\ sleeping \in [Calls -> Nat]
    /\ granted \in [BucketNames -> Nat]

\* createBucket, twice; a call may come at any time.
Init ==
    /\ available = [b \in BucketNames |-> Capacity]
    /\ elapsed = [b \in BucketNames |-> 0]
    /\ bypass = [b \in BucketNames |-> 0]
    /\ at = [c \in Calls |-> "requests"]
    /\ sleeping = [c \in Calls |-> 0]
    /\ granted = [b \in BucketNames |-> 0]

-----------------------------------------------------------------------------

Lesser(a, b) == IF a < b THEN a ELSE b
Greater(a, b) == IF a > b THEN a ELSE b
Ceil(n) == (n + Rate - 1) \div Rate

\* Faulty variant of Level: the capacity does not bound it.
LevelUncapped(b) == available[b] + elapsed[b] * Rate

Level(b) == Lesser(Capacity, available[b] + elapsed[b] * Rate)

Waiting(c) == at[c] \in BucketNames /\ sleeping[c] = 0
Needs(c) == IF at[c] = "requests" THEN 1 ELSE Cost[c]

Take(c, b) ==
    /\ available' = [available EXCEPT ![b] = Level(b) - Needs(c)]
    /\ granted' = [granted EXCEPT ![b] = @ + Needs(c)]
    /\ at' = [at EXCEPT ![c] = IF b = "requests" /\ Cost[c] > 0 THEN "tokens" ELSE "sent"]
    /\ UNCHANGED sleeping

Sleep(c, ticks) == sleeping' = [sleeping EXCEPT ![c] = ticks]

Refill(b) == elapsed' = [elapsed EXCEPT ![b] = 0]

\* Faulty variant of Acquire: a caller that has to sleep moves lastTick and
\* loses what the bucket had gained.
AcquireForgetting(c) ==
    /\ Waiting(c)
    /\ LET b == at[c] IN
        /\ Refill(b)
        /\ IF bypass[b] = 0 /\ Level(b) >= Needs(c)
           THEN Take(c, b)
           ELSE /\ Sleep(c, IF bypass[b] > 0 THEN bypass[b] ELSE Ceil(Needs(c) - Level(b)))
                /\ UNCHANGED <<available, at, granted>>
    /\ UNCHANGED bypass

\* One turn of the loop in acquire.
Acquire(c) ==
    /\ Waiting(c)
    /\ LET b == at[c] IN
        /\ Refill(b)
        /\ IF bypass[b] = 0 /\ Level(b) >= Needs(c)
           THEN Take(c, b)
           ELSE /\ Sleep(c, IF bypass[b] > 0 THEN bypass[b] ELSE Ceil(Needs(c) - Level(b)))
                /\ available' = [available EXCEPT ![b] = Level(b)]
                /\ UNCHANGED <<at, granted>>
    /\ UNCHANGED bypass

\* The signal wakes a sleeping call only; what it has taken stays taken.
Abort(c) ==
    /\ at[c] \in BucketNames /\ sleeping[c] > 0
    /\ at' = [at EXCEPT ![c] = "aborted"]
    /\ sleeping' = [sleeping EXCEPT ![c] = 0]
    /\ UNCHANGED <<available, elapsed, bypass, granted>>

\* observeRemaining and drainAndBackoff of one bucket.
Observed(r) == r.remaining >= 0
HoldOf(r, throttled) ==
    IF throttled THEN (IF r.reset >= 0 THEN r.reset ELSE 1)
    ELSE IF r.remaining = 0 THEN r.reset ELSE 0

\* Faulty variant of Answer: the last answer decides how long the hold is.
AnswerOverwrites(c, info, throttled) ==
    /\ at[c] = "sent"
    /\ at' = [at EXCEPT ![c] = "done"]
    /\ bypass' = [b \in BucketNames |-> Greater(0, HoldOf(info[b], throttled))]
    /\ UNCHANGED <<sleeping, granted, available, elapsed>>

\* onComplete: answers come in any order.
Answer(c, info, throttled) ==
    /\ at[c] = "sent"
    /\ at' = [at EXCEPT ![c] = "done"]
    /\ available' = [b \in BucketNames |->
        IF throttled THEN 0
        ELSE IF Observed(info[b]) THEN Lesser(Capacity, info[b].remaining)
        ELSE available[b]]
    /\ elapsed' = [b \in BucketNames |->
        IF throttled \/ Observed(info[b]) THEN 0 ELSE elapsed[b]]
    /\ bypass' = [b \in BucketNames |-> Greater(bypass[b], HoldOf(info[b], throttled))]
    /\ UNCHANGED <<sleeping, granted>>

\* A full bucket gains nothing: elapsed stops counting there.
Tick ==
    /\ elapsed' = [b \in BucketNames |-> Lesser(Capacity, elapsed[b] + 1)]
    /\ bypass' = [b \in BucketNames |-> Greater(0, bypass[b] - 1)]
    /\ sleeping' = [c \in Calls |-> Greater(0, sleeping[c] - 1)]
    /\ UNCHANGED <<available, at, granted>>

Next ==
    \/ \E c \in Calls :
        \/ Acquire(c) \/ Abort(c)
        \/ \E info \in [BucketNames -> Reports], throttled \in BOOLEAN :
            Answer(c, info, throttled)
    \/ Tick

\* Timers fire and the reactions of promises run; nothing makes a server
\* answer or a caller abort.
Fairness == WF_vars(Tick) /\ \A c \in Calls : WF_vars(Acquire(c))

Spec == Init /\ [][Next]_vars /\ Fairness

-----------------------------------------------------------------------------

Bucket == INSTANCE TokenBucket WITH
    Buckets <- BucketNames,
    level <- [b \in BucketNames |-> Level(b)],
    hold <- bypass

(* Refilled only when somebody looks, the buckets are the ones that fill at *)
(* every tick: whatever the order of answers, nobody takes more than there  *)
(* is or during a hold, and no answer shortens the hold of an earlier one   *)
(* (refill, acquire, observeRemaining, drainAndBackoff).                    *)
AdmitsLikeABucket == Bucket!Init /\ [][Bucket!Next]_(Bucket!vars)

(* A call whose cost the bucket can ever hold does not wait for ever,       *)
(* whoever wakes before it and however often the server answers 429         *)
(* (acquire).  A greater cost waits until it is aborted.                    *)
AffordableCallsGoOut ==
    \A c \in Calls : Cost[c] <= Capacity => <>(at[c] \notin BucketNames)
=============================================================================
