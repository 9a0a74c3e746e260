----------------------------- MODULE RetryDelay -----------------------------
(***************************************************************************)
(* How long a call waits before it tries again: calculateRetryDelay,       *)
(* src/src/_retry.ts, on the response that runWithRetry, src/src/misina.ts,*)
(* kept from an earlier attempt, against what that response asked for.     *)
(***************************************************************************)
EXTENDS Integers

CONSTANTS
    Limit,          \* retry.limit
    Delays,         \* retry.delay(attempt)
    BackoffLimit,
    Jitters,        \* what a jitter function may return
    Caps,           \* values of maxRetryAfter, and NoCap
    Second,         \* a second, in the units of the clock
    MaxTimer,       \* the longest time setTimeout can wait, 2^31 - 1 ms
    Responses,      \* responses that are retried
    MaxNow          \* bound on the clock

NoCap == -1

\* A header is missing, a number, a date, or text that is neither.
None == [kind |-> "none"]
Text == [kind |-> "text"]
Number(n) == [kind |-> "number", n |-> n]
Date(t) == [kind |-> "date", n |-> t]

Header == [kind : {"none", "text"}] \cup [kind : {"number", "date"}, n : Nat]
Response == [after : BOOLEAN, ms : Header, retryAfter : Header, reset : Header]

RetryDelayAssumption ==
    /\ Limit \in Nat /\ BackoffLimit \in Nat /\ MaxTimer \in Nat \ {0} /\ MaxNow \in Nat
    /\ Delays \in [1..Limit -> Nat]
    /\ Jitters \subseteq Nat
    /\ Caps \subseteq Nat \cup {NoCap}
    /\ Second \in Nat \ {0}
    /\ Responses \subseteq Response

\* The value that stands for a response that never came.
Silence == [after |-> FALSE, ms |-> None, retryAfter |-> None, reset |-> None]

Policies == [cap : Caps, jitter : {"none", "random", "function"}]

\* No time asked for.
NotAsked == -1

VARIABLES
    pc,
    now,
    policy,         \* [cap, jitter] of the resolved options
    attempt,
    lastResponse,
    delay,          \* what calculateRetryDelay returned
    wakeAt,         \* when the timer of delayMs is due, 0 without one
    heard           \* the last response that came, with the time: history

vars == <<pc, now, policy, attempt, lastResponse, delay, wakeAt, heard>>

TypeOK ==
    /\ pc \in {"attempt", "failed", "wait", "settled"}
    /\ now \in 0..MaxNow
    /\ policy \in Policies
    /\ attempt \in 0..Limit
    /\ lastResponse \in Responses \cup {Silence}
    /\ {delay, wakeAt} \subseteq Nat
    /\ heard \in [response : Responses \cup {Silence}, at : 0..MaxNow]

Init ==
    /\ pc = "attempt"
    /\ now = 0
    /\ policy \in Policies
    /\ attempt = 0
    /\ lastResponse = Silence
    /\ delay = 0 /\ wakeAt = 0
    /\ heard = [response |-> Silence, at |-> 0]

-----------------------------------------------------------------------------

\* retry-after-ms if it is a number; else one other header, Retry-After if it
\* is there at all, a number of seconds or a date.
ParseRetryAfter(r, t) ==
    LET raw == IF r.retryAfter # None THEN r.retryAfter ELSE r.reset
    IN  CASE r.ms.kind = "number" -> r.ms.n
          [] r.ms.kind # "number" /\ raw.kind = "number" -> raw.n * Second
          [] r.ms.kind # "number" /\ raw.kind = "date" -> IF raw.n > t THEN raw.n - t ELSE 0
          [] OTHER -> NotAsked

\* r.after: the status is in afterStatusCodes.
Asked(r, t) == IF r.after THEN ParseRetryAfter(r, t) ELSE NotAsked

Capped(asked) == IF policy.cap # NoCap /\ asked > policy.cap THEN policy.cap ELSE asked

\* Faulty variant of CalculateRetryDelay: backoffLimit over what was asked too.
CalculateLimited(r, t, k) ==
    LET d == IF Asked(r, t) # NotAsked THEN Capped(Asked(r, t)) ELSE Delays[k]
    IN  {IF d > BackoffLimit THEN BackoffLimit ELSE d}

\* The delays calculateRetryDelay may return; random jitter takes any part of
\* one, a jitter function what it likes, after backoffLimit.
CalculateRetryDelay(r, t, k) ==
    LET backoff == IF Delays[k] > BackoffLimit THEN BackoffLimit ELSE Delays[k]
    IN  IF Asked(r, t) # NotAsked THEN {Capped(Asked(r, t))}
        ELSE CASE policy.jitter = "none" -> {backoff}
               [] policy.jitter = "random" -> 0..backoff
               [] policy.jitter = "function" -> Jitters

\* A setTimeout that cannot wait so long fires at once.
TimerOf(d) == IF d > MaxTimer THEN 1 ELSE d

\* The response of the driver, or the one an afterResponse hook puts in its
\* place; it is to be retried.
Respond(r) ==
    /\ pc = "attempt"
    /\ attempt < Limit
    /\ lastResponse' = r
    /\ heard' = [response |-> r, at |-> now]
    /\ pc' = "failed"
    /\ UNCHANGED <<now, policy, attempt, delay, wakeAt>>

\* A network failure or a timeout: lastResponse stays.
Fail ==
    /\ pc = "attempt"
    /\ attempt < Limit
    /\ pc' = "failed"
    /\ UNCHANGED <<now, policy, attempt, lastResponse, delay, wakeAt, heard>>

\* The body has been parsed and shouldRetry awaited: the next turn of the loop.
Wait ==
    /\ pc = "failed"
    /\ attempt' = attempt + 1
    /\ delay' \in CalculateRetryDelay(lastResponse, now, attempt + 1)
    /\ wakeAt' = now + TimerOf(delay')
    /\ pc' = "wait"
    /\ UNCHANGED <<now, policy, lastResponse, heard>>

\* The timer fires, no earlier than it is due.
Wake ==
    /\ pc = "wait"
    /\ now >= wakeAt
    /\ pc' = "attempt"
    /\ wakeAt' = 0
    /\ UNCHANGED <<now, policy, attempt, lastResponse, delay, heard>>

\* A result or the last error; an abort, which also ends the wait.
Settle ==
    /\ pc # "settled"
    /\ pc' = "settled"
    /\ UNCHANGED <<now, policy, attempt, lastResponse, delay, wakeAt, heard>>

Tick ==
    /\ pc # "settled"
    /\ now < MaxNow
    /\ now' = now + 1
    /\ UNCHANGED <<pc, policy, attempt, lastResponse, delay, wakeAt, heard>>

Next == (\E r \in Responses : Respond(r)) \/ Fail \/ Wait \/ Wake \/ Settle \/ Tick

Spec == Init /\ [][Next]_vars

-----------------------------------------------------------------------------

(* No attempt goes out before the time the last response to arrive asked    *)
(* for, or the cap, has passed since it came, however long hooks took to    *)
(* look at it and whatever became of attempts in between.  Times that no    *)
(* timer can wait for are excepted (calculateRetryDelay, delayMs).          *)
NotBeforeAsked ==
    pc = "attempt" /\ delay <= MaxTimer =>
        now >= heard.at + Capped(Asked(heard.response, heard.at))

(* A wait above backoffLimit is one a response of this call has asked for,  *)
(* the last one, and never longer than maxRetryAfter; or nothing was asked  *)
(* for and the caller's own jitter function made it so long                 *)
(* (calculateRetryDelay, lastResponse of runWithRetry).                     *)
LongWaitsAreAskedFor ==
    pc = "wait" /\ delay > BackoffLimit =>
        \/ /\ delay <= Asked(heard.response, heard.at)
           /\ policy.cap # NoCap => delay <= policy.cap
        \/ /\ Asked(heard.response, heard.at) = NotAsked
           /\ policy.jitter = "function" /\ delay \in Jitters
=============================================================================
