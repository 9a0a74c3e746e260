------------------------------ MODULE Breaker ------------------------------
(***************************************************************************)
(* The circuit breaker plugin, src/src/breaker/index.ts.                   *)
(*                                                                         *)
(* breaker() keeps three variables in a closure (state, openedAt and the   *)
(* failure timestamps) that every wrapped call shares.  wrap() runs admit  *)
(* synchronously when the call is made and recordSuccess / recordFailure   *)
(* when the underlying call settles, so any number of calls can be in      *)
(* flight between the two: a call admitted in one state of the breaker     *)
(* settles in another.  `now' is Date.now(), which is taken not to go      *)
(* backwards; MaxClock bounds it for TLC.                                  *)
(***************************************************************************)
EXTENDS Integers, Sequences, FiniteSets

CONSTANTS
    Calls,              \* the calls that may be in flight at once
    FailureThreshold,   \* opts.failureThreshold
    WindowMs,           \* opts.windowMs
    HalfOpenAfter,      \* opts.halfOpenAfter
    MaxClock            \* bound on the clock

BreakerAssumption ==
    /\ FailureThreshold \in Nat \ {0}
    /\ WindowMs \in Nat
    /\ HalfOpenAfter \in Nat
    /\ MaxClock \in Nat

VARIABLES
    now,        \* Date.now()
    state,      \* "closed", "open" or "half-open"
    openedAt,   \* when the breaker last opened; 0 once closed
    failures,   \* timestamps of the sliding window
    inFlight,   \* the admitted calls whose underlying call has not settled
    \* History, read by the properties only; recordSuccess clears all three.
    failed,     \* the time of every counted failure since the breaker closed
    probes,     \* the time of every admission since then by a breaker not closed
    promised    \* the latest time a CircuitOpenError told a caller to come back

vars == <<now, state, openedAt, failures, inFlight, failed, probes, promised>>
history == <<failed, probes, promised>>

Clock == 0 .. MaxClock
BreakerStates == {"closed", "open", "half-open"}

TypeOK ==
    /\ now \in Clock
    /\ state \in BreakerStates
    /\ openedAt \in Clock
    /\ failures \in Seq(Clock)
    /\ inFlight \subseteq Calls
    /\ failed \in Seq(Clock)
    /\ probes \in Seq(Clock)
    /\ promised \in Nat

Init ==
    /\ now = 0
    /\ state = "closed"
    /\ openedAt = 0
    /\ failures = <<>>
    /\ inFlight = {}
    /\ failed = <<>>
    /\ probes = <<>>
    /\ promised = 0

-----------------------------------------------------------------------------
(* Bookkeeping shared by the handlers.                                      *)

StaleCount(times, cutoff) ==
    Cardinality({i \in 1 .. Len(times) : times[i] < cutoff})

\* Faulty variant of PruneWindow: the window is never pruned.
KeepWindow(times, cutoff) == times

\* failures.filter(t => t >= cutoff): the timestamps are pushed in clock order,
\* so what the filter removes is a prefix.
PruneWindow(times, cutoff) ==
    SubSeq(times, StaleCount(times, cutoff) + 1, Len(times))

Elapsed == now - openedAt

\* Faulty variant of RetryAfter: the whole delay instead of what is left of it.
WholeDelay == HalfOpenAfter

\* What CircuitOpenError.retryAfter tells the caller.
RetryAfter == HalfOpenAfter - Elapsed

TransitionToOpen ==
    /\ state' = "open"
    /\ openedAt' = now

RecordSuccess ==
    /\ state' = "closed"
    /\ openedAt' = 0
    /\ failures' = <<>>
    /\ failed' = <<>>
    /\ probes' = <<>>
    /\ promised' = 0

\* A failed probe of a half-open breaker reopens it and is not put in the window.
RecordProbeFailure ==
    /\ state = "half-open"
    /\ TransitionToOpen
    /\ UNCHANGED failures

\* Faulty variant of RecordWindowFailure: one failure too many is needed.
RecordOverThreshold ==
    /\ state # "half-open"
    /\ failures' = PruneWindow(Append(failures, now), now - WindowMs)
    /\ IF Len(failures') > FailureThreshold
       THEN TransitionToOpen
       ELSE UNCHANGED <<state, openedAt>>

\* Any other failure is put in the window, the one of a call that settles
\* when the breaker is already open included.
RecordWindowFailure ==
    /\ state # "half-open"
    /\ failures' = PruneWindow(Append(failures, now), now - WindowMs)
    /\ IF Len(failures') >= FailureThreshold
       THEN TransitionToOpen
       ELSE UNCHANGED <<state, openedAt>>

RecordFailure ==
    /\ RecordProbeFailure \/ RecordWindowFailure
    /\ failed' = Append(failed, now)
    /\ UNCHANGED <<probes, promised>>

-----------------------------------------------------------------------------
(* A call is made: admit, in the three states.                              *)

AdmitClosed ==
    /\ state = "closed"
    /\ UNCHANGED <<state, openedAt, probes>>

AdmitProbe ==
    /\ state = "open"
    /\ Elapsed >= HalfOpenAfter
    /\ state' = "half-open"
    /\ probes' = Append(probes, now)
    /\ UNCHANGED openedAt

\* Faulty variant of AdmitHalfOpen: stays half-open while probes are in flight.
AdmitHalfOpenFreely ==
    /\ state = "half-open"
    /\ probes' = Append(probes, now)
    /\ UNCHANGED <<state, openedAt>>

AdmitHalfOpen ==
    /\ state = "half-open"
    /\ TransitionToOpen
    /\ probes' = Append(probes, now)

Call(c) ==
    /\ c \notin inFlight
    /\ AdmitClosed \/ AdmitProbe \/ AdmitHalfOpen
    /\ inFlight' = inFlight \cup {c}
    /\ UNCHANGED <<now, failures, failed, promised>>

\* admit throws CircuitOpenError: the underlying client is not called.
FailFast(c) ==
    /\ c \notin inFlight
    /\ state = "open"
    /\ Elapsed < HalfOpenAfter
    /\ promised' = now + RetryAfter
    /\ UNCHANGED <<now, state, openedAt, failures, inFlight, failed, probes>>

-----------------------------------------------------------------------------
(* The underlying call settles, in whatever state the breaker then is.      *)

Succeed(c) ==
    /\ c \in inFlight
    /\ RecordSuccess
    /\ inFlight' = inFlight \ {c}
    /\ UNCHANGED now

\* The call rejects and isFailure counts the error.
FailCounted(c) ==
    /\ c \in inFlight
    /\ RecordFailure
    /\ inFlight' = inFlight \ {c}
    /\ UNCHANGED now

\* The call rejects with an error isFailure does not count (a 4xx).
FailUncounted(c) ==
    /\ c \in inFlight
    /\ IF state = "half-open"
       THEN RecordSuccess
       ELSE UNCHANGED <<state, openedAt, failures, history>>
    /\ inFlight' = inFlight \ {c}
    /\ UNCHANGED now

\* BreakerHandle.trip and BreakerHandle.reset.
Trip ==
    /\ TransitionToOpen
    /\ UNCHANGED <<now, failures, inFlight, history>>

Reset ==
    /\ RecordSuccess
    /\ UNCHANGED <<now, inFlight>>

Tick ==
    /\ now < MaxClock
    /\ now' = now + 1
    /\ UNCHANGED <<state, openedAt, failures, inFlight, history>>

Next ==
    \/ \E c \in Calls :
         Call(c) \/ FailFast(c) \/ Succeed(c) \/ FailCounted(c) \/ FailUncounted(c)
    \/ Trip
    \/ Reset
    \/ Tick

Spec == Init /\ [][Next]_vars

-----------------------------------------------------------------------------
(* Properties.                                                              *)

Recent(times, t) == {i \in 1 .. Len(times) : times[i] >= t - WindowMs}

(* A breaker that is not closed lets at most two calls reach the service in *)
(* any period of halfOpenAfter, however calls, late results and trip()      *)
(* interleave: the probe that makes it half-open and the one that flips it  *)
(* back to open (breaker/index.ts, admit).                                  *)
ProbesComeInPairs ==
    \A i \in 1 .. Len(probes) - 2 : probes[i + 2] - probes[i] >= HalfOpenAfter

(* While the breaker is closed, the failures it has counted since it closed *)
(* never reach the threshold inside one window, those pruned from the       *)
(* window included (recordFailure, pruneWindow).                            *)
ClosedBelowThreshold ==
    state = "closed" /\ failed # <<>> =>
        Cardinality(Recent(failed, failed[Len(failed)])) < FailureThreshold

(* A failure opens a closed breaker only when failureThreshold failures lie *)
(* within windowMs of it, none of them older than the last success          *)
(* (recordFailure, pruneWindow, recordSuccess).                             *)
TripIsJustified ==
    [][state = "closed" /\ state' = "open" /\ failed' # failed =>
           Cardinality(Recent(failed', now)) >= FailureThreshold]_vars

(* CircuitOpenError.retryAfter is honest: unless something closes the       *)
(* breaker, no call is admitted before the time the last rejected caller    *)
(* was told to come back at (admit, transitionToOpen).                      *)
RetryAfterIsHonest ==
    [][Len(probes') > Len(probes) => now >= promised]_vars

(* The comment in admit (lines 141-145): only one probe at a time, calls    *)
(* made while it is in flight fail fast, and the next probe comes           *)
(* halfOpenAfter later.  The code does not meet it.                         *)
OneProbeAtATime ==
    \A i \in 1 .. Len(probes) - 1 : probes[i + 1] - probes[i] >= HalfOpenAfter
=============================================================================
