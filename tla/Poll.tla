-------------------------------- MODULE Poll --------------------------------
(***************************************************************************)
(* poll and followAccepted, src/src/poll/index.ts: a loop of a request,    *)
(* the caller's predicate and a wait, under one signal that the caller or  *)
(* the timeout aborts between any two awaits.                              *)
(***************************************************************************)
EXTENDS Integers

CONSTANTS
    MaxAttempts,    \* a finite maxAttempts
    HasTimeout

PollAssumption == MaxAttempts \in Nat /\ HasTimeout \in BOOLEAN

VARIABLES
    pc,
    attempt,        \* requests made
    satisfied,      \* what `until' said of the last response
    aborted,        \* the composed signal
    lateRequests    \* requests made after it aborted

vars == <<pc, attempt, satisfied, aborted, lateRequests>>

Ended == pc \in {"done", "exhausted", "rejected"}

TypeOK ==
    /\ pc \in {"trigger", "loop", "request", "until", "wait", "done", "exhausted", "rejected"}
    /\ attempt \in 0..MaxAttempts
    /\ satisfied \in BOOLEAN
    /\ aborted \in BOOLEAN
    /\ lateRequests \in 0..MaxAttempts

\* A poll, or a followAccepted, whose trigger is not under the signal.
Init ==
    /\ pc \in {"trigger", "loop"}
    /\ attempt = 0
    /\ satisfied = FALSE
    /\ aborted = FALSE
    /\ lateRequests = 0

-----------------------------------------------------------------------------

\* followAccepted: a response other than 202 is the result, a 202 without a
\* Location or a trigger that throws is an error.
Trigger ==
    /\ pc = "trigger"
    /\ \/ pc' = "done" /\ satisfied' = TRUE
       \/ pc' \in {"loop", "rejected"} /\ UNCHANGED satisfied
    /\ UNCHANGED <<attempt, aborted, lateRequests>>

Request ==
    /\ pc' = "request"
    /\ attempt' = attempt + 1
    /\ lateRequests' = IF aborted THEN lateRequests + 1 ELSE lateRequests

\* Faulty variant of Loop: the signal is left to the request.
LoopUnchecked ==
    /\ pc = "loop"
    /\ IF attempt < MaxAttempts THEN Request
       ELSE pc' = "exhausted" /\ UNCHANGED <<attempt, lateRequests>>
    /\ UNCHANGED <<satisfied, aborted>>

\* Top of the loop.
Loop ==
    /\ pc = "loop"
    /\ IF attempt < MaxAttempts /\ ~aborted THEN Request
       ELSE /\ pc' = IF attempt < MaxAttempts THEN "rejected" ELSE "exhausted"
            /\ UNCHANGED <<attempt, lateRequests>>
    /\ UNCHANGED <<satisfied, aborted>>

\* A response that has arrived is delivered even if the signal aborts next.
RequestAnswered ==
    /\ pc = "request"
    /\ pc' = "until"
    /\ UNCHANGED <<attempt, satisfied, aborted, lateRequests>>

RequestRejected ==
    /\ pc = "request"
    /\ pc' = "rejected"
    /\ UNCHANGED <<attempt, satisfied, aborted, lateRequests>>

\* `until' has been awaited; the signal is not looked at before the wait.
UntilReturns(holds) ==
    /\ pc = "until"
    /\ satisfied' = holds
    /\ pc' = IF holds THEN "done"
             ELSE IF attempt >= MaxAttempts THEN "exhausted" ELSE "wait"
    /\ UNCHANGED <<attempt, aborted, lateRequests>>

UntilThrows ==
    /\ pc = "until"
    /\ pc' = "rejected"
    /\ UNCHANGED <<attempt, satisfied, aborted, lateRequests>>

\* The timer of delayMs fires, or it rejects because the signal aborts first.
WaitEnds ==
    /\ pc = "wait"
    /\ pc' = "loop" \/ (aborted /\ pc' = "rejected")
    /\ UNCHANGED <<attempt, satisfied, aborted, lateRequests>>

Signal ==
    /\ pc # "trigger" /\ ~Ended /\ ~aborted
    /\ aborted' = TRUE
    /\ UNCHANGED <<pc, attempt, satisfied, lateRequests>>

Timeout == HasTimeout /\ Signal
RequestCancelled == aborted /\ RequestRejected
UntilSettles == (\E holds \in BOOLEAN : UntilReturns(holds)) \/ UntilThrows
Step == Trigger \/ Loop \/ WaitEnds

Next ==
    \/ Step \/ RequestAnswered \/ RequestRejected \/ UntilSettles \/ Signal

\* Timers fire, an aborted request rejects, and the caller's own functions
\* return; nothing makes a server answer.
Fairness ==
    /\ WF_vars(Step)
    /\ WF_vars(Timeout)
    /\ WF_vars(RequestCancelled)
    /\ WF_vars(UntilSettles)

Spec == Init /\ [][Next]_vars /\ Fairness

-----------------------------------------------------------------------------

(* Once the signal has aborted, no request is made, whether that was during *)
(* a request, while `until' ran, or in the wait (the top of the loop).      *)
NoRequestAfterAbort == lateRequests = 0

(* The result is one the predicate accepted, and a poll is exhausted only   *)
(* after maxAttempts requests, the last of them asked of too (poll).        *)
ResultIsDecided ==
    /\ pc = "done" => satisfied
    /\ pc = "exhausted" => attempt = MaxAttempts

(* A poll with a timeout ends although the server may hold back an answer   *)
(* and the predicate may always say no (timeoutSignal, delayMs).            *)
PollEnds == HasTimeout => <>Ended
=============================================================================
