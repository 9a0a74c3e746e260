------------------------------- MODULE Upload -------------------------------
(***************************************************************************)
(* uploadResumable, src/src/transfer/index.ts, and the server it talks to. *)
(* A PATCH may be lost, may reach the server in part or whole with its     *)
(* reply lost, or be answered; the server takes only bytes that follow     *)
(* those it has.  A caller may give up or crash at any time and call again *)
(* with the uploadUrl it was given.                                        *)
(***************************************************************************)
EXTENDS Integers

CONSTANTS
    Total,          \* length of the source, in units
    ChunkSize,
    MaxRetries,
    MaxCalls        \* bound: calls with the same uploadUrl

UploadAssumption ==
    /\ Total \in Nat /\ MaxRetries \in Nat
    /\ ChunkSize \in Nat \ {0} /\ MaxCalls \in Nat \ {0}

VARIABLES
    pc,
    offset,         \* of the loop
    attempt,        \* failures of this chunk
    aborted,        \* the caller's signal
    calls,          \* calls made so far
    stored,         \* units the server has
    complete        \* the server has seen Upload-Incomplete: ?0

vars == <<pc, offset, attempt, aborted, calls, stored, complete>>
client == <<offset, attempt, aborted, calls>>
server == <<stored, complete>>

Pcs == {"open", "head", "loop", "patch", "delay", "done", "failed"}

TypeOK ==
    /\ pc \in Pcs
    /\ offset \in 0..Total
    /\ attempt \in 0..MaxRetries
    /\ aborted \in BOOLEAN
    /\ calls \in 1..MaxCalls
    /\ stored \in 0..Total
    /\ complete \in BOOLEAN

Init ==
    /\ pc = "open"
    /\ offset = 0
    /\ attempt = 0
    /\ aborted = FALSE
    /\ calls = 1
    /\ stored = 0
    /\ complete = FALSE

-----------------------------------------------------------------------------

End == IF offset + ChunkSize < Total THEN offset + ChunkSize ELSE Total

\* The POST; without it, or its Location, there is no uploadUrl to resume.
Open ==
    /\ pc = "open"
    /\ pc' \in IF aborted THEN {"failed"} ELSE {"loop", "failed"}
    /\ UNCHANGED <<client, server>>

\* The HEAD of a call that resumes; if it fails the upload starts from 0.
Recover ==
    /\ pc = "head"
    /\ pc' = "loop"
    /\ offset' \in IF aborted THEN {0} ELSE {0, stored}
    /\ UNCHANGED <<attempt, aborted, calls, server>>

\* Top of the loop.
Loop ==
    /\ pc = "loop"
    /\ pc' = IF offset >= Total THEN "done" ELSE IF aborted THEN "failed" ELSE "patch"
    /\ attempt' = 0
    /\ UNCHANGED <<offset, aborted, calls, server>>

\* What the server takes of a PATCH: nothing at another offset, or once
\* the upload is complete.
Accept(end) ==
    /\ offset = stored /\ ~complete
    /\ stored' = end
    /\ complete' = (end = Total)

PatchSucceeds ==
    /\ pc = "patch" /\ ~aborted
    /\ Accept(End)
    /\ pc' = "loop"
    /\ offset' = End
    /\ UNCHANGED <<attempt, aborted, calls>>

\* The catch around the PATCH.
Retry ==
    IF attempt < MaxRetries
    THEN pc' = "delay" /\ attempt' = attempt + 1 /\ UNCHANGED offset
    ELSE pc' = "failed" /\ UNCHANGED <<attempt, offset>>

\* The connection fails, before or after the server took some of the chunk;
\* or the server refuses the offset.
PatchFails ==
    /\ pc = "patch"
    /\ \/ UNCHANGED server
       \/ \E end \in offset..End : Accept(end)
    /\ Retry
    /\ UNCHANGED <<aborted, calls>>

\* delay: the same chunk goes out again, from the same offset.
DelayEnds ==
    /\ pc = "delay"
    /\ pc' = "patch"
    /\ UNCHANGED <<client, server>>

Abort ==
    /\ ~aborted /\ pc \notin {"done", "failed"}
    /\ aborted' = TRUE
    /\ UNCHANGED <<pc, offset, attempt, calls, server>>

\* The caller calls again, after a failure or a crash, with the uploadUrl
\* that onProgress or an earlier result has shown it.
CallAgain ==
    /\ calls < MaxCalls /\ pc # "open"
    /\ calls' = calls + 1
    /\ pc' = "head"
    /\ offset' = 0
    /\ attempt' = 0
    /\ aborted' = FALSE
    /\ UNCHANGED server

Step == Open \/ Recover \/ Loop \/ PatchSucceeds \/ PatchFails \/ DelayEnds

Next == Step \/ Abort \/ CallAgain

\* Timers fire and requests settle, one way or the other.
Fairness == WF_vars(Step)

Spec == Init /\ [][Next]_vars /\ Fairness

-----------------------------------------------------------------------------

(* The offset a call goes on from is never past what the server has stored, *)
(* through lost replies, chunks that arrive in part, retries, and calls     *)
(* that resume the upload of one that crashed (the loop of                  *)
(* uploadResumable).                                                        *)
ClientNeverAhead == offset <= stored

(* A call that resolves has nothing left to send: the server has every unit *)
(* and, unless the source is empty, has been told that the upload is        *)
(* complete, possibly by a call whose reply was lost.                       *)
SuccessIsComplete == pc = "done" => stored = Total /\ (Total > 0 => complete)

(* No call hangs: a chunk the server refuses, because it already has it and *)
(* its reply was lost, ends the call after maxRetries (the loop of          *)
(* uploadResumable).                                                        *)
UploadEnds == <>[](pc \in {"done", "failed"})

(* The documented protocol: "on a network failure mid-upload, the client    *)
(* reissues HEAD to recover the server's known offset and retries the next  *)
(* chunk from there" (the comment above uploadResumable).  It does not hold *)
(* of the code, which sends the offset it had.                              *)
RetriesFromServerOffset == pc = "patch" /\ attempt > 0 => offset = stored
=============================================================================
