------------------------------ MODULE Download ------------------------------
(***************************************************************************)
(* downloadResumable, src/src/transfer/index.ts: the HEAD, the one-byte    *)
(* range that stands in for it, the single GET, and the loop of ranges     *)
(* with its retries.  A server that announced ranges may still send fewer  *)
(* bytes than asked, none, or the whole resource.                          *)
(***************************************************************************)
EXTENDS Integers, Sequences

CONSTANTS
    Total,          \* length of the resource
    ChunkSize,
    MaxRetries,
    StartOffset,
    MaxPieces       \* bound: ranges that overlap or come empty

DownloadAssumption ==
    /\ Total \in Nat /\ MaxRetries \in Nat /\ StartOffset \in Nat /\ MaxPieces \in Nat
    /\ ChunkSize \in Nat \ {0}

VARIABLES
    pc,
    loaded,
    attempt,
    chunks,         \* [from, to) of the resource, in the order they came
    aborted,
    strayed         \* the server has ignored a range, or sent nothing for one

vars == <<pc, loaded, attempt, chunks, aborted, strayed>>

Pcs == {"head", "probe", "single", "loop", "get", "delay", "done", "failed"}
Ended == pc \in {"done", "failed"}

TypeOK ==
    /\ pc \in Pcs
    /\ loaded \in Nat
    /\ attempt \in 0..MaxRetries
    /\ \A i \in DOMAIN chunks : chunks[i] \in [from : 0..Total, to : 0..Total]
    /\ aborted \in BOOLEAN
    /\ strayed \in 0..MaxPieces

Init ==
    /\ pc = "head"
    /\ loaded = StartOffset
    /\ attempt = 0
    /\ chunks = <<>>
    /\ aborted = FALSE
    /\ strayed = 0

-----------------------------------------------------------------------------

\* A HEAD that fails leads to the probe, one that does not announce ranges
\* and a length to the single GET.
HeadProbe ==
    /\ pc = "head"
    /\ pc' \in IF aborted THEN {"probe"} ELSE {"loop", "single", "probe"}
    /\ UNCHANGED <<loaded, attempt, chunks, aborted, strayed>>

\* 206 with a size, or anything else, a failure included.
RangeProbe ==
    /\ pc = "probe"
    /\ pc' \in IF aborted THEN {"single"} ELSE {"loop", "single"}
    /\ UNCHANGED <<loaded, attempt, chunks, aborted, strayed>>

Whole == [from |-> 0, to |-> Total]

\* The whole resource, whatever startOffset says; nothing is retried.
Single ==
    /\ pc = "single"
    /\ \/ pc' = "failed" /\ UNCHANGED chunks
       \/ ~aborted /\ pc' = "done" /\ chunks' = <<Whole>>
    /\ UNCHANGED <<loaded, attempt, aborted, strayed>>

Loop ==
    /\ pc = "loop"
    /\ pc' = IF loaded >= Total THEN "done" ELSE IF aborted THEN "failed" ELSE "get"
    /\ attempt' = 0
    /\ UNCHANGED <<loaded, chunks, aborted, strayed>>

End == IF loaded + ChunkSize < Total THEN loaded + ChunkSize ELSE Total

\* Faulty variant of Take: the offset moves by what was asked for.
TakeAsked(from, to) ==
    /\ chunks' = Append(chunks, [from |-> from, to |-> to])
    /\ loaded' = End
    /\ pc' = "loop"

\* The length of the body, not the range, moves the offset.
Take(from, to) ==
    /\ chunks' = Append(chunks, [from |-> from, to |-> to])
    /\ loaded' = loaded + (to - from)
    /\ pc' = "loop"

ChunkArrives ==
    /\ pc = "get" /\ ~aborted
    /\ \E to \in loaded + 1 .. End : Take(loaded, to)
    /\ UNCHANGED <<attempt, aborted, strayed>>

\* 200 with the whole resource, or a body without a byte.
ServerStrays ==
    /\ pc = "get" /\ ~aborted /\ strayed < MaxPieces
    /\ Take(0, Total) \/ Take(loaded, loaded)
    /\ strayed' = strayed + 1
    /\ UNCHANGED <<attempt, aborted>>

ChunkFails ==
    /\ pc = "get"
    /\ IF attempt < MaxRetries
       THEN pc' = "delay" /\ attempt' = attempt + 1
       ELSE pc' = "failed" /\ UNCHANGED attempt
    /\ UNCHANGED <<loaded, chunks, aborted, strayed>>

DelayEnds ==
    /\ pc = "delay"
    /\ pc' = "get"
    /\ UNCHANGED <<loaded, attempt, chunks, aborted, strayed>>

Abort ==
    /\ ~aborted /\ ~Ended
    /\ aborted' = TRUE
    /\ UNCHANGED <<pc, loaded, attempt, chunks, strayed>>

Step ==
    HeadProbe \/ RangeProbe \/ Single \/ Loop \/ ChunkArrives \/ ServerStrays \/ ChunkFails \/ DelayEnds

Next == Step \/ Abort

\* Timers fire and requests settle, one way or the other.
Fairness == WF_vars(Step)

Spec == Init /\ [][Next]_vars /\ Fairness

-----------------------------------------------------------------------------

(* Unless the server ignores a range it announced to honour, the chunks are *)
(* the resource from where the caller stood: no gap and no byte twice,      *)
(* through short answers and retries, and to the end when the call resolves *)
(* (the loop of downloadResumable).                                         *)
ChunksFitTogether ==
    strayed = 0 /\ chunks \notin {<<>>, <<Whole>>} =>
        /\ chunks[1].from = StartOffset
        /\ \A i \in 2..Len(chunks) : chunks[i].from = chunks[i - 1].to
        /\ pc = "done" => chunks[Len(chunks)].to = Total

(* A download ends, however often chunks fail, as long as the server does   *)
(* not send empty answers for ever (maxRetries).                            *)
DownloadEnds == <>Ended
=============================================================================
