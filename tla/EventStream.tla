----------------------------- MODULE EventStream -----------------------------
(***************************************************************************)
(* sseStreamReconnecting over sseStream and linesOf, src/src/stream/       *)
(* index.ts, and a server that sends the events after Last-Event-ID.       *)
(* An event is three lines, two of data and its id before or after them,   *)
(* and a blank line; a connection ends between any two lines, in order     *)
(* (EOF) or with an error.                                                 *)
(***************************************************************************)
EXTENDS Integers, Sequences

CONSTANTS
    NumEvents,
    IdFirst,        \* the events whose id comes before their data
    RetryOf,        \* their retry field, 0 without one
    Fallback,       \* reconnectDelayMs
    MaxDelay,
    MaxRetries,
    MaxCuts         \* bound: connections that end

Events == 1..NumEvents

EventStreamAssumption ==
    /\ NumEvents \in Nat /\ MaxRetries \in Nat /\ MaxCuts \in Nat
    /\ Fallback \in Nat /\ MaxDelay \in Nat
    /\ IdFirst \subseteq Events
    /\ RetryOf \in [Events -> Nat]

VARIABLES
    pc,
    sending,        \* the event the server is sending
    lines,          \* of that event that have been parsed
    lastEventId,    \* 0 before the first
    serverRetry,    \* serverRetryMs, 0 before the first
    failures,
    delay,          \* of the sleep
    delivered,      \* what the consumer was given
    aborted,
    cuts,           \* connections that ended
    truncated       \* one ended in order inside an event

vars == <<pc, sending, lines, lastEventId, serverRetry, failures, delay, delivered,
          aborted, cuts, truncated>>
parser == <<sending, lines>>
consumer == <<lastEventId, serverRetry, delivered>>
backoff == <<failures, delay>>
history == <<cuts, truncated>>

Ended == pc = "ended"

TypeOK ==
    /\ pc \in {"loop", "connecting", "reading", "closed", "sleep", "ended"}
    /\ sending \in 1..NumEvents + 1 /\ lines \in 0..3
    /\ lastEventId \in 0..NumEvents
    /\ serverRetry \in Nat /\ failures \in 0..MaxRetries + 1 /\ delay \in 0..MaxDelay
    /\ \A i \in DOMAIN delivered : delivered[i] \in [event : Events, id : BOOLEAN, data : 1..2]
    /\ aborted \in BOOLEAN
    /\ cuts \in 0..MaxCuts /\ truncated \in BOOLEAN

Init ==
    /\ pc = "loop"
    /\ sending = 1 /\ lines = 0
    /\ lastEventId = 0 /\ serverRetry = 0 /\ delivered = <<>>
    /\ failures = 0 /\ delay = 0
    /\ aborted = FALSE
    /\ cuts = 0 /\ truncated = FALSE

-----------------------------------------------------------------------------

Loop ==
    /\ pc = "loop"
    /\ pc' = IF aborted THEN "ended" ELSE "connecting"
    /\ UNCHANGED <<parser, consumer, backoff, aborted, history>>

\* The server goes on after Last-Event-ID.
Opens ==
    /\ pc = "connecting" /\ ~aborted
    /\ pc' = "reading"
    /\ failures' = 0
    /\ sending' = lastEventId + 1 /\ lines' = 0
    /\ UNCHANGED <<consumer, delay, aborted, history>>

Line ==
    /\ pc = "reading" /\ sending <= NumEvents /\ lines < 3
    /\ lines' = lines + 1
    /\ UNCHANGED <<pc, sending, consumer, backoff, aborted, history>>

\* The fields of `event' that the lines have filled.
HasId == lines = 3 \/ (lines > 0 /\ sending \in IdFirst)
DataLines == IF sending \in IdFirst /\ lines > 0 THEN lines - 1
             ELSE IF lines > 2 THEN 2 ELSE lines

\* An event is yielded; its id and retry are kept first.
Yield ==
    /\ delivered' = Append(delivered, [event |-> sending, id |-> HasId, data |-> DataLines])
    /\ lastEventId' = IF HasId THEN sending ELSE lastEventId
    /\ serverRetry' = IF RetryOf[sending] > 0 THEN RetryOf[sending] ELSE serverRetry

BlankLine ==
    /\ pc = "reading" /\ lines = 3
    /\ Yield
    /\ sending' = sending + 1 /\ lines' = 0
    /\ UNCHANGED <<pc, backoff, aborted, history>>

Cut ==
    /\ cuts < MaxCuts
    /\ cuts' = cuts + 1
    /\ pc' = "closed"
    /\ lines' = 0
    /\ UNCHANGED <<sending, backoff, aborted>>

\* The end of the stream flushes what has data.
Eof ==
    /\ pc = "reading"
    /\ Cut
    /\ IF DataLines > 0 THEN Yield ELSE UNCHANGED consumer
    /\ truncated' = (truncated \/ lines \in {1, 2})

\* Faulty variant of Breaks: an error flushes what has data, like an end.
BreaksFlushing ==
    /\ pc = "reading"
    /\ Cut
    /\ IF DataLines > 0 THEN Yield ELSE UNCHANGED consumer
    /\ UNCHANGED truncated

\* An error does not.
Breaks ==
    /\ pc = "reading"
    /\ Cut
    /\ UNCHANGED <<consumer, truncated>>

OpenFails ==
    /\ pc = "connecting"
    /\ Cut
    /\ UNCHANGED <<consumer, truncated>>

\* An aborted request or body rejects: no connection is lost by it.
Cancelled ==
    /\ pc \in {"connecting", "reading"} /\ aborted
    /\ pc' = "closed"
    /\ lines' = 0
    /\ UNCHANGED <<sending, consumer, backoff, aborted, history>>

ConsumerReturns ==
    /\ pc = "reading"
    /\ pc' = "ended"
    /\ UNCHANGED <<parser, consumer, backoff, aborted, history>>

Lesser(a, b) == IF a < b THEN a ELSE b

\* After a connection, how ever it ended.
Closed ==
    /\ pc = "closed"
    /\ IF aborted \/ failures + 1 > MaxRetries
       THEN pc' = "ended" /\ UNCHANGED backoff
       ELSE /\ pc' \in {"sleep", "ended"}   \* shouldReconnect
            /\ failures' = failures + 1
            /\ delay' = Lesser(IF serverRetry > 0 THEN serverRetry ELSE Fallback * 2^Lesser(failures, 6),
                               MaxDelay)
    /\ UNCHANGED <<parser, consumer, aborted, history>>

SleepEnds ==
    /\ pc = "sleep"
    /\ pc' = "loop"
    /\ UNCHANGED <<parser, consumer, backoff, aborted, history>>

Abort ==
    /\ ~aborted /\ ~Ended
    /\ aborted' = TRUE
    /\ UNCHANGED <<pc, parser, consumer, backoff, history>>

Advance == Loop \/ Opens \/ Line \/ BlankLine \/ Cancelled \/ Closed \/ SleepEnds

Next == Advance \/ Eof \/ Breaks \/ OpenFails \/ ConsumerReturns \/ Abort

\* The server sends what it has and timers fire; only so many connections
\* are lost.
Fairness == WF_vars(Advance)

Spec == Init /\ [][Next]_vars /\ Fairness

-----------------------------------------------------------------------------

(* Across any number of reconnections the consumer is given every event     *)
(* once, whole and in order, as long as no connection ends in order inside  *)
(* an event; errors may end it anywhere (sseStream, Last-Event-ID).         *)
ExactlyOnceInOrder ==
    ~truncated => \A i \in DOMAIN delivered : delivered[i] = [event |-> i, id |-> TRUE, data |-> 2]

(* No event is skipped, even then: what Last-Event-ID tells the server to   *)
(* leave out has been delivered, if only in part (the order of the          *)
(* assignment to lastEventId and the yield, the flush at the end).          *)
NothingSkipped ==
    \A e \in 1..lastEventId : \E i \in DOMAIN delivered : delivered[i].event = e

(* While it has not delivered everything, a stream that nobody stops keeps  *)
(* coming back, and gets there once connections hold (_sseStreamReconnecting). *)
EverythingArrives == <>(Ended \/ lastEventId = NumEvents)

(* It gives up at maxRetries consecutive failures: no request goes out with *)
(* more behind it.                                                          *)
RetriesAreBounded == pc = "connecting" => failures <= MaxRetries
=============================================================================
