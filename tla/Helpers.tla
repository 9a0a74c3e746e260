------------------------------- MODULE Helpers -------------------------------
(* The helpers that live for one call or one loop, the rate limiter that    *)
(* makes calls wait, and the Requests of a call.  They share no state: a    *)
(* behaviour moves one of them, `part'.                                     *)
EXTENDS Integers, Sequences

\* The modules that are instantiated below say what they stand for.
CONSTANTS
    Calls, Cost, Capacity, Rate, Reports,                       \* RateLimit
    Total, ChunkSize, MaxRetries, MaxCalls,                     \* Upload
    StartOffset, MaxPieces,                                     \* Download
    N,                                                          \* Hedge
    MaxAttempts, HasTimeout,                                    \* Poll
    Pages, First, PageSize, CountLimits, RequestLimits, NoLimit,  \* Paginate
    NumEvents, IdFirst, RetryOf, Fallback, MaxDelay, MaxCuts,   \* EventStream
    MaxLimit,                                                   \* OutgoingCall
    Size, Totals, Unknown, Interval, MaxNow,                    \* Progress
    Limit, Delays, BackoffLimit, Jitters, Caps, Second, MaxTimer, Responses, MaxClock,  \* RetryDelay
    Operations, Queries, QueryOf, Mutations, ShortUrls, Persisted, Resends  \* Graphql

VARIABLES
    part,
    available, elapsed, bypass, at, sleeping, granted,
    uploadPc, offset, uploadAttempt, uploadAborted, calls, stored, complete,
    downloadPc, loaded, downloadAttempt, chunks, downloadAborted, strayed,
    delayed, hedgePc, launched, state, stopped, winner, hedgeAborted,
    pollPc, pollAttempt, satisfied, pollAborted, lateRequests,
    pagePc, page, pageAttempt, items, yielded, seen, countLimit, requestLimit,
    eventsPc, sending, lines, lastEventId, serverRetry, failures, delay, delivered, eventsAborted,
    cuts, truncated,
    callPc, setup, current, override, made, callAttempt, span, ended, sent, replacedBy,
    direction, total, now, last, moved, events, stream, source, late,
    retryPc, clock, policy, retryAttempt, lastResponse, retryDelay, wakeAt, heard,
    queryAt, text, method, answer, tries, adrift, known, ran, resent, confused

limiterVars == <<available, elapsed, bypass, at, sleeping, granted>>
uploadVars == <<uploadPc, offset, uploadAttempt, uploadAborted, calls, stored, complete>>
downloadVars == <<downloadPc, loaded, downloadAttempt, chunks, downloadAborted, strayed>>
hedgeVars == <<delayed, hedgePc, launched, state, stopped, winner, hedgeAborted>>
pollVars == <<pollPc, pollAttempt, satisfied, pollAborted, lateRequests>>
pageVars == <<pagePc, page, pageAttempt, items, yielded, seen, countLimit, requestLimit>>
eventsVars == <<eventsPc, sending, lines, lastEventId, serverRetry, failures, delay, delivered,
                eventsAborted, cuts, truncated>>
callVars == <<callPc, setup, current, override, made, callAttempt, span, ended, sent, replacedBy>>
progressVars == <<direction, total, now, last, moved, events, stream, source, late>>
delayVars == <<retryPc, clock, policy, retryAttempt, lastResponse, retryDelay, wakeAt, heard>>
queryVars == <<queryAt, text, method, answer, tries, adrift, known, ran, resent, confused>>
vars == <<part, limiterVars, uploadVars, downloadVars, hedgeVars, pollVars, pageVars, eventsVars,
          callVars, progressVars, delayVars, queryVars>>

RateLimit == INSTANCE RateLimit
Upload == INSTANCE Upload WITH pc <- uploadPc, attempt <- uploadAttempt, aborted <- uploadAborted
Download == INSTANCE Download WITH pc <- downloadPc, attempt <- downloadAttempt, aborted <- downloadAborted
Hedge == INSTANCE Hedge WITH pc <- hedgePc, aborted <- hedgeAborted
Poll == INSTANCE Poll WITH pc <- pollPc, attempt <- pollAttempt, aborted <- pollAborted
Paginate == INSTANCE Paginate WITH pc <- pagePc, attempt <- pageAttempt
EventStream == INSTANCE EventStream WITH pc <- eventsPc, aborted <- eventsAborted
OutgoingCall == INSTANCE OutgoingCall WITH pc <- callPc, attempt <- callAttempt
Progress == INSTANCE Progress
RetryDelay == INSTANCE RetryDelay WITH pc <- retryPc, now <- clock, attempt <- retryAttempt,
                                       delay <- retryDelay, MaxNow <- MaxClock
Graphql == INSTANCE Graphql WITH at <- queryAt, Calls <- Operations

ASSUME HelpersAssumption ==
    /\ RateLimit!RateLimitAssumption
    /\ Upload!UploadAssumption
    /\ Download!DownloadAssumption
    /\ Hedge!HedgeAssumption
    /\ Poll!PollAssumption
    /\ Paginate!PaginateAssumption
    /\ EventStream!EventStreamAssumption
    /\ OutgoingCall!OutgoingCallAssumption
    /\ Progress!ProgressAssumption
    /\ RetryDelay!RetryDelayAssumption
    /\ Graphql!GraphqlAssumption

Parts == {"ratelimit", "upload", "download", "hedge", "poll", "paginate", "events", "call", "progress",
          "delay", "graphql"}

\* Where a part may begin in more than one way, it does so if it is the one
\* that moves.
Init ==
    /\ part \in Parts
    /\ RateLimit!Init /\ Upload!Init /\ Download!Init /\ EventStream!Init
    /\ Hedge!Init /\ (part # "hedge" => delayed)
    /\ Poll!Init /\ (part # "poll" => pollPc = "loop")
    /\ Paginate!Init /\ (part # "paginate" =>
        /\ countLimit = CHOOSE x \in CountLimits : TRUE
        /\ requestLimit = CHOOSE x \in RequestLimits : TRUE)
    /\ Graphql!Init
    /\ Progress!Init /\ (part # "progress" => direction = "up")
    /\ RetryDelay!Init /\ (part # "delay" => policy = CHOOSE x \in RetryDelay!Policies : TRUE)
    /\ OutgoingCall!Init
    /\ part # "call" =>
        /\ setup = [payload |-> FALSE, body |-> FALSE, policy |-> FALSE, limit |-> 0,
                    signal |-> TRUE, otel |-> "off"]
        /\ current.key = OutgoingCall!NoKey

Others(p) ==
    /\ UNCHANGED part
    /\ p # "ratelimit" => UNCHANGED limiterVars
    /\ p # "upload" => UNCHANGED uploadVars
    /\ p # "download" => UNCHANGED downloadVars
    /\ p # "hedge" => UNCHANGED hedgeVars
    /\ p # "poll" => UNCHANGED pollVars
    /\ p # "paginate" => UNCHANGED pageVars
    /\ p # "events" => UNCHANGED eventsVars
    /\ p # "call" => UNCHANGED callVars
    /\ p # "progress" => UNCHANGED progressVars
    /\ p # "delay" => UNCHANGED delayVars
    /\ p # "graphql" => UNCHANGED queryVars

Moves(p, A) == part = p /\ A /\ Others(p)

Next ==
    \/ Moves("ratelimit", RateLimit!Next)
    \/ Moves("upload", Upload!Next)
    \/ Moves("download", Download!Next)
    \/ Moves("hedge", Hedge!Next)
    \/ Moves("poll", Poll!Next)
    \/ Moves("paginate", Paginate!Next)
    \/ Moves("events", EventStream!Next)
    \/ Moves("call", OutgoingCall!Next)
    \/ Moves("progress", Progress!Next)
    \/ Moves("delay", RetryDelay!Next)
    \/ Moves("graphql", Graphql!Next)

\* The fairness each module assumes, of the part that moves.
Fairness ==
    /\ WF_vars(Moves("ratelimit", RateLimit!Tick))
    /\ \A c \in Calls : WF_vars(Moves("ratelimit", RateLimit!Acquire(c)))
    /\ WF_vars(Moves("upload", Upload!Step))
    /\ WF_vars(Moves("download", Download!Step))
    /\ WF_vars(Moves("hedge", Hedge!Step))
    /\ \A i \in 1..N : WF_vars(Moves("hedge", Hedge!Cancelled(i)))
    /\ WF_vars(Moves("poll", Poll!Step))
    /\ WF_vars(Moves("poll", Poll!Timeout))
    /\ WF_vars(Moves("poll", Poll!RequestCancelled))
    /\ WF_vars(Moves("poll", Poll!UntilSettles))
    /\ WF_vars(Moves("paginate", Paginate!Next))
    /\ WF_vars(Moves("events", EventStream!Advance))

Spec == Init /\ [][Next]_vars /\ Fairness

-----------------------------------------------------------------------------

(* The variables of every part have their types.                            *)
HelpersTypeOK ==
    /\ RateLimit!TypeOK /\ Upload!TypeOK /\ Download!TypeOK /\ Hedge!TypeOK /\ Poll!TypeOK
    /\ Paginate!TypeOK /\ EventStream!TypeOK /\ OutgoingCall!TypeOK /\ Progress!TypeOK
    /\ RetryDelay!TypeOK /\ Graphql!TypeOK

(* The rate limiter is a pair of buckets that fill at every tick: nobody    *)
(* takes more than there is or during a hold, and no answer of the server   *)
(* shortens the hold of an earlier one (acquire, observeRemaining,          *)
(* drainAndBackoff).                                                        *)
AdmitsLikeABucket == RateLimit!AdmitsLikeABucket

(* Every helper comes to an end its caller can see, however requests fail   *)
(* and whenever signals abort: calls the bucket can pay for go out,         *)
(* transfers settle, the winner of a hedge is handed on, a poll with a      *)
(* timeout ends, cycles of pages end, and a stream of events is delivered   *)
(* or given up.                                                             *)
HelpersEnd ==
    /\ part = "ratelimit" => RateLimit!AffordableCallsGoOut
    /\ part = "upload" => Upload!UploadEnds
    /\ part = "download" => Download!DownloadEnds
    /\ part = "hedge" => Hedge!WinnerIsReturned
    /\ part = "poll" => Poll!PollEnds
    /\ part = "paginate" => Paginate!CyclesEnd
    /\ part = "events" => EventStream!EverythingArrives

(* A transfer neither skips nor repeats a byte, through lost replies, short *)
(* answers, retries and resumed calls, and one that resolves is whole       *)
(* (uploadResumable, downloadResumable).                                    *)
TransfersLoseNothing ==
    Upload!ClientNeverAhead /\ Upload!SuccessIsComplete /\ Download!ChunksFitTogether

(* A hedge refuses only when every endpoint has failed or the caller        *)
(* aborted, and leaves no attempt running that has not been told to stop    *)
(* (launch, Promise.any).                                                   *)
NoAttemptLeftRunning == Hedge!NoAttemptLeftRunning /\ Hedge!RefusedOnlyByAll

(* No poll goes on after its signal, no iteration past its limits but for   *)
(* the first item, and no retry before the time the server asked for; what  *)
(* a poll returns was accepted, and a wait beyond backoffLimit was asked    *)
(* for by the server or by the caller's jitter function (poll, _paginate,   *)
(* calculateRetryDelay).                                                    *)
LoopsKeepWithinBounds ==
    /\ Poll!NoRequestAfterAbort /\ Poll!ResultIsDecided
    /\ Paginate!LimitsHold
    /\ RetryDelay!NotBeforeAsked /\ RetryDelay!LongWaitsAreAskedFor

(* Reconnections neither lose, repeat nor reorder an event as long as no    *)
(* connection ends in order inside one, where the part that came is         *)
(* delivered and the event skipped or repeated; in any case no number is    *)
(* skipped, and reconnections stop in time (sseStream,                      *)
(* _sseStreamReconnecting).                                                 *)
ExactlyOnceInOrder ==
    EventStream!ExactlyOnceInOrder /\ EventStream!NothingSkipped /\ EventStream!RetriesAreBounded

(* The attempts of a call carry one Idempotency-Key and, with a signal, a   *)
(* body that nobody has read, whoever replaced the request; asking for an   *)
(* operation under its hash and then in full runs it no more often than the *)
(* client sends it again, and fails only for what it is                     *)
(* (applyIdempotencyKey, withSignal, exec).                                 *)
AttemptsAgree ==
    /\ OutgoingCall!AttemptsAgree
    /\ Graphql!RunsOnce /\ Graphql!ForgettingIsHidden

(* A completed call has ended its span, if nobody replaced the request      *)
(* after the span was started (otel).                                       *)
SpansEndUnlessReplaced == OutgoingCall!SpansEndUnlessReplaced

(* Documented, not held by the code: a completed call has ended its span    *)
(* (otel).                                                                  *)
SpansEnd == OutgoingCall!SpansEnd

(* Progress is told in order, not too often, and to the end; a cancelled    *)
(* download reads at most one more chunk (_progress.ts).                    *)
ProgressIsTold == Progress!ProgressIsTold
=============================================================================
