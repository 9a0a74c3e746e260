-------------------------- MODULE RequestPipeline --------------------------
(***************************************************************************)
(* One logical call through the client, src/src/misina.ts: request(),      *)
(* runWithRetry(), finalizeResponse(), with the helpers of _retry.ts,      *)
(* _signal.ts, _redirect.ts and _max_size.ts that decide what it does.     *)
(*                                                                         *)
(* `pc' names the await the call is at; between two awaits the code runs   *)
(* synchronously, so an action is everything up to the next await.  The    *)
(* user's AbortSignal, the timeout of the attempt and the total timeout    *)
(* fire between any two of them.  Hooks and callbacks answer whatever they *)
(* may.  Left abstract: urls, headers and payloads; durations (a delay is  *)
(* zero or long, a timer fires sooner or later).                           *)
(*                                                                         *)
(* The driver is external: it honours the signal of the request it is      *)
(* given, like fetch, and may otherwise stay silent for ever.              *)
(***************************************************************************)
EXTENDS Integers, Sequences

CONSTANTS
    Options,            \* the resolved options a call may run with
    DriverResponses,    \* the responses the driver may answer with
    HookResponses,      \* the responses a hook may return
    NoResponse,         \* ctx.response before there is one
    HooksMayThrow       \* whether hooks, callbacks and the inputs may fail

NoError == "none"
UserReasons == {"AbortError", "DOMTimeout", "Custom"}

\* MisinaResolvedOptions, reduced to what the control flow reads.
OptionRecord ==
    [limit : Nat,                 \* retry.limit
     retriable : BOOLEAN,         \* retry.methods includes the method
     retryOnTimeout : BOOLEAN,    \* retry.retryOnTimeout
     timeout : BOOLEAN,           \* a timeout per attempt is set
     total : BOOLEAN,             \* totalTimeout is set
     bodyTimeout : BOOLEAN,       \* bodyTimeout is set
     maxSize : BOOLEAN,           \* maxResponseSize is set
     throwHttp : BOOLEAN,         \* throwHttpErrors
     validates : BOOLEAN,         \* validateResponse is given
     hasBody : BOOLEAN,           \* the request carries a body
     redirect : {"manual", "error", "follow"},
     maxHops : Nat,               \* redirectMaxCount
     signal : {NoError} \cup UserReasons]   \* no signal, or its abort reason

ResponseRecord ==
    [status : {"ok", "redirect", "retriable", "error"},
     hint : {"none", "true", "false"},                      \* x-should-retry
     location : {"absent", "refused", "consumed", "next"},
     body : {"good", "malformed", "broken", "stalled", "oversized"},
     declared : BOOLEAN,          \* content-length exceeds maxResponseSize
     from : {"driver", "hook"}]

ASSUME PipelineAssumption ==
    /\ Options \subseteq OptionRecord
    /\ DriverResponses \subseteq {r \in ResponseRecord : r.from = "driver"}
    /\ HookResponses \subseteq {r \in ResponseRecord : r.from = "hook" /\ r.body # "stalled"}
    /\ NoResponse \notin DriverResponses \cup HookResponses
    /\ HooksMayThrow \in BOOLEAN

Responses == DriverResponses \cup HookResponses

Pcs == {"start", "defer", "beforeRequest", "driver", "redirect", "decide",
        "afterResponse", "retryBody", "shouldRetry", "backoff", "beforeRetry",
        "finalize", "validate", "beforeError", "complete", "done"}

Errors == {NoError, "HTTPError", "NetworkError", "TimeoutError", "ResponseTooLarge",
           "ValidationError", "RedirectError", "SyntaxError", "BodyFailure",
           "TypeError", "HookError", "Mapped"} \cup UserReasons

VARIABLES
    opts,         \* the options of this call
    pc,           \* the await the call is at
    attempt,      \* ctx.attempt
    hops,         \* redirects followed in this attempt (visited)
    override,     \* a beforeRetry hook replaced the request (userOverride)
    userAborted,  \* the caller's signal has aborted
    totalFired,   \* the total timeout has fired
    aborted,      \* what aborted the composed signal of the attempt, or "live"
    detached,     \* the request in the driver does not carry that signal
    delayed,      \* the wait before this attempt is longer than 0 ms
    reply,        \* the response being processed
    response,     \* ctx.response
    errorOf,      \* the attempt whose failure is in ctx.error, or -1
    err,          \* the error on its way to the caller
    completions,  \* what the onComplete hooks were given, in order
    outcome,      \* how the caller's promise settled
    \* History, read by the properties only.
    sends,        \* how many requests the driver was given
    late,         \* how many of those after the user's or the total abort
    stray         \* the late ones that did not carry the attempt's signal

signals == <<userAborted, totalFired>>
carried == <<aborted, detached>>
counts == <<sends, late, stray>>
vars == <<opts, pc, attempt, hops, override, userAborted, totalFired, aborted, detached,
          delayed, reply, response, errorOf, err, completions, outcome, sends, late, stray>>

Causes == {"live", "user", "total", "timeout"}
Report == [response : Responses \cup {NoResponse}, error : Errors]

TypeOK ==
    /\ opts \in Options
    /\ pc \in Pcs
    /\ attempt \in 0 .. opts.limit
    /\ hops \in 0 .. opts.maxHops + 1
    /\ override \in BOOLEAN
    /\ userAborted \in BOOLEAN
    /\ totalFired \in BOOLEAN
    /\ aborted \in Causes
    /\ detached \in BOOLEAN
    /\ delayed \in BOOLEAN
    /\ reply \in Responses \cup {NoResponse}
    /\ response \in Responses \cup {NoResponse}
    /\ errorOf \in -1 .. opts.limit
    /\ err \in Errors
    /\ completions \in Seq(Report)
    /\ outcome \in Errors \cup {"pending"}
    /\ sends \in Nat
    /\ late \in Nat
    /\ stray \in Nat

Init ==
    /\ opts \in Options
    /\ pc = "start"
    /\ attempt = 0
    /\ hops = 0
    /\ override = FALSE
    /\ userAborted = FALSE
    /\ totalFired = FALSE
    /\ aborted = "live"
    /\ detached = FALSE
    /\ delayed = FALSE
    /\ reply = NoResponse
    /\ response = NoResponse
    /\ errorOf = -1
    /\ err = NoError
    /\ completions = <<>>
    /\ outcome = "pending"
    /\ sends = 0
    /\ late = 0
    /\ stray = 0

-----------------------------------------------------------------------------
(* Signals.                                                                 *)

Reason(cause) == IF cause = "user" THEN opts.signal ELSE "DOMTimeout"

HasSignal == opts.signal # NoError \/ opts.total \/ opts.timeout

\* Faulty variant of BuildAttemptSignal: composes without the total timeout.
WithoutTotalSignal == IF userAborted THEN "user" ELSE "live"

\* buildAttemptSignal over composeSignals: an already aborted source wins, the
\* caller's first; otherwise the first source to fire from now on.
BuildAttemptSignal ==
    IF userAborted THEN "user" ELSE IF totalFired THEN "total" ELSE "live"

\* Faulty variant of AttemptPcs: the timer is cleared when the headers arrive.
UntilHeaders == {"driver", "redirect"}

\* The awaits at which the signal of the attempt still matters.
AttemptPcs == {"driver", "redirect", "afterResponse", "retryBody", "shouldRetry", "finalize"}

UserAborts ==
    /\ opts.signal # NoError
    /\ ~userAborted
    /\ pc # "done"
    /\ userAborted' = TRUE
    /\ aborted' = IF aborted = "live" THEN "user" ELSE aborted
    /\ UNCHANGED <<opts, pc, attempt, hops, override, totalFired, detached, delayed, reply,
                   response, errorOf, err, completions, outcome, counts>>

\* The total timeout is armed once the defer callbacks have run.
TotalFires ==
    /\ opts.total
    /\ ~totalFired
    /\ pc \notin {"start", "defer", "done"}
    /\ totalFired' = TRUE
    /\ aborted' = IF aborted = "live" THEN "total" ELSE aborted
    /\ UNCHANGED <<opts, pc, attempt, hops, override, userAborted, detached, delayed, reply,
                   response, errorOf, err, completions, outcome, counts>>

AttemptTimesOut ==
    /\ opts.timeout
    /\ aborted = "live"
    /\ pc \in AttemptPcs
    /\ aborted' = "timeout"
    /\ UNCHANGED <<opts, pc, attempt, hops, override, signals, detached, delayed, reply, response,
                   errorOf, err, completions, outcome, counts>>

-----------------------------------------------------------------------------
(* Ways to leave an await.                                                  *)

Goto(label) ==
    /\ pc' = label
    /\ UNCHANGED outcome

\* The caller's promise rejects here and now: no further hook runs.
Reject(error) ==
    /\ pc' = "done"
    /\ outcome' = error

HookThrows ==
    /\ HooksMayThrow
    /\ Reject("HookError")
    /\ UNCHANGED <<opts, attempt, hops, override, signals, carried, delayed, reply, response,
                   errorOf, err, completions, counts>>

Send ==
    /\ sends' = sends + 1
    /\ late' = IF userAborted \/ totalFired THEN late + 1 ELSE late
    /\ stray' = IF (userAborted \/ totalFired) /\ detached' THEN stray + 1 ELSE stray

MapTransportError(cause) ==
    IF cause = "DOMTimeout" \/ (aborted # "live" /\ Reason(aborted) = "DOMTimeout")
    THEN "TimeoutError"
    ELSE IF cause = "TypeError" THEN "NetworkError" ELSE cause

\* followRedirects threw: the catch block maps the error and asks canRetryError.
TransportFails(cause) ==
    /\ err' = MapTransportError(cause)
    /\ Goto("decide")

\* A body that beforeRetry's request carried is gone once it was sent.
SpentOverride(fresh) == override /\ ~fresh /\ opts.hasBody

\* The top of the loop body: build the signal, take the request of this attempt
\* and send it.  withSignal rewraps the request, which refuses a used body outside
\* the try block; without a signal it does not, and forceManualRedirect may, inside.
\* A request nothing was composed for keeps the signal a hook gave it.
Dispatch(fresh) ==
    /\ aborted' = BuildAttemptSignal
    /\ detached' \in IF HasSignal THEN {FALSE} ELSE BOOLEAN
    /\ override' = (override \/ fresh)
    /\ \/ /\ SpentOverride(fresh) /\ HasSignal
          /\ Reject("TypeError")
          /\ UNCHANGED <<hops, err, counts>>
       \/ /\ SpentOverride(fresh) /\ ~HasSignal /\ opts.redirect # "follow"
          /\ TransportFails("TypeError")
          /\ UNCHANGED <<hops, counts>>
       \/ /\ SpentOverride(fresh) => ~HasSignal
          /\ Goto("driver")
          /\ hops' = 0
          /\ Send
          /\ UNCHANGED err

\* Faulty variant of CanRetryError: forgets retry.limit.
CanAlwaysRetry(error) ==
    \/ error = "TimeoutError" /\ opts.retryOnTimeout
    \/ error = "NetworkError" /\ opts.retriable

CanRetryError(error) ==
    /\ attempt < opts.limit
    /\ \/ error = "TimeoutError" /\ opts.retryOnTimeout
       \/ error = "NetworkError" /\ opts.retriable

ShouldRetryHttpError(r) ==
    /\ opts.retriable
    /\ r.hint # "false"
    /\ r.hint = "true" \/ r.status = "retriable"

\* Next iteration of the loop: calculateRetryDelay gives zero or more.  (A delay
\* callback that throws ends the call as a shouldRetry callback that throws does.)
Backoff ==
    /\ attempt' = attempt + 1
    /\ delayed' \in BOOLEAN
    /\ Goto("backoff")

-----------------------------------------------------------------------------
(* Before the first request goes out.                                       *)

\* resolveOptions and the init hooks, then the check for an aborted signal.
Start ==
    /\ pc = "start"
    /\ \/ HookThrows
       \/ /\ IF userAborted THEN Reject(opts.signal) ELSE Goto("defer")
          /\ UNCHANGED <<opts, attempt, hops, override, signals, carried, delayed, reply,
                         response, errorOf, err, completions, counts>>

\* applyDefer, the total deadline, buildRequest.
RunDefer ==
    /\ pc = "defer"
    /\ \/ HookThrows
       \/ /\ Goto("beforeRequest")
          /\ UNCHANGED <<opts, attempt, hops, override, signals, carried, delayed, reply,
                         response, errorOf, err, completions, counts>>

\* A Response from a hook skips the whole retry loop, ctx.response included.
BeforeRequest ==
    /\ pc = "beforeRequest"
    /\ \/ HookThrows
       \/ /\ Dispatch(FALSE)
          /\ UNCHANGED <<opts, attempt, signals, delayed, reply, response, errorOf, completions>>
       \/ /\ reply' \in HookResponses
          /\ Goto("finalize")
          /\ UNCHANGED <<opts, attempt, hops, override, signals, carried, delayed, response,
                         errorOf, err, completions, counts>>

-----------------------------------------------------------------------------
(* The driver and the redirects.                                            *)

\* A response that is not followed: the size check runs outside the try block.
Receive(r) ==
    IF opts.maxSize /\ r.declared
    THEN Reject("ResponseTooLarge") /\ UNCHANGED <<reply, response>>
    ELSE Goto("afterResponse") /\ reply' = r /\ response' = r

\* A refusal quotes the target: isRawNetworkError takes one whose url contains
\* "network" or "socket" for a network failure.
Refusals == {"RedirectError", "TypeError"}

\* Faulty variant of TooManyHops: compares before it counts.
OneHopTooMany == hops > opts.maxHops

TooManyHops == hops + 1 > opts.maxHops

\* redirect: "manual" - a redirect is followed, up to redirectMaxCount of them.
FollowRedirect(r) ==
    /\ hops' = hops + 1
    /\ \/ /\ TooManyHops
          /\ TransportFails("RedirectError")
          /\ UNCHANGED <<reply, response>>
       \/ /\ ~TooManyHops
          /\ r.location = "refused"
          /\ \E refusal \in Refusals : TransportFails(refusal)
          /\ UNCHANGED <<reply, response>>
       \/ /\ ~TooManyHops
          /\ r.location = "absent"
          /\ Receive(r)
          /\ UNCHANGED err
       \/ /\ ~TooManyHops
          /\ r.location = "consumed"
          /\ TransportFails("TypeError")
          /\ UNCHANGED <<reply, response>>
       \/ /\ ~TooManyHops
          /\ r.location = "next"
          /\ Goto("redirect")
          /\ UNCHANGED <<err, reply, response>>

\* What else may abort a request that does not carry the attempt's signal.
OwnReasons == IF detached THEN UserReasons ELSE {}

DriverResponds(r) ==
    /\ pc = "driver"
    /\ detached \/ aborted = "live"
    /\ \/ /\ r.status # "redirect" \/ (opts.redirect = "follow" /\ r.location = "absent")
          /\ Receive(r)
          /\ UNCHANGED <<hops, err>>
       \/ /\ r.status = "redirect"
          /\ opts.redirect = "error"
          /\ \E refusal \in Refusals : TransportFails(refusal)
          /\ UNCHANGED <<hops, reply, response>>
       \/ /\ r.status = "redirect"
          /\ opts.redirect = "manual"
          /\ FollowRedirect(r)
    /\ UNCHANGED <<opts, attempt, override, signals, carried, delayed, errorOf, completions,
                   counts>>

\* A network failure, or the abort of a signal that is the request's own.
DriverFails ==
    /\ pc = "driver"
    /\ detached \/ aborted = "live"
    /\ \E cause \in {"TypeError"} \cup OwnReasons : TransportFails(cause)
    /\ UNCHANGED <<opts, attempt, hops, override, signals, carried, delayed, reply, response,
                   errorOf, completions, counts>>

\* The driver rejects with the reason of the signal it was given.
DriverAborts ==
    /\ pc = "driver"
    /\ ~detached /\ aborted # "live"
    /\ TransportFails(Reason(aborted))
    /\ UNCHANGED <<opts, attempt, hops, override, signals, carried, delayed, reply, response,
                   errorOf, completions, counts>>

\* The beforeRedirect hooks run inside the try block of the attempt.  The next hop
\* carries the signal of the one before, unless a hook returns a Request of its own,
\* which goes out as it is.
BeforeRedirect ==
    /\ pc = "redirect"
    /\ \/ /\ Goto("driver")
          /\ detached' \in BOOLEAN
          /\ Send
          /\ UNCHANGED err
       \/ /\ HooksMayThrow
          /\ \E cause \in {"HookError", "TypeError"} : TransportFails(cause)
          /\ UNCHANGED <<detached, counts>>
    /\ UNCHANGED <<opts, attempt, hops, override, signals, aborted, delayed, reply, response,
                   errorOf, completions>>

\* canRetryError, with the shouldRetry callback it awaits.
Decide ==
    /\ pc = "decide"
    /\ \/ /\ CanRetryError(err)
          /\ Backoff
       \/ /\ Goto("beforeError")
          /\ UNCHANGED <<attempt, delayed>>
       \/ /\ CanRetryError(err)
          /\ HooksMayThrow
          /\ Reject("HookError")
          /\ UNCHANGED <<attempt, delayed>>
    /\ errorOf' = IF attempt < opts.limit THEN attempt ELSE errorOf
    /\ UNCHANGED <<opts, hops, override, signals, carried, reply, response, err, completions,
                   counts>>

-----------------------------------------------------------------------------
(* A response has arrived.                                                  *)

RetriesResponse(r) ==
    /\ attempt < opts.limit
    /\ r.status # "ok"
    /\ ShouldRetryHttpError(r)

AfterResponse ==
    /\ pc = "afterResponse"
    /\ \/ HookThrows
       \/ /\ reply' \in {reply} \cup HookResponses
          /\ response' = reply'
          /\ Goto(IF RetriesResponse(reply') THEN "retryBody" ELSE "finalize")
          /\ UNCHANGED <<opts, attempt, hops, override, signals, carried, delayed, errorOf,
                         err, completions, counts>>

\* What reading the body of a response may come to.  The body of a driver's
\* response fails when the signal of its request aborts before it is read.
ReadOutcomes(r) ==
    {failure \in Errors :
        \/ failure = NoError /\ (r.body = "good" \/ (r.body = "oversized" /\ ~opts.maxSize))
        \/ failure = "SyntaxError" /\ r.body = "malformed"
        \/ failure = "BodyFailure" /\ r.body = "broken"
        \/ failure = "TimeoutError" /\ r.body = "stalled" /\ opts.bodyTimeout
        \/ failure = "ResponseTooLarge" /\ r.body = "oversized" /\ opts.maxSize
        \/ failure = Reason(aborted) /\ r.from = "driver" /\ aborted # "live" /\ ~detached
        \/ failure \in OwnReasons /\ r.from = "driver"}

\* Faulty variant of ParseForRetry: does not put the HTTPError in ctx.error.
ParseSilently ==
    /\ pc = "retryBody"
    /\ \E failure \in ReadOutcomes(reply) :
         IF failure = NoError THEN Goto("shouldRetry") ELSE Reject(failure)
    /\ UNCHANGED <<opts, attempt, hops, override, signals, carried, delayed, reply, response,
                   errorOf, err, completions, counts>>

\* parseResponseBody of a clone, for shouldRetry and beforeRetry to look at.
ParseForRetry ==
    /\ pc = "retryBody"
    /\ \E failure \in ReadOutcomes(reply) :
         IF failure = NoError
         THEN Goto("shouldRetry") /\ errorOf' = attempt
         ELSE Reject(failure) /\ UNCHANGED errorOf
    /\ UNCHANGED <<opts, attempt, hops, override, signals, carried, delayed, reply, response,
                   err, completions, counts>>

ShouldRetry ==
    /\ pc = "shouldRetry"
    /\ \/ HookThrows
       \/ /\ \/ Backoff
             \/ Goto("finalize") /\ UNCHANGED <<attempt, delayed>>
          /\ UNCHANGED <<opts, hops, override, signals, carried, reply, response, errorOf, err,
                         completions, counts>>

-----------------------------------------------------------------------------
(* Between two attempts: delayMs, the abort checks, the beforeRetry hooks.  *)

\* The one signal that wakes the sleep.
SleepAborted == IF opts.total THEN totalFired ELSE userAborted

SleepAborts ==
    /\ pc = "backoff"
    /\ delayed
    /\ SleepAborted
    /\ Reject(IF opts.total THEN "DOMTimeout" ELSE opts.signal)
    /\ UNCHANGED <<opts, attempt, hops, override, signals, carried, delayed, reply, response,
                   errorOf, err, completions, counts>>

\* Faulty variant of SleepEnds: goes on without looking at the signals again.
SleepEndsUnchecked ==
    /\ pc = "backoff"
    /\ ~delayed \/ ~SleepAborted
    /\ Goto("beforeRetry")
    /\ UNCHANGED <<opts, attempt, hops, override, signals, carried, delayed, reply, response,
                   errorOf, err, completions, counts>>

SleepEnds ==
    /\ pc = "backoff"
    /\ ~delayed \/ ~SleepAborted
    /\ IF userAborted THEN Reject(opts.signal)
       ELSE IF totalFired THEN Reject("DOMTimeout")
       ELSE Goto("beforeRetry")
    /\ UNCHANGED <<opts, attempt, hops, override, signals, carried, delayed, reply, response,
                   errorOf, err, completions, counts>>

BeforeRetry ==
    /\ pc = "beforeRetry"
    /\ \/ HookThrows
       \/ /\ \E fresh \in BOOLEAN : Dispatch(fresh)
          /\ UNCHANGED <<opts, attempt, signals, delayed, reply, response, errorOf, completions>>
       \/ /\ reply' \in HookResponses
          /\ response' = reply'
          /\ Goto("finalize")
          /\ UNCHANGED <<opts, attempt, hops, override, signals, carried, delayed, errorOf,
                         err, completions, counts>>

-----------------------------------------------------------------------------
(* finalizeResponse, runBeforeError, runOnComplete.                         *)

\* Faulty variant of Finalize: a body that cannot be read rejects the call as is.
FinalizeRaw ==
    /\ pc = "finalize"
    /\ \E failure \in ReadOutcomes(reply) :
         IF failure = NoError \/ (reply.status # "ok" /\ opts.throwHttp)
         THEN Goto("validate")
         ELSE Reject(IF failure = "BodyFailure" THEN "NetworkError" ELSE failure)
    /\ UNCHANGED <<opts, attempt, hops, override, signals, carried, delayed, reply, response,
                   errorOf, err, completions, counts>>

\* The body of an error response is read tolerantly, any other must parse.
Finalize ==
    /\ pc = "finalize"
    /\ \E failure \in ReadOutcomes(reply) :
         IF failure = NoError \/ (reply.status # "ok" /\ opts.throwHttp)
         THEN Goto("validate") /\ UNCHANGED err
         ELSE /\ Goto("beforeError")
              /\ err' = IF failure \in {"TimeoutError", "ResponseTooLarge"}
                        THEN failure ELSE "NetworkError"
    /\ UNCHANGED <<opts, attempt, hops, override, signals, carried, delayed, reply, response,
                   errorOf, completions, counts>>

\* validateResponse replaces the status check when it is given.
Verdicts ==
    IF opts.validates THEN {NoError, "ValidationError", "HTTPError"}
    ELSE IF opts.throwHttp /\ reply.status # "ok" THEN {"HTTPError"}
    ELSE {NoError}

Validate ==
    /\ pc = "validate"
    /\ \/ opts.validates /\ HookThrows
       \/ /\ err' \in Verdicts
          /\ Goto(IF err' = NoError THEN "complete" ELSE "beforeError")
          /\ UNCHANGED <<opts, attempt, hops, override, signals, carried, delayed, reply,
                         response, errorOf, completions, counts>>

BeforeError ==
    /\ pc = "beforeError"
    /\ \/ HookThrows
       \/ /\ err' \in {err, "Mapped"}
          /\ Goto("complete")
          /\ UNCHANGED <<opts, attempt, hops, override, signals, carried, delayed, reply,
                         response, errorOf, completions, counts>>

\* Faulty variant of Complete: a failing onComplete hook is handled as an error
\* of the call, which runs the hooks again.
CompleteInTry ==
    /\ pc = "complete"
    /\ completions' = Append(completions,
           [response |-> IF err = NoError THEN reply ELSE response, error |-> err])
    /\ \/ Reject(err) /\ UNCHANGED err
       \/ HooksMayThrow /\ Goto("beforeError") /\ err' = "HookError"
    /\ UNCHANGED <<opts, attempt, hops, override, signals, carried, delayed, reply, response,
                   errorOf, counts>>

\* The onComplete hooks, then the promise of the call settles.
Complete ==
    /\ pc = "complete"
    /\ completions' = Append(completions,
           [response |-> IF err = NoError THEN reply ELSE response, error |-> err])
    /\ \/ Reject(err)
       \/ HooksMayThrow /\ Reject("HookError")
    /\ UNCHANGED <<opts, attempt, hops, override, signals, carried, delayed, reply, response,
                   errorOf, err, counts>>

-----------------------------------------------------------------------------
\* The call's own steps.  Which of them the driver takes is up to the driver.
CallStep ==
    \/ Start \/ RunDefer \/ BeforeRequest
    \/ DriverAborts \/ BeforeRedirect \/ Decide
    \/ AfterResponse \/ ParseForRetry \/ ShouldRetry
    \/ SleepAborts \/ SleepEnds \/ BeforeRetry
    \/ Finalize \/ Validate \/ BeforeError \/ Complete

DriverStep == DriverFails \/ \E r \in DriverResponses : DriverResponds(r)

TimerStep == TotalFires \/ AttemptTimesOut

Settled == pc = "done"

Terminated == Settled /\ UNCHANGED vars

Next == CallStep \/ DriverStep \/ TimerStep \/ UserAborts \/ Terminated

Spec == Init /\ [][Next]_vars

\* Hooks return and timers fire; nothing is asked of the driver or the caller.
FairSpec ==
    /\ Spec
    /\ WF_vars(CallStep)
    /\ WF_vars(TotalFires)
    /\ WF_vars(AttemptTimesOut)

-----------------------------------------------------------------------------
(* Properties.                                                              *)

(* A request the driver holds after the caller aborted, or after the total  *)
(* timeout, carries an aborted signal, whichever attempt or redirect sent   *)
(* it; the one exception is a Request a beforeRedirect hook made without    *)
(* the signal (buildAttemptSignal, composeSignals, followRedirects).        *)
AbortReachesDriver ==
    pc = "driver" /\ ~detached /\ (userAborted \/ totalFired) => aborted # "live"

(* After the abort one request at most goes out with the signal, the one a  *)
(* hook was preparing when it came; requests that hooks made without it may *)
(* follow the redirects of that attempt, and no retry follows               *)
(* (runWithRetry's checks after delayMs, mapTransportError).                *)
LateSendsAreFew ==
    /\ late - stray <= 1
    /\ stray <= opts.maxHops

(* However redirects and retries nest, the driver is called at most         *)
(* (limit + 1) * (redirectMaxCount + 1) times for one call (runWithRetry,   *)
(* followRedirects).                                                        *)
SendsAreBounded == sends <= (opts.limit + 1) * (opts.maxHops + 1)

(* When the beforeRetry hooks run, ctx.error is the failure of the attempt  *)
(* just before, transport failure and retriable status alike (types.ts,     *)
(* BeforeRetryHook).                                                        *)
HookSeesPreviousError == pc = "beforeRetry" => errorOf = attempt - 1

(* The onComplete hooks run at most once and are told what the caller is    *)
(* told: the same error, or none and the response the call resolves with    *)
(* (runBeforeError, runOnComplete, finalizeResponse).                       *)
CompletionIsTruthful ==
    /\ Len(completions) <= 1
    /\ Settled /\ completions # <<>> /\ outcome # "HookError" =>
          /\ completions[1].error = outcome
          /\ outcome = NoError => completions[1].response = reply

(* A call that resolves, or rejects with HTTPError, NetworkError or a       *)
(* TimeoutError that is not the body timeout's, has run the onComplete      *)
(* hooks (README.md, "onComplete": these paths are covered).                *)
CoveredPathsComplete ==
    Settled /\ (\/ outcome \in {NoError, "HTTPError", "NetworkError"}
                \/ outcome = "TimeoutError" /\ ~opts.bodyTimeout)
        => Len(completions) = 1

(* A call with a timeout, per attempt or in total, settles even when the    *)
(* server never answers or stops in the middle of a body; or else it waits  *)
(* for ever on a Request that a beforeRedirect hook made without the signal *)
(* (buildAttemptSignal, delayMs, followRedirects).                          *)
TimeoutSettles ==
    opts.timeout \/ opts.total =>
        \/ <>Settled
        \/ <>[](detached /\ pc \in {"driver", "retryBody", "finalize"})

(* types.ts, OnCompleteHook: the hook "fires exactly once per logical call  *)
(* after retries and redirects".  The code does not meet it.                *)
CompletesExactlyOnce == Settled => Len(completions) = 1

(* README.md, "Retry": a method that is not in retry.methods, as POST by    *)
(* default, is not retried.  The code does not meet it.                     *)
OnlyRetriableMethodsRetried == ~opts.retriable => attempt = 0

(* README.md, "Hooks": "Hook errors are fatal - they don't trigger retry".  *)
(* The code does not meet it for the beforeRedirect hooks.                  *)
HookErrorsAreFatal ==
    [][pc = "redirect" /\ pc' = "decide" => ~CanRetryError(err')]_vars
=============================================================================
