# Formal model of misina

misina is an HTTP client for TypeScript without dependencies, built on `fetch`
(`src/src`). This directory holds TLA+ modules translated from its source, the
TLC configurations that check them on small instances, and proofs, checked by
TLAPS, of what holds for every value of the constants.

Run everything from this directory:

    tlc -config MCRequestPipeline.cfg MCRequestPipeline.tla
    tlc -config MCAuthedClient.cfg MCAuthedClient.tla
    tlc -config MCSharedState.cfg MCSharedState.tla
    tlc -config MCHelpers.cfg MCHelpers.tla
    tlapm <module>Proofs.tla

The runs that are expected to find a violation are in the table below; each has
a `.cfg` of its own. The proof modules are `BreakerProofs`, `PipelineProofs`,
`DedupeProofs`, `TokenRefreshProofs`, `AuthedClientProofs`, `HelpersProofs`,
`CallProofs` and `SharedStateProofs`.

## The system

JavaScript runs one piece of synchronous code at a time. What makes this client
hard is what happens between two pieces: every `await` lets other calls, timers,
the caller's abort and the server move, and much of the client's state lives in
closures that all calls share.

| Component (under `src/src`) | State it keeps | Operations | What makes it correct |
| --- | --- | --- | --- |
| request pipeline: `misina.ts`, `_retry.ts`, `_signal.ts`, `_max_size.ts`, `_body.ts` | per call: context (request, response, error, attempt), last response, override, composed abort signal | `request`, `runWithRetry`, `finalizeResponse`, hooks | an abort reaches the request in flight and stops the retries; sends are bounded; hooks see the right error; the completion hooks run once and are told the truth; a call with a timeout settles |
| redirects: `_redirect.ts` | current request, number of hops | `followRedirects` | bounded hops; credentials and body do not follow where they must not |
| breaker: `breaker/index.ts` | `state`, `openedAt`, `failures`, shared by all calls | `admit`, `recordSuccess`, `recordFailure`, `trip`, `reset` | opens only when justified; a service that is down is spared; `retryAfter` is honest |
| dedupe: `dedupe/index.ts` | map of requests in flight | `request` and its aliases | one request per key in flight; every joiner gets the leader's result; no stale entry |
| token refresh: `auth/index.ts` (401), `auth/oauth.ts` (JWT) | the refresh in flight, responses already retried | hooks `afterResponse`, `beforeRequest` | one refresh for concurrent callers; no endless refresh; nobody is sent with the old token |
| rate limiter: `ratelimit/index.ts` | two buckets: budget, last refill, pause | `acquire`, `observeRemaining`, `drainAndBackoff` | nobody takes more than there is, nor during a hold; a caller that can be served is |
| cache: `cache/index.ts` | store of entries with expiry and variants | hooks `beforeRequest`, `afterResponse`, background revalidation | a fresh answer of the right variant; a 304 answered from what it confirms |
| hedge: `hedge/index.ts` | launched attempts, winner | `hedge` | one winner, losers aborted, first answer returned |
| poll, paginate | attempt, current url, seen urls, items | `poll`, `followAccepted`, `paginate` | limits respected, no endless loop |
| transfer: `transfer/index.ts` | offset | `downloadResumable`, `uploadResumable` | every byte once and in order, across failures |
| stream: `stream/index.ts` | parser state, last event id, failures | `sseStream`, `sseStreamReconnecting`, `ndjsonStream`, accumulators | no event lost or doubled across a reconnect; back-off is bounded |
| HTTP/2 driver: `driver/http2.ts` | session and idle timer per origin | `request`, `getSession`, `dispose` | no session is left open with nothing to close it |
| plugin composition: `misina.ts` (`createMisina`, `applyPluginHooks`) | the client under construction | `extend` of each plugin | hooks and wrappers apply in the documented order |
| cookie jar: `cookie/index.ts` | cookies | hooks `beforeRequest`, `beforeRedirect`, `afterResponse` | a cookie goes only where it was set for |
| otel, tracing, sentry | span per request | hooks | every span ends |
| options: `_merge.ts`, `misina.ts` (`createMisina`, `resolveOptions`, `applyDefer`, `buildRequest`) | the options of every client, its `state` object | `extend`, a call | the most specific layer wins; clients do not share state by accident |
| progress and compression: `_progress.ts`, `_compress.ts` | per stream: bytes moved, last event | `pull`, the pump, `cancel`, the throttle | the last event is told; a cancel stops the pump |
| test client: `test/index.ts` | calls, routes, coverage, the recording | `record`, `replayFromJSON`, `createTestMisina`, `reset` | a replay repeats the recording |
| GraphQL: `graphql/index.ts` | per call: whether its query or the hash of it is with the server | `query`, `mutate` | an operation runs once although it may be sent twice; that the server forgot a query stays hidden |
| stateless parts: `_url`, `_sf`, `_server_timing`, `_decompress`, `digest`, `auth/signed`, `auth/sigv4`, `typed`, `openapi`, `beacon`, `runtime/*`, `driver/fetch`, `driver/undici`, `driver/mock` | none between calls | | formatting, cryptography, types, pass-through |

How they interact. A plugin is either a set of hooks (cache, rate limiter, JWT
refresh, cookies, otel) that the pipeline awaits in a fixed order, or a wrapper
of the client (breaker, dedupe, the refresh on 401) that sees a whole call,
retries included, as one promise. `hedge`, `poll`, `paginate`, `transfer` and
the reconnecting stream make calls of their own. The pipeline calls the driver
once per redirect of each attempt, and hands it one composed abort signal.

Hard behaviours, by kind: the abort or a timeout between any two awaits; calls
that settle in another state of a shared closure than they were admitted in; a
value read before an await and used after it; nested retries and redirects; a
server that falls silent; replies that are lost after the server has acted. The
list, line by line, is `hazards` in `PROJECT.json`, with the properties that
cover each, or the reason why none does: a hazard a module shows but no document
or test of the repository decides has a note and no property.

## The modules

### `Breaker` (`breaker/index.ts`)

State: `state`, `openedAt`, `failures` as in the closure; `now` is `Date.now()`,
taken not to go backwards; `inFlight` is the set of calls between `admit` and
their result. Three history variables (`failed`, `probes`, `promised`) are read
by the properties only.

| Action | Code |
| --- | --- |
| `Call` (`AdmitClosed`, `AdmitProbe`, `AdmitHalfOpen`) | `wrap` up to the first await: `admit` lets the call through in each state |
| `FailFast` | `admit` throws `CircuitOpenError` |
| `Succeed`, `FailCounted`, `FailUncounted` | the three ways the underlying call settles; `isFailure` is the choice between the last two |
| `Trip`, `Reset` | the handle |
| `Tick` | time |

A call may settle in whatever state the breaker then is; this is where the code
is subtle. The number of calls, the threshold, the window and the delay are
constants. `PruneWindow` drops the stale prefix of the window, which is what the
code's `filter` does, since the timestamps are pushed in clock order.

### `RequestPipeline` (`misina.ts` and helpers)

One logical call. `pc` is the await it is at; an action is all the code runs
before the next one.

| `pc` | Action leaving it | Code |
| --- | --- | --- |
| `start` | `Start` | `resolveOptions`, init hooks, early abort check |
| `defer` | `RunDefer` | `applyDefer`, deadline, `buildRequest` |
| `beforeRequest` | `BeforeRequest` | the hooks, then `Dispatch` of attempt 0 |
| `driver` | `DriverResponds`, `DriverFails`, `DriverAborts` | `followRedirects` around `driver.request`, size check |
| `redirect` | `BeforeRedirect` | the hooks, then the next hop |
| `decide` | `Decide` | `canRetryError` |
| `afterResponse` | `AfterResponse` | the hooks, then the retry test on the status |
| `retryBody` | `ParseForRetry` | the body parsed for `ctx.error.data` |
| `shouldRetry` | `ShouldRetry` | `passesShouldRetry` |
| `backoff` | `SleepAborts`, `SleepEnds` | `delayMs`, the abort checks |
| `beforeRetry` | `BeforeRetry` | the hooks, then `Dispatch` of the next attempt |
| `finalize` | `Finalize` | `parseResponseBody`, tolerant or not |
| `validate` | `Validate` | `validateResponse`, `throwHttpErrors` |
| `beforeError`, `complete` | `BeforeError`, `Complete` | `runBeforeError`, `runOnComplete` |

`UserAborts`, `TotalFires` and `AttemptTimesOut` may come between any two of
these. `aborted` is what aborted the composed signal of the attempt; which
source wins when several have fired follows `composeSignals`. `MapTransportError`
keeps the code's rule that any reason named `TimeoutError`, one of the caller's
included, becomes misina's `TimeoutError`. Hooks may pass, throw, return a
`Response` or (before a retry, or before a redirect) a `Request`. The one that a
`beforeRedirect` hook returns is sent as it is, with or without the signal of the
attempt, or with one of the hook's own (`detached`, `OwnReasons`); with it the
driver hears of no abort and no timeout. Before an attempt `withSignal` adds the
signal to whatever is sent, so this lasts for one chain of redirects.

What is abstract: options are reduced to what the control flow reads, a response
to its class of status, the retry hint, where its `Location` leads and how its
body reads; a retry delay is zero or long. A `Location` is "consumed" when the
next hop would carry a body that was already read. A refused redirect quotes its
url in the message, and `isRawNetworkError` looks for words in messages: both
outcomes are possible (`Refusals`).

The driver and the server are external: the driver honours the signal it is
given, as `fetch` does, and otherwise answers, fails or stays silent.

### `SingleFlight`, `Dedupe`, `TokenRefresh`, `AuthedClient`

`SingleFlight` is an abstract specification: callers with a key join a flight,
one runs per key, its outcome is for everyone on it, and nobody joins a flight
whose outcome has been handed out. The code has it twice. Each of the two
modules ends with the refinement mapping, `INSTANCE SingleFlight WITH`.

`Dedupe` (`dedupe/index.ts`). `inflight` is the map; a flight is named by the
call that leads it. `Bypass`, `Join` and `Lead` are the three ways through
`dedupedRequest`, which has no await. `Settle` is the wrapped client; `Forget` is
the `finally`, which deletes the entry of its key whatever it holds; `Deliver`
the settling of the promise a caller was given. `Forget` comes before every
`Deliver` of its flight, since the reactions run in the order they were
registered and those of the joiners are queued by the first.

`TokenRefresh` (`refreshOn401` in `auth/index.ts`, `jwtRefresh` in
`auth/oauth.ts`). The two plugins have the same mutex and differ in what takes a
request to it: `NeedsToken` is a 401 for one, a token close to its end for the
other, read an await before it is tested (`Begin`, then `StillFresh` or the
mutex).

| Action | Code |
| --- | --- |
| `Begin`, `StillFresh`, `Send` | the hooks before the request; `fetchOnce` for the second one |
| `Accepted`, `Refused` | `afterResponse` up to its await; the WeakSet is `retried` |
| `StartRefresh`, `JoinRefresh`, `RefreshThrows` | `getNewToken`, `refreshOnce` |
| `Issue`, `Repeat`, `SettleRefresh`, `FailRefresh` | the token endpoint, with a new token or the last one again, and the application's callback, which keeps the token in `store` |
| `Clear` | the microtask that forgets the refresh |
| `Resume` | after the await: the header with the new token, or the failure |
| `Age`, `Expire` | the clock and the server; a token issued under `Rotates` makes the others refused |

Microtasks run before the next task. An answer of the server or of the token
endpoint is a task, so it waits for `MicrotasksDone`; a request that is already
running may reach the mutex between the settling and `Clear`, and joins.

What is abstract: tokens are numbered as they are issued. An endpoint may return
its last token again; `jwtRefresh` rejects it if the leader of the refresh had
read it and `rejectIfUnchanged` is set (`Unchanged`, `RejectsUnchanged`),
`refreshOn401` sends it. A client has one of the two plugins: with both they keep
two mutexes, and nothing in the code relates them. The second request carries
the new token, or the one in `store` when a hook such as `bearer` is in the list.

`AuthedClient` puts `dedupe` around either plugin. A call is the request it
would make: a leader starts one (`Make`), its end settles the flight (`Finish`).

### `PluginStack` (`createMisina` in `misina.ts`)

How `options.use` becomes a client: hooks merged first, then the `extend` of
each plugin applied to the result of the last. Plugins come in three kinds: only
hooks, a wrapper that spreads the client and replaces methods, and
`refreshOn401`, which calls `extend` of the client.

### `OutgoingCall` (`misina.ts`, `_retry.ts`, `otel/index.ts`)

The same call as in `RequestPipeline`, seen through the `Request` objects it
makes: why an attempt fails is a choice, who replaced the request is not.
`current` is `ctx.request`, `override` is `userOverride`, `sent` what the driver
was given. A request is its number, the Idempotency-Key it carries and whether
its body has been read.

| Action | Code |
| --- | --- |
| `StartSpan`, `Complete` | `beforeRequest` and `onComplete` of otel, with and without `injectTraceparent` |
| `BeforeRequest`, `BeforeRetry` | the user's hooks: nothing, a `Request`, a `Response`, a throw |
| `Snapshot` | `applyIdempotencyKey`, once, before the loop |
| `Attempt` | `withSignal` and the driver; an override whose body was read throws here, or, when there is no signal to add, in the redirect loop or not at all |
| `Settle` | the end of the attempt |

### `RetryDelay` (`_retry.ts`, `misina.ts`)

In `RequestPipeline` a retry delay is zero or long; here it has a value. `Respond`
and `Fail` are an attempt that is to be retried, with a response or without, `Wait`
is `calculateRetryDelay` on `lastResponse`, `Wake` the timer of `delayMs`, `Settle`
every way out of the loop, an abort during the wait included. A response is what its
headers say: `retry-after-ms`, then `Retry-After` or `RateLimit-Reset`, each
missing, a number, a date or neither, with a status in `afterStatusCodes` or not.
`lastResponse` outlives an attempt that got no response, so what it asks for is
asked again, with a date that may have passed; `heard` records what arrived and
when, so that the wait can be compared with it. A jitter function is applied after
`backoffLimit` and may return any of `Jitters`. `setTimeout` is external: a delay
beyond its range ends after one millisecond (`TimerOf`).

### `ClientOptions` (`_merge.ts`, `misina.ts`)

Chains of `createMisina`, `extend` and a call with its own options and `defer`
callbacks. A layer says of each option "absent", "undefined" or "set", and may
wrap headers or hooks in `replaceOption`. A value is the number of the layer
that gave it. `CreateMisina`, `Extend`, `Resolve` (in `Request`), `Defer` and
`Build` are the functions of the code, in its order: `Build` adds the headers
misina itself sets (`accept-encoding`, `content-type`, `content-encoding`) only
where the code does, and `BuildThrows` is a body that `serializeBody` refuses, an
instance of a class. `DeferThrows` is a patch with a header whose value is undefined,
on which `validateHeaderValue` throws. The `state`
object a client ends up with is named by the layer it came from (`SharedState`).

### `RateLimit`, `TokenBucket` (`ratelimit/index.ts`)

`TokenBucket` is the abstract specification: two buckets that fill at every tick
up to the capacity, from which nobody takes more than there is, nor during a
hold. `RateLimit` is the code: a level is computed only when somebody looks
(`available` and the time `elapsed` since), callers sleep and look again in any
order (`Acquire`), first for a slot of the request bucket, then for their cost of
the other, and `Answer` overwrites both with what the server said, in whatever
order answers arrive (`observeRemaining`, then `drainAndBackoff` on a 429).
`Abort` leaves the wait, keeping the slot already taken. Time is in ticks that
add `Rate`; the shortest sleep and the default hold are a tick each.

### `Cache` (`cache/index.ts`)

Calls to one url under a header the server may vary on. `map` is the `Map` of
`memoryStore` with its order and limit, `pc` the await a call is at, `held` the
entry it read before that await, `refreshing` the background revalidation.

| Action | Code |
| --- | --- |
| `LookUp`, `LookUpVariant` | `beforeRequest`: the base key, then the variant key; `Decide` is what follows |
| `ReceiveOk`, `StoreVariant`, `StoreBase` | `afterResponse` up to its writes, then each write |
| `ReceiveNotModified`, `Confirm` | a 304: the entry read again, extended, handed out |
| `ReceiveError` | a 5xx within `stale-if-error` |
| `TransportFails` | no response: the hooks are not asked |
| `RefreshEnds` | `revalidateInBackground` |
| `Tick` | time |

An entry also records for whom and by whom it was made, when the server was last
heard of it and whether that was a 304 (`confirmed`), for the properties: a 304
puts `ttl` in the place of the `max-age` the entry was stored with (`Lifetime`).

### `Http2Sessions` (`driver/http2.ts`)

The session map and the idle timer of one origin. A request has three stretches
between awaits: `Reuse` or `FindNone`, `Connect`, `OpenStream`. A session is
closed by `Goaway`, `Breaks`, `IdleFires` or `Dispose`; its close event (`Ends`)
may come much later, and removes whatever entry its origin then has. How a
closed session treats its streams is that of `node:http2`.

### `Redirects` (`_redirect.ts`, `cookie/index.ts`)

What goes along a chain of redirects under `redirect: "manual"`: headers and
method (`Follow`), the refusal of a downgrade or of one hop too many (`Refuse`),
and the cookies (`CookiesFor`, `SetCookie`), which the jar keeps for the next
call. Hosts form a tree of one level, so that a domain cookie has somewhere to go.

### `Hedge`, `Poll`, `Paginate`

`Hedge`: `Launch` and `DelayEnds` are the loop, `AttemptSucceeds` and
`AttemptFails` the attempts that settle while it waits, `AbortDelay` the caller
who aborts during the wait, `Resolve` the last `Promise.any`. `Poll`: one turn is
`Loop` (the test of the signal and the limit), the request, the predicate and
the wait; `Trigger` is the first request of `followAccepted`; `Signal` is the
caller's abort or the timeout at any moment. `Paginate`: `Loop`, `Response`,
`Yield`, `Skip`, `PageEnds` and `Decide` are the statements of `_paginate`; the
graph of pages is arbitrary.

### `Upload`, `Download` (`transfer/index.ts`)

`Upload` has both sides: the client's `offset` and what the server has `stored`.
A PATCH may be lost on the way there, arrive in part or in whole with its reply
lost, or be answered; the caller may abort or disappear at any time and call
again with `uploadUrl` (`CallAgain`, then `Recover`). `Download` has the HEAD, the
one-byte probe, the single GET and the loop of ranges; the server may answer
with fewer bytes than asked, none, or everything.

### `EventStream` (`stream/index.ts`)

The parser of `sseStream` line by line (`Line`, `BlankLine`), under the
reconnecting loop (`Loop`, `Opens`, `OpenFails`, `Closed`, `SleepEnds`) and over a
server that resumes after `Last-Event-ID`. A connection ends between any two
lines, in order (`Eof`, where the parser flushes what it has) or with an error
(`Breaks`); the consumer may abort (`Abort`) or leave the loop (`ConsumerReturns`).

### `Progress` (`_progress.ts`)

The stream that counts an upload as it is pulled (`Pull`), the pump of a download
(`Pump`, `PumpEnds`), the `Throttled` callback, failure and cancelling.

### `TestClient` (`test/index.ts`)

`record` around one client (`Ask`, `Answer`, `Fail`), then a test client whose
routes replay the cassette (`Play`, `Handle`), with `Reset` at any moment. A
request asked twice at once is `crossed`: the recording keeps the order of the
answers, the replay that of the requests.

### `Graphql` (`graphql/index.ts`)

Calls with `persistedQueries`: `Exec` sends the hash of the query, by GET or by POST
(`MethodFor`), and `Receive` either ends the call or, if the server answers that it
does not know the hash, sends the query. The server is external and shared: it
learns a query that it runs (`Run`), forgets any at any time (`Forget`), refuses
(`Refuse`), and a request may be lost or aborted before or after it has run
(`Reject`). `misina.get` and `misina.post` are calls of the pipeline, which sends a
request again by rules of its own, a POST that timed out included (`Resend`); what
it has given up on may still reach the server (`RunLate`). The server's errors may
be those of a service behind it, so a call that did run may be answered that its
hash is unknown (`confused`).

### `SharedState`, `Helpers`

These two compose the modules above: the parts that keep state from one call to
the next, and those that live for a call or a loop. The parts share no variable
and no action, in the code as in the model, so a behaviour moves one of them,
chosen in the initial state (`part`), and the others keep their initial values.
For TLC the run is then the sum of their state spaces and not the product, and
checks of each what a run of its own would; for the proofs a step of the whole is
a step of one part and a stutter of the others (`OnePartMoves`), so each part has an
inductive invariant of its own. `MCSharedState` and `MCHelpers` give the constants
their values.

## What is checked

The properties are stated, each with a comment, at the end of the modules.

| Run | Checks | Shows |
| --- | --- | --- |
| `pipeline` (`MCRequestPipeline.cfg`) | `TypeOK`, `AbortReachesDriver`, `LateSendsAreFew`, `SendsAreBounded`, `HookSeesPreviousError`, `CompletionIsTruthful`, `CoveredPathsComplete`, `TimeoutSettles` | see below |
| `one_probe` (`MCBreakerOneProbe.cfg`) | `OneProbeAtATime`, violated | the half-open breaker lets through a second call right behind the probe; comment and README say one |
| `completes_once` (`MCCompletesOnce.cfg`) | `CompletesExactlyOnce`, violated | a total timeout during the wait to retry skips the completion hooks |
| `post_timeout` (`MCPostTimeout.cfg`) | `OnlyRetriableMethodsRetried`, violated | a POST that times out is sent again |
| `hook_errors` (`MCHookErrors.cfg`) | `HookErrorsAreFatal`, violated | a `beforeRedirect` hook's `TypeError` is retried as a network failure |
| `authed_client` (`MCAuthedClient.cfg`) | `ClientTypeOK`, `OneRequestPerKey`, `RetryCarriesNewerToken`, `CallsShareRequests`, `SharesRefreshes`, `StoreMovesForward` | see below |
| `plugin_order` (`MCPluginStack.cfg`) | `EveryWrapperApplies`, violated | `use: [dedupe(), refreshOn401(...)]` is a client without dedupe |
| `shared_state` (`MCSharedState.cfg`) | `SharedTypeOK`, `ProbesComeInPairs`, `ClosedBelowThreshold`, `TripIsJustified`, `RetryAfterIsHonest`, `VariantsKeptApart`, `StaleWithinWindows`, `NoStoreIsPrivate`, `NotModifiedOnlyAfterEviction`, `NoSessionForgotten`, `HeadersStayHome`, `CookiesStayInTheirDomain`, `MostSpecificWins`, `ReplayRepeatsRecording` | see below |
| `helpers` (`MCHelpers.cfg`) | `HelpersTypeOK`, `TransfersLoseNothing`, `NoAttemptLeftRunning`, `LoopsKeepWithinBounds`, `ExactlyOnceInOrder`, `AttemptsAgree`, `SpansEndUnlessReplaced`, `ProgressIsTold`, `AdmitsLikeABucket`, `HelpersEnd` | see below |
| `upload_resume` (`MCUpload.cfg`) | `RetriesFromServerOffset`, violated | after a lost reply the same chunk is sent again, where the comment says the offset is asked for |
| `one_session` (`MCOneSession.cfg`) | `OneSessionPerOrigin`, violated | two requests that both find no session connect one each |
| `span_leak` (`MCSpanLeak.cfg`) | `SpansEnd`, violated | the span of a request that was replaced stays open |

`one_probe` checks the breaker alone, with the callers, threshold, window and delay
of `shared_state`.

`pipeline`: four families of options. Every mix of the two timeouts, the reason
the caller aborts with and the retry policy, with one retry; two retries and a
redirect, with a caller who aborts under a total timeout and with an attempt
timeout; every mix of what is done with a response (size limit, body timeout,
throwing, validation); every redirect policy with no hop and two hops. Fourteen
driver responses cover each kind of status, hint, `Location` and body; a hook
may return two. One retry makes every path between two attempts happen; the
second shows what an earlier attempt leaves behind. About 494,000 states.

Three of its properties name the `Request` of a `beforeRedirect` hook.
`AbortReachesDriver` speaks of every other request; `LateSendsAreFew` allows
one request after the abort, and besides as many as a chain of such hooks sends
without the signal; `TimeoutSettles` lets a call wait for ever on one of those, and
on nothing else.
Deadlock checking is off: a call without any timeout may wait
for ever for the rest of a body.

`authed_client`: two identical GETs, which overlap or follow one another, and a
POST that needs the same token. Three tokens are enough for a refresh to happen
while an answer to the first token is still on its way, and for a second one to
race it. Deadlock is checked: a state where nothing can happen while a call has
no answer is one, which stands for the liveness the modules would need fairness
of the server for. About 454,000 states. The run covers both refinements in
composition, so the mapped steps are those the composition takes.

`RetryCarriesNewerToken` allows a token that is the refused one again only where
the endpoint repeated it for the refresh the request waited on (`repeats`), which
`refreshOn401` cannot tell.

`CallsShareRequests` says what joining means here: the joiner also gets the
rejection of the leader, its abort included. That is what the code does and what
sharing promises; a caller who cannot live with it must not be deduplicated.
`SharesRefreshes` holds although a late 401, or a token read before the mutex,
starts a refresh right after another: the two do not overlap, so tokens settle
in the order they were issued (`StoreMovesForward`). The late one is superfluous,
which no document excludes.

`plugin_order`: every list of up to three plugins out of one of each kind and a
second wrapper. Deadlock checking is off: the list ends.

`shared_state`, about 880,000 states in six parts. Three calls of a breaker, a
threshold of two, a window and a delay of two ticks, six instants: a trip needs two
failures, two rounds of probes need four ticks, and the third call is the one that
settles a round late. Three calls to the cache, two
of which vary alike, three kinds of `Cache-Control`, a store of two entries (so
that the base entry or a variant can be evicted), four instants: enough for a
fresh, a stale and a hopeless answer, and for a call that runs between two awaits
of another. Three requests of one HTTP/2 origin: two that connect at once and one
that comes after. Two calls with up to two redirects each over a site, its
subdomain and a foreign host, in both schemes: a chain leaves an origin and comes
back. Chains of three clients and a call with two `defer` callbacks: a value can
be set, replaced and set again. Recordings of two calls over three requests. The
two calls of one variant are interchangeable (`Symmetry`); the run has no liveness
property, for which that would not do, and its two action properties are about the
breaker, whose calls are not permuted. Deadlock checking is off: the
clocks, calls and recordings are bounded (`MaxClock`, `MaxNow`, `MaxCalls`,
`MaxClients`), and reaching a bound is no deadlock; `Ttl`, `MaxEntries` and
`MaxRedirects` are options of the code.

What the code really guarantees about half-open is `ProbesComeInPairs`: at most two
admissions in any `halfOpenAfter`.

What the properties say about the cache is what the code can promise, and their
conditions are its limits: an entry stored by a background revalidation has no
`vary`, and the answer after a 304 or a 5xx is whatever the base key holds, so
`VariantsKeptApart` speaks of the answers given without asking the server only;
`StaleWithinWindows` takes the lifetime the code gives an entry, which after a 304
is not the documented one (both are in the list of disagreements below); an entry
may be evicted between the conditional request and its 304, which then reaches a
caller who never asked for one (`NotModifiedOnlyAfterEviction`). In the same way
`NoSessionForgotten` says that an open session is lost only when two overlap
(`one_session` shows that they do), and `CookiesStayInTheirDomain` that cookies
stray only after a redirect to another host, since `beforeRedirect` stores them
under the next url.

`helpers`, about 491,000 states in eleven parts: three calls that cost less than the
bucket, all of it, and more than it can hold; transfers of three chunks, the last
one short, with two retries and three calls; three endpoints of a hedge; polls of
two attempts; every graph of three pages with and without limits; three events,
one with a `retry` field, over four lost connections; three retries of a call;
a body of three chunks whose size is known, unknown or wrong; two calls of one
query and a mutation, whose hashes fit a url and whose queries do not, each request
sent again once at most (`Resends`); a call with two
retries and a response for each way to ask, or fail to ask, for time, one of them
for more than a timer can wait, with each kind of jitter. `MaxCalls`, `MaxCuts`,
`MaxPieces` and the clocks of `Progress` and `RetryDelay` are bounds, `Resends` is
`retry.limit` of the client below; the other limits are
options of the code. Deadlock checking is off, as every helper ends; that it does
is what `HelpersEnd` checks.

`LoopsKeepWithinBounds` makes one exception for retries: a server that asks for
more than a timer can wait (2^31 - 1 ms, 24.8 days) is asked again at once, unless
`maxRetryAfter` is set. It allows what the code does with a stale `lastResponse`: a
wait longer than `backoffLimit` after a network failure, if the last response to
arrive asked for one, and none at all if that was zero or a date now past; and any
wait that the caller's own jitter function asks for. Of a pagination it says that
`countLimit: 0` counts as one.

`ExactlyOnceInOrder` excludes streams in which a connection ended in order inside an
event: the parser flushes what it has there, as its documentation and a test say
(`stream/index.ts:73`, `test/stream-edges.test.ts:91`), and part of an event is then
delivered under its id, which the server does not send again. Even then no number
is passed over (`NothingSkipped`). `TransfersLoseNothing` excludes downloads whose
server ignores a range it announced to honour (`strayed`).

`AttemptsAgree` counts how often the server runs an operation: once, once more for
each time the pipeline below sends a request of the call again, and once more if the
server denied a run. So a mutation may run twice with the default options, by the
timeout that `post_timeout` shows, but never by the second request of the hash.

`span_leak` and `one_session` use the instances of `helpers` and `shared_state`.

`upload_resume`: two chunks and one retry are the smallest case.

Bounds: `MaxToken` bounds the tokens the endpoint issues, `MaxPlugins` the list of
plugins; `MaxClock` bounds the breaker's clock and nothing else; `retry.limit`
and `redirectMaxCount` are options of the program. The counters of the pipeline
are bounded by the code itself, as `SendsAreBounded` shows.

Fairness. `FairSpec` asks weak fairness of the call's own steps (hooks and
callbacks return, promises that settled are continued) and of each timer (the
runtime fires it). Nothing is asked of the driver beyond rejecting when its
signal aborts, and nothing of the caller. `TimeoutSettles` needs the timers and
no more: with an attempt timeout the signal of the attempt ends a silent request
and a stalled body; with a total timeout it ends every attempt and the waits
between them. The breaker has no liveness property: nothing in it waits.

`HelpersEnd` is the liveness of the helpers, each under the fairness its module
states. The rate limiter: the clock ticks, and a sleeping caller looks again
when its timer fires (`Acquire`); nothing is asked of aborts or of the server.
A call whose cost is above the capacity waits for ever, and the property leaves
it out by name. Hedge, poll and the transfers: their own steps, and that a
request whose signal has aborted rejects, as `fetch` does; for poll also that the
caller's predicate returns. Poll ends only when it
has a timeout, since the server may be silent; the first request of `followAccepted`,
which that timeout does not cover, is assumed to settle. The event stream: its own steps,
with a server whose connections are cut finitely often (`MaxCuts`). Paginate: its
own steps; the pages need no end, the guard against repeated requests gives one.

## What is proved

The theorems of `BreakerProofs` and `PipelineProofs` hold for every value of the constants
allowed by `BreakerAssumption` and `PipelineAssumption`: any number of calls,
thresholds and delays; any set of options and responses.

Breaker. `TypeOK` is inductive as it stands; the one step with content is the
pruned window (`PruneType`). `ProbesComeInPairs` and the promise of `retryAfter`
are not: the history has to be tied to what the breaker will still admit.
`ProbeInv` adds `Chronological` (no probe later than `now`) and one clause for
each state. `OpenInv`: every probe is at or before `openedAt`, and `promised` at
most `openedAt + halfOpenAfter`; `openedAt` only moves forward until the breaker
closes (stale failures push it further), so the next probe is `halfOpenAfter`
after all of these. `HalfOpenInv`: there has been a probe, all the others are at
least `halfOpenAfter` older than the last, and `promised` is no later than it, so
one more may go out. `ClosedInv`: nothing has been probed or promised.
`ProbesArePaired` and `RetryAfterHolds` follow.

Pipeline. `TypeInv` comes in two parts. `LoopInv` is inductive alone: that
`attempt` stays within the limit rests on a test made two awaits before the
increment, and that `hops` does on the check before the next request. `ValueInv`
is the type of everything else and needs `LoopInv` only for the options. Given
both:

- `AbortInv`: the signal of the current attempt has seen every abort so far; after
  a late send that carries it the call can only go from the driver to its end, and
  the late ones without it are no more than the hops of the attempt. Gives
  `AbortsReachTheDriver` and `LateSendsAreBounded`.
- `ErrorInv`: `ctx.error` between the decision to retry and the hooks. Gives
  `HooksSeeThePreviousError`.
- `CompletionInv`: no completion hook has run before the call settles, and what
  a call without them rejects with is never a covered outcome, for which the
  errors a body may fail with are separated (`FailureFacts`). Gives
  `CompletionsAreTruthful` and `CoveredPathsAreComplete`.
- `SendsInv`: requests sent, counted by attempt and hop (`Budget`). Gives
  `SendsStayBounded`.

Dedupe implements `SingleFlight` (`DedupeSharesFlights`), for all constants that
meet `DedupeAssumption`, which `AuthedClient` assumes of its own and its run
evaluates. The invariant is `MapInv`, that the entry of a key is exactly the one
request of that key whose `finally` has not run (so a `finally` never deletes the
entry of another call), and `OrderInv`, that it runs after the request settled
and before anyone has its outcome. Given both, a joiner finds a flight that
nobody has landed from, and a leader finds none running (`FlightStep`).

Token refresh, under `TokenRefreshAssumption`. `MutexInv` says the same of the
one refresh in `inflight`: it is the only one not cleared. `WaitInv` ties a waiting
request to a refresh that was started. `TokenInv` orders the tokens: a refresh in
progress that has a token has one newer than `store`, or the last one again if the
endpoint repeated it, and what a request carries or saw refused came from `store`
earlier. `RetriesCarryNewerTokens` and
`TheStoreMovesForward` follow, and with `RefreshesStep` the refinement
`TokenRefreshSharesRefreshes`.

`AuthedClientProofs` carries both over to the composition. Every step of the client
is a step of each layer or leaves it alone (`ClientRenews`, `ClientShares`), so
the theorems of the layers hold of it; `DedupeProofs` is instantiated under the
mapping of `AuthedClient`. `LinkInv` relates the two: a request is under way only
for a call that leads, and ends before that call settles. With `MapInv` and
`OrderInv` it gives `ClientSendsOncePerKey`: two calls of one key with a request
at the server would both be the entry of that key.

Breaker, the window. The code prunes its list and counts what is left; the
properties count over the whole history since the breaker closed. `StaleIsPrefix`:
the history is in clock order, so what is stale is a prefix of it. `WindowInv`
says that while the breaker is closed the list is the history without its first
`k` entries, all of which are older than the window of the last failure. What is
recent then lies in the list (`RecentAreInWindow`), and `ClosedStaysBelow` and
`TripsAreJustified` follow: the list alone, from which entries have gone for good,
decides as the history would.

`HelpersProofs` and `CallProofs` are about `Helpers`, `SharedStateProofs` about
`SharedState`: every invariant the two runs check is a theorem, under
`HelpersAssumption` and `SharedStateAssumption`, which the runs evaluate and which say
of each constant no more than what it is (a set of calls, a limit that is a
number or unset). `BreakerProofs` is instantiated in `SharedStateProofs`: the breaker
among the other parts behaves as the breaker alone (`BreakerIsAlone`), so its
theorems hold there (`BreakerSparesTheService` and the three after it). Each other part has an inductive invariant, which TLC checked on the
instance of the run before it was proved, and a lemma that it holds at the start
and one that every action keeps it.

- Rate limiter, `LimiterInv`: the types, and that a caller waits for tokens only if
  it needs some, without which a wait could end with nothing taken, which is no
  step of `TokenBucket`. The refinement (`LimiterAdmitsLikeABucket`) maps the lazy
  buckets to those that fill at every tick: `elapsed` is cut at the capacity, which
  is harmless as the level is full by then (`FullAfterCapacity`); an answer of the
  server is `Feedback`, which may set a level but never shortens a hold.
- Transfers. `UploadInv` needs that a server which has stored everything has been
  told so (`CompleteWhenStored`), through calls that crash and resume.
  `DownloadInv` says what has been taken so far: pieces that follow one another
  from the offset the caller gave, unless one GET brought the whole (`FromStart`).
- Hedge, `HedgeInv`: `WinnerTellsAll` ties what has been launched to who has been told
  to stop, `LaunchedInOrder` says that an endpoint reached after the winner is
  known is not launched, `LosersHaveAReason` who may be cancelled.
- Loops. What is checked of a poll is inductive as it stands. `PageInv` adds that
  one more item and one more request are within the limits while the iteration
  goes on. `DelayInv` adds `DueAsAsked`: the timer of a wait is due no earlier than
  what the last response asked for, counted from when it was heard.
- Event stream, `EventsInv`: a connection goes on where the one before left off, and
  what has been delivered is all up to there (`GoesOn`), although a connection may
  end with an error between any two lines of an event.
- Requests of a call, `CallInv`: who has replaced the request, which key each
  carries, and under which the span is filed. `GraphqlInv`: how often the server
  has run an operation and still may (`Pending`, `Adrift`), by the request that is
  out and what was answered (`RunsSoFar`).
- Progress, `ProgressInv`: the last event against what has moved, and the lock on
  the source.
- HTTP/2, `Http2Inv`: the cached session is open, and as long as sessions do not
  overlap at most one has begun and not ended.
- Redirects and cookies, `RedirectsInv`: a chain that has not left is where it began,
  and until a call goes to another host the jar holds cookies that their issuers
  could set (`JarIsOwn`; `SetCookieKeeps`).
- Cache, `CacheInv`: every entry in the store is `Sound` (it names the variant it was
  made for, expires within its lifetime, and may be stored), so is one a call has
  in hand across an await (`HeldIsSound`), and who sends a validator has found the
  base entry, which only an eviction takes away (`BaseWasThere`).
- Clients, `ClientsInv`. The code merges options layer by layer; the properties
  speak of the whole chain of layers. `MadeOf` says what a merged value is in terms
  of the chain (`MostOf`: the last layer to give a header, none after it replacing
  all; `HooksRise`), and `MergeMakes` what one more merge makes of it. The greatest
  of a set of places exists by well-founded induction on what lies above it
  (`LeastExists`, `GreatestExists`).
- Test client, `TestInv`. `CassetteIsWhole` and `RecordedInOrder` tie the cassette to
  the calls of the recording, `PendingIsLast` says that the call under way is the
  last of its request unless two overlapped, `UsedIsGiven` that a slot is used
  exactly if its answer was given. So a slot that is not used and an answer that is
  left are the same thing (`SlotsAreLeft`), the first of one is the first of the
  other (`FirstSlotFirstLeft`), and answers to other requests change neither
  (`LeftStays`).

Two models were changed to be reasoned about, with the same meaning for TLC:
`ReplayRepeatsRecording` says call by call which answer is given, where it compared
two filtered sequences, since nothing can be proved here about a recursive filter;
and lists of callbacks are put together as the code does it (`Callback`), not
filtered out of a longer list.

Only model-checked: `TimeoutSettles` and `HelpersEnd`, since liveness under fairness
is out of the proof system's reach, and that `AuthedClient` has no deadlock, which
would need ENABLED. The properties that runs show violated are not proved to
fail; the counterexample does that.

## Where the code and its documents disagree

Besides the findings in `PROJECT.json`, each shown by a run, the modelling met
these, of which no run speaks. The modules follow the code.

- `cookie/index.ts:85-88` says that the cookies of cross-origin chains are
  skipped on purpose; line 90 stores them under the next url.
- `cache/index.ts:18-20` says that a network error within `stale-if-error` is
  answered from the cache; without a response the hook is not called.
- `types.ts:594` says that `replaceOption` works at any depth; it is looked at
  only where it wraps the whole value of an option.
- `cache/index.ts:239-240` says that the cache goes by url and the headers the
  response varies on; lines 300 and 312 answer a 304 and a 5xx from the base key,
  whichever variant it holds.
- `cache/index.ts:199` lets `max-age` override `ttl`; line 302 gives an entry the
  whole `ttl` again after a 304.
- `types.ts:200-203`, the comment at `_merge.ts:48` and `test/state.test.ts:104` say that `extend` does
  not inherit `state`; a child without one of its own gets its parent's
  object by the spread at line 47.
- `driver/http2.ts:112-113` drops a session from the map when it goes away; by line
  116 that of the session which has replaced it goes too.
- `paginate/index.ts:25` gives the limit of items in total; with `countLimit: 0`
  line 104 yields one first.
- `misina.ts:294` says that a malformed body of an error response still surfaces as
  an `HTTPError`; while retries remain, line 240 rejects with the `SyntaxError`.
- A limiter with an infinite budget does not back off on a 429.
- A `Request` returned by a `beforeRetry` hook is used for every later attempt; its
  body is gone by the second, which throws a raw `TypeError` when there is a signal
  to add, and goes out with a body already read when there is none.

## Plan and what is not modelled

The parts of the first plan are done, and every safety property the runs check is
proved. Left, in this order:

1. The breaker around the pipeline, where an outcome of one is an event of the
   other, and the refresh on 401 inside the pipeline's `afterResponse`.
2. Abstract specifications for the cache (a register per variant with a bounded
   age) and the event stream (a queue), with the refinements proved.
3. Proofs that `PluginStack` keeps every hook, whatever the list, and of what its
   wrappers keep when `refreshOn401` comes first.

Not modelled:

- Parsers and formatting of text: `_sf`, `_server_timing`, `_url`, the Link
  header, the value of `Cache-Control`, of a cookie's path and expiry. Their
  results are the choices of the modules that read them.
- Cryptography: `digest`, `auth/signed`, `auth/sigv4`, PKCE. They are functions of
  one message.
- Pass-through: `driver/fetch`, `driver/undici`, `runtime/*`, `beacon`, `tracing`,
  `sentry`, `openapi`, `typed`. One request, no state between two.
- In the modules above: `redirect: "follow"` and
  `"error"` in `Redirects` (`RequestPipeline` has them), hooks that rewrite headers
  or the url during a chain, `retry: 0` in an event stream, the accumulators of `stream`,
  the framing of `node:http2`.
