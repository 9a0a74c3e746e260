----------------------------- MODULE SharedState -----------------------------
(* The parts that keep state from one call to the next: the circuit         *)
(* breaker, the cache, the sessions of the HTTP/2 driver, the cookie jar    *)
(* behind redirects, the clients and their options, the cassette of a test  *)
(* client.  They share no state: a behaviour moves one of them, `part'.     *)
EXTENDS Integers, Sequences

\* The modules that are instantiated below say what they stand for.
CONSTANTS
    Callers, FailureThreshold, WindowMs, HalfOpenAfter, MaxClock,   \* Breaker
    Calls, Variants, VariantOf, Controls, Ttl, Revalidate, Honor, MaxEntries, MaxNow,  \* Cache
    Requests, NoSession,                                        \* Http2Sessions
    Hosts, ParentOf, MaxRedirects, AllowDowngrade, StripExtra, Attached, MaxCalls,  \* Redirects
    Names, Layers, Inits, Patches, Bodies, MaxClients,          \* ClientOptions
    Routes, Strict, Consume                                     \* TestClient

VARIABLES
    part,
    clock, state, openedAt, failures, inFlight, failed, probes, promised,
    now, map, cachePc, held, refreshing, said, evicted,
    cached, timer, session, phase, uses, overlapped,
    redirectPc, first, current, method, headers, cookies, visited, jar, left, mixed, redirectCalls,
    clients, chains, optionsPc, options, deferring, encoded, chain,
    mode, asked, recorded, used, played, calls, unmatched, matchedPatterns, crossed

breakerVars == <<clock, state, openedAt, failures, inFlight, failed, probes, promised>>
cacheVars == <<now, map, cachePc, held, refreshing, said, evicted>>
http2Vars == <<cached, timer, session, phase, uses, overlapped>>
redirectVars == <<redirectPc, first, current, method, headers, cookies, visited, jar, left, mixed,
                  redirectCalls>>
optionsVars == <<clients, chains, optionsPc, options, deferring, encoded, chain>>
testVars == <<mode, asked, recorded, used, played, calls, unmatched, matchedPatterns, crossed>>
vars == <<part, breakerVars, cacheVars, http2Vars, redirectVars, optionsVars, testVars>>

Breaker == INSTANCE Breaker WITH Calls <- Callers, now <- clock
Cache == INSTANCE Cache WITH pc <- cachePc
Http2 == INSTANCE Http2Sessions
Redirects == INSTANCE Redirects WITH pc <- redirectPc, calls <- redirectCalls
Clients == INSTANCE ClientOptions WITH pc <- optionsPc
Test == INSTANCE TestClient WITH phase <- mode

ASSUME SharedStateAssumption ==
    /\ Breaker!BreakerAssumption
    /\ Cache!CacheAssumption
    /\ Http2!Http2Assumption
    /\ Redirects!RedirectsAssumption
    /\ Clients!ClientOptionsAssumption
    /\ Test!TestClientAssumption

Parts == {"breaker", "cache", "http2", "redirects", "options", "test"}

Init ==
    /\ part \in Parts
    /\ Breaker!Init /\ Cache!Init /\ Http2!Init /\ Redirects!Init /\ Clients!Init /\ Test!Init

Others(p) ==
    /\ UNCHANGED part
    /\ p # "breaker" => UNCHANGED breakerVars
    /\ p # "cache" => UNCHANGED cacheVars
    /\ p # "http2" => UNCHANGED http2Vars
    /\ p # "redirects" => UNCHANGED redirectVars
    /\ p # "options" => UNCHANGED optionsVars
    /\ p # "test" => UNCHANGED testVars

Next ==
    \/ part = "breaker" /\ Breaker!Next /\ Others(part)
    \/ part = "cache" /\ Cache!Next /\ Others(part)
    \/ part = "http2" /\ Http2!Next /\ Others(part)
    \/ part = "redirects" /\ Redirects!Next /\ Others(part)
    \/ part = "options" /\ Clients!Next /\ Others(part)
    \/ part = "test" /\ Test!Next /\ Others(part)

Spec == Init /\ [][Next]_vars

-----------------------------------------------------------------------------

(* The variables of every part have their types.                            *)
SharedTypeOK ==
    /\ Breaker!TypeOK /\ Cache!TypeOK /\ Http2!TypeOK
    /\ Redirects!TypeOK /\ Clients!TypeOK /\ Test!TypeOK

(* A breaker that is not closed lets at most two calls through in any       *)
(* halfOpenAfter (admit).                                                   *)
ProbesComeInPairs == Breaker!ProbesComeInPairs

(* The failures counted since the breaker closed stay below the threshold   *)
(* within one window, those the code has pruned included (recordFailure).   *)
ClosedBelowThreshold == Breaker!ClosedBelowThreshold

(* A failure opens a closed breaker only when enough of them lie within     *)
(* windowMs (recordFailure).                                                *)
TripIsJustified == Breaker!TripIsJustified

(* No call is let through before the time the last rejected caller was      *)
(* told, unless the breaker closes (admit, transitionToOpen).               *)
RetryAfterIsHonest == Breaker!RetryAfterIsHonest

(* An answer given without asking the server was made for the headers of    *)
(* the call that gets it, if a call stored it (variantKeyFor).              *)
VariantsKeptApart == Cache!VariantsKeptApart

(* Nobody gets an entry older than its lifetime, which is ttl once a 304    *)
(* has confirmed it, and the window it is served under (beforeRequest,      *)
(* isWithinStaleIfError).                                                   *)
StaleWithinWindows == Cache!StaleWithinWindows

(* A response with no-store answers one call only, whoever fetched it       *)
(* (afterResponse, revalidateInBackground).                                 *)
NoStoreIsPrivate == Cache!NoStoreIsPrivate

(* A caller sees the 304 to a validator it did not send only after an       *)
(* eviction (afterResponse, memoryStore).                                   *)
NotModifiedOnlyAfterEviction == Cache!NotModifiedOnlyAfterEviction

(* A cached HTTP/2 session always has the timer that will close it, and an  *)
(* open one is lost from the map only when two overlap (drop, getSession).  *)
NoSessionForgotten == Http2!EntriesExpire /\ Http2!OnlyOverlapOrphans

(* Documented, not held by the code: an origin has one open session         *)
(* (getSession).                                                            *)
OneSessionPerOrigin == Http2!OneSessionPerOrigin

(* Nothing the caller attached is sent once a chain has left the origin it  *)
(* began at, and a chain stays secure and short                             *)
(* (filterRedirectHeaders, isHttpsDowngrade).                               *)
HeadersStayHome == Redirects!HeadersStayHome /\ Redirects!ChainsAreConfined

(* Cookies stay within the domain of the host that set them and Secure ones *)
(* on https, as long as no call is redirected to another host (cookieJar).  *)
CookiesStayInTheirDomain == Redirects!CookiesStayInTheirDomain

(* A request carries what the most specific layer of its options says       *)
(* (mergeOptions, resolveOptions, applyDefer, buildRequest).                *)
MostSpecificWins == Clients!MostSpecificWins

(* A replay answers a request as the recording did, call by call, nothing   *)
(* else disturbs it, and the coverage it reports adds up whatever reset     *)
(* came between (record, replayFromJSON, createTestMisina).                 *)
ReplayRepeatsRecording == Test!ReplayRepeatsRecording /\ Test!CoverageAddsUp
=============================================================================
