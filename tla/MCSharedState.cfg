\* Three calls through a breaker that trips at two failures within two ticks and
\* waits two, for five ticks: a trip, two rounds of probes and results that settle
\* a round late.  Three calls to one cached resource in two variants, three
\* requests of an HTTP/2 origin, two calls with two redirects each, chains of
\* three clients, a cassette of two calls: the least in which each hazard can
\* happen twice.
CONSTANTS
    c1 = c1
    c2 = c2
    c3 = c3
    r1 = r1
    r2 = r2
    r3 = r3
    Callers = {b1, b2, b3}
    FailureThreshold = 2
    WindowMs = 2
    HalfOpenAfter = 2
    MaxClock = 5
    Calls = {c1, c2, c3}
    Variants = {"en", "de"}
    VariantOf <- VariantOfCall
    Controls <- CacheControls
    Ttl = 1
    Revalidate = TRUE
    Honor = TRUE
    MaxEntries = 2
    MaxNow = 3
    Requests = {r1, r2, r3}
    NoSession = NoSession
    Hosts = {"a", "api.a", "b"}
    ParentOf <- SiteOf
    MaxRedirects = 2
    AllowDowngrade = FALSE
    StripExtra = {}
    Attached = {{"authorization", "accept", "custom", "content-type"}}
    MaxCalls = 2
    Names = {"authorization", "accept-encoding", "content-type", "content-encoding", "content-length"}
    Layers <- ClientLayers
    Inits <- CallLayers
    Patches <- DeferredLayers
    Bodies = {"none", "plain", "form", "instance"}
    MaxClients = 3
    Routes <- Patterns
    Strict = TRUE
    Consume = TRUE
CHECK_DEADLOCK FALSE
SPECIFICATION Spec
SYMMETRY Symmetry
INVARIANTS
    SharedTypeOK
    ProbesComeInPairs
    ClosedBelowThreshold
    VariantsKeptApart
    StaleWithinWindows
    NoStoreIsPrivate
    NotModifiedOnlyAfterEviction
    NoSessionForgotten
    HeadersStayHome
    CookiesStayInTheirDomain
    MostSpecificWins
    ReplayRepeatsRecording
PROPERTIES
    TripIsJustified
    RetryAfterIsHonest
