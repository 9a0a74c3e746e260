\* A completed call has ended its span: not if its request was replaced.
CONSTANTS
    c1 = c1
    c2 = c2
    c3 = c3
    p1 = p1
    p2 = p2
    p3 = p3
    Calls = {c1, c2, c3}
    Cost <- CostOf
    Capacity = 2
    Rate = 1
    Reports <- ServerReports
    Total = 5
    ChunkSize = 2
    MaxRetries = 2
    MaxCalls = 3
    StartOffset = 1
    MaxPieces = 2
    N = 3
    MaxAttempts = 2
    HasTimeout = TRUE
    Pages <- ThreePages
    First = p1
    PageSize = 2
    CountLimits <- ItemLimits
    RequestLimits <- PageLimits
    NoLimit <- Unset
    NumEvents = 3
    IdFirst = {1, 3}
    RetryOf <- RetryFields
    Fallback = 3
    MaxDelay = 8
    MaxCuts = 4
    MaxLimit = 3
    Size = 3
    Totals <- Lengths
    Unknown <- Unset
    Interval = 2
    MaxNow = 4
    Limit = 2
    Delays <- Backoffs
    BackoffLimit = 2
    Jitters = {0, 4}
    Caps <- RetryAfterCaps
    Second = 2
    MaxTimer = 5
    Responses <- RetriedResponses
    MaxClock = 9
    Operations = {c1, c2}
    Queries = {p1}
    QueryOf <- QueryOfCall
    Mutations = {c2}
    ShortUrls <- HashUrls
    Persisted = TRUE
    Resends = 1
CHECK_DEADLOCK FALSE
SPECIFICATION Spec
INVARIANT SpansEnd
