\* Up to two retries and two redirects under every mix of deadlines, abort
\* reasons, retry policies and ways to treat a response.  A call without any
\* deadline may wait for ever for the rest of a body: that is not a deadlock.
CONSTANTS
    Options <- AllOptions
    DriverResponses <- ServerResponses
    HookResponses <- SyntheticResponses
    NoResponse = NoResponse
    HooksMayThrow = TRUE
CHECK_DEADLOCK FALSE
SPECIFICATION FairSpec
INVARIANTS
    TypeOK
    AbortReachesDriver
    LateSendsAreFew
    SendsAreBounded
    HookSeesPreviousError
    CompletionIsTruthful
    CoveredPathsComplete
PROPERTIES
    TimeoutSettles
