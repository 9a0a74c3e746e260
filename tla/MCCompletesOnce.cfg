\* A GET with a total timeout and no other deadline, no hook that fails and a
\* server that answers 200 or 503: does onComplete fire exactly once?
CONSTANTS
    Options <- TotalTimeoutOnly
    DriverResponses <- PlainAnswers
    HookResponses <- NoHookResponses
    NoResponse = NoResponse
    HooksMayThrow = FALSE
SPECIFICATION Spec
INVARIANT CompletesExactlyOnce
