\* A POST (not in retry.methods) with the default timeout and retry policy.
CONSTANTS
    Options <- PostWithTimeout
    DriverResponses <- PlainAnswers
    HookResponses <- NoHookResponses
    NoResponse = NoResponse
    HooksMayThrow = FALSE
SPECIFICATION Spec
INVARIANT OnlyRetriableMethodsRetried
