\* A GET that is redirected once, with beforeRedirect hooks that may throw.
CONSTANTS
    Options <- PlainGet
    DriverResponses <- RedirectedAnswers
    HookResponses <- NoHookResponses
    NoResponse = NoResponse
    HooksMayThrow = TRUE
SPECIFICATION Spec
PROPERTY HookErrorsAreFatal
