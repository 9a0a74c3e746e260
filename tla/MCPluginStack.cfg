\* Every order of up to three different plugins, one of each kind and a second
\* wrapper.
CONSTANTS
    HookPlugins = {"jwtRefresh"}
    Wrappers = {"dedupe", "breaker"}
    Reextenders = {"refreshOn401"}
    MaxPlugins = 3
CHECK_DEADLOCK FALSE
SPECIFICATION Spec
INVARIANTS
    EveryWrapperApplies
