\* The breaker alone, asked for what the comment in admit promises.
CONSTANTS
    Calls = {c1, c2, c3}
    FailureThreshold = 2
    WindowMs = 2
    HalfOpenAfter = 2
    MaxClock = 6
SYMMETRY Symmetry
SPECIFICATION Spec
INVARIANT OneProbeAtATime
