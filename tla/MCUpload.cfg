\* Two chunks, one retry, one call.
CONSTANTS
    Total = 3
    ChunkSize = 2
    MaxRetries = 1
    MaxCalls = 1
CHECK_DEADLOCK FALSE
SPECIFICATION Spec
INVARIANTS
    RetriesFromServerOffset
