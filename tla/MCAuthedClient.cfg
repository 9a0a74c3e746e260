\* Two identical GETs, which may overlap or follow one another, and a POST that
\* needs the same token; three tokens: a second refresh while answers to the
\* first token are still on the way.
CONSTANTS
    Requests = {g1, g2, post}
    NoRequest = NoRequest
    Deduped = {g1, g2}
    Keys = {"GET /x", "POST /x"}
    KeyOf <- MethodAndUrl
    Rotates = TRUE
    RejectsUnchanged = TRUE
    MaxToken = 3
SPECIFICATION ClientSpec
SYMMETRY Symmetry
INVARIANTS
    ClientTypeOK
    OneRequestPerKey
    RetryCarriesNewerToken
PROPERTIES
    CallsShareRequests
    SharesRefreshes
    StoreMovesForward
