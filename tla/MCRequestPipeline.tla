------------------------- MODULE MCRequestPipeline -------------------------
(* Model-checking instances of RequestPipeline.                             *)
EXTENDS RequestPipeline

\* A plain configuration: no deadline, no limit on the body, no caller signal.
Base ==
    [limit |-> 2, retriable |-> TRUE, retryOnTimeout |-> TRUE, timeout |-> FALSE,
     total |-> FALSE, bodyTimeout |-> FALSE, maxSize |-> FALSE, throwHttp |-> TRUE,
     validates |-> FALSE, hasBody |-> FALSE, redirect |-> "manual", maxHops |-> 1,
     signal |-> NoError]

\* Every mix of deadlines, abort reason and retry policy ...
Deadlines ==
    {[Base EXCEPT !.limit = 1, !.maxHops = 0, !.timeout = t, !.total = d, !.signal = s,
                  !.retriable = p[1], !.retryOnTimeout = p[2]] :
        t \in BOOLEAN, d \in BOOLEAN, s \in {NoError, "AbortError", "DOMTimeout"},
        p \in {<<TRUE, TRUE>>, <<TRUE, FALSE>>, <<FALSE, TRUE>>}}

\* ... two retries and a redirect, with and without a caller who aborts, and two
\* redirects under both ...
LongRetries ==
    {[Base EXCEPT !.total = TRUE, !.signal = "Custom", !.hasBody = TRUE],
     [Base EXCEPT !.limit = 1, !.maxHops = 2, !.total = TRUE, !.signal = "AbortError"],
     [Base EXCEPT !.timeout = TRUE]}

\* ... and every mix of what is done with a response.
Handling ==
    {[Base EXCEPT !.limit = 1, !.maxHops = 0, !.bodyTimeout = b, !.maxSize = z,
                  !.throwHttp = h, !.validates = v, !.timeout = TRUE] :
        b \in BOOLEAN, z \in BOOLEAN, h \in BOOLEAN, v \in BOOLEAN}

Redirecting ==
    {[Base EXCEPT !.limit = 1, !.redirect = r, !.maxHops = k, !.hasBody = TRUE] :
        r \in {"manual", "error", "follow"}, k \in {0, 2}}

AllOptions == Deadlines \cup LongRetries \cup Handling \cup Redirecting

Answer(status, body) ==
    [status |-> status, hint |-> "none", location |-> "absent", body |-> body,
     declared |-> FALSE, from |-> "driver"]

Redirects ==
    {[Answer("redirect", "good") EXCEPT !.location = l] :
        l \in {"absent", "refused", "consumed", "next"}}

ServerResponses ==
    {Answer("ok", b) : b \in {"good", "malformed", "stalled", "oversized"}}
    \cup {Answer("retriable", b) : b \in {"good", "malformed"}}
    \cup {[Answer("retriable", "good") EXCEPT !.hint = "false"],
          [Answer("error", "stalled") EXCEPT !.hint = "true"],
          [Answer("error", "oversized") EXCEPT !.declared = TRUE],
          Answer("error", "broken")}
    \cup Redirects

SyntheticResponses ==
    {[Answer("ok", "good") EXCEPT !.from = "hook"],
     [Answer("retriable", "malformed") EXCEPT !.from = "hook"]}

\* Small instances for the expectations the code does not meet.
TotalTimeoutOnly == {[Base EXCEPT !.total = TRUE]}
PostWithTimeout == {[Base EXCEPT !.retriable = FALSE, !.timeout = TRUE]}
PlainAnswers == {Answer("ok", "good"), Answer("retriable", "good")}
PlainGet == {Base}
RedirectedAnswers == {[Answer("redirect", "good") EXCEPT !.location = "next"], Answer("ok", "good")}
NoHookResponses == {}
=============================================================================
