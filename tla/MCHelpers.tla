------------------------------ MODULE MCHelpers ------------------------------
(* Model-checking instance of Helpers.                                      *)
EXTENDS Helpers, TLC

CONSTANTS
    c1, c2, c3,     \* calls
    p1, p2, p3      \* pages

\* A limit or a length that is not set.
Unset == -1

\* A call within the capacity, one of all of it, one beyond it.
CostOf == (c1 :> 1) @@ (c2 :> 2) @@ (c3 :> 3)
ServerReports == {
    [remaining |-> -1, reset |-> -1], [remaining |-> 1, reset |-> -1],
    [remaining |-> 0, reset |-> 2], [remaining |-> -1, reset |-> 0]}

ThreePages == {p1, p2, p3}
ItemLimits == {Unset, 0, 3}
PageLimits == {Unset, 0, 2}

\* One event names a retry.
RetryFields == (1 :> 0) @@ (2 :> 5) @@ (3 :> 0)

\* A Content-Length that is missing, right, or that of an encoded body.
Lengths == {Unset, Size, 2}

\* The second backoff is beyond backoffLimit, what one response asks for beyond
\* the cap, and what another asks for beyond the longest timer.
Backoffs == <<1, 3>>
RetryAfterCaps == {Unset, 3}
None == [kind |-> "none"]
Text == [kind |-> "text"]
Number(n) == [kind |-> "number", n |-> n]
Date(t) == [kind |-> "date", n |-> t]
Headers(after, ms, retryAfter, reset) ==
    [after |-> after, ms |-> ms, retryAfter |-> retryAfter, reset |-> reset]
RetriedResponses == {
    Headers(TRUE, None, None, None), Headers(FALSE, None, Number(2), None),
    Headers(TRUE, None, Number(0), None), Headers(TRUE, None, Number(3), None),
    Headers(TRUE, None, Date(5), None), Headers(TRUE, None, Text, Number(1)),
    Headers(TRUE, None, None, Number(2)), Headers(TRUE, Number(1), Number(2), None)}

\* Two calls of one query, one of which mutates; the url of a hash is short.
QueryOfCall == (c1 :> p1) @@ (c2 :> p1)
HashUrls == {c1, c2} \X {"hash"}
=============================================================================
