--------------------------- MODULE MCAuthedClient ---------------------------
(* Model-checking instance of AuthedClient.                                 *)
EXTENDS AuthedClient, TLC

\* The calls are to one url; those that are not deduplicated are POSTs.
MethodAndUrl == [c \in Requests |-> IF c \in Deduped THEN "GET /x" ELSE "POST /x"]

Symmetry == Permutations(Deduped)
=============================================================================
