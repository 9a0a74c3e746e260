------------------------------- MODULE Graphql -------------------------------
(***************************************************************************)
(* createGraphqlClient, src/src/graphql/index.ts: a call sends the hash of *)
(* its query, and the query itself only to a server that says it does not  *)
(* know the hash (automatic persisted queries).  Each of the two is a call *)
(* of the client it was given, which may send it again (runWithRetry): a   *)
(* GET for any failure, a POST for a timeout.  The server is external:     *)
(* calls share what it knows, and it forgets queries at any time.  A query *)
(* stands for its hash.                                                    *)
(***************************************************************************)
EXTENDS Integers

CONSTANTS
    Calls,
    Queries,
    QueryOf,        \* the query of each call
    Mutations,      \* the calls made by mutate
    ShortUrls,      \* [call, text]: those whose url is below getFallbackBelow
    Persisted,      \* persistedQueries
    Resends         \* retry.limit of the client

Texts == {"hash", "full"}

GraphqlAssumption ==
    /\ QueryOf \in [Calls -> Queries]
    /\ Mutations \subseteq Calls
    /\ ShortUrls \subseteq Calls \X Texts
    /\ Persisted \in BOOLEAN
    /\ Resends \in Nat

VARIABLES
    at,             \* where a call is
    text,           \* what its last request carries
    method,         \* of that request
    answer,         \* of the server to that request
    tries,          \* times that request has been sent again
    adrift,         \* requests given up, by text, that the server may still run
    known,          \* the queries the server knows by their hash
    ran,            \* times the server ran the operation
    resent,         \* times a request of the call was sent again: history
    confused        \* calls it ran and said it did not know the hash of: history

vars == <<at, text, method, answer, tries, adrift, known, ran, resent, confused>>
server == <<known, ran, confused>>

TypeOK ==
    /\ at \in [Calls -> {"idle", "sent", "resolved", "refused", "rejected"}]
    /\ text \in [Calls -> Texts]
    /\ method \in [Calls -> {"GET", "POST"}]
    /\ answer \in [Calls -> {"none", "data", "errors", "notFound"}]
    /\ known \subseteq Queries
    /\ tries \in [Calls -> 0..Resends]
    /\ adrift \in [Calls -> [Texts -> Nat]]
    /\ ran \in [Calls -> Nat] /\ resent \in [Calls -> Nat]
    /\ confused \subseteq Calls

Init ==
    /\ at = [c \in Calls |-> "idle"]
    /\ text = [c \in Calls |-> "full"]
    /\ method = [c \in Calls |-> "POST"]
    /\ answer = [c \in Calls |-> "none"]
    /\ tries = [c \in Calls |-> 0]
    /\ adrift = [c \in Calls |-> [t \in Texts |-> 0]]
    /\ known = {}
    /\ ran = [c \in Calls |-> 0]
    /\ resent = [c \in Calls |-> 0]
    /\ confused = {}

-----------------------------------------------------------------------------

\* buildGetUrl declines what is too long.
MethodFor(c, t) == IF c \notin Mutations /\ <<c, t>> \in ShortUrls THEN "GET" ELSE "POST"

Dispatch(c, t) ==
    /\ at' = [at EXCEPT ![c] = "sent"]
    /\ text' = [text EXCEPT ![c] = t]
    /\ method' = [method EXCEPT ![c] = MethodFor(c, t)]
    /\ answer' = [answer EXCEPT ![c] = "none"]
    /\ tries' = [tries EXCEPT ![c] = 0]

Exec(c) ==
    /\ at[c] = "idle"
    /\ Dispatch(c, IF Persisted THEN "hash" ELSE "full")
    /\ UNCHANGED <<adrift, resent, server>>

\* The client gives up on the request that is out, whose answer it has not
\* seen: the server has run it, runs it later or never gets it.
GiveUp(c) ==
    adrift' = IF answer[c] = "none" THEN [adrift EXCEPT ![c][text[c]] = @ + 1] ELSE adrift

\* The next attempt of runWithRetry, for a failure or for a status that is
\* retried.
Resend(c) ==
    /\ at[c] = "sent" /\ tries[c] < Resends
    /\ GiveUp(c)
    /\ tries' = [tries EXCEPT ![c] = @ + 1]
    /\ resent' = [resent EXCEPT ![c] = @ + 1]
    /\ answer' = [answer EXCEPT ![c] = "none"]
    /\ UNCHANGED <<at, text, method, server>>

\* The server does not know the hash, does not take hashes, or finds fault
\* with the request.
Refuse(c) ==
    /\ at[c] = "sent" /\ answer[c] = "none"
    /\ \E a \in {"errors", "notFound"} :
        /\ a = "notFound" => text[c] = "hash" /\ QueryOf[c] \notin known
        /\ answer' = [answer EXCEPT ![c] = a]
    /\ UNCHANGED <<at, text, method, tries, adrift, resent, server>>

\* The server runs an operation it has in full or knows by its hash.
Execute(c, t) ==
    /\ t = "full" \/ QueryOf[c] \in known
    /\ ran' = [ran EXCEPT ![c] = @ + 1]
    /\ known' = IF Persisted THEN known \cup {QueryOf[c]} ELSE known

\* The errors may be those of a service behind it, one that does not know a
\* hash of its own included.
Run(c) ==
    /\ at[c] = "sent" /\ answer[c] = "none"
    /\ Execute(c, text[c])
    /\ \E a \in {"data", "errors", "notFound"} :
        /\ answer' = [answer EXCEPT ![c] = a]
        /\ confused' = IF a = "notFound" THEN confused \cup {c} ELSE confused
    /\ UNCHANGED <<at, text, method, tries, adrift, resent>>

\* Nobody waits for the answer any more.
RunLate(c, t) ==
    /\ adrift[c][t] > 0
    /\ adrift' = [adrift EXCEPT ![c][t] = @ - 1]
    /\ Execute(c, t)
    /\ UNCHANGED <<at, text, method, answer, tries, resent, confused>>

Forget(q) ==
    /\ q \in known
    /\ known' = known \ {q}
    /\ UNCHANGED <<at, text, method, answer, tries, adrift, ran, resent, confused>>

\* Faulty variant of IsPersistedQueryNotFound: any error asks for the query.
IsAnyError(a) == a \in {"errors", "notFound"}

IsPersistedQueryNotFound(a) == a = "notFound"

\* The second request, or finalize.
Receive(c) ==
    /\ at[c] = "sent" /\ answer[c] # "none"
    /\ IF text[c] = "hash" /\ IsPersistedQueryNotFound(answer[c])
       THEN Dispatch(c, "full")
       ELSE /\ at' = [at EXCEPT ![c] = IF answer[c] = "data" THEN "resolved" ELSE "refused"]
            /\ UNCHANGED <<text, method, answer, tries>>
    /\ UNCHANGED <<adrift, resent, server>>

\* The request rejects, before or after the server has run it; an abort.
Reject(c) ==
    /\ at[c] = "sent"
    /\ GiveUp(c)
    /\ at' = [at EXCEPT ![c] = "rejected"]
    /\ UNCHANGED <<text, method, answer, tries, resent, server>>

Next ==
    \/ \E c \in Calls : Exec(c) \/ Resend(c) \/ Refuse(c) \/ Run(c) \/ Receive(c) \/ Reject(c)
    \/ \E c \in Calls, t \in Texts : RunLate(c, t)
    \/ \E q \in Queries : Forget(q)

Spec == Init /\ [][Next]_vars

-----------------------------------------------------------------------------

(* Asking for an operation under its hash and then in full never runs it    *)
(* twice: it runs at most once for every time the client below sends one of *)
(* the requests again, and once besides, whatever the server learns and     *)
(* forgets in between and however late it runs what was given up; once more *)
(* only if the server itself says of an operation it has run that it does   *)
(* not know it (isPersistedQueryNotFound).                                  *)
RunsOnce ==
    \A c \in Calls : ran[c] <= 1 + resent[c] + (IF c \in confused THEN 1 ELSE 0)

(* No caller is told that its query is unknown who has not sent the query,  *)
(* and data is what the server answered to the last request (exec).         *)
ForgettingIsHidden ==
    \A c \in Calls :
        /\ at[c] = "refused" => answer[c] = "errors" \/ text[c] = "full"
        /\ at[c] = "resolved" => ran[c] > 0
=============================================================================
