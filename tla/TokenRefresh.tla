---------------------------- MODULE TokenRefresh ----------------------------
(***************************************************************************)
(* A client with one of the two plugins that renew the access token:       *)
(* refreshOn401 (src/src/auth/index.ts), which renews it when a response   *)
(* is a 401 and sends the request once more, and jwtRefresh                *)
(* (src/src/auth/oauth.ts), which renews it before the request when the    *)
(* token is about to expire.  Both keep one promise, `inflight', for all   *)
(* requests.  When it settles the waiting requests go on, after a          *)
(* microtask has cleared it; responses and answers of the token endpoint   *)
(* are tasks of their own and find it cleared.                             *)
(*                                                                         *)
(* Tokens are numbered in the order the token endpoint issues them.  The   *)
(* application keeps the last one its refresh callback returned in         *)
(* `store', which is where getToken and the hooks that set the header read *)
(* it.  MaxToken bounds the tokens for TLC.  The endpoint may also answer  *)
(* with the last token it issued: refreshOn401 takes it like any other,    *)
(* jwtRefresh refuses it (rejectIfUnchanged) if it is the one that the     *)
(* request which started the refresh had read.                             *)
(***************************************************************************)
EXTENDS Naturals

CONSTANTS
    Requests,
    NoRequest,
    Rotates,        \* BOOLEAN: issuing a token makes the server refuse the others
    RejectsUnchanged,   \* BOOLEAN: rejectIfUnchanged of jwtRefresh
    MaxToken

ASSUME TokenRefreshAssumption ==
    /\ NoRequest \notin Requests
    /\ Rotates \in BOOLEAN
    /\ RejectsUnchanged \in BOOLEAN
    /\ MaxToken \in Nat \ {0}

Tokens == 1 .. MaxToken
NoToken == 0
Plugins == {"refreshOn401", "jwtRefresh"}
Phases ==
    {"idle", "read", "ready", "sent", "refused", "waiting", "ok", "unauthorized", "failed"}
Stages == {"none", "pending", "issued", "settled", "failed"}

VARIABLES
    plugin,     \* the plugin of this client
    inflight,   \* the request that started the refresh in progress
    phase,      \* where a request is
    token,      \* the token a request read, carries or was given
    retried,    \* the requests that have been sent again
    waitsOn,    \* the request whose refresh a request waits for
    stage,      \* how far the refresh that a request started has come
    minted,     \* the token that refresh was given
    cleared,    \* the requests whose refresh has been cleared from inflight
    store,      \* the application's current token
    issued,     \* the last token issued
    ageing,     \* tokens inside the expiry window
    refusing,   \* tokens the server answers with a 401
    rejected,   \* history: the token that was answered with a 401
    repeats     \* history: the requests whose refresh brought no newer token

mutex == <<inflight, waitsOn, stage, minted, cleared>>
world == <<store, issued, ageing, refusing>>
history == <<rejected, repeats>>
vars == <<plugin, phase, token, retried, mutex, world, history>>

TypeOK ==
    /\ plugin \in Plugins
    /\ inflight \in Requests \cup {NoRequest}
    /\ phase \in [Requests -> Phases]
    /\ token \in [Requests -> Tokens \cup {NoToken}]
    /\ retried \subseteq Requests
    /\ waitsOn \in [Requests -> Requests \cup {NoRequest}]
    /\ stage \in [Requests -> Stages]
    /\ minted \in [Requests -> Tokens \cup {NoToken}]
    /\ cleared \subseteq Requests
    /\ store \in Tokens
    /\ issued \in Tokens
    /\ ageing \subseteq Tokens
    /\ refusing \subseteq Tokens
    /\ rejected \in [Requests -> Tokens \cup {NoToken}]
    /\ repeats \subseteq Requests

Init ==
    /\ plugin \in Plugins
    /\ inflight = NoRequest
    /\ phase = [r \in Requests |-> "idle"]
    /\ token = [r \in Requests |-> NoToken]
    /\ retried = {}
    /\ waitsOn = [r \in Requests |-> NoRequest]
    /\ stage = [r \in Requests |-> "none"]
    /\ minted = [r \in Requests |-> NoToken]
    /\ cleared = {}
    /\ store = 1
    /\ issued = 1
    /\ ageing = {}
    /\ refusing = {}
    /\ rejected = [r \in Requests |-> NoToken]
    /\ repeats = {}

Over(r) == stage[r] \in {"settled", "failed"}

\* No microtask is queued: the next task may run.
MicrotasksDone == \A r \in Requests : Over(r) => r \in cleared

-----------------------------------------------------------------------------
(* A request up to its first response.                                      *)

\* Without jwtRefresh a hook puts the current token into the header; with it,
\* the hook of the plugin reads the token first, and decides an await later.
Begin(r) ==
    /\ phase[r] = "idle"
    /\ token' = [token EXCEPT ![r] = store]
    /\ phase' = [phase EXCEPT ![r] = IF plugin = "jwtRefresh" THEN "read" ELSE "ready"]
    /\ UNCHANGED <<plugin, retried, mutex, world, history>>

\* jwtRefresh: msUntilExpiry > window.
StillFresh(r) ==
    /\ phase[r] = "read"
    /\ token[r] \notin ageing
    /\ phase' = [phase EXCEPT ![r] = "ready"]
    /\ UNCHANGED <<plugin, token, retried, mutex, world, history>>

Send(r) ==
    /\ phase[r] = "ready"
    /\ phase' = [phase EXCEPT ![r] = "sent"]
    /\ UNCHANGED <<plugin, token, retried, mutex, world, history>>

Accepted(r) ==
    /\ phase[r] = "sent"
    /\ MicrotasksDone
    /\ token[r] \notin refusing
    /\ phase' = [phase EXCEPT ![r] = "ok"]
    /\ UNCHANGED <<plugin, token, retried, mutex, world, history>>

\* A 401.  The response of the second request comes from the client without
\* the hook, and jwtRefresh has no hook for responses: both surface.
Refused(r) ==
    /\ phase[r] = "sent"
    /\ MicrotasksDone
    /\ token[r] \in refusing
    /\ IF plugin = "refreshOn401" /\ r \notin retried
       THEN /\ phase' = [phase EXCEPT ![r] = "refused"]
            /\ rejected' = [rejected EXCEPT ![r] = token[r]]
       ELSE /\ phase' = [phase EXCEPT ![r] = "unauthorized"]
            /\ UNCHANGED rejected
    /\ UNCHANGED <<plugin, token, retried, mutex, world, repeats>>

-----------------------------------------------------------------------------
(* getNewToken and refreshOnce.                                             *)

\* afterResponse saw a 401; the hook of jwtRefresh an ageing token.
NeedsToken(r) ==
    \/ phase[r] = "refused"
    \/ phase[r] = "read" /\ token[r] \in ageing

\* Faulty variant of StartRefresh: the test of inflight and its assignment are
\* on two sides of an await.
StartUnguarded(r) ==
    /\ NeedsToken(r)
    /\ inflight' = r
    /\ waitsOn' = [waitsOn EXCEPT ![r] = r]
    /\ stage' = [stage EXCEPT ![r] = "pending"]
    /\ phase' = [phase EXCEPT ![r] = "waiting"]
    /\ UNCHANGED <<plugin, token, retried, minted, cleared, world, history>>

StartRefresh(r) ==
    /\ NeedsToken(r)
    /\ inflight = NoRequest
    /\ inflight' = r
    /\ waitsOn' = [waitsOn EXCEPT ![r] = r]
    /\ stage' = [stage EXCEPT ![r] = "pending"]
    /\ phase' = [phase EXCEPT ![r] = "waiting"]
    /\ UNCHANGED <<plugin, token, retried, minted, cleared, world, history>>

\* opts.refresh() throws at once: inflight is not assigned, the request fails.
RefreshThrows(r) ==
    /\ NeedsToken(r)
    /\ inflight = NoRequest
    /\ phase' = [phase EXCEPT ![r] = "failed"]
    /\ UNCHANGED <<plugin, token, retried, mutex, world, history>>

JoinRefresh(r) ==
    /\ NeedsToken(r)
    /\ inflight # NoRequest
    /\ waitsOn' = [waitsOn EXCEPT ![r] = inflight]
    /\ phase' = [phase EXCEPT ![r] = "waiting"]
    /\ UNCHANGED <<plugin, token, retried, inflight, stage, minted, cleared, world, history>>

\* The token endpoint issues a token; its answer is still on the way.
Issue(r) ==
    /\ stage[r] = "pending"
    /\ issued < MaxToken
    /\ issued' = issued + 1
    /\ minted' = [minted EXCEPT ![r] = issued + 1]
    /\ stage' = [stage EXCEPT ![r] = "issued"]
    /\ refusing' = IF Rotates THEN 1 .. issued ELSE refusing
    /\ UNCHANGED <<plugin, phase, token, retried, inflight, waitsOn, cleared, store, ageing,
                   history>>

\* It answers with the last token it issued.
Repeat(r) ==
    /\ stage[r] = "pending"
    /\ minted' = [minted EXCEPT ![r] = issued]
    /\ stage' = [stage EXCEPT ![r] = "issued"]
    /\ repeats' = repeats \cup {r}
    /\ UNCHANGED <<plugin, phase, token, retried, inflight, waitsOn, cleared, world, rejected>>

\* refreshOnce: next === current, the token that the request had read.
Unchanged(r) ==
    /\ plugin = "jwtRefresh"
    /\ RejectsUnchanged
    /\ minted[r] = token[r]

\* The refresh callback keeps the token and returns it: the promise settles.
SettleRefresh(r) ==
    /\ stage[r] = "issued"
    /\ ~Unchanged(r)
    /\ MicrotasksDone
    /\ stage' = [stage EXCEPT ![r] = "settled"]
    /\ store' = minted[r]
    /\ UNCHANGED <<plugin, phase, token, retried, inflight, waitsOn, minted, cleared, issued,
                   ageing, refusing, history>>

FailRefresh(r) ==
    /\ stage[r] \in {"pending", "issued"}
    /\ MicrotasksDone
    /\ stage' = [stage EXCEPT ![r] = "failed"]
    /\ UNCHANGED <<plugin, phase, token, retried, inflight, waitsOn, minted, cleared, world,
                   history>>

\* Faulty variant of Clear: a failed refresh stays in inflight.
ClearSuccess(r) ==
    /\ Over(r)
    /\ r \notin cleared
    /\ inflight' = IF stage[r] = "settled" THEN NoRequest ELSE inflight
    /\ cleared' = cleared \cup {r}
    /\ UNCHANGED <<plugin, phase, token, retried, waitsOn, stage, minted, world, history>>

\* The microtask the finally queues.
Clear(r) ==
    /\ Over(r)
    /\ r \notin cleared
    /\ inflight' = NoRequest
    /\ cleared' = cleared \cup {r}
    /\ UNCHANGED <<plugin, phase, token, retried, waitsOn, stage, minted, world, history>>

\* Faulty variant of Resume: the header of the first request is sent again.
ResumeOld(r) ==
    /\ phase[r] = "waiting"
    /\ waitsOn[r] \in cleared
    /\ IF stage[waitsOn[r]] = "settled"
       THEN /\ phase' = [phase EXCEPT ![r] = "ready"]
            /\ retried' = IF plugin = "refreshOn401" THEN retried \cup {r} ELSE retried
       ELSE /\ phase' = [phase EXCEPT ![r] = "failed"]
            /\ UNCHANGED retried
    /\ UNCHANGED <<plugin, token, mutex, world, history>>

\* The wait is over.  The header gets the new token, unless a hook of the
\* client puts the one in the store over it; fetchOnce or the request goes out.
Resume(r) ==
    /\ phase[r] = "waiting"
    /\ waitsOn[r] \in cleared
    /\ IF stage[waitsOn[r]] = "settled"
       THEN /\ phase' = [phase EXCEPT ![r] = "ready"]
            /\ \E t \in {minted[waitsOn[r]], store} : token' = [token EXCEPT ![r] = t]
            /\ retried' = IF plugin = "refreshOn401" THEN retried \cup {r} ELSE retried
       ELSE /\ phase' = [phase EXCEPT ![r] = "failed"]
            /\ UNCHANGED <<token, retried>>
    /\ UNCHANGED <<plugin, mutex, world, history>>

-----------------------------------------------------------------------------
(* Time and the server.                                                     *)

\* The token in use comes within expiryWindowMs of its end.
Age ==
    /\ issued \notin ageing
    /\ ageing' = 1 .. issued
    /\ UNCHANGED <<plugin, phase, token, retried, mutex, store, issued, refusing, history>>

\* The server stops accepting the tokens issued so far: expired or revoked.
Expire ==
    /\ issued \notin refusing
    /\ refusing' = 1 .. issued
    /\ ageing' = 1 .. issued
    /\ UNCHANGED <<plugin, phase, token, retried, mutex, store, issued, history>>

ClientStep(r) ==
    \/ StillFresh(r) \/ Send(r) \/ Accepted(r) \/ Refused(r)
    \/ StartRefresh(r) \/ RefreshThrows(r) \/ JoinRefresh(r) \/ Resume(r)

RefreshStep(r) == Issue(r) \/ Repeat(r) \/ SettleRefresh(r) \/ FailRefresh(r) \/ Clear(r)

Next ==
    \/ \E r \in Requests : Begin(r) \/ ClientStep(r) \/ RefreshStep(r)
    \/ Age
    \/ Expire

Spec == Init /\ [][Next]_vars

-----------------------------------------------------------------------------
(* Properties.                                                              *)

\* A refresh ends with a token or with its failure.
RefreshOutcome(r) ==
    IF stage[r] = "settled" THEN minted[r]
    ELSE IF stage[r] = "failed" THEN MaxToken + 1
    ELSE NoToken

\* What a request made of the refresh it waited for.
Given(r) ==
    IF waitsOn[r] # NoRequest /\ phase[r] # "waiting"
    THEN RefreshOutcome(waitsOn[r])
    ELSE NoToken

Refreshes == INSTANCE SingleFlight WITH
    Callers <- Requests,
    KeyOf <- [r \in Requests |-> "token"],
    NoCaller <- NoRequest,
    Outcomes <- 1 .. MaxToken + 1,
    NoOutcome <- NoToken,
    flight <- waitsOn,
    outcome <- [r \in Requests |-> RefreshOutcome(r)],
    answer <- [r \in Requests |-> Given(r)]

(* Refreshes never overlap, everyone who waits for one gets its token or    *)
(* its failure, and none joins a refresh that has been used already         *)
(* (getNewToken, refreshOnce).                                              *)
SharesRefreshes == Refreshes!Spec

(* A request that is sent again never carries an older token than the one   *)
(* that was refused, whoever refreshed it, whenever the 401 arrived and     *)
(* whichever hook set the header; it carries a newer one unless the refresh *)
(* it waited for brought none (refreshOn401, fetchOnce).                    *)
RetryCarriesNewerToken ==
    \A r \in retried :
        phase[r] # "failed" =>
            \/ token[r] > rejected[r]
            \/ token[r] = rejected[r] /\ waitsOn[r] \in repeats

(* The store never goes back to an older token: two refreshes do not settle *)
(* out of order (getNewToken, refreshOnce).                                 *)
StoreMovesForward == [][store' >= store]_vars
=============================================================================
