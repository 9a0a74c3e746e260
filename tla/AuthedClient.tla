---------------------------- MODULE AuthedClient ----------------------------
(***************************************************************************)
(* A client that renews its token and shares identical requests, made with *)
(* use: [refreshOn401(...), dedupe()] or use: [jwtRefresh(...), dedupe()]: *)
(* dedupe is the outer of the two, so the request that a call leads is one *)
(* of TokenRefresh, and the promise of the call settles as that request    *)
(* ends.  A call is named as the request it would make.                    *)
(***************************************************************************)
EXTENDS TokenRefresh

CONSTANTS
    Keys, KeyOf, Deduped        \* see Dedupe

VARIABLES
    \* of Dedupe; `sharing' is its inflight, `leader' its waitsOn
    sharing, leader, settled, forgotten, received

sharingVars == <<sharing, leader, settled, forgotten, received>>
renewalVars == vars
clientVars == <<sharingVars, renewalVars>>

Ends == {"ok", "unauthorized", "failed"}

Sharing == INSTANCE Dedupe WITH
    Calls <- Requests,
    NoCall <- NoRequest,
    Outcomes <- Ends,
    Unsettled <- "unsettled",
    inflight <- sharing,
    waitsOn <- leader

ASSUME AuthedClientAssumption == Sharing!DedupeAssumption

ClientTypeOK == Sharing!TypeOK /\ TypeOK

ClientInit == Sharing!Init /\ Init

-----------------------------------------------------------------------------

\* A call is made; a request begins with it unless it joins another.
Make(c) ==
    \/ (Sharing!Bypass(c) \/ Sharing!Lead(c)) /\ Begin(c)
    \/ Sharing!Join(c) /\ UNCHANGED renewalVars

Renew(c) ==
    /\ ClientStep(c) \/ RefreshStep(c)
    /\ UNCHANGED sharingVars

\* The request has ended; a 401 that surfaces is an HTTPError.
Finish(c) ==
    /\ phase[c] \in Ends
    /\ Sharing!Settle(c, phase[c])
    /\ UNCHANGED renewalVars

React(c) ==
    /\ Sharing!Forget(c) \/ Sharing!Deliver(c)
    /\ UNCHANGED renewalVars

World ==
    /\ Age \/ Expire
    /\ UNCHANGED sharingVars

\* Every call has its answer; a state in which nothing can happen while one
\* has not is a deadlock.
Quiescent ==
    /\ \A c \in Requests : received[c] # "unsettled"
    /\ UNCHANGED clientVars

ClientNext ==
    \/ \E c \in Requests : Make(c) \/ Renew(c) \/ Finish(c) \/ React(c)
    \/ World
    \/ Quiescent

ClientSpec == ClientInit /\ [][ClientNext]_clientVars

-----------------------------------------------------------------------------
(* Properties, beside those of TokenRefresh.                                *)

(* Overlapping calls of one key are one flight: at most one request for     *)
(* them, its outcome for each of them, and none who joins when the outcome  *)
(* is already out (dedupedRequest).                                         *)
CallsShareRequests == Sharing!SharesFlights

(* Of the calls of one key that are deduplicated, at most one has a request *)
(* with the server, through refreshes and second requests (dedupedRequest,  *)
(* fetchOnce).                                                              *)
OneRequestPerKey ==
    \A c, d \in Deduped :
        c # d /\ KeyOf[c] = KeyOf[d] => ~(phase[c] = "sent" /\ phase[d] = "sent")
=============================================================================
