------------------------- MODULE AuthedClientProofs -------------------------
(***************************************************************************)
(* Theorems about AuthedClient.  A step of the composition is a step of    *)
(* each of its layers or leaves it alone, so what DedupeProofs and         *)
(* TokenRefreshProofs prove of the layers holds of the composition; the    *)
(* one invariant of its own, LinkInv, relates them.                        *)
(***************************************************************************)
EXTENDS AuthedClient, TokenRefreshProofs

Layer == INSTANCE DedupeProofs WITH
    Calls <- Requests,
    NoCall <- NoRequest,
    Outcomes <- Ends,
    Unsettled <- "unsettled",
    inflight <- sharing,
    waitsOn <- leader

(* Every step of the client is one of the layer that renews, or leaves it   *)
(* alone.                                                                   *)
LEMMA ClientRenews == ClientSpec => Spec
<1>1. ClientInit => Init
  BY DEF ClientInit
<1>2. [ClientNext]_clientVars => [Next]_vars
  <2>. SUFFICES ASSUME [ClientNext]_clientVars PROVE [Next]_vars
    OBVIOUS
  <2>1. ASSUME NEW c \in Requests, Make(c)
        PROVE  [Next]_vars
    BY <2>1 DEF Make, renewalVars, Next
  <2>2. ASSUME NEW c \in Requests, Renew(c)
        PROVE  [Next]_vars
    BY <2>2 DEF Renew, Next
  <2>3. ASSUME NEW c \in Requests, Finish(c) \/ React(c)
        PROVE  [Next]_vars
    BY <2>3 DEF Finish, React, renewalVars
  <2>4. CASE World
    BY <2>4 DEF World, Next
  <2>5. CASE Quiescent \/ UNCHANGED clientVars
    BY <2>5 DEF Quiescent, clientVars, renewalVars
  <2>. QED
    BY <2>1, <2>2, <2>3, <2>4, <2>5 DEF ClientNext
<1>. QED
  BY <1>1, <1>2, PTL DEF ClientSpec, Spec

(* Every step of the client is one of the layer that shares, or leaves it   *)
(* alone.                                                                   *)
LEMMA ClientShares == ClientSpec => Sharing!Spec
<1>1. ClientInit => Sharing!Init
  BY DEF ClientInit
<1>2. [ClientNext]_clientVars => [Sharing!Next]_(Sharing!vars)
  <2>. SUFFICES ASSUME [ClientNext]_clientVars PROVE [Sharing!Next]_(Sharing!vars)
    OBVIOUS
  <2>1. ASSUME NEW c \in Requests, Make(c)
        PROVE  Sharing!Next
    BY <2>1 DEF Make, Sharing!Next
  <2>2. ASSUME NEW c \in Requests, Renew(c)
        PROVE  UNCHANGED Sharing!vars
    BY <2>2 DEF Renew, sharingVars, Sharing!vars
  <2>3. ASSUME NEW c \in Requests, Finish(c)
        PROVE  Sharing!Next
    BY <2>3 DEF Finish, Sharing!Next
  <2>4. ASSUME NEW c \in Requests, React(c)
        PROVE  Sharing!Next
    BY <2>4 DEF React, Sharing!Next
  <2>5. CASE World \/ Quiescent \/ UNCHANGED clientVars
    BY <2>5 DEF World, Quiescent, clientVars, sharingVars, Sharing!vars
  <2>. QED
    BY <2>1, <2>2, <2>3, <2>4, <2>5 DEF ClientNext
<1>. QED
  BY <1>1, <1>2, PTL DEF ClientSpec, Sharing!Spec

(* What DedupeProofs proves of the layer, FlightInvariant and               *)
(* DedupeSharesFlights, of the client.                                      *)
LEMMA ClientFlights == ClientSpec => []Layer!FlightInv /\ Layer!SharesFlights
<1>1. Layer!DedupeAssumption
  BY AuthedClientAssumption DEF Sharing!DedupeAssumption, Layer!DedupeAssumption
<1>2. Layer!Spec => []Layer!FlightInv
  BY <1>1, Layer!FlightInvariant
<1>3. Layer!Spec => Layer!SharesFlights
  BY <1>1, Layer!DedupeSharesFlights
<1>4. Sharing!Init => Layer!Init
  BY DEF Sharing!Init, Layer!Init
<1>5. [Sharing!Next]_(Sharing!vars) => [Layer!Next]_(Layer!vars)
  BY DEF Sharing!Next, Sharing!vars, Sharing!Bypass, Sharing!Join, Sharing!Lead,
         Sharing!Settle, Sharing!InProgress, Sharing!Forget, Sharing!Deliver,
         Layer!Next, Layer!vars, Layer!Bypass, Layer!Join, Layer!Lead,
         Layer!Settle, Layer!InProgress, Layer!Forget, Layer!Deliver
<1>. QED
  BY <1>2, <1>3, <1>4, <1>5, ClientShares, PTL DEF Sharing!Spec, Layer!Spec

(* A request is under way only for a call that leads, and ends before the   *)
(* call settles.                                                            *)
LinkInv ==
    /\ \A c \in Requests : phase[c] # "idle" => leader[c] = c
    /\ \A c \in Requests : settled[c] # "unsettled" => phase[c] \in Ends

(* LinkInv holds of every reachable state.                                  *)
LEMMA LinkInvariant == ClientSpec => []LinkInv
<1>1. ClientInit => LinkInv
  BY DEF ClientInit, Init, Sharing!Init, LinkInv
<1>2. TypeOK /\ Layer!FlightInv /\ LinkInv /\ [ClientNext]_clientVars => LinkInv'
  <2>. SUFFICES ASSUME TypeOK, Layer!FlightInv, LinkInv, [ClientNext]_clientVars
                PROVE  LinkInv'
    OBVIOUS
  <2>. USE DEF TypeOK, Layer!FlightInv, Layer!TypeOK, LinkInv
  <2>1. ASSUME NEW c \in Requests, Make(c)
        PROVE  LinkInv'
    <3>1. CASE (Sharing!Bypass(c) \/ Sharing!Lead(c)) /\ Begin(c)
      BY <3>1 DEF Sharing!Bypass, Sharing!Lead, Begin, Ends
    <3>2. CASE Sharing!Join(c) /\ UNCHANGED renewalVars
      BY <3>2, AuthedClientAssumption
         DEF Sharing!DedupeAssumption, Sharing!Join, renewalVars, vars
    <3>. QED
      BY <2>1, <3>1, <3>2 DEF Make
  <2>2. ASSUME NEW c \in Requests, Renew(c)
        PROVE  LinkInv'
    <3>1. phase[c] = "idle" \/ phase[c] \in Ends => phase'[c] = phase[c]
      BY <2>2 DEF Renew, ClientStep, RefreshStep, StillFresh, Send, Accepted, Refused,
                  StartRefresh, RefreshThrows, JoinRefresh, NeedsToken, Resume, Issue,
                  Repeat, SettleRefresh, FailRefresh, Clear, Ends
    <3>2. \A d \in Requests : d # c => phase'[d] = phase[d]
      BY <2>2 DEF Renew, ClientStep, RefreshStep, StillFresh, Send, Accepted, Refused,
                  StartRefresh, RefreshThrows, JoinRefresh, Resume, Issue, Repeat, SettleRefresh,
                  FailRefresh, Clear
    <3>3. UNCHANGED <<leader, settled>>
      BY <2>2 DEF Renew, sharingVars
    <3>. QED
      BY <3>1, <3>2, <3>3
  <2>3. ASSUME NEW c \in Requests, Finish(c)
        PROVE  LinkInv'
    BY <2>3 DEF Finish, Sharing!Settle, renewalVars, vars
  <2>4. ASSUME NEW c \in Requests, React(c)
        PROVE  LinkInv'
    BY <2>4 DEF React, Sharing!Forget, Sharing!Deliver, renewalVars, vars
  <2>5. CASE World \/ Quiescent \/ UNCHANGED clientVars
    BY <2>5 DEF World, Age, Expire, Quiescent, clientVars, sharingVars, renewalVars, vars
  <2>. QED
    BY <2>1, <2>2, <2>3, <2>4, <2>5 DEF ClientNext
<1>. QED
  BY <1>1, <1>2, ClientFlights, ClientRenews, TokenRefreshTypeCorrect, PTL DEF ClientSpec

-----------------------------------------------------------------------------
(* The variables of the client keep their types (createMisina with the two  *)
(* plugins).                                                                *)
THEOREM ClientTypeCorrect == ClientSpec => []ClientTypeOK
<1>1. Layer!FlightInv /\ TypeOK => ClientTypeOK
  BY DEF Layer!FlightInv, Layer!TypeOK, Sharing!TypeOK, ClientTypeOK
<1>. QED
  BY <1>1, ClientFlights, ClientRenews, TokenRefreshTypeCorrect, PTL

(* Of the deduplicated calls of one key, at most one has a request with the *)
(* server, through refreshes and second requests (dedupedRequest,           *)
(* fetchOnce).                                                              *)
THEOREM ClientSendsOncePerKey == ClientSpec => []OneRequestPerKey
<1>1. Layer!FlightInv /\ LinkInv => OneRequestPerKey
  <2>. SUFFICES ASSUME Layer!FlightInv, LinkInv, NEW c \in Deduped, NEW d \in Deduped,
                       KeyOf[c] = KeyOf[d], phase[c] = "sent", phase[d] = "sent"
                PROVE  c = d
    BY DEF OneRequestPerKey
  <2>1. \A q \in Deduped : phase[q] = "sent" => sharing[KeyOf[q]] = q
    <3>. SUFFICES ASSUME NEW q \in Deduped, phase[q] = "sent"
                  PROVE  sharing[KeyOf[q]] = q
      OBVIOUS
    <3>1. q \in Requests
      BY AuthedClientAssumption DEF Sharing!DedupeAssumption
    <3>2. leader[q] = q /\ settled[q] = "unsettled"
      BY <3>1 DEF LinkInv, Ends
    <3>3. q \notin forgotten
      BY <3>2 DEF Layer!FlightInv, Layer!OrderInv
    <3>. QED
      BY <3>2, <3>3 DEF Layer!FlightInv, Layer!MapInv
  <2>. QED
    BY <2>1
<1>. QED
  BY <1>1, ClientFlights, LinkInvariant, PTL

(* Overlapping calls of one key share a request as SingleFlight promises,   *)
(* with the token renewed underneath (dedupedRequest).                      *)
THEOREM ClientSharesRequests == ClientSpec => CallsShareRequests
<1>1. Layer!Flights!Init => Sharing!Flights!Init
  BY DEF Layer!Flights!Init, Sharing!Flights!Init
<1>2. [Layer!Flights!Next]_(Layer!Flights!vars) => [Sharing!Flights!Next]_(Sharing!Flights!vars)
  BY DEF Layer!Flights!Next, Layer!Flights!vars, Sharing!Flights!Next, Sharing!Flights!vars,
         Layer!Flights!Start, Sharing!Flights!Start, Layer!Flights!Join, Sharing!Flights!Join,
         Layer!Flights!Land, Sharing!Flights!Land, Layer!Flights!Answer, Sharing!Flights!Answer,
         Layer!Flights!Running, Sharing!Flights!Running,
         Layer!Flights!HandedOut, Sharing!Flights!HandedOut
<1>. QED
  BY <1>1, <1>2, ClientFlights, PTL
     DEF CallsShareRequests, Sharing!SharesFlights, Layer!SharesFlights,
         Sharing!Flights!Spec, Layer!Flights!Spec

(* In the client too a request sent again carries no older token than the   *)
(* one refused, and a newer one unless its refresh brought none; refreshes  *)
(* do not overlap and the store moves forward (refreshOn401, jwtRefresh).   *)
THEOREM ClientRenewsInOrder ==
  ClientSpec => []RetryCarriesNewerToken /\ SharesRefreshes /\ StoreMovesForward
BY ClientRenews, RetriesCarryNewerTokens, TokenRefreshSharesRefreshes, TheStoreMovesForward, PTL
=============================================================================
