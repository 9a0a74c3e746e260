------------------------- MODULE TokenRefreshProofs -------------------------
(***************************************************************************)
(* Theorems about TokenRefresh, for any requests and any number of tokens, *)
(* with either plugin and with or without rotation.                        *)
(***************************************************************************)
EXTENDS TokenRefresh, TLAPS

(* inflight is the one refresh that has not been cleared, if there is one.  *)
MutexInv ==
    /\ inflight # NoRequest => stage[inflight] # "none" /\ inflight \notin cleared
    /\ \A r \in Requests : stage[r] # "none" /\ r \notin cleared => inflight = r
    /\ \A r \in Requests : stage[r] # "none" <=> waitsOn[r] = r
    /\ \A r \in cleared : Over(r)

(* A request waits for a refresh from the time it needs a token; it goes on *)
(* when that refresh has been cleared.                                      *)
WaitInv ==
    /\ \A r \in Requests :
         waitsOn[r] # NoRequest =>
           /\ waitsOn[waitsOn[r]] = waitsOn[r]
           /\ phase[r] \notin {"idle", "read", "refused"}
           /\ phase[r] # "waiting" => waitsOn[r] \in cleared
    /\ \A r \in Requests : phase[r] = "waiting" => waitsOn[r] # NoRequest
    /\ plugin = "refreshOn401" =>
         \A r \in Requests :
             waitsOn[r] # NoRequest /\ phase[r] \in {"ready", "sent"} => r \in retried
    /\ \A r \in retried : phase[r] \in {"ready", "sent", "ok", "unauthorized"}

(* Tokens grow: an issued one is newer than the store, or the last one once *)
(* more; the store is as new as all that settled before; what a request     *)
(* carries or saw refused came from the store, and is older than the token  *)
(* of a refresh it may still be given, or the same if that is a repeat.     *)
TokenInv ==
    /\ store <= issued
    /\ \A r \in Requests :
         /\ stage[r] \in {"issued", "settled"} => minted[r] \in Tokens /\ minted[r] <= issued
         /\ stage[r] = "issued" => minted[r] >= store /\ (minted[r] > store \/ r \in repeats)
         /\ stage[r] = "settled" => minted[r] <= store
         /\ token[r] <= store
         /\ rejected[r] <= store
    /\ \A r, f \in Requests :
         /\ stage[f] = "settled"
         /\ f \notin cleared \/ (phase[r] = "waiting" /\ waitsOn[r] = f)
         => rejected[r] <= minted[f] /\ (rejected[r] < minted[f] \/ f \in repeats)
    /\ \A r \in retried :
         token[r] >= rejected[r] /\ (token[r] > rejected[r] \/ waitsOn[r] \in repeats)

RefreshInv == TypeOK /\ MutexInv /\ WaitInv /\ TokenInv

(* Every step keeps the types.                                              *)
LEMMA TypeStep ==
  ASSUME RefreshInv, [Next]_vars
  PROVE  TypeOK'
<1> USE TokenRefreshAssumption DEF RefreshInv
<1>1. ASSUME NEW r \in Requests, Begin(r)
      PROVE  TypeOK'
  BY <1>1 DEF TypeOK, Tokens, NoToken, Phases, Stages, Begin, mutex, world, history
<1>2. ASSUME NEW r \in Requests, StillFresh(r)
      PROVE  TypeOK'
  BY <1>2 DEF TypeOK, Tokens, NoToken, Phases, Stages, StillFresh, mutex, world, history
<1>3. ASSUME NEW r \in Requests, Send(r)
      PROVE  TypeOK'
  BY <1>3 DEF TypeOK, Tokens, NoToken, Phases, Stages, Send, mutex, world, history
<1>4. ASSUME NEW r \in Requests, Accepted(r)
      PROVE  TypeOK'
  BY <1>4 DEF TypeOK, Tokens, NoToken, Phases, Stages, Accepted, mutex, world, history
<1>5. ASSUME NEW r \in Requests, Refused(r)
      PROVE  TypeOK'
  BY <1>5 DEF TypeOK, Tokens, NoToken, Phases, Stages, Refused, mutex, world, history
<1>6. ASSUME NEW r \in Requests, StartRefresh(r)
      PROVE  TypeOK'
  BY <1>6 DEF TypeOK, Tokens, NoToken, Phases, Stages, StartRefresh, NeedsToken, mutex, world, history
<1>7. ASSUME NEW r \in Requests, RefreshThrows(r)
      PROVE  TypeOK'
  BY <1>7 DEF TypeOK, Tokens, NoToken, Phases, Stages, RefreshThrows, NeedsToken, mutex, world, history
<1>8. ASSUME NEW r \in Requests, JoinRefresh(r)
      PROVE  TypeOK'
  BY <1>8 DEF TypeOK, Tokens, NoToken, Phases, Stages, JoinRefresh, NeedsToken, mutex, world, history
<1>9. ASSUME NEW r \in Requests, Issue(r)
      PROVE  TypeOK'
  BY <1>9 DEF TypeOK, Tokens, NoToken, Phases, Stages, Issue, mutex, world, history
<1>17. ASSUME NEW r \in Requests, Repeat(r)
      PROVE  TypeOK'
  BY <1>17 DEF TypeOK, Tokens, NoToken, Phases, Stages, Repeat, mutex, world, history
<1>10. ASSUME NEW r \in Requests, SettleRefresh(r)
      PROVE  TypeOK'
  <2>1. minted[r] \in Tokens
    BY <1>10 DEF TokenInv, SettleRefresh
  <2>. QED
    BY <1>10, <2>1 DEF TypeOK, Stages, SettleRefresh, history
<1>11. ASSUME NEW r \in Requests, FailRefresh(r)
      PROVE  TypeOK'
  BY <1>11 DEF TypeOK, Tokens, NoToken, Phases, Stages, FailRefresh, mutex, world, history
<1>12. ASSUME NEW r \in Requests, Clear(r)
      PROVE  TypeOK'
  BY <1>12 DEF TypeOK, Tokens, NoToken, Phases, Stages, Clear, mutex, world, history
<1>13. ASSUME NEW r \in Requests, Resume(r)
      PROVE  TypeOK'
  BY <1>13 DEF TypeOK, Tokens, NoToken, Phases, Stages, Resume, mutex, world, history
<1>14. CASE Age
  BY <1>14 DEF TypeOK, Tokens, NoToken, Phases, Stages, Age, mutex, world, history
<1>15. CASE Expire
  BY <1>15 DEF TypeOK, Tokens, NoToken, Phases, Stages, Expire, mutex, world, history
<1>16. CASE UNCHANGED vars
  BY <1>16 DEF TypeOK, Tokens, NoToken, Phases, Stages, vars, mutex, world, history
<1>. QED
  BY <1>1, <1>2, <1>3, <1>4, <1>5, <1>6, <1>7, <1>8, <1>9, <1>10, <1>11,
     <1>12, <1>13, <1>14, <1>15, <1>16, <1>17
     DEF Next, ClientStep, RefreshStep

(* Every step keeps inflight the one refresh that is not cleared.           *)
LEMMA MutexStep ==
  ASSUME RefreshInv, [Next]_vars
  PROVE  MutexInv'
<1> USE TokenRefreshAssumption DEF RefreshInv
<1>1. ASSUME NEW r \in Requests, Begin(r)
      PROVE  MutexInv'
  BY <1>1 DEF TypeOK, MutexInv, WaitInv, Over, Stages, Begin, mutex, world, history
<1>2. ASSUME NEW r \in Requests, StillFresh(r)
      PROVE  MutexInv'
  BY <1>2 DEF TypeOK, MutexInv, WaitInv, Over, Stages, StillFresh, mutex, world, history
<1>3. ASSUME NEW r \in Requests, Send(r)
      PROVE  MutexInv'
  BY <1>3 DEF TypeOK, MutexInv, WaitInv, Over, Stages, Send, mutex, world, history
<1>4. ASSUME NEW r \in Requests, Accepted(r)
      PROVE  MutexInv'
  BY <1>4 DEF TypeOK, MutexInv, WaitInv, Over, Stages, Accepted, mutex, world, history
<1>5. ASSUME NEW r \in Requests, Refused(r)
      PROVE  MutexInv'
  BY <1>5 DEF TypeOK, MutexInv, WaitInv, Over, Stages, Refused, mutex, world, history
<1>6. ASSUME NEW r \in Requests, StartRefresh(r)
      PROVE  MutexInv'
  BY <1>6 DEF TypeOK, MutexInv, WaitInv, Over, Stages, StartRefresh, NeedsToken, mutex, world, history
<1>7. ASSUME NEW r \in Requests, RefreshThrows(r)
      PROVE  MutexInv'
  BY <1>7 DEF TypeOK, MutexInv, WaitInv, Over, Stages, RefreshThrows, NeedsToken, mutex, world, history
<1>8. ASSUME NEW r \in Requests, JoinRefresh(r)
      PROVE  MutexInv'
  BY <1>8 DEF TypeOK, MutexInv, WaitInv, Over, Stages, JoinRefresh, NeedsToken, mutex, world, history
<1>9. ASSUME NEW r \in Requests, Issue(r)
      PROVE  MutexInv'
  BY <1>9 DEF TypeOK, MutexInv, WaitInv, Over, Stages, Issue, mutex, world, history
<1>17. ASSUME NEW r \in Requests, Repeat(r)
      PROVE  MutexInv'
  BY <1>17 DEF TypeOK, MutexInv, WaitInv, Over, Stages, Repeat, mutex, world, history
<1>10. ASSUME NEW r \in Requests, SettleRefresh(r)
      PROVE  MutexInv'
  BY <1>10 DEF TypeOK, MutexInv, WaitInv, Over, Stages, SettleRefresh, mutex, world, history
<1>11. ASSUME NEW r \in Requests, FailRefresh(r)
      PROVE  MutexInv'
  BY <1>11 DEF TypeOK, MutexInv, WaitInv, Over, Stages, FailRefresh, mutex, world, history
<1>12. ASSUME NEW r \in Requests, Clear(r)
      PROVE  MutexInv'
  BY <1>12 DEF TypeOK, MutexInv, WaitInv, Over, Stages, Clear, mutex, world, history
<1>13. ASSUME NEW r \in Requests, Resume(r)
      PROVE  MutexInv'
  BY <1>13 DEF TypeOK, MutexInv, WaitInv, Over, Stages, Resume, mutex, world, history
<1>14. CASE Age
  BY <1>14 DEF TypeOK, MutexInv, WaitInv, Over, Stages, Age, mutex, world, history
<1>15. CASE Expire
  BY <1>15 DEF TypeOK, MutexInv, WaitInv, Over, Stages, Expire, mutex, world, history
<1>16. CASE UNCHANGED vars
  BY <1>16 DEF TypeOK, MutexInv, WaitInv, Over, Stages, vars, mutex, world, history
<1>. QED
  BY <1>1, <1>2, <1>3, <1>4, <1>5, <1>6, <1>7, <1>8, <1>9, <1>10, <1>11,
     <1>12, <1>13, <1>14, <1>15, <1>16, <1>17
     DEF Next, ClientStep, RefreshStep

(* Every step keeps the order of needing, waiting and going on.             *)
LEMMA WaitStep ==
  ASSUME RefreshInv, [Next]_vars
  PROVE  WaitInv'
<1> USE TokenRefreshAssumption DEF RefreshInv
<1>1. ASSUME NEW r \in Requests, Begin(r)
      PROVE  WaitInv'
  BY <1>1 DEF TypeOK, MutexInv, WaitInv, Begin, mutex, world, history
<1>2. ASSUME NEW r \in Requests, StillFresh(r)
      PROVE  WaitInv'
  BY <1>2 DEF TypeOK, MutexInv, WaitInv, StillFresh, mutex, world, history
<1>3. ASSUME NEW r \in Requests, Send(r)
      PROVE  WaitInv'
  BY <1>3 DEF TypeOK, MutexInv, WaitInv, Send, mutex, world, history
<1>4. ASSUME NEW r \in Requests, Accepted(r)
      PROVE  WaitInv'
  BY <1>4 DEF TypeOK, MutexInv, WaitInv, Accepted, mutex, world, history
<1>5. ASSUME NEW r \in Requests, Refused(r)
      PROVE  WaitInv'
  BY <1>5 DEF TypeOK, MutexInv, WaitInv, Refused, mutex, world, history
<1>6. ASSUME NEW r \in Requests, StartRefresh(r)
      PROVE  WaitInv'
  BY <1>6 DEF TypeOK, MutexInv, WaitInv, StartRefresh, NeedsToken, mutex, world, history
<1>7. ASSUME NEW r \in Requests, RefreshThrows(r)
      PROVE  WaitInv'
  BY <1>7 DEF TypeOK, MutexInv, WaitInv, RefreshThrows, NeedsToken, mutex, world, history
<1>8. ASSUME NEW r \in Requests, JoinRefresh(r)
      PROVE  WaitInv'
  BY <1>8 DEF TypeOK, MutexInv, WaitInv, JoinRefresh, NeedsToken, mutex, world, history
<1>9. ASSUME NEW r \in Requests, Issue(r)
      PROVE  WaitInv'
  BY <1>9 DEF TypeOK, MutexInv, WaitInv, Issue, mutex, world, history
<1>17. ASSUME NEW r \in Requests, Repeat(r)
      PROVE  WaitInv'
  BY <1>17 DEF TypeOK, MutexInv, WaitInv, Repeat, mutex, world, history
<1>10. ASSUME NEW r \in Requests, SettleRefresh(r)
      PROVE  WaitInv'
  BY <1>10 DEF TypeOK, MutexInv, WaitInv, SettleRefresh, mutex, world, history
<1>11. ASSUME NEW r \in Requests, FailRefresh(r)
      PROVE  WaitInv'
  BY <1>11 DEF TypeOK, MutexInv, WaitInv, FailRefresh, mutex, world, history
<1>12. ASSUME NEW r \in Requests, Clear(r)
      PROVE  WaitInv'
  BY <1>12 DEF TypeOK, MutexInv, WaitInv, Clear, mutex, world, history
<1>13. ASSUME NEW r \in Requests, Resume(r)
      PROVE  WaitInv'
  BY <1>13 DEF TypeOK, MutexInv, WaitInv, Resume, mutex, world, history
<1>14. CASE Age
  BY <1>14 DEF TypeOK, MutexInv, WaitInv, Age, mutex, world, history
<1>15. CASE Expire
  BY <1>15 DEF TypeOK, MutexInv, WaitInv, Expire, mutex, world, history
<1>16. CASE UNCHANGED vars
  BY <1>16 DEF TypeOK, MutexInv, WaitInv, vars, mutex, world, history
<1>. QED
  BY <1>1, <1>2, <1>3, <1>4, <1>5, <1>6, <1>7, <1>8, <1>9, <1>10, <1>11,
     <1>12, <1>13, <1>14, <1>15, <1>16, <1>17
     DEF Next, ClientStep, RefreshStep

(* Every step keeps the tokens in order.                                    *)
LEMMA TokenStep ==
  ASSUME RefreshInv, [Next]_vars
  PROVE  TokenInv'
<1> USE TokenRefreshAssumption DEF RefreshInv
<1>1. ASSUME NEW r \in Requests, Begin(r)
      PROVE  TokenInv'
  BY <1>1 DEF TypeOK, Tokens, NoToken, TokenInv, Begin, mutex, world, history
<1>2. ASSUME NEW r \in Requests, StillFresh(r)
      PROVE  TokenInv'
  BY <1>2 DEF TypeOK, Tokens, NoToken, TokenInv, StillFresh, mutex, world, history
<1>3. ASSUME NEW r \in Requests, Send(r)
      PROVE  TokenInv'
  BY <1>3 DEF TypeOK, Tokens, NoToken, TokenInv, Send, mutex, world, history
<1>4. ASSUME NEW r \in Requests, Accepted(r)
      PROVE  TokenInv'
  BY <1>4 DEF TypeOK, Tokens, NoToken, TokenInv, Accepted, mutex, world, history
<1>5. ASSUME NEW r \in Requests, Refused(r)
      PROVE  TokenInv'
  <2>1. \A f \in Requests : stage[f] = "settled" => f \in cleared
    BY <1>5 DEF Refused, MicrotasksDone, Over
  <2>2. rejected'[r] <= store
    BY <1>5 DEF TypeOK, Tokens, TokenInv, Refused
  <2>. QED
    BY <1>5, <2>1, <2>2 DEF TypeOK, TokenInv, Refused, mutex, world, history
<1>6. ASSUME NEW r \in Requests, StartRefresh(r)
      PROVE  TokenInv'
  <2>1. r \notin retried
    BY <1>6 DEF WaitInv, StartRefresh, NeedsToken
  <2>. QED
    BY <1>6, <2>1 DEF TypeOK, TokenInv, StartRefresh, world, history
<1>7. ASSUME NEW r \in Requests, RefreshThrows(r)
      PROVE  TokenInv'
  BY <1>7 DEF TypeOK, Tokens, NoToken, TokenInv, RefreshThrows, NeedsToken, mutex, world, history
<1>8. ASSUME NEW r \in Requests, JoinRefresh(r)
      PROVE  TokenInv'
  <2>1. inflight \in Requests \ cleared
    BY <1>8 DEF TypeOK, MutexInv, JoinRefresh
  <2>2. \A f \in Requests : waitsOn'[r] = f => f \notin cleared
    BY <1>8, <2>1 DEF TypeOK, JoinRefresh
  <2>3. r \notin retried
    BY <1>8 DEF WaitInv, JoinRefresh, NeedsToken
  <2>. QED
    BY <1>8, <2>2, <2>3 DEF TypeOK, TokenInv, JoinRefresh, world, history
<1>9. ASSUME NEW r \in Requests, Issue(r)
      PROVE  TokenInv'
  BY <1>9 DEF TypeOK, Tokens, NoToken, TokenInv, Issue, mutex, world, history
<1>17. ASSUME NEW r \in Requests, Repeat(r)
      PROVE  TokenInv'
  BY <1>17 DEF TypeOK, Tokens, NoToken, TokenInv, Repeat, mutex, world, history
<1>10. ASSUME NEW r \in Requests, SettleRefresh(r)
      PROVE  TokenInv'
  <2>1. \A f \in Requests : stage[f] = "issued" => f = r
    BY <1>10 DEF MutexInv, Over, SettleRefresh
  <2>2. minted[r] \in Nat /\ store <= minted[r] /\ minted[r] <= issued
        /\ (store < minted[r] \/ r \in repeats) /\ store' = minted[r]
    BY <1>10 DEF TokenInv, Tokens, SettleRefresh
  <2>3. /\ \A q \in Requests : token[q] \in Nat /\ rejected[q] \in Nat /\ minted[q] \in Nat
        /\ store \in Nat
    BY DEF TypeOK, Tokens, NoToken
  <2>4. \A f \in Requests : stage'[f] = IF f = r THEN "settled" ELSE stage[f]
    BY <1>10 DEF TypeOK, SettleRefresh
  <2>5. \A q \in Requests : rejected[q] <= minted[r] /\ (rejected[q] < minted[r] \/ r \in repeats)
    BY <2>2, <2>3 DEF TokenInv
  <2>. QED
    BY <1>10, <2>1, <2>2, <2>3, <2>4, <2>5 DEF TokenInv, SettleRefresh, history
<1>11. ASSUME NEW r \in Requests, FailRefresh(r)
      PROVE  TokenInv'
  BY <1>11 DEF TypeOK, Tokens, NoToken, TokenInv, FailRefresh, mutex, world, history
<1>12. ASSUME NEW r \in Requests, Clear(r)
      PROVE  TokenInv'
  BY <1>12 DEF TypeOK, Tokens, NoToken, TokenInv, Clear, mutex, world, history
<1>13. ASSUME NEW r \in Requests, Resume(r)
      PROVE  TokenInv'
  BY <1>13 DEF TypeOK, Tokens, NoToken, TokenInv, Resume, mutex, world, history
<1>14. CASE Age
  BY <1>14 DEF TypeOK, Tokens, NoToken, TokenInv, Age, mutex, world, history
<1>15. CASE Expire
  BY <1>15 DEF TypeOK, Tokens, NoToken, TokenInv, Expire, mutex, world, history
<1>16. CASE UNCHANGED vars
  BY <1>16 DEF TypeOK, Tokens, NoToken, TokenInv, vars, mutex, world, history
<1>. QED
  BY <1>1, <1>2, <1>3, <1>4, <1>5, <1>6, <1>7, <1>8, <1>9, <1>10, <1>11,
     <1>12, <1>13, <1>14, <1>15, <1>16, <1>17
     DEF Next, ClientStep, RefreshStep

(* RefreshInv holds of every reachable state.                               *)
LEMMA RefreshInvariant == Spec => []RefreshInv
<1>1. Init => RefreshInv
  BY TokenRefreshAssumption
     DEF Init, RefreshInv, TypeOK, MutexInv, WaitInv, TokenInv, Over, Tokens, NoToken,
         Phases, Stages
<1>2. RefreshInv /\ [Next]_vars => RefreshInv'
  BY TypeStep, MutexStep, WaitStep, TokenStep DEF RefreshInv
<1>. QED
  BY <1>1, <1>2, PTL DEF Spec

(* The variables keep their types.                                          *)
THEOREM TokenRefreshTypeCorrect == Spec => []TypeOK
<1>1. RefreshInv => TypeOK
  BY DEF RefreshInv
<1>. QED
  BY <1>1, RefreshInvariant, PTL

(* A request that is sent again never carries a token older than the one    *)
(* that was refused, and carries a newer one unless the token endpoint gave *)
(* the refresh it waited for no newer one (refreshOn401, fetchOnce).        *)
THEOREM RetriesCarryNewerTokens == Spec => []RetryCarriesNewerToken
<1>1. RefreshInv => RetryCarriesNewerToken
  BY DEF RefreshInv, TypeOK, Tokens, NoToken, TokenInv, RetryCarriesNewerToken
<1>. QED
  BY <1>1, RefreshInvariant, PTL

(* The store is never set back to an older token (getNewToken, refreshOnce). *)
THEOREM TheStoreMovesForward == Spec => StoreMovesForward
<1>1. ASSUME RefreshInv, [Next]_vars
      PROVE  store' >= store
  <2> USE DEF RefreshInv
  <2>1. store \in Nat
    BY <1>1 DEF TypeOK, Tokens
  <2>2. ASSUME NEW r \in Requests, SettleRefresh(r)
        PROVE  store' >= store
    <3>1. minted[r] \in Nat /\ minted[r] >= store /\ store' = minted[r]
      BY <1>1, <2>2 DEF TokenInv, Tokens, SettleRefresh
    <3>. QED
      BY <2>1, <3>1
  <2>3. CASE \A r \in Requests : ~SettleRefresh(r)
    <3>1. store' = store
      BY <1>1, <2>3 DEF Next, ClientStep, RefreshStep, vars, world, Begin, StillFresh, Send, Accepted,
                  Refused, StartRefresh, RefreshThrows, JoinRefresh, Issue, Repeat, FailRefresh, Clear,
                  Resume, Age, Expire
    <3>. QED
      BY <2>1, <3>1
  <2>. QED
    BY <2>2, <2>3
<1>. QED
  BY <1>1, RefreshInvariant, PTL DEF Spec, StoreMovesForward

-----------------------------------------------------------------------------
(* The outcome of a refresh is fixed when it is over.                       *)
LEMMA OutcomeFacts ==
  ASSUME RefreshInv, NEW r \in Requests
  PROVE  /\ RefreshOutcome(r) # NoToken <=> Over(r)
         /\ RefreshOutcome(r) # NoToken => RefreshOutcome(r) \in 1 .. MaxToken + 1
BY TokenRefreshAssumption
   DEF RefreshInv, TypeOK, TokenInv, Tokens, NoToken, Over, RefreshOutcome

(* Requests that do not wait, and stay out of the wait, are not given       *)
(* anything by a step that leaves the refreshes alone.                      *)
LEMMA NothingGiven ==
  ASSUME RefreshInv, UNCHANGED <<waitsOn, stage, minted>>,
         NEW r \in Requests, phase[r] # "waiting", phase'[r] # "waiting",
         \A q \in Requests : q # r => phase'[q] = phase[q]
  PROVE  UNCHANGED Refreshes!vars
BY DEF RefreshOutcome, Given, Refreshes!vars

(* A step of TokenRefresh is a step of SingleFlight on the refreshes, or    *)
(* changes none of its variables.                                           *)
LEMMA RefreshesStep ==
  ASSUME RefreshInv, RefreshInv', [Next]_vars
  PROVE  [Refreshes!Next]_(Refreshes!vars)
<1> USE TokenRefreshAssumption
<1> DEFINE outcome == [r \in Requests |-> RefreshOutcome(r)]
           answer == [r \in Requests |-> Given(r)]
<1>1. ASSUME NEW r \in Requests,
             Begin(r) \/ StillFresh(r) \/ Send(r) \/ Accepted(r) \/ Refused(r) \/ RefreshThrows(r)
      PROVE  UNCHANGED Refreshes!vars
  <2>1. phase[r] # "waiting" /\ phase'[r] # "waiting"
    BY <1>1 DEF RefreshInv, TypeOK, Begin, StillFresh, Send, Accepted, Refused, RefreshThrows, NeedsToken
  <2>2. \A q \in Requests : q # r => phase'[q] = phase[q]
    BY <1>1 DEF RefreshInv, TypeOK, Begin, StillFresh, Send, Accepted, Refused, RefreshThrows
  <2>3. UNCHANGED <<waitsOn, stage, minted>>
    BY <1>1 DEF mutex, Begin, StillFresh, Send, Accepted, Refused, RefreshThrows
  <2>. QED
    BY <2>1, <2>2, <2>3, NothingGiven
<1>2. ASSUME NEW r \in Requests, StartRefresh(r)
      PROVE  Refreshes!Next
  <2>1. waitsOn[r] = NoRequest /\ stage[r] = "none"
    BY <1>2 DEF RefreshInv, MutexInv, WaitInv, StartRefresh, NeedsToken
  <2>2. \A d \in Requests : ~Refreshes!Running(d)
    BY <1>2, OutcomeFacts DEF RefreshInv, MutexInv, StartRefresh, Refreshes!Running, Over
  <2>3. outcome' = outcome
    BY <1>2, <2>1 DEF RefreshInv, TypeOK, StartRefresh, RefreshOutcome
  <2>4. answer' = answer
    BY <1>2, <2>1, <2>3 DEF RefreshInv, TypeOK, StartRefresh, Given
  <2>5. Refreshes!Start(r)
    BY <1>2, <2>1, <2>2, <2>3, <2>4 DEF StartRefresh, Refreshes!Start
  <2>. QED
    BY <2>5 DEF Refreshes!Next
<1>3. ASSUME NEW r \in Requests, JoinRefresh(r)
      PROVE  Refreshes!Next
  <2>1. waitsOn[r] = NoRequest
    BY <1>3 DEF RefreshInv, WaitInv, JoinRefresh, NeedsToken
  <2>2. PICK d \in Requests : d = inflight /\ waitsOn[d] = d /\ d \notin cleared
    BY <1>3 DEF RefreshInv, TypeOK, MutexInv, JoinRefresh
  <2>3. ~Refreshes!HandedOut(d)
    BY <2>2 DEF RefreshInv, WaitInv, Given, Refreshes!HandedOut
  <2>4. outcome' = outcome
    BY <1>3 DEF JoinRefresh, RefreshOutcome
  <2>5. answer' = answer
    BY <1>3, <2>1, <2>4 DEF RefreshInv, TypeOK, JoinRefresh, Given, RefreshOutcome
  <2>6. Refreshes!Join(r, d)
    BY <1>3, <2>1, <2>2, <2>3, <2>4, <2>5 DEF JoinRefresh, Refreshes!Join
  <2>. QED
    BY <2>6 DEF Refreshes!Next
<1>4. ASSUME NEW r \in Requests, SettleRefresh(r) \/ FailRefresh(r)
      PROVE  Refreshes!Next
  <2>1. /\ waitsOn[r] = r
        /\ ~Over(r)
        /\ r \notin cleared
    BY <1>4 DEF RefreshInv, MutexInv, SettleRefresh, FailRefresh, Over
  <2>2. Over(r)'
    BY <1>4 DEF RefreshInv, TypeOK, SettleRefresh, FailRefresh, Over
  <2>3. PICK o \in 1 .. MaxToken + 1 : o = RefreshOutcome(r)'
    <3>1. stage'[r] = "settled" => minted'[r] \in 1 .. MaxToken
      BY DEF RefreshInv, TokenInv, Tokens
    <3>2. RefreshOutcome(r)' \in 1 .. MaxToken + 1
      BY <2>2, <3>1 DEF Over, RefreshOutcome
    <3>. QED
      BY <3>2
  <2>4. outcome' = [outcome EXCEPT ![r] = o]
    BY <1>4, <2>3 DEF RefreshInv, TypeOK, SettleRefresh, FailRefresh, RefreshOutcome
  <2>5. answer' = answer
    BY <1>4, <2>1 DEF RefreshInv, TypeOK, WaitInv, SettleRefresh, FailRefresh, Given, RefreshOutcome
  <2>6. Refreshes!Running(r)
    BY <2>1, OutcomeFacts DEF Refreshes!Running
  <2>7. waitsOn' = waitsOn
    BY <1>4 DEF SettleRefresh, FailRefresh
  <2>8. Refreshes!Land(r, o)
    BY <2>4, <2>5, <2>6, <2>7 DEF Refreshes!Land
  <2>. QED
    BY <2>8 DEF Refreshes!Next
<1>5. ASSUME NEW r \in Requests, Resume(r)
      PROVE  Refreshes!Next
  <2>1. /\ waitsOn[r] \in Requests
        /\ RefreshOutcome(waitsOn[r]) # NoToken
        /\ waitsOn[r] # NoRequest
    BY <1>5, OutcomeFacts DEF RefreshInv, TypeOK, MutexInv, WaitInv, Resume
  <2>2. outcome' = outcome /\ waitsOn' = waitsOn
    BY <1>5 DEF Resume, mutex, RefreshOutcome
  <2>3. Given(r) = NoToken
    BY <1>5 DEF Resume, Given
  <2>4. phase'[r] # "waiting" /\ \A q \in Requests : q # r => phase'[q] = phase[q]
    BY <1>5 DEF RefreshInv, TypeOK, Resume
  <2>5. answer' = [answer EXCEPT ![r] = RefreshOutcome(waitsOn[r])]
    BY <1>5, <2>1, <2>4 DEF Resume, mutex, Given, RefreshOutcome
  <2>6. Refreshes!Answer(r)
    BY <2>1, <2>2, <2>3, <2>5 DEF Refreshes!Answer
  <2>. QED
    BY <2>6 DEF Refreshes!Next
<1>6. ASSUME NEW r \in Requests, Issue(r) \/ Repeat(r) \/ Clear(r)
      PROVE  UNCHANGED Refreshes!vars
  <2>1. UNCHANGED <<waitsOn, phase>>
    BY <1>6 DEF Issue, Repeat, Clear
  <2>2. outcome' = outcome
    BY <1>6 DEF RefreshInv, TypeOK, Issue, Repeat, Clear, RefreshOutcome
  <2>3. \A q \in Requests : RefreshOutcome(q)' = RefreshOutcome(q)
    BY <1>6 DEF RefreshInv, TypeOK, Issue, Repeat, Clear, RefreshOutcome
  <2>4. answer' = answer
    BY <2>1, <2>3 DEF RefreshInv, TypeOK, Given
  <2>. QED
    BY <2>1, <2>2, <2>4 DEF Refreshes!vars
<1>7. CASE Age \/ Expire \/ UNCHANGED vars
  <2>1. UNCHANGED <<waitsOn, phase, stage, minted>>
    BY <1>7 DEF Age, Expire, vars, mutex
  <2>. QED
    BY <2>1 DEF RefreshOutcome, Given, Refreshes!vars
<1>. QED
  BY <1>1, <1>2, <1>3, <1>4, <1>5, <1>6, <1>7 DEF Next, ClientStep, RefreshStep

(* Refreshes are shared as SingleFlight promises (getNewToken,              *)
(* refreshOnce).                                                            *)
THEOREM TokenRefreshSharesRefreshes == Spec => SharesRefreshes
<1>1. Init => Refreshes!Init
  BY TokenRefreshAssumption DEF Init, Refreshes!Init, RefreshOutcome, Given
<1>. QED
  BY <1>1, RefreshInvariant, RefreshesStep, PTL DEF Spec, SharesRefreshes, Refreshes!Spec
=============================================================================
