----------------------------- MODULE CallProofs -----------------------------
(***************************************************************************)
(* More theorems about Helpers, for every value of its constants: the      *)
(* loops over requests, the wait before a retry, the stream of events, the *)
(* requests of one call and its progress, and the queries sent by hash.    *)
(***************************************************************************)
EXTENDS HelpersProofs

-----------------------------------------------------------------------------
(* What LoopsKeepWithinBounds says of a poll is inductive as it stands.     *)
PollInv == Poll!TypeOK /\ Poll!NoRequestAfterAbort /\ Poll!ResultIsDecided

(* A poll begins without a request.                                         *)
LEMMA PollStarts == ASSUME Poll!PollAssumption, Poll!Init PROVE PollInv
<1>1. 0 \in 0..MaxAttempts
  BY DEF Poll!PollAssumption
<1>2. Poll!TypeOK
  BY <1>1 DEF Poll!Init, Poll!TypeOK
<1>. QED
  BY <1>2 DEF Poll!Init, PollInv, Poll!NoRequestAfterAbort, Poll!ResultIsDecided

(* The signal may abort between any two of its steps.                       *)
LEMMA PollSteps == ASSUME Poll!PollAssumption, PollInv, [Poll!Next]_pollVars PROVE PollInv'
<1> USE DEF PollInv, Poll!PollAssumption, Poll!TypeOK, Poll!NoRequestAfterAbort,
            Poll!ResultIsDecided
<1>1. CASE Poll!Trigger
  BY <1>1 DEF Poll!Trigger
<1>2. CASE Poll!Loop
  BY <1>2 DEF Poll!Loop, Poll!Request
<1>3. CASE Poll!WaitEnds \/ Poll!RequestAnswered \/ Poll!RequestRejected \/ Poll!UntilThrows
  BY <1>3 DEF Poll!WaitEnds, Poll!RequestAnswered, Poll!RequestRejected, Poll!UntilThrows
<1>4. ASSUME NEW holds \in BOOLEAN, Poll!UntilReturns(holds)
      PROVE  PollInv'
  BY <1>4 DEF Poll!UntilReturns
<1>5. CASE Poll!Signal
  BY <1>5 DEF Poll!Signal
<1>6. CASE UNCHANGED pollVars
  BY <1>6 DEF pollVars
<1>. QED
  BY <1>1, <1>2, <1>3, <1>4, <1>5, <1>6 DEF Poll!Next, Poll!Step, Poll!UntilSettles

-----------------------------------------------------------------------------
(* While the iteration goes on, one more item and one more request are      *)
(* within the limits.                                                       *)
RoomIsLeft ==
    /\ countLimit # NoLimit /\ ~Paginate!Ended => yielded = 0 \/ yielded < countLimit
    /\ requestLimit # NoLimit /\ pagePc = "request" => pageAttempt < requestLimit

PageInv == Paginate!TypeOK /\ Paginate!LimitsHold /\ RoomIsLeft

(* A limit that is set is a number.                                         *)
LEMMA LimitsAreNumbers ==
  ASSUME Paginate!PaginateAssumption, Paginate!TypeOK
  PROVE  /\ countLimit # NoLimit => countLimit \in Nat
         /\ requestLimit # NoLimit => requestLimit \in Nat
BY DEF Paginate!PaginateAssumption, Paginate!TypeOK

(* Nothing has been requested or yielded.                                   *)
LEMMA PageStarts == ASSUME Paginate!PaginateAssumption, Paginate!Init PROVE PageInv
<1>1. Paginate!TypeOK
  BY DEF Paginate!PaginateAssumption, Paginate!Init, Paginate!TypeOK
<1>. QED
  BY <1>1, LimitsAreNumbers DEF Paginate!Init, PageInv, Paginate!LimitsHold, RoomIsLeft,
                                Paginate!Ended

(* Each test of a limit comes before the step it is for.                    *)
LEMMA PageSteps ==
  ASSUME Paginate!PaginateAssumption, PageInv, [Paginate!Next]_pageVars PROVE PageInv'
<1> USE DEF PageInv, Paginate!TypeOK, Paginate!LimitsHold, RoomIsLeft, Paginate!Ended,
Paginate!limits
<1>0. /\ countLimit # NoLimit => countLimit \in Nat
      /\ requestLimit # NoLimit => requestLimit \in Nat
      /\ PageSize \in Nat
  BY LimitsAreNumbers DEF Paginate!PaginateAssumption
<1>1. CASE Paginate!Loop
  BY <1>0, <1>1 DEF Paginate!Loop, Paginate!Reached
<1>2. CASE Paginate!Response
  BY <1>0, <1>2 DEF Paginate!Response
<1>3. CASE Paginate!Stops
  BY <1>0, <1>3 DEF Paginate!Stops
<1>4. CASE Paginate!Yield
  <2>1. items - 1 \in 0..PageSize /\ yielded + 1 \in Nat
    BY <1>0, <1>4 DEF Paginate!Yield
  <2>2. pagePc' \in {"items", "returned"} /\ Paginate!TypeOK'
    BY <1>4, <2>1 DEF Paginate!Yield
  <2>3. countLimit # NoLimit /\ pagePc' = "items" => yielded' < countLimit
    BY <1>0, <1>4, <2>1 DEF Paginate!Yield, Paginate!Reached
  <2>4. countLimit # NoLimit => yielded' <= (IF countLimit = 0 THEN 1 ELSE countLimit)
    <3>1. countLimit # NoLimit => countLimit \in Nat /\ (yielded = 0 \/ yielded < countLimit)
      BY <1>0, <1>4 DEF Paginate!Yield
    <3>2. yielded' = yielded + 1 /\ yielded \in Nat
      BY <1>4 DEF Paginate!Yield
    <3>3. \A n, y \in Nat : (y = 0 \/ y < n) => y + 1 <= IF n = 0 THEN 1 ELSE n
      OBVIOUS
    <3>. QED
      BY <3>1, <3>2, <3>3, Zenon DEF Paginate!Yield
  <2>. QED
    BY <1>4, <2>2, <2>3, <2>4 DEF Paginate!Yield
<1>5. CASE Paginate!Skip \/ Paginate!PageEnds \/ Paginate!Decide
  BY <1>0, <1>5 DEF Paginate!Skip, Paginate!PageEnds, Paginate!Decide
<1>6. CASE UNCHANGED pageVars
  BY <1>6 DEF pageVars
<1>. QED
  BY <1>1, <1>2, <1>3, <1>4, <1>5, <1>6 DEF Paginate!Next

-----------------------------------------------------------------------------
(* A response asks for nothing, for a number of ticks, or for an instant.   *)
LEMMA AskedShape ==
  ASSUME RetryDelay!RetryDelayAssumption, NEW r \in Responses \cup {RetryDelay!Silence}
  PROVE  \/ \A t \in Nat : RetryDelay!Asked(r, t) = -1
         \/ \E n \in Nat : \A t \in Nat : RetryDelay!Asked(r, t) = n
         \/ \E n \in Nat : \A t \in Nat : RetryDelay!Asked(r, t) = IF n > t THEN n - t ELSE 0
<1> USE DEF RetryDelay!Asked, RetryDelay!ParseRetryAfter, RetryDelay!NotAsked
<1> DEFINE raw == IF r.retryAfter # RetryDelay!None THEN r.retryAfter ELSE r.reset
<1>1. r \in RetryDelay!Response
  <2>1. RetryDelay!None \in RetryDelay!Header
    BY DEF RetryDelay!None, RetryDelay!Header
  <2>2. RetryDelay!Silence \in RetryDelay!Response
    BY <2>1 DEF RetryDelay!Silence, RetryDelay!Response
  <2>. QED
    BY <2>2 DEF RetryDelay!RetryDelayAssumption
<1>2. ASSUME NEW h \in RetryDelay!Header
      PROVE  h.kind \in {"none", "text"} \/ (h.kind \in {"number", "date"} /\ h.n \in Nat)
  BY DEF RetryDelay!Header
<1>3. /\ r.ms.kind \in {"none", "text"} \/ (r.ms.kind \in {"number", "date"} /\ r.ms.n \in Nat)
      /\ raw.kind \in {"none", "text"} \/ (raw.kind \in {"number", "date"} /\ raw.n \in Nat)
  BY <1>1, <1>2 DEF RetryDelay!Response
<1>4. CASE ~r.after
  BY <1>4
<1>5. CASE r.after /\ r.ms.kind = "number"
  BY <1>3, <1>5
<1>6. CASE r.after /\ r.ms.kind # "number" /\ raw.kind = "number"
  <2>1. raw.n * Second \in Nat
    BY <1>3, <1>6, ProductType DEF RetryDelay!RetryDelayAssumption
  <2>. HIDE DEF raw
  <2>2. \A t \in Nat : RetryDelay!Asked(r, t) = raw.n * Second
    BY <1>6 DEF raw
  <2>. QED
    BY <2>1, <2>2
<1>7. CASE r.after /\ r.ms.kind # "number" /\ raw.kind = "date"
  <2>1. raw.n \in Nat
    BY <1>3, <1>7
  <2>. HIDE DEF raw
  <2>2. \A t \in Nat : RetryDelay!Asked(r, t) = IF raw.n > t THEN raw.n - t ELSE 0
    BY <1>7 DEF raw
  <2>. QED
    BY <2>1, <2>2
<1>8. CASE r.after /\ r.ms.kind # "number" /\ raw.kind \in {"none", "text"}
  BY <1>8
<1>. QED
  BY <1>3, <1>4, <1>5, <1>6, <1>7, <1>8

(* What is asked for at two times: the later, the less is left, but not so  *)
(* much less that the wait would end earlier; the cap changes nothing of it. *)
LEMMA AskedLater ==
  ASSUME RetryDelay!RetryDelayAssumption, NEW r \in Responses \cup {RetryDelay!Silence},
         policy \in RetryDelay!Policies,
         NEW t \in Nat, NEW u \in Nat, t <= u
  PROVE  /\ RetryDelay!Asked(r, t) \in Nat \cup {-1}
         /\ RetryDelay!Asked(r, t) = -1 <=> RetryDelay!Asked(r, u) = -1
         /\ RetryDelay!Asked(r, u) <= RetryDelay!Asked(r, t)
         /\ RetryDelay!Capped(RetryDelay!Asked(r, t)) \in Nat \cup {-1}
         /\ RetryDelay!Capped(RetryDelay!Asked(r, t)) = -1 <=> RetryDelay!Asked(r, t) = -1
         /\ RetryDelay!Capped(RetryDelay!Asked(r, t)) <= RetryDelay!Asked(r, t)
         /\ policy.cap # -1 => RetryDelay!Capped(RetryDelay!Asked(r, t)) <= policy.cap
         /\ t + RetryDelay!Capped(RetryDelay!Asked(r, t))
            <= u + RetryDelay!Capped(RetryDelay!Asked(r, u))
<1>1. policy.cap \in Nat \cup {-1}
  BY DEF RetryDelay!RetryDelayAssumption, RetryDelay!NoCap, RetryDelay!Policies
<1>2. /\ RetryDelay!Asked(r, t) \in Nat \cup {-1}
      /\ RetryDelay!Asked(r, u) \in Nat \cup {-1}
      /\ RetryDelay!Asked(r, t) = -1 <=> RetryDelay!Asked(r, u) = -1
      /\ RetryDelay!Asked(r, u) <= RetryDelay!Asked(r, t)
      /\ t + RetryDelay!Asked(r, t) <= u + RetryDelay!Asked(r, u)
  <2>1. CASE \A s \in Nat : RetryDelay!Asked(r, s) = -1
    BY <2>1
  <2>2. ASSUME NEW n \in Nat, \A s \in Nat : RetryDelay!Asked(r, s) = n
        PROVE  <1>2
    BY <2>2
  <2>3. ASSUME NEW n \in Nat, \A s \in Nat : RetryDelay!Asked(r, s) = IF n > s THEN n - s ELSE 0
        PROVE  <1>2
    BY <2>3
  <2>. QED
    BY <2>1, <2>2, <2>3, AskedShape
<1>3. ASSUME NEW a \in Nat \cup {-1}, NEW b \in Nat \cup {-1}, a = -1 <=> b = -1, b <= a,
             t + a <= u + b
      PROVE  /\ RetryDelay!Capped(a) \in Nat \cup {-1}
             /\ RetryDelay!Capped(a) = -1 <=> a = -1
             /\ RetryDelay!Capped(a) <= a
             /\ policy.cap # -1 => RetryDelay!Capped(a) <= policy.cap
             /\ t + RetryDelay!Capped(a) <= u + RetryDelay!Capped(b)
  BY <1>1, <1>3 DEF RetryDelay!Capped, RetryDelay!NoCap
<1>. QED
  BY <1>2, <1>3

-----------------------------------------------------------------------------
(* A retry is within the limit, and the timer of a wait is due no earlier   *)
(* than what the last response to arrive asked for.                         *)
DueAsAsked ==
    /\ lastResponse = heard.response /\ heard.at <= clock
    /\ retryPc = "failed" => retryAttempt < Limit
    /\ retryPc = "wait" /\ retryDelay <= MaxTimer =>
        wakeAt >= heard.at + RetryDelay!Capped(RetryDelay!Asked(heard.response, heard.at))

DelayInv ==
    /\ RetryDelay!TypeOK /\ DueAsAsked
    /\ RetryDelay!NotBeforeAsked /\ RetryDelay!LongWaitsAreAskedFor

(* What the invariant is about does not change unless a response arrives.   *)
LEMMA StillAsked ==
  ASSUME UNCHANGED <<policy, heard>>
  PROVE  RetryDelay!Capped(RetryDelay!Asked(heard.response, heard.at))'
         = RetryDelay!Capped(RetryDelay!Asked(heard.response, heard.at))
BY DEF RetryDelay!Capped

(* A call that has heard nothing has been asked for nothing.                *)
LEMMA DelayStarts == ASSUME RetryDelay!RetryDelayAssumption, RetryDelay!Init PROVE DelayInv
<1> USE DEF RetryDelay!Init
<1>1. RetryDelay!TypeOK
  <2>1. 0 \in 0..MaxClock /\ 0 \in 0..Limit
    BY DEF RetryDelay!RetryDelayAssumption
  <2>. QED
    BY <2>1 DEF RetryDelay!TypeOK
<1>2. RetryDelay!Asked(heard.response, heard.at) = -1
  BY DEF RetryDelay!Asked, RetryDelay!Silence, RetryDelay!NotAsked
<1>3. RetryDelay!Capped(RetryDelay!Asked(heard.response, heard.at)) = -1
  BY <1>2, AskedLater
<1>. QED
  BY <1>1, <1>3 DEF DelayInv, DueAsAsked, RetryDelay!NotBeforeAsked, RetryDelay!LongWaitsAreAskedFor

(* A wait begins some time after the response it is for has arrived: by     *)
(* AskedLater it still does not end too early.                              *)
LEMMA DelaySteps ==
  ASSUME RetryDelay!RetryDelayAssumption, DelayInv, [RetryDelay!Next]_delayVars PROVE DelayInv'
<1> DEFINE Due == RetryDelay!Capped(RetryDelay!Asked(heard.response, heard.at))
<1> USE DEF DelayInv, DueAsAsked, RetryDelay!TypeOK
<1>0. /\ heard.response \in Responses \cup {RetryDelay!Silence} /\ heard.at \in Nat /\ clock \in Nat
      /\ MaxClock \in Nat /\ Limit \in Nat /\ MaxTimer \in Nat \ {0} /\ BackoffLimit \in Nat
      /\ policy \in RetryDelay!Policies /\ policy.cap \in Nat \cup {-1}
      /\ policy.jitter \in {"none", "random", "function"} /\ Jitters \subseteq Nat
  BY DEF RetryDelay!RetryDelayAssumption, RetryDelay!NoCap, RetryDelay!Policies
<1>1. ASSUME NEW r \in Responses, RetryDelay!Respond(r)
      PROVE  DelayInv'
  BY <1>0, <1>1 DEF RetryDelay!Respond, RetryDelay!NotBeforeAsked, RetryDelay!LongWaitsAreAskedFor
<1>2. CASE RetryDelay!Fail
  BY <1>0, <1>2 DEF RetryDelay!Fail, RetryDelay!NotBeforeAsked, RetryDelay!LongWaitsAreAskedFor
<1>3. CASE RetryDelay!Wait
  <2> DEFINE asked == RetryDelay!Asked(heard.response, clock)
             backoff == IF Delays[retryAttempt + 1] > BackoffLimit THEN BackoffLimit
                        ELSE Delays[retryAttempt + 1]
  <2>1. /\ asked \in Nat \cup {-1} /\ RetryDelay!Asked(heard.response, heard.at) \in Nat \cup {-1}
        /\ Due \in Nat \cup {-1}
        /\ asked = -1 <=> Due = -1
        /\ asked = -1 <=> RetryDelay!Asked(heard.response, heard.at) = -1
        /\ asked <= RetryDelay!Asked(heard.response, heard.at)
        /\ asked # -1 => RetryDelay!Capped(asked) \in Nat
        /\ RetryDelay!Capped(asked) <= asked
        /\ policy.cap # -1 => RetryDelay!Capped(asked) <= policy.cap
        /\ heard.at + Due <= clock + RetryDelay!Capped(asked)
    BY <1>0, AskedLater
  <2>2. retryAttempt + 1 \in 1..Limit /\ retryAttempt' = retryAttempt + 1
    BY <1>0, <1>3 DEF RetryDelay!Wait
  <2>3. backoff \in 0..BackoffLimit
    <3>1. Delays[retryAttempt + 1] \in Nat
      BY <2>2 DEF RetryDelay!RetryDelayAssumption
    <3>. QED
      BY <1>0, <3>1
  <2>4. /\ asked # -1 => retryDelay' = RetryDelay!Capped(asked)
        /\ asked = -1 =>
            retryDelay' \in 0..backoff \/ (policy.jitter = "function" /\ retryDelay' \in Jitters)
    BY <1>0, <1>3, <2>3 DEF RetryDelay!Wait, RetryDelay!CalculateRetryDelay, RetryDelay!NotAsked
  <2>. HIDE DEF asked, backoff, Due
  <2>5. /\ retryDelay' \in Nat
        /\ asked # -1 => retryDelay' = RetryDelay!Capped(asked)
        /\ asked = -1 =>
            retryDelay' <= BackoffLimit \/ (policy.jitter = "function" /\ retryDelay' \in Jitters)
    BY <1>0, <2>1, <2>3, <2>4
  <2>6. /\ wakeAt' \in Nat
        /\ retryDelay' <= MaxTimer => wakeAt' = clock + retryDelay'
    BY <1>0, <1>3, <2>5 DEF RetryDelay!Wait, RetryDelay!TimerOf
  <2>7. retryDelay' <= MaxTimer => wakeAt' >= heard.at + Due
    BY <1>0, <2>1, <2>5, <2>6
  <2>8. /\ retryPc' = "wait" /\ UNCHANGED <<clock, policy, lastResponse, heard>>
        /\ Due' = Due
    BY <1>3, StillAsked DEF RetryDelay!Wait, Due
  <2>9. RetryDelay!TypeOK'
    BY <1>0, <2>2, <2>5, <2>6, <2>8
  <2>10. DueAsAsked'
    BY <2>7, <2>8 DEF Due
  <2>11. RetryDelay!LongWaitsAreAskedFor'
    <3>1. RetryDelay!Asked(heard.response, heard.at)' = RetryDelay!Asked(heard.response, heard.at)
      BY <2>8
    <3>2. retryDelay' > BackoffLimit /\ asked # -1 =>
            /\ retryDelay' <= RetryDelay!Asked(heard.response, heard.at)
            /\ policy.cap # -1 => retryDelay' <= policy.cap
      BY <1>0, <2>1, <2>5
    <3>3. retryDelay' > BackoffLimit /\ asked = -1 =>
            /\ RetryDelay!Asked(heard.response, heard.at) = -1
            /\ policy.jitter = "function" /\ retryDelay' \in Jitters
      BY <2>1, <2>5, <1>0
    <3>. QED
      BY <2>8, <3>1, <3>2, <3>3 DEF RetryDelay!LongWaitsAreAskedFor, RetryDelay!NoCap,
                                    RetryDelay!NotAsked
  <2>. QED
    BY <2>8, <2>9, <2>10, <2>11 DEF RetryDelay!NotBeforeAsked
<1>4. CASE RetryDelay!Wake
  <2>1. Due \in Int
    BY <1>0, AskedLater
  <2>2. Due' = Due
    BY <1>4, StillAsked DEF RetryDelay!Wake
  <2>. HIDE DEF Due
  <2>3. retryDelay <= MaxTimer => clock >= heard.at + Due
    BY <1>0, <1>4, <2>1 DEF RetryDelay!Wake, Due
  <2>4. RetryDelay!NotBeforeAsked'
    BY <1>4, <2>2, <2>3 DEF RetryDelay!Wake, RetryDelay!NotBeforeAsked, Due
  <2>. QED
    BY <1>0, <1>4, <2>4 DEF RetryDelay!Wake, RetryDelay!LongWaitsAreAskedFor
<1>5. CASE RetryDelay!Settle
  BY <1>0, <1>5 DEF RetryDelay!Settle, RetryDelay!NotBeforeAsked, RetryDelay!LongWaitsAreAskedFor
<1>6. CASE RetryDelay!Tick
  <2>1. Due \in Int
    BY <1>0, AskedLater
  <2>2. /\ Due' = Due
        /\ RetryDelay!Asked(heard.response, heard.at)' = RetryDelay!Asked(heard.response, heard.at)
    BY <1>6, StillAsked DEF RetryDelay!Tick
  <2>. HIDE DEF Due
  <2>3. clock' = clock + 1 /\ clock' \in 0..MaxClock
    BY <1>0, <1>6 DEF RetryDelay!Tick
  <2>4. DueAsAsked' /\ RetryDelay!TypeOK'
    BY <1>0, <1>6, <2>1, <2>2, <2>3 DEF RetryDelay!Tick, Due
  <2>5. RetryDelay!NotBeforeAsked'
    BY <1>0, <1>6, <2>1, <2>2, <2>3 DEF RetryDelay!Tick, RetryDelay!NotBeforeAsked, Due
  <2>6. RetryDelay!LongWaitsAreAskedFor'
    BY <1>6, <2>2 DEF RetryDelay!Tick, RetryDelay!LongWaitsAreAskedFor
  <2>. QED
    BY <2>4, <2>5, <2>6
<1>7. CASE UNCHANGED delayVars
  <2>1. /\ Due' = Due
        /\ RetryDelay!Asked(heard.response, heard.at)' = RetryDelay!Asked(heard.response, heard.at)
    BY <1>7, StillAsked DEF delayVars
  <2>. QED
    BY <1>7, <2>1 DEF delayVars, RetryDelay!NotBeforeAsked, RetryDelay!LongWaitsAreAskedFor
<1>. QED
  BY <1>1, <1>2, <1>3, <1>4, <1>5, <1>6, <1>7 DEF RetryDelay!Next

-----------------------------------------------------------------------------
(* What is delivered of an event, and the event as the server sends it.     *)
Delivery == [event : EventStream!Events, id : BOOLEAN, data : 1..2]
Whole(e) == [event |-> e, id |-> TRUE, data |-> 2]

(* A connection goes on where the one before left off, and what has been    *)
(* delivered is all up to there.                                            *)
GoesOn ==
    /\ delivered \in Seq(Delivery)
    /\ eventsPc = "reading" => sending = lastEventId + 1
    /\ lines > 0 => sending <= NumEvents
    /\ failures <= MaxRetries
    /\ ~truncated => Len(delivered) = lastEventId

EventsInv ==
    /\ EventStream!TypeOK /\ GoesOn
    /\ EventStream!ExactlyOnceInOrder /\ EventStream!NothingSkipped

(* The exponent of the backoff stops at 6.                                  *)
LEMMA BackoffType == ASSUME NEW n \in 0..6 PROVE 2^n \in Nat
<1>1. /\ 2^0 \in Nat /\ 2^1 \in Nat /\ 2^2 \in Nat /\ 2^3 \in Nat
      /\ 2^4 \in Nat /\ 2^5 \in Nat /\ 2^6 \in Nat
  OBVIOUS
<1>2. n = 0 \/ n = 1 \/ n = 2 \/ n = 3 \/ n = 4 \/ n = 5 \/ n = 6
  OBVIOUS
<1>. QED
  BY <1>1, <1>2, Zenon

(* The fields of an event the lines have filled: all of them after three.   *)
LEMMA FieldsType ==
  ASSUME EventStream!TypeOK
  PROVE  /\ EventStream!HasId \in BOOLEAN /\ EventStream!DataLines \in 0..2
         /\ lines = 3 => EventStream!HasId /\ EventStream!DataLines = 2
         /\ lines = 0 => EventStream!DataLines = 0
BY DEF EventStream!TypeOK, EventStream!HasId, EventStream!DataLines

(* Nothing has been delivered.                                              *)
LEMMA EventsStart == ASSUME EventStream!EventStreamAssumption, EventStream!Init PROVE EventsInv
<1>1. /\ 0 \in 0..NumEvents /\ 0 \in 0..MaxRetries + 1 /\ 0 \in 0..MaxDelay /\ 0 \in 0..MaxCuts
      /\ 1 \in 1..NumEvents + 1 /\ 0 <= MaxRetries
  BY DEF EventStream!EventStreamAssumption
<1>2. delivered \in Seq(Delivery) /\ Len(delivered) = 0 /\ DOMAIN delivered = {}
  BY DEF EventStream!Init
<1>3. /\ eventsPc = "loop" /\ sending = 1 /\ lines = 0 /\ lastEventId = 0 /\ serverRetry = 0
      /\ failures = 0 /\ delay = 0 /\ eventsAborted = FALSE /\ cuts = 0 /\ truncated = FALSE
  BY DEF EventStream!Init
<1>4. EventStream!TypeOK
  <2>1. /\ sending \in 1..NumEvents + 1 /\ lines \in 0..3 /\ lastEventId \in 0..NumEvents
        /\ serverRetry \in Nat /\ failures \in 0..MaxRetries + 1 /\ delay \in 0..MaxDelay
        /\ cuts \in 0..MaxCuts
    BY <1>1, <1>3
  <2>2. eventsAborted \in BOOLEAN /\ truncated \in BOOLEAN
    BY <1>3, Zenon
  <2>. QED
    BY <1>2, <1>3, <2>1, <2>2, Zenon DEF EventStream!TypeOK
<1>. QED
  BY <1>1, <1>2, <1>3, <1>4 DEF EventsInv, GoesOn, EventStream!ExactlyOnceInOrder,
                                EventStream!NothingSkipped

(* An event is delivered while the lines of the next one are read: it is    *)
(* the next, it is whole if they all have come, and it is kept as the last  *)
(* only if its id has.                                                      *)
LEMMA YieldDelivers ==
  ASSUME EventStream!EventStreamAssumption, EventsInv, eventsPc = "reading", lines > 0,
         EventStream!DataLines > 0, EventStream!Yield
  PROVE  /\ delivered' \in Seq(Delivery)
         /\ serverRetry' \in Nat
         /\ lastEventId' \in 0..NumEvents
         /\ lines = 3 => lastEventId' = sending
         /\ EventStream!NothingSkipped'
         /\ ~truncated /\ lines = 3 =>
                /\ Len(delivered') = lastEventId'
                /\ \A i \in DOMAIN delivered' : delivered'[i] = Whole(i)
<1> DEFINE e == [event |-> sending, id |-> EventStream!HasId, data |-> EventStream!DataLines]
<1>1. sending = lastEventId + 1 /\ sending \in EventStream!Events /\ lastEventId \in Nat
  BY DEF EventsInv, GoesOn, EventStream!TypeOK, EventStream!Events,
         EventStream!EventStreamAssumption
<1>2. e \in Delivery
  BY <1>1, FieldsType DEF EventsInv, Delivery
<1>3. delivered \in Seq(Delivery)
  BY DEF EventsInv, GoesOn
<1>4. delivered' = Append(delivered, e)
  BY DEF EventStream!Yield
<1>. HIDE DEF e
<1>5. /\ delivered' \in Seq(Delivery)
      /\ Len(delivered') = Len(delivered) + 1
      /\ DOMAIN delivered' = 1..Len(delivered) + 1
      /\ \A i \in 1..Len(delivered) : delivered'[i] = delivered[i]
      /\ delivered'[Len(delivered) + 1] = e
      /\ DOMAIN delivered = 1..Len(delivered) /\ Len(delivered) \in Nat
  BY <1>2, <1>3, <1>4
<1>6. serverRetry' \in Nat
  BY <1>1 DEF EventStream!Yield, EventsInv, EventStream!TypeOK, EventStream!EventStreamAssumption
<1>7. lastEventId' = IF EventStream!HasId THEN sending ELSE lastEventId
  BY DEF EventStream!Yield
<1>8. lastEventId' \in 0..NumEvents
  BY <1>1, <1>7 DEF EventsInv, EventStream!TypeOK, EventStream!Events,
                    EventStream!EventStreamAssumption
<1>9. lines = 3 => lastEventId' = sending
  BY <1>7, FieldsType DEF EventsInv
<1>10. EventStream!NothingSkipped'
  <2>1. ASSUME NEW n \in 1..lastEventId'
        PROVE  \E i \in DOMAIN delivered' : delivered'[i].event = n
    <3>1. CASE n = sending
      <4>1. e.event = sending
        BY DEF e
      <4>. QED
        BY <1>5, <3>1, <4>1
    <3>2. CASE n # sending
      <4>1. n \in 1..lastEventId
        BY <1>1, <1>7, <2>1, <3>2
      <4>2. PICK i \in DOMAIN delivered : delivered[i].event = n
        BY <4>1 DEF EventsInv, EventStream!NothingSkipped
      <4>. QED
        BY <1>5, <4>2
    <3>. QED
      BY <3>1, <3>2
  <2>. QED
    BY <2>1 DEF EventStream!NothingSkipped
<1>11. ASSUME ~truncated, lines = 3
       PROVE  /\ Len(delivered') = lastEventId'
              /\ \A i \in DOMAIN delivered' : delivered'[i] = Whole(i)
  <2>1. Len(delivered) = lastEventId /\ \A i \in DOMAIN delivered : delivered[i] = Whole(i)
    BY <1>11 DEF EventsInv, GoesOn, EventStream!ExactlyOnceInOrder, Whole
  <2>2. e = Whole(sending)
    BY <1>11, FieldsType DEF e, EventsInv, Whole
  <2>3. Len(delivered') = lastEventId'
    BY <1>1, <1>5, <1>9, <1>11, <2>1
  <2>4. ASSUME NEW i \in DOMAIN delivered'
        PROVE  delivered'[i] = Whole(i)
    <3>1. i \in 1..Len(delivered) \/ i = sending
      BY <1>1, <1>5, <2>1
    <3>. QED
      BY <1>1, <1>5, <2>1, <2>2, <3>1
  <2>. QED
    BY <2>3, <2>4
<1>. QED
  BY <1>5, <1>6, <1>8, <1>9, <1>10, <1>11

(* Connections that end anywhere, however they do, keep it.                 *)
LEMMA EventsSteps ==
  ASSUME EventStream!EventStreamAssumption, EventsInv,
         [EventStream!Next]_eventsVars PROVE EventsInv'
<1> USE DEF EventStream!Ended, EventStream!parser, EventStream!consumer, EventStream!backoff,
            EventStream!history, EventStream!EventStreamAssumption
<1>1. CASE \/ EventStream!Loop \/ EventStream!SleepEnds
           \/ EventStream!ConsumerReturns \/ EventStream!Abort
  BY <1>1 DEF EventsInv, EventStream!TypeOK, GoesOn, EventStream!ExactlyOnceInOrder,
              EventStream!NothingSkipped, EventStream!Loop, EventStream!SleepEnds,
              EventStream!ConsumerReturns, EventStream!Abort
<1>2. CASE EventStream!Opens
  BY <1>2 DEF EventsInv, EventStream!TypeOK, GoesOn, EventStream!ExactlyOnceInOrder,
              EventStream!NothingSkipped, EventStream!Opens
<1>3. CASE EventStream!Line
  BY <1>3 DEF EventsInv, EventStream!TypeOK, GoesOn, EventStream!ExactlyOnceInOrder,
              EventStream!NothingSkipped, EventStream!Line
<1>4. CASE EventStream!BlankLine
  <2>1. /\ eventsPc = "reading" /\ lines = 3 /\ EventStream!Yield /\ EventStream!DataLines > 0
        /\ sending' = sending + 1 /\ lines' = 0
        /\ UNCHANGED <<eventsPc, failures, delay, eventsAborted, cuts, truncated>>
    BY <1>4, FieldsType DEF EventStream!BlankLine, EventsInv
  <2>2. /\ delivered' \in Seq(Delivery)
        /\ serverRetry' \in Nat
        /\ lastEventId' = sending /\ lastEventId' \in 0..NumEvents
        /\ EventStream!NothingSkipped'
        /\ ~truncated =>
              /\ Len(delivered') = lastEventId'
              /\ \A i \in DOMAIN delivered' : delivered'[i] = Whole(i)
    BY <2>1, YieldDelivers
  <2>3. \A i \in DOMAIN delivered' : delivered'[i] \in Delivery
    BY <2>2
  <2>4. sending \in Nat /\ sending + 1 \in 1..NumEvents + 1
    BY <2>1 DEF EventsInv, GoesOn, EventStream!TypeOK
  <2>5. EventStream!TypeOK'
    BY <2>1, <2>2, <2>3, <2>4 DEF EventsInv, EventStream!TypeOK, Delivery
  <2>6. GoesOn'
    BY <2>1, <2>2 DEF EventsInv, GoesOn
  <2>7. EventStream!ExactlyOnceInOrder'
    BY <2>1, <2>2 DEF EventStream!ExactlyOnceInOrder, Whole
  <2>. QED
    BY <2>2, <2>5, <2>6, <2>7 DEF EventsInv
<1>5. CASE EventStream!Eof
  <2>1. /\ eventsPc = "reading" /\ eventsPc' = "closed" /\ lines' = 0
        /\ cuts' \in 0..MaxCuts
        /\ UNCHANGED <<sending, failures, delay, eventsAborted>>
        /\ truncated' = (truncated \/ lines \in {1, 2})
    BY <1>5 DEF EventStream!Eof, EventStream!Cut, EventsInv, EventStream!TypeOK
  <2>2. lines \in 0..3 /\ truncated \in BOOLEAN
    BY DEF EventsInv, EventStream!TypeOK
  <2>3. CASE EventStream!DataLines > 0
    <3>1. EventStream!Yield /\ lines > 0
      BY <1>5, <2>2, <2>3, FieldsType DEF EventStream!Eof, EventsInv
    <3>2. /\ delivered' \in Seq(Delivery)
          /\ serverRetry' \in Nat
          /\ lastEventId' \in 0..NumEvents
          /\ EventStream!NothingSkipped'
          /\ ~truncated /\ lines = 3 =>
                /\ Len(delivered') = lastEventId'
                /\ \A i \in DOMAIN delivered' : delivered'[i] = Whole(i)
      BY <2>1, <2>3, <3>1, YieldDelivers
    <3>3. ~truncated' => ~truncated /\ lines = 3
      <4>1. lines \in {1, 2} \/ lines = 3
        BY <2>2, <3>1
      <4>. QED
        BY <2>1, <4>1, Zenon
    <3>4. \A i \in DOMAIN delivered' : delivered'[i] \in Delivery
      BY <3>2
    <3>5. EventStream!TypeOK'
      BY <2>1, <2>2, <3>2, <3>4 DEF EventsInv, EventStream!TypeOK, Delivery
    <3>6. GoesOn'
      BY <2>1, <3>2, <3>3 DEF EventsInv, GoesOn
    <3>7. EventStream!ExactlyOnceInOrder'
      BY <3>2, <3>3 DEF EventStream!ExactlyOnceInOrder, Whole
    <3>. QED
      BY <3>2, <3>5, <3>6, <3>7 DEF EventsInv
  <2>4. CASE ~(EventStream!DataLines > 0)
    <3>1. UNCHANGED <<lastEventId, serverRetry, delivered>>
      BY <1>5, <2>4 DEF EventStream!Eof
    <3>2. truncated' \in BOOLEAN /\ (~truncated' => ~truncated)
      BY <2>1, <2>2
    <3>. QED
      BY <2>1, <3>1, <3>2 DEF EventsInv, EventStream!TypeOK, GoesOn, EventStream!ExactlyOnceInOrder,
                              EventStream!NothingSkipped
  <2>. QED
    BY <2>3, <2>4
<1>6. CASE EventStream!Breaks \/ EventStream!OpenFails \/ EventStream!Cancelled
  <2>1. /\ eventsPc' = "closed" /\ lines' = 0 /\ cuts' \in 0..MaxCuts
        /\ UNCHANGED <<sending, lastEventId, serverRetry, delivered, failures, delay, eventsAborted,
                       truncated>>
    BY <1>6 DEF EventStream!Breaks, EventStream!OpenFails, EventStream!Cut, EventStream!Cancelled,
                EventsInv, EventStream!TypeOK
  <2>. QED
    BY <2>1 DEF EventsInv, EventStream!TypeOK, GoesOn, EventStream!ExactlyOnceInOrder,
                EventStream!NothingSkipped
<1>7. CASE EventStream!Closed
  <2>1. failures' \in Nat /\ failures' <= MaxRetries
    BY <1>7 DEF EventsInv, EventStream!TypeOK, GoesOn, EventStream!Closed
  <2>2. delay' \in 0..MaxDelay
    <3>1. EventStream!Lesser(failures, 6) \in 0..6
      BY DEF EventsInv, EventStream!TypeOK, EventStream!Lesser
    <3>2. 2^EventStream!Lesser(failures, 6) \in Nat
      BY <3>1, BackoffType
    <3>3. Fallback * 2^EventStream!Lesser(failures, 6) \in Nat
      BY <3>2, ProductType
    <3>4. (IF serverRetry > 0 THEN serverRetry ELSE Fallback * 2^EventStream!Lesser(failures,
    6)) \in Nat
      BY <3>3 DEF EventsInv, EventStream!TypeOK
    <3>5. \A n \in Nat : EventStream!Lesser(n, MaxDelay) \in 0..MaxDelay
      BY DEF EventStream!Lesser
    <3>. QED
      BY <1>7, <3>4, <3>5 DEF EventStream!Closed, EventsInv, EventStream!TypeOK
  <2>. QED
    BY <1>7, <2>1, <2>2 DEF EventsInv, EventStream!TypeOK, GoesOn, EventStream!ExactlyOnceInOrder,
                            EventStream!NothingSkipped, EventStream!Closed
<1>8. CASE UNCHANGED eventsVars
  BY <1>8 DEF EventsInv, EventStream!TypeOK, GoesOn, EventStream!ExactlyOnceInOrder,
              EventStream!NothingSkipped, eventsVars
<1>. QED
  BY <1>1, <1>2, <1>3, <1>4, <1>5, <1>6, <1>7, <1>8 DEF EventStream!Next, EventStream!Advance

-----------------------------------------------------------------------------
Early == callPc \in {"otel", "hook", "snapshot"}
KeyIsNeeded == setup.policy /\ setup.payload /\ setup.limit > 0

(* Nothing is sent before the key is made, and until a beforeRetry hook     *)
(* replaces the request whatever is sent has the key of the current one;    *)
(* the span is filed under the current request until one replaces it; with  *)
(* a signal nothing that is sent has a body that has been read.             *)
RequestsFollow ==
    /\ sent \in Seq(OutgoingCall!Request)
    /\ current.id \in 1..made /\ ~current.used
    /\ callAttempt <= setup.limit
    /\ Early => sent = <<>> /\ override = OutgoingCall!NoRequest
    /\ "retry" \notin replacedBy =>
        /\ override = OutgoingCall!NoRequest
        /\ \A i \in DOMAIN sent : sent[i].key = current.key
        /\ callPc \in {"attempt", "sent", "wait"} \/ sent # <<>> =>
            (KeyIsNeeded => current.key # OutgoingCall!NoKey)
    /\ setup.signal => \A i \in DOMAIN sent : ~(setup.body /\ sent[i].used)
    /\ callPc = "otel" => span = 0 /\ replacedBy = {}
    /\ span # 0 /\ replacedBy = {} => span = current.id
    /\ callPc # "completed" => ended = 0

CallInv == OutgoingCall!TypeOK /\ RequestsFollow /\ OutgoingCall!SpansEndUnlessReplaced

(* The requests of a call agree as long as it holds.                        *)
LEMMA CallAgrees == ASSUME CallInv PROVE OutgoingCall!AttemptsAgree
BY DEF CallInv, RequestsFollow, KeyIsNeeded, OutgoingCall!AttemptsAgree

(* A call has two Requests before it runs a hook, and has sent none.        *)
LEMMA CallStarts == ASSUME OutgoingCall!OutgoingCallAssumption, OutgoingCall!Init PROVE CallInv
<1>1. PICK key \in {OutgoingCall!NoKey, OutgoingCall!UserKey} :
          current = [id |-> 2, key |-> key, used |-> FALSE]
  BY DEF OutgoingCall!Init
<1>2. /\ current \in OutgoingCall!Request /\ current.id = 2 /\ ~current.used
      /\ override \in OutgoingCall!Request
  BY <1>1 DEF OutgoingCall!Init, OutgoingCall!Request, OutgoingCall!NoRequest, OutgoingCall!NoKey,
              OutgoingCall!UserKey
<1>3. sent \in Seq(OutgoingCall!Request) /\ DOMAIN sent = {}
  BY DEF OutgoingCall!Init
<1>4. /\ setup \in OutgoingCall!Setup /\ callPc \in {"hook", "otel"} /\ made = 2 /\ callAttempt = 0
      /\ span = 0 /\ ended = 0 /\ sent = <<>> /\ replacedBy = {} /\ override = OutgoingCall!NoRequest
  BY DEF OutgoingCall!Init
<1>5. setup.limit \in 0..MaxLimit /\ MaxLimit \in Nat
  BY <1>4 DEF OutgoingCall!Setup, OutgoingCall!OutgoingCallAssumption
<1>6. OutgoingCall!TypeOK
  BY <1>2, <1>3, <1>4, <1>5 DEF OutgoingCall!TypeOK
<1>7. RequestsFollow
  BY <1>2, <1>3, <1>4, <1>5 DEF RequestsFollow, Early
<1>. QED
  BY <1>4, <1>6, <1>7 DEF CallInv, OutgoingCall!SpansEndUnlessReplaced

(* A Request that replaces another is the newest one.                       *)
LEMMA ReplaceIsNewer ==
  ASSUME CallInv, NEW key \in Nat, NEW by \in {"hook", "key", "retry"}, OutgoingCall!Replace(key,
         by)
  PROVE  /\ made' \in Nat /\ current' \in OutgoingCall!Request
         /\ current'.id \in 1..made' /\ ~current'.used /\ current'.key = key
         /\ replacedBy' \subseteq {"hook", "key", "retry"} /\ by \in replacedBy'
         /\ "retry" \in replacedBy' => by = "retry" \/ "retry" \in replacedBy
         /\ replacedBy' # {} /\ span \in 0..made'
<1>1. /\ made \in Nat /\ span \in 0..made /\ replacedBy \subseteq {"hook", "key", "retry"}
  BY DEF CallInv, OutgoingCall!TypeOK
<1>2. /\ made' = made + 1 /\ current' = [id |-> made + 1, key |-> key, used |-> FALSE]
      /\ replacedBy' = replacedBy \cup {by}
  BY DEF OutgoingCall!Replace
<1>3. current' \in OutgoingCall!Request
  BY <1>1, <1>2 DEF OutgoingCall!Request
<1>. QED
  BY <1>1, <1>2, <1>3

(* Every hook that may replace the request, every retry and the end of the  *)
(* call keep it.                                                            *)
LEMMA CallSteps ==
  ASSUME OutgoingCall!OutgoingCallAssumption, CallInv, [OutgoingCall!Next]_callVars PROVE CallInv'
<1>0. /\ setup \in OutgoingCall!Setup /\ setup.limit \in 0..MaxLimit /\ MaxLimit \in Nat
      /\ current \in OutgoingCall!Request /\ current.key \in Nat /\ current.id \in 1..made
      /\ override \in OutgoingCall!Request /\ made \in Nat /\ callAttempt \in Nat
      /\ span \in 0..made
  BY DEF CallInv, RequestsFollow, OutgoingCall!TypeOK, OutgoingCall!Setup, OutgoingCall!Request,
         OutgoingCall!OutgoingCallAssumption
<1>1. CASE OutgoingCall!StartSpan
  <2>1. /\ callPc = "otel" /\ callPc' = "hook" /\ span' = current'.id
        /\ UNCHANGED <<setup, override, callAttempt, ended, sent, replacedBy>>
    BY <1>1 DEF OutgoingCall!StartSpan
  <2>2. /\ made' \in Nat /\ current' \in OutgoingCall!Request
        /\ current'.id \in 1..made' /\ ~current'.used /\ current'.key = current.key
    <3>1. CASE setup.otel = "inject"
      <4>1. made' = made + 1 /\ current' = [current EXCEPT !.id = made + 1]
        BY <1>1, <3>1 DEF OutgoingCall!StartSpan
      <4>2. /\ made' \in Nat /\ made' \in 1..made'
            /\ current'.id = made' /\ current'.key = current.key /\ current'.used = current.used
        BY <1>0, <4>1 DEF OutgoingCall!Request
      <4>3. current' \in OutgoingCall!Request
        BY <1>0, <4>1 DEF OutgoingCall!Request
      <4>. QED
        BY <4>2, <4>3, Zenon DEF CallInv, RequestsFollow
    <3>2. CASE setup.otel # "inject"
      BY <1>0, <1>1, <3>2 DEF OutgoingCall!StartSpan, CallInv, RequestsFollow
    <3>. QED
      BY <3>1, <3>2
  <2>3. OutgoingCall!TypeOK'
    BY <2>1, <2>2 DEF CallInv, OutgoingCall!TypeOK
  <2>4. RequestsFollow'
    BY <2>1, <2>2 DEF CallInv, RequestsFollow, Early
  <2>. QED
    BY <2>1, <2>3, <2>4 DEF CallInv, OutgoingCall!SpansEndUnlessReplaced
<1>2. CASE OutgoingCall!BeforeRequest
  <2>1. /\ callPc = "hook" /\ callPc' \in {"snapshot", "completing", "thrown"}
        /\ UNCHANGED <<setup, override, callAttempt, span, ended, sent>>
    BY <1>2 DEF OutgoingCall!BeforeRequest
  <2>2. CASE UNCHANGED <<made, current, replacedBy>>
    BY <1>0, <2>1, <2>2 DEF CallInv, OutgoingCall!TypeOK, RequestsFollow, Early,
                            OutgoingCall!SpansEndUnlessReplaced
  <2>3. ASSUME NEW key \in {current.key, OutgoingCall!UserKey}, OutgoingCall!Replace(key, "hook"),
               callPc' = "snapshot"
        PROVE  CallInv'
    <3>1. key \in Nat
      BY <1>0 DEF OutgoingCall!UserKey
    <3>2. OutgoingCall!TypeOK'
      BY <2>1, <2>3, <3>1, ReplaceIsNewer DEF CallInv, OutgoingCall!TypeOK
    <3>3. sent' = <<>> /\ DOMAIN sent' = {}
      BY <2>1 DEF CallInv, RequestsFollow, Early
    <3>4. current'.id \in 1..made' /\ ~current'.used /\ replacedBy' # {}
      BY <2>3, <3>1, ReplaceIsNewer
    <3>5. sent' \in Seq(OutgoingCall!Request) /\ override' = OutgoingCall!NoRequest
      BY <2>1 DEF CallInv, RequestsFollow, Early
    <3>6. RequestsFollow'
      BY <2>1, <2>3, <3>3, <3>4, <3>5 DEF CallInv, RequestsFollow, Early
    <3>. QED
      BY <2>3, <3>2, <3>6 DEF CallInv, OutgoingCall!SpansEndUnlessReplaced
  <2>. QED
    BY <1>2, <2>2, <2>3 DEF OutgoingCall!BeforeRequest
<1>3. CASE OutgoingCall!Snapshot
  <2>1. /\ callPc = "snapshot" /\ callPc' = "attempt"
        /\ UNCHANGED <<setup, override, callAttempt, span, ended, sent>>
    BY <1>3 DEF OutgoingCall!Snapshot
  <2>2. /\ sent' = <<>> /\ DOMAIN sent' = {} /\ sent' \in Seq(OutgoingCall!Request)
        /\ override' = OutgoingCall!NoRequest
    BY <2>1 DEF CallInv, RequestsFollow, Early
  <2>3. CASE OutgoingCall!NeedsKey
    <3>1. OutgoingCall!Replace(made + 1, "key") /\ made + 1 \in Nat /\ made + 1 # 0
      BY <1>0, <1>3, <2>3 DEF OutgoingCall!Snapshot
    <3>2. OutgoingCall!TypeOK'
      BY <2>1, <3>1, ReplaceIsNewer DEF CallInv, OutgoingCall!TypeOK
    <3>3. /\ current'.id \in 1..made' /\ ~current'.used /\ replacedBy' # {}
          /\ current'.key # OutgoingCall!NoKey
          /\ "retry" \in replacedBy' => "retry" \in replacedBy
      BY <3>1, ReplaceIsNewer DEF OutgoingCall!NoKey
    <3>4. RequestsFollow'
      BY <2>1, <2>2, <3>3 DEF CallInv, RequestsFollow, Early
    <3>. QED
      BY <2>1, <3>2, <3>4 DEF CallInv, OutgoingCall!SpansEndUnlessReplaced
  <2>4. CASE ~OutgoingCall!NeedsKey
    <3>1. UNCHANGED <<made, current, replacedBy>>
      BY <1>3, <2>4 DEF OutgoingCall!Snapshot
    <3>2. KeyIsNeeded => current.key # OutgoingCall!NoKey
      BY <2>4 DEF OutgoingCall!NeedsKey, KeyIsNeeded
    <3>3. OutgoingCall!TypeOK'
      BY <2>1, <3>1 DEF CallInv, OutgoingCall!TypeOK
    <3>4. RequestsFollow'
      BY <2>1, <2>2, <3>1, <3>2 DEF CallInv, RequestsFollow, Early, KeyIsNeeded
    <3>. QED
      BY <2>1, <3>3, <3>4 DEF CallInv, OutgoingCall!SpansEndUnlessReplaced
  <2>. QED
    BY <2>3, <2>4
<1>4. CASE OutgoingCall!Attempt
  <2>1. /\ callPc = "attempt" /\ callPc' \in {"thrown", "sent"}
        /\ UNCHANGED <<setup, current, made, callAttempt, span, ended, replacedBy>>
    BY <1>4 DEF OutgoingCall!Attempt
  <2>2. CASE UNCHANGED <<sent, override>>
    <3>1. callPc' # "completed" /\ UNCHANGED <<sent, override>>
      BY <2>1, <2>2
    <3>2. OutgoingCall!TypeOK'
      BY <2>1, <3>1 DEF CallInv, OutgoingCall!TypeOK
    <3>3. RequestsFollow'
      BY <2>1, <3>1 DEF CallInv, RequestsFollow, Early, KeyIsNeeded
    <3>. QED
      BY <3>1, <3>2, <3>3 DEF CallInv, OutgoingCall!SpansEndUnlessReplaced
  <2>3. CASE (OutgoingCall!Spent => ~setup.signal) /\ callPc' = "sent"
             /\ OutgoingCall!Given(OutgoingCall!Outgoing)
    <3> DEFINE out == OutgoingCall!Outgoing
               read == [override EXCEPT !.used = (override # OutgoingCall!NoRequest)]
    <3>1. callPc' = "sent" /\ sent' = Append(sent, out) /\ override' \in {override, read}
      BY <2>3 DEF OutgoingCall!Given
    <3>2. /\ out \in OutgoingCall!Request
          /\ setup.signal => ~(setup.body /\ out.used)
          /\ "retry" \notin replacedBy => out = current
      BY <1>0, <2>3 DEF OutgoingCall!Outgoing, OutgoingCall!Spent, CallInv, RequestsFollow
    <3>3. override' \in OutgoingCall!Request
      BY <1>0, <3>1 DEF OutgoingCall!Request
    <3>4. override = OutgoingCall!NoRequest => override' = OutgoingCall!NoRequest
      <4>1. [override EXCEPT !.used = override.used] = override
        BY <1>0 DEF OutgoingCall!Request
      <4>2. override = OutgoingCall!NoRequest => override.used = FALSE
        BY DEF OutgoingCall!NoRequest
      <4>3. override = OutgoingCall!NoRequest => (override # OutgoingCall!NoRequest) = override.used
        BY <4>2, Zenon
      <4>. QED
        BY <3>1, <4>1, <4>3, Zenon
    <3>. HIDE DEF out
    <3>5. sent \in Seq(OutgoingCall!Request)
      BY DEF CallInv, RequestsFollow
    <3>6. /\ sent' \in Seq(OutgoingCall!Request)
          /\ DOMAIN sent' = 1..Len(sent) + 1 /\ DOMAIN sent = 1..Len(sent) /\ Len(sent) \in Nat
          /\ \A i \in DOMAIN sent : sent'[i] = sent[i]
          /\ sent'[Len(sent) + 1] = out
      BY <3>1, <3>2, <3>5
    <3>7. ASSUME NEW i \in DOMAIN sent'
          PROVE  /\ sent'[i] \in OutgoingCall!Request
                 /\ "retry" \notin replacedBy => sent'[i].key = current.key
                 /\ setup.signal => ~(setup.body /\ sent'[i].used)
      <4>1. CASE i \in DOMAIN sent
        BY <3>5, <3>6, <4>1 DEF CallInv, RequestsFollow
      <4>2. CASE i = Len(sent) + 1
        BY <3>2, <3>6, <4>2
      <4>. QED
        BY <3>6, <4>1, <4>2
    <3>8. OutgoingCall!TypeOK'
      BY <2>1, <3>1, <3>3, <3>7 DEF CallInv, OutgoingCall!TypeOK
    <3>9. RequestsFollow'
      BY <2>1, <3>1, <3>4, <3>6, <3>7 DEF CallInv, RequestsFollow, Early, KeyIsNeeded
    <3>. QED
      BY <3>1, <3>8, <3>9 DEF CallInv, OutgoingCall!SpansEndUnlessReplaced
  <2>. QED
    BY <1>4, <2>2, <2>3 DEF OutgoingCall!Attempt
<1>5. CASE OutgoingCall!Settle
  <2>1. /\ callPc = "sent" /\ callPc' \in {"completing", "thrown", "wait"}
        /\ UNCHANGED <<setup, current, override, made, span, ended, sent, replacedBy>>
        /\ callAttempt' \in Nat /\ callAttempt' <= setup.limit
    BY <1>0, <1>5 DEF OutgoingCall!Settle, CallInv, RequestsFollow
  <2>2. callAttempt' \in 0..MaxLimit + 1
    BY <1>0, <2>1
  <2>3. OutgoingCall!TypeOK'
    BY <2>1, <2>2 DEF CallInv, OutgoingCall!TypeOK
  <2>4. RequestsFollow'
    BY <2>1 DEF CallInv, RequestsFollow, Early, KeyIsNeeded
  <2>. QED
    BY <2>1, <2>3, <2>4 DEF CallInv, OutgoingCall!SpansEndUnlessReplaced
<1>6. CASE OutgoingCall!BeforeRetry
  <2>1. /\ callPc = "wait" /\ callPc' \in {"attempt", "completing", "thrown"}
        /\ UNCHANGED <<setup, callAttempt, span, ended, sent>>
    BY <1>6 DEF OutgoingCall!BeforeRetry
  <2>2. CASE UNCHANGED <<made, current, override, replacedBy>>
    <3>1. OutgoingCall!TypeOK'
      BY <2>1, <2>2 DEF CallInv, OutgoingCall!TypeOK
    <3>2. RequestsFollow'
      BY <2>1, <2>2 DEF CallInv, RequestsFollow, Early, KeyIsNeeded
    <3>. QED
      BY <2>1, <3>1, <3>2 DEF CallInv, OutgoingCall!SpansEndUnlessReplaced
  <2>3. ASSUME NEW key \in {OutgoingCall!NoKey, OutgoingCall!UserKey, current.key},
               OutgoingCall!Replace(key, "retry"), override' = current'
        PROVE  CallInv'
    <3>1. key \in Nat
      BY <1>0 DEF OutgoingCall!UserKey, OutgoingCall!NoKey
    <3>2. OutgoingCall!TypeOK'
      BY <2>1, <2>3, <3>1, ReplaceIsNewer DEF CallInv, OutgoingCall!TypeOK
    <3>3. RequestsFollow'
      BY <1>0, <2>1, <2>3, <3>1, ReplaceIsNewer DEF CallInv, RequestsFollow, Early
    <3>. QED
      BY <2>1, <3>2, <3>3 DEF CallInv, OutgoingCall!SpansEndUnlessReplaced
  <2>. QED
    BY <1>6, <2>2, <2>3 DEF OutgoingCall!BeforeRetry
<1>7. CASE OutgoingCall!Complete
  <2>1. /\ callPc = "completing" /\ callPc' = "completed" /\ ended = 0
        /\ UNCHANGED <<setup, current, override, made, callAttempt, span, sent, replacedBy>>
        /\ ended' = IF span # 0 /\ span = current.id THEN 1 ELSE 0
    BY <1>7 DEF OutgoingCall!Complete, CallInv, RequestsFollow
  <2>2. OutgoingCall!TypeOK'
    BY <2>1 DEF CallInv, OutgoingCall!TypeOK
  <2>3. RequestsFollow'
    BY <2>1 DEF CallInv, RequestsFollow, Early, KeyIsNeeded
  <2>4. span # 0 /\ replacedBy = {} => span = current.id
    BY DEF CallInv, RequestsFollow
  <2>. QED
    BY <2>1, <2>2, <2>3, <2>4 DEF CallInv, OutgoingCall!SpansEndUnlessReplaced
<1>8. CASE UNCHANGED callVars
  BY <1>8 DEF CallInv, OutgoingCall!TypeOK, RequestsFollow, Early, KeyIsNeeded,
              OutgoingCall!SpansEndUnlessReplaced, callVars
<1>. QED
  BY <1>1, <1>2, <1>3, <1>4, <1>5, <1>6, <1>7, <1>8 DEF OutgoingCall!Next

-----------------------------------------------------------------------------
(* The requests of a call that the server may still run: the one that is    *)
(* out and has no answer, and those that were given up.                     *)
Pending(c) == IF queryAt[c] = "sent" /\ answer[c] = "none" THEN 1 ELSE 0
Adrift(c) == adrift[c]["hash"] + adrift[c]["full"]
Denied(c) == IF c \in confused THEN 1 ELSE 0

(* How often the server has run an operation and how often it still may, by *)
(* the request that is out for it and what was answered to that.            *)
RunsSoFar(c) ==
    /\ queryAt[c] = "idle" => ran[c] = 0 /\ Adrift(c) = 0
    /\ text[c] = "hash" =>
        /\ ran[c] + Adrift(c) + Pending(c) <= 1 + resent[c]
        /\ answer[c] = "notFound" => c \in confused \/ ran[c] + Adrift(c) <= resent[c]
    /\ ran[c] + Adrift(c) + Pending(c) <= 1 + resent[c] + Denied(c)
    /\ answer[c] = "data" => ran[c] > 0

GraphqlInv ==
    /\ Graphql!TypeOK /\ \A c \in Operations : RunsSoFar(c)
    /\ Graphql!ForgettingIsHidden

(* The numbers of a call.                                                   *)
LEMMA QueryNumbers ==
  ASSUME Graphql!TypeOK, NEW c \in Operations
  PROVE  /\ adrift[c]["hash"] \in Nat /\ adrift[c]["full"] \in Nat
         /\ Adrift(c) \in Nat /\ Pending(c) \in 0..1 /\ Denied(c) \in 0..1
         /\ ran[c] \in Nat /\ resent[c] \in Nat
<1>1. adrift[c] \in [Graphql!Texts -> Nat] /\ ran[c] \in Nat /\ resent[c] \in Nat
  BY DEF Graphql!TypeOK
<1>2. adrift[c]["hash"] \in Nat /\ adrift[c]["full"] \in Nat
  BY <1>1 DEF Graphql!Texts
<1>. QED
  BY <1>1, <1>2 DEF Adrift, Pending, Denied

(* A request that is given up before its answer has come is adrift.         *)
LEMMA GivenUp ==
  ASSUME Graphql!TypeOK, NEW c \in Operations, queryAt[c] = "sent", Graphql!GiveUp(c)
  PROVE  /\ adrift' \in [Operations -> [Graphql!Texts -> Nat]]
         /\ Adrift(c)' = Adrift(c) + Pending(c)
<1>1. /\ adrift \in [Operations -> [Graphql!Texts -> Nat]]
      /\ text[c] \in {"hash", "full"} /\ text[c] \in Graphql!Texts
      /\ adrift[c]["hash"] \in Nat /\ adrift[c]["full"] \in Nat
  BY QueryNumbers DEF Graphql!TypeOK, Graphql!Texts
<1>2. CASE answer[c] = "none"
  <2>1. adrift' = [adrift EXCEPT ![c] = [adrift[c] EXCEPT ![text[c]] = adrift[c][text[c]] + 1]]
    BY <1>2 DEF Graphql!GiveUp
  <2>2. adrift'[c] = [adrift[c] EXCEPT ![text[c]] = adrift[c][text[c]] + 1]
    BY <1>1, <2>1
  <2>3. adrift[c][text[c]] + 1 \in Nat
    BY <1>1
  <2>4. adrift'[c] \in [Graphql!Texts -> Nat]
    BY <1>1, <2>2, <2>3
  <2>5. Adrift(c)' = Adrift(c) + 1
    BY <1>1, <2>2 DEF Adrift, Graphql!Texts
  <2>. QED
    BY <1>1, <1>2, <2>1, <2>4, <2>5 DEF Pending
<1>3. CASE answer[c] # "none"
  BY <1>1, <1>3 DEF Graphql!GiveUp, Adrift, Pending
<1>. QED
  BY <1>2, <1>3

(* Each run is of a request that is out, or of one of those sent again.     *)
LEMMA GraphqlRunsOnce == ASSUME GraphqlInv PROVE Graphql!RunsOnce
<1>1. ASSUME NEW c \in Operations
      PROVE  ran[c] <= 1 + resent[c] + (IF c \in confused THEN 1 ELSE 0)
  <2>1. Graphql!TypeOK /\ ran[c] + Adrift(c) + Pending(c) <= 1 + resent[c] + Denied(c)
    BY DEF GraphqlInv, RunsSoFar
  <2>. QED
    BY <2>1, QueryNumbers DEF Denied
<1>. QED
  BY <1>1 DEF Graphql!RunsOnce

(* No call has sent anything.                                               *)
LEMMA GraphqlStarts == ASSUME Graphql!GraphqlAssumption, Graphql!Init PROVE GraphqlInv
<1>1. Graphql!TypeOK
  <2>1. 0 \in Nat /\ 0 \in 0..Resends
    BY DEF Graphql!GraphqlAssumption
  <2>. QED
    BY <2>1 DEF Graphql!Init, Graphql!TypeOK, Graphql!Texts
<1>2. ASSUME NEW c \in Operations PROVE RunsSoFar(c)
  BY DEF Graphql!Init, Graphql!Texts, RunsSoFar, Adrift, Pending, Denied
<1>. QED
  BY <1>1, <1>2 DEF Graphql!Init, GraphqlInv, Graphql!ForgettingIsHidden

(* A step of a call leaves the others as they are.                          *)
LEMMA OneCallMoves ==
  ASSUME GraphqlInv, NEW c \in Operations, Graphql!TypeOK', RunsSoFar(c)',
         (queryAt[c] = "refused" => answer[c] = "errors" \/ text[c] = "full")',
         (queryAt[c] = "resolved" => ran[c] > 0)',
         confused \subseteq confused', confused' \subseteq confused \cup {c},
         \A d \in Operations \ {c} :
            /\ queryAt'[d] = queryAt[d] /\ text'[d] = text[d] /\ answer'[d] = answer[d]
            /\ ran'[d] = ran[d] /\ adrift'[d] = adrift[d] /\ resent'[d] = resent[d]
  PROVE  GraphqlInv'
<1>1. ASSUME NEW d \in Operations \ {c} PROVE RunsSoFar(d)'
  <2>1. RunsSoFar(d)
    BY DEF GraphqlInv
  <2>2. d \in confused' <=> d \in confused
    OBVIOUS
  <2>. QED
    BY <2>1, <2>2 DEF RunsSoFar, Adrift, Pending, Denied
<1>2. Graphql!ForgettingIsHidden'
  BY DEF GraphqlInv, Graphql!ForgettingIsHidden
<1>. QED
  BY <1>1, <1>2 DEF GraphqlInv

(* Requests, answers and what the server forgets keep it.                   *)
LEMMA GraphqlSteps ==
  ASSUME Graphql!GraphqlAssumption, GraphqlInv, [Graphql!Next]_queryVars PROVE GraphqlInv'
<1>0. /\ Graphql!TypeOK /\ Resends \in Nat
      /\ \A c \in Operations : RunsSoFar(c)
  BY DEF GraphqlInv, Graphql!GraphqlAssumption
<1>1. ASSUME NEW c \in Operations, Graphql!Exec(c)
      PROVE  GraphqlInv'
  <2>1. Graphql!TypeOK'
    BY <1>0, <1>1 DEF Graphql!TypeOK, Graphql!Exec, Graphql!Dispatch, Graphql!MethodFor,
                      Graphql!server, Graphql!Texts
  <2>2. /\ queryAt[c] = "idle" /\ queryAt'[c] = "sent" /\ answer'[c] = "none"
        /\ UNCHANGED <<adrift, resent, ran, confused>>
        /\ \A d \in Operations \ {c} :
            queryAt'[d] = queryAt[d] /\ text'[d] = text[d] /\ answer'[d] = answer[d]
    BY <1>0, <1>1 DEF Graphql!TypeOK, Graphql!Exec, Graphql!Dispatch, Graphql!server
  <2>3. RunsSoFar(c)'
    BY <1>0, <2>2, QueryNumbers DEF RunsSoFar, Adrift, Pending, Denied
  <2>. QED
    BY <2>1, <2>2, <2>3, OneCallMoves
<1>2. ASSUME NEW c \in Operations, Graphql!Resend(c)
      PROVE  GraphqlInv'
  <2>1. /\ queryAt[c] = "sent" /\ resent'[c] = resent[c] + 1 /\ answer'[c] = "none"
        /\ UNCHANGED <<queryAt, text, ran, confused>>
        /\ \A d \in Operations \ {c} :
            answer'[d] = answer[d] /\ adrift'[d] = adrift[d] /\ resent'[d] = resent[d]
    BY <1>0, <1>2 DEF Graphql!TypeOK, Graphql!Resend, Graphql!GiveUp, Graphql!server
  <2>2. adrift' \in [Operations -> [Graphql!Texts -> Nat]] /\ Adrift(c)' = Adrift(c) + Pending(c)
    BY <1>0, <1>2, <2>1, GivenUp DEF Graphql!Resend
  <2>3. tries' \in [Operations -> 0..Resends]
    BY <1>0, <1>2 DEF Graphql!TypeOK, Graphql!Resend
  <2>4. Graphql!TypeOK'
    BY <1>0, <1>2, <2>1, <2>2, <2>3 DEF Graphql!TypeOK, Graphql!Resend, Graphql!server
  <2>5. RunsSoFar(c)'
    <3>1. Pending(c)' = 1 /\ Denied(c)' = Denied(c)
      BY <2>1 DEF Pending, Denied
    <3>. QED
      BY <1>0, <2>1, <2>2, <3>1, QueryNumbers DEF RunsSoFar
  <2>. QED
    BY <2>1, <2>4, <2>5, OneCallMoves
<1>3. ASSUME NEW c \in Operations, Graphql!Refuse(c)
      PROVE  GraphqlInv'
  <2>1. Graphql!TypeOK'
    BY <1>0, <1>3 DEF Graphql!TypeOK, Graphql!Refuse, Graphql!server
  <2>2. /\ queryAt[c] = "sent" /\ answer[c] = "none" /\ answer'[c] \in {"errors", "notFound"}
        /\ UNCHANGED <<queryAt, text, adrift, resent, ran, confused>>
        /\ \A d \in Operations \ {c} : answer'[d] = answer[d]
    BY <1>0, <1>3 DEF Graphql!TypeOK, Graphql!Refuse, Graphql!server
  <2>3. RunsSoFar(c)'
    BY <1>0, <2>2, QueryNumbers DEF RunsSoFar, Adrift, Pending, Denied
  <2>. QED
    BY <2>1, <2>2, <2>3, OneCallMoves
<1>4. ASSUME NEW c \in Operations, Graphql!Run(c)
      PROVE  GraphqlInv'
  <2>1. Graphql!TypeOK'
    BY <1>0, <1>4 DEF Graphql!TypeOK, Graphql!Run, Graphql!Execute, Graphql!GraphqlAssumption
  <2>2. /\ queryAt[c] = "sent" /\ answer[c] = "none" /\ ran'[c] = ran[c] + 1
        /\ UNCHANGED <<queryAt, text, adrift, resent>>
        /\ answer'[c] \in {"data", "errors", "notFound"}
        /\ confused \subseteq confused' /\ confused' \subseteq confused \cup {c}
        /\ answer'[c] = "notFound" => c \in confused'
        /\ \A d \in Operations \ {c} : answer'[d] = answer[d] /\ ran'[d] = ran[d]
    BY <1>0, <1>4 DEF Graphql!TypeOK, Graphql!Run, Graphql!Execute
  <2>3. RunsSoFar(c)'
    BY <1>0, <2>2, QueryNumbers DEF RunsSoFar, Adrift, Pending, Denied
  <2>. QED
    BY <2>1, <2>2, <2>3, OneCallMoves
<1>5. ASSUME NEW c \in Operations, NEW t \in Graphql!Texts, Graphql!RunLate(c, t)
      PROVE  GraphqlInv'
  <2>1. /\ adrift' = [adrift EXCEPT ![c][t] = @ - 1] /\ adrift[c][t] > 0
        /\ ran' = [ran EXCEPT ![c] = @ + 1]
        /\ UNCHANGED <<queryAt, text, method, answer, tries, resent, confused>>
        /\ known' \subseteq Queries
    BY <1>0, <1>5 DEF Graphql!TypeOK, Graphql!RunLate, Graphql!Execute, Graphql!GraphqlAssumption
  <2>2. /\ ran'[c] = ran[c] + 1 /\ Adrift(c)' = Adrift(c) - 1
        /\ adrift' \in [Operations -> [Graphql!Texts -> Nat]]
        /\ \A d \in Operations \ {c} : ran'[d] = ran[d] /\ adrift'[d] = adrift[d]
    <3>1. adrift \in [Operations -> [Graphql!Texts -> Nat]] /\ ran \in [Operations -> Nat]
      BY <1>0 DEF Graphql!TypeOK
    <3>2. adrift[c][t] - 1 \in Nat
      BY <2>1, <3>1
    <3>3. adrift' = [adrift EXCEPT ![c] = [adrift[c] EXCEPT ![t] = adrift[c][t] - 1]]
      BY <2>1
    <3>4. adrift'[c] = [adrift[c] EXCEPT ![t] = adrift[c][t] - 1]
      BY <3>1, <3>3
    <3>5. adrift'[c] \in [Graphql!Texts -> Nat]
      BY <3>1, <3>2, <3>4
    <3>6. Adrift(c)' = Adrift(c) - 1
      BY <3>1, <3>4, t \in {"hash", "full"} DEF Adrift, Graphql!Texts
    <3>. QED
      BY <2>1, <3>1, <3>3, <3>4, <3>5, <3>6
  <2>3. Graphql!TypeOK'
    BY <1>0, <2>1, <2>2 DEF Graphql!TypeOK
  <2>4. RunsSoFar(c)'
    <3>1. Adrift(c) > 0 /\ Pending(c)' = Pending(c) /\ Denied(c)' = Denied(c)
      BY <1>0, <2>1, QueryNumbers DEF Pending, Denied, Adrift, Graphql!Texts
    <3>. QED
      BY <1>0, <2>1, <2>2, <3>1, QueryNumbers DEF RunsSoFar
  <2>5. /\ (queryAt[c] = "refused" => answer[c] = "errors" \/ text[c] = "full")'
        /\ (queryAt[c] = "resolved" => ran[c] > 0)'
    BY <1>0, <2>1, <2>2, QueryNumbers DEF GraphqlInv, Graphql!ForgettingIsHidden
  <2>. QED
    BY <2>1, <2>2, <2>3, <2>4, <2>5, OneCallMoves, Zenon
<1>6. ASSUME NEW c \in Operations, Graphql!Receive(c)
      PROVE  GraphqlInv'
  <2>1. /\ queryAt[c] = "sent" /\ answer[c] # "none"
        /\ UNCHANGED <<adrift, resent, ran, confused>>
        /\ \A d \in Operations \ {c} :
            queryAt'[d] = queryAt[d] /\ text'[d] = text[d] /\ answer'[d] = answer[d]
    BY <1>0, <1>6 DEF Graphql!TypeOK, Graphql!Receive, Graphql!Dispatch, Graphql!server
  <2>2. CASE text[c] = "hash" /\ answer[c] = "notFound"
    <3>1. queryAt'[c] = "sent" /\ text'[c] = "full" /\ answer'[c] = "none"
      BY <1>0, <1>6, <2>2 DEF Graphql!TypeOK, Graphql!Receive, Graphql!Dispatch,
                              Graphql!IsPersistedQueryNotFound
    <3>2. RunsSoFar(c)'
      BY <1>0, <2>1, <2>2, <3>1, QueryNumbers DEF RunsSoFar, Adrift, Pending, Denied
    <3>3. Graphql!TypeOK'
      <4>1. 0 \in 0..Resends
        BY <1>0
      <4>2. tries' = [tries EXCEPT ![c] = 0] /\ tries' \in [Operations -> 0..Resends]
        BY <1>0, <1>6, <2>2, <4>1 DEF Graphql!TypeOK, Graphql!Receive, Graphql!Dispatch,
                                      Graphql!IsPersistedQueryNotFound
      <4>. QED
        BY <1>0, <1>6, <2>1, <2>2, <4>2
           DEF Graphql!TypeOK, Graphql!Receive, Graphql!Dispatch, Graphql!MethodFor,
               Graphql!IsPersistedQueryNotFound, Graphql!server, Graphql!Texts
    <3>. QED
      BY <2>1, <3>1, <3>2, <3>3, OneCallMoves
  <2>3. CASE ~(text[c] = "hash" /\ answer[c] = "notFound")
    <3>1. /\ queryAt'[c] = IF answer[c] = "data" THEN "resolved" ELSE "refused"
          /\ UNCHANGED <<text, answer>>
      BY <1>0, <1>6, <2>3 DEF Graphql!TypeOK, Graphql!Receive, Graphql!IsPersistedQueryNotFound
    <3>2. RunsSoFar(c)'
      BY <1>0, <2>1, <3>1, QueryNumbers DEF RunsSoFar, Adrift, Pending, Denied
    <3>3. /\ answer[c] \in {"data", "errors", "notFound"} /\ text[c] \in {"hash", "full"}
          /\ answer[c] = "data" => ran[c] > 0
      BY <1>0, <2>1 DEF Graphql!TypeOK, Graphql!Texts, RunsSoFar
    <3>4. Graphql!TypeOK'
      BY <1>0, <1>6, <2>3 DEF Graphql!TypeOK, Graphql!Receive, Graphql!IsPersistedQueryNotFound,
                              Graphql!server
    <3>. QED
      BY <2>1, <2>3, <3>1, <3>2, <3>3, <3>4, OneCallMoves
  <2>. QED
    BY <2>2, <2>3
<1>7. ASSUME NEW c \in Operations, Graphql!Reject(c)
      PROVE  GraphqlInv'
  <2>1. /\ queryAt[c] = "sent" /\ queryAt'[c] = "rejected"
        /\ UNCHANGED <<text, answer, resent, ran, confused>>
        /\ \A d \in Operations \ {c} : queryAt'[d] = queryAt[d] /\ adrift'[d] = adrift[d]
    BY <1>0, <1>7 DEF Graphql!TypeOK, Graphql!Reject, Graphql!GiveUp, Graphql!server
  <2>2. adrift' \in [Operations -> [Graphql!Texts -> Nat]] /\ Adrift(c)' = Adrift(c) + Pending(c)
    BY <1>0, <1>7, <2>1, GivenUp DEF Graphql!Reject
  <2>3. Graphql!TypeOK'
    BY <1>0, <1>7, <2>1, <2>2 DEF Graphql!TypeOK, Graphql!Reject, Graphql!server
  <2>4. RunsSoFar(c)'
    <3>1. /\ Pending(c)' = 0 /\ Denied(c)' = Denied(c)
          /\ answer[c] # "none" => Pending(c) = 0
      BY <2>1 DEF Pending, Denied
    <3>. QED
      BY <1>0, <2>1, <2>2, <3>1, QueryNumbers DEF RunsSoFar
  <2>. QED
    BY <2>1, <2>3, <2>4, OneCallMoves
<1>8. ASSUME NEW q \in Queries, Graphql!Forget(q)
      PROVE  GraphqlInv'
  BY <1>8 DEF GraphqlInv, Graphql!TypeOK, RunsSoFar, Adrift, Pending, Denied,
              Graphql!ForgettingIsHidden, Graphql!Forget
<1>9. CASE UNCHANGED queryVars
  BY <1>9 DEF GraphqlInv, Graphql!TypeOK, RunsSoFar, Adrift, Pending, Denied,
              Graphql!ForgettingIsHidden, queryVars
<1>. QED
  BY <1>1, <1>2, <1>3, <1>4, <1>5, <1>6, <1>7, <1>8, <1>9 DEF Graphql!Next

-----------------------------------------------------------------------------
Event == [loaded : 1..Size, at : 0..MaxNow]

(* The last event is not ahead of what has moved, and full when all has; a  *)
(* source that is still locked is read by the pump, whose stream is not     *)
(* closed yet.                                                              *)
EventsFollow ==
    /\ events \in Seq(Event)
    /\ events # <<>> =>
        events[Len(events)].loaded <= moved /\ events[Len(events)].at = last /\ last <= now
    /\ moved = Size /\ total = Size /\ Size > 0 /\ stream \in {"open", "closed"} =>
        events # <<>> /\ events[Len(events)].loaded = Size
    /\ stream = "closed" => moved = Size
    /\ source = "locked" => direction = "down" /\ stream # "closed"
    /\ late = 0 \/ (late = 1 /\ source = "released")

ProgressInv == Progress!TypeOK /\ EventsFollow /\ Progress!ProgressIsTold

(* Nothing has moved.                                                       *)
LEMMA ProgressStarts == ASSUME Progress!ProgressAssumption, Progress!Init PROVE ProgressInv
<1>1. /\ Size \in Nat /\ Interval \in Nat /\ MaxNow \in Nat
  BY DEF Progress!ProgressAssumption
<1>2. /\ events = <<>> /\ events \in Seq(Event) /\ Len(events) = 0 /\ DOMAIN events = {}
  BY DEF Progress!Init
<1>3. /\ direction \in {"up", "down"} /\ now = 0 /\ last = -Interval /\ moved = 0 /\ stream = "open"
      /\ source \in {"locked", "released"}
      /\ source = "locked" => direction = "down"
      /\ late = 0
  BY DEF Progress!Init, Progress!LongAgo
<1>4. total \in Totals \cup {Size}
  BY DEF Progress!Init
<1>5. Progress!TypeOK
  <2>1. /\ now \in 0..MaxNow /\ last \in -Interval..MaxNow /\ moved \in 0..Size /\ late \in Nat
    BY <1>1, <1>3
  <2>2. \A i \in DOMAIN events : events[i] \in Event
    BY <1>2
  <2>. QED
    BY <1>3, <1>4, <2>1, <2>2 DEF Progress!TypeOK, Progress!LongAgo, Event
<1>. QED
  BY <1>1, <1>2, <1>3, <1>5 DEF ProgressInv, EventsFollow, Progress!ProgressIsTold

(* The throttle, for a chunk that is one further than what had moved: an    *)
(* event, far enough from the last one or full, or none.                    *)
LEMMA ThrottleTells ==
  ASSUME Progress!ProgressAssumption, ProgressInv, moved < Size, now' = now,
         Progress!Throttled(moved + 1), NEW k \in Nat, k = moved + 1
  PROVE  /\ last' \in -Interval..MaxNow
         /\ events' \in Seq(Event)
         /\ events' # <<>> =>
                events'[Len(events')].loaded <= k /\ events'[Len(events')].at = last' /\ last' <= now
         /\ k = total => events' # <<>> /\ events'[Len(events')].loaded = k
         /\ \A i \in 2..Len(events') :
                /\ events'[i].loaded > events'[i - 1].loaded
                /\ events'[i].at >= events'[i - 1].at + Interval \/ events'[i].loaded = total
<1> DEFINE e == [loaded |-> k, at |-> now]
<1>1. /\ Size \in Nat /\ Interval \in Nat /\ MaxNow \in Nat /\ now \in 0..MaxNow
      /\ last \in -Interval..MaxNow /\ moved \in 0..Size /\ events \in Seq(Event)
      /\ Len(events) \in Nat
  BY DEF Progress!ProgressAssumption, ProgressInv, Progress!TypeOK, Progress!LongAgo, EventsFollow
<1>2. /\ events # <<>> => events[Len(events)].loaded <= moved /\ events[Len(events)].at = last
      /\ events # <<>> => last <= now
      /\ \A i \in 2..Len(events) :
            /\ events[i].loaded > events[i - 1].loaded
            /\ events[i].at >= events[i - 1].at + Interval \/ events[i].loaded = total
  BY DEF ProgressInv, EventsFollow, Progress!ProgressIsTold
<1>3. CASE k = total \/ now - last >= Interval
  <2>1. last' = now /\ events' = Append(events, e)
    BY <1>3 DEF Progress!Throttled
  <2>2. e \in Event /\ e.loaded = k /\ e.at = now
    BY <1>1 DEF Event
  <2>. HIDE DEF e
  <2>3. /\ events' \in Seq(Event) /\ Len(events') = Len(events) + 1
        /\ \A i \in 1..Len(events) : events'[i] = events[i] /\ events[i] \in Event
        /\ events'[Len(events) + 1] = e /\ events' # <<>>
    BY <1>1, <2>1, <2>2
  <2>4. ASSUME NEW i \in 2..Len(events')
        PROVE  /\ events'[i].loaded > events'[i - 1].loaded
               /\ events'[i].at >= events'[i - 1].at + Interval \/ events'[i].loaded = total
    <3>1. CASE i \in 2..Len(events)
      <4>1. i \in 1..Len(events) /\ i - 1 \in 1..Len(events)
        BY <1>1, <3>1
      <4>. QED
        BY <1>2, <2>3, <3>1, <4>1
    <3>2. CASE i = Len(events) + 1
      <4>1. Len(events) >= 1 /\ i - 1 = Len(events) /\ events # <<>>
        BY <1>1, <2>4, <3>2
      <4>2. events'[i] = e /\ events'[i - 1] = events[Len(events)] /\ events[Len(events)] \in Event
        BY <1>1, <2>3, <3>2, <4>1
      <4>3. events[Len(events)].loaded \in Nat
        BY <4>2 DEF Event
      <4>4. events[Len(events)].loaded <= moved /\ events[Len(events)].at = last
        BY <1>2, <4>1
      <4>5. e.loaded > events[Len(events)].loaded
        BY <1>1, <2>2, <4>3, <4>4
      <4>6. e.at >= events[Len(events)].at + Interval \/ e.loaded = total
        BY <1>1, <1>3, <2>2, <4>4
      <4>. QED
        BY <4>2, <4>5, <4>6
    <3>. QED
      BY <1>1, <2>3, <2>4, <3>1, <3>2
  <2>. QED
    BY <1>1, <2>1, <2>2, <2>3, <2>4
<1>4. CASE ~(k = total \/ now - last >= Interval)
  <2>1. UNCHANGED <<last, events>>
    BY <1>4 DEF Progress!Throttled, Progress!Silent
  <2>2. events # <<>> => events[Len(events)].loaded \in Nat
    <3>1. events # <<>> => events[Len(events)] \in Event
      BY <1>1
    <3>. QED
      BY <1>1, <3>1 DEF Event
  <2>. QED
    BY <1>1, <1>2, <1>4, <2>1, <2>2
<1>. QED
  BY <1>3, <1>4

(* Chunks, ends, failures and cancellations keep it.                        *)
LEMMA ProgressSteps ==
  ASSUME Progress!ProgressAssumption, ProgressInv, [Progress!Next]_progressVars PROVE ProgressInv'
<1> USE DEF Progress!given, Progress!Silent
<1>0. /\ Size \in Nat /\ Interval \in Nat /\ MaxNow \in Nat /\ now \in 0..MaxNow /\ moved \in 0..Size
      /\ events \in Seq(Event) /\ Len(events) \in Nat
      /\ events # <<>> => events[Len(events)].loaded \in Nat
  BY DEF Progress!ProgressAssumption, ProgressInv, Progress!TypeOK, EventsFollow, Event
<1>1. ASSUME moved < Size, moved' = moved + 1, stream = "open", Progress!Throttled(moved + 1),
             source = "locked" => direction = "down",
             UNCHANGED <<direction, total, now, stream, source, late>>
      PROVE  ProgressInv'
  <2> DEFINE k == moved + 1
  <2>1. /\ k \in Nat /\ k \in 0..Size /\ moved' = k
    BY <1>0, <1>1
  <2>2. /\ last' \in -Interval..MaxNow
        /\ events' \in Seq(Event)
        /\ events' # <<>> =>
            events'[Len(events')].loaded <= k /\ events'[Len(events')].at = last' /\ last' <= now
        /\ k = total => events' # <<>> /\ events'[Len(events')].loaded = k
        /\ \A i \in 2..Len(events') :
            /\ events'[i].loaded > events'[i - 1].loaded
            /\ events'[i].at >= events'[i - 1].at + Interval \/ events'[i].loaded = total
    BY <1>1, <2>1, ThrottleTells
  <2>. HIDE DEF k
  <2>3. \A i \in DOMAIN events' : events'[i] \in Event
    BY <2>2
  <2>4. Progress!TypeOK'
    BY <1>1, <2>1, <2>2, <2>3 DEF ProgressInv, Progress!TypeOK, Progress!LongAgo, Event
  <2>5. EventsFollow'
    BY <1>1, <2>1, <2>2 DEF ProgressInv, EventsFollow
  <2>6. Progress!ProgressIsTold'
    BY <1>1, <2>2, <2>5 DEF ProgressInv, EventsFollow, Progress!ProgressIsTold
  <2>. QED
    BY <2>4, <2>5, <2>6 DEF ProgressInv
<1>2. ASSUME UNCHANGED <<direction, total, last, events>>,
             now' \in 0..MaxNow, now' >= now, moved' \in 0..Size, moved' >= moved,
             late' \in Nat, source' \in {"locked", "released"},
             source' = source \/ source' = "released",
             \/ stream' = stream /\ (stream \in {"open", "closed"} => moved' = moved)
             \/ stream = "open" /\ stream' = "closed" /\ moved' = moved /\ moved = Size
                /\ (source' = "locked" => FALSE)
             \/ stream = "open" /\ stream' \in {"cancelled", "errored"},
             late' = late \/ (late = 0 /\ late' = 1 /\ source' = "released")
      PROVE  ProgressInv'
  <2>1. Progress!TypeOK'
    BY <1>0, <1>2 DEF ProgressInv, Progress!TypeOK
  <2>2. EventsFollow'
    BY <1>0, <1>2 DEF ProgressInv, Progress!TypeOK, EventsFollow
  <2>3. Progress!ProgressIsTold'
    BY <1>2, <2>2 DEF ProgressInv, EventsFollow, Progress!ProgressIsTold
  <2>. QED
    BY <2>1, <2>2, <2>3 DEF ProgressInv
<1>3. CASE Progress!Pull
  <2>1. source = "released"
    BY <1>3 DEF Progress!Pull, ProgressInv, Progress!TypeOK, EventsFollow
  <2>2. CASE moved = Size
    BY <1>0, <1>2, <1>3, <2>1, <2>2 DEF Progress!Pull, ProgressInv, Progress!TypeOK
  <2>3. CASE moved # Size
    BY <1>0, <1>1, <1>3, <2>1, <2>3 DEF Progress!Pull
  <2>. QED
    BY <2>2, <2>3
<1>4. CASE Progress!Pump
  <2>1. direction = "down" /\ source = "locked" /\ moved < Size /\ moved' = moved + 1
    BY <1>4 DEF Progress!Pump
  <2>2. CASE stream = "open"
    BY <1>1, <1>4, <2>1, <2>2 DEF Progress!Pump
  <2>3. CASE stream # "open"
    <3>1. stream # "closed" /\ late = 0
      BY <2>1 DEF ProgressInv, EventsFollow
    <3>. QED
      BY <1>0, <1>2, <1>4, <2>1, <2>3, <3>1 DEF Progress!Pump
  <2>. QED
    BY <2>2, <2>3
<1>5. CASE Progress!PumpEnds
  BY <1>0, <1>2, <1>5 DEF Progress!PumpEnds, ProgressInv, Progress!TypeOK
<1>6. CASE Progress!Fails
  BY <1>0, <1>2, <1>6 DEF Progress!Fails, ProgressInv, Progress!TypeOK
<1>7. CASE Progress!Cancel
  BY <1>0, <1>2, <1>7 DEF Progress!Cancel, ProgressInv, Progress!TypeOK
<1>8. CASE Progress!Tick
  BY <1>0, <1>2, <1>8 DEF Progress!Tick, ProgressInv, Progress!TypeOK
<1>9. CASE UNCHANGED progressVars
  BY <1>0, <1>2, <1>9 DEF progressVars, ProgressInv, Progress!TypeOK
<1>. QED
  BY <1>3, <1>4, <1>5, <1>6, <1>7, <1>8, <1>9 DEF Progress!Next

-----------------------------------------------------------------------------
(* For all limits, pages, delays and answers: no request after the signal   *)
(* of a poll, none past the limits of a pagination and no item but the      *)
(* first, no retry before the server asked for it, and no wait beyond       *)
(* backoffLimit but one the server asked for, or the caller's own jitter    *)
(* function (poll, _paginate, calculateRetryDelay).                         *)
THEOREM LoopsStayInBounds == ASSUME HelpersAssumption PROVE Spec => []LoopsKeepWithinBounds
<1>1. Poll!PollAssumption /\ Paginate!PaginateAssumption /\ RetryDelay!RetryDelayAssumption
  BY DEF HelpersAssumption
<1>2. Init => PollInv /\ PageInv /\ DelayInv
  BY <1>1, PollStarts, PageStarts, DelayStarts DEF Init
<1>3. PollInv /\ PageInv /\ DelayInv /\ [Next]_vars => (PollInv /\ PageInv /\ DelayInv)'
  BY <1>1, OnePartMoves, PollSteps, PageSteps, DelaySteps
<1>4. PollInv /\ PageInv /\ DelayInv => LoopsKeepWithinBounds
  BY DEF PollInv, PageInv, DelayInv, LoopsKeepWithinBounds
<1>. QED
  BY <1>2, <1>3, <1>4, PTL DEF Spec

(* For any number of events, cuts and retries, and wherever the ids stand:  *)
(* as long as no connection ends in order inside an event, a stream that    *)
(* reconnects delivers each event once, whole and in order.  If one does,   *)
(* part of an event is delivered, and what is still true is that no number  *)
(* is passed over.  It stops at maxRetries in any case (sseStream,          *)
(* _sseStreamReconnecting).                                                 *)
THEOREM EventsArriveOnce == ASSUME HelpersAssumption PROVE Spec => []ExactlyOnceInOrder
<1>1. EventStream!EventStreamAssumption
  BY DEF HelpersAssumption
<1>2. Init => EventsInv
  BY <1>1, EventsStart DEF Init
<1>3. EventsInv /\ [Next]_vars => EventsInv'
  BY <1>1, OnePartMoves, EventsSteps
<1>4. EventsInv => ExactlyOnceInOrder
  BY DEF EventsInv, GoesOn, ExactlyOnceInOrder, EventStream!RetriesAreBounded
<1>. QED
  BY <1>2, <1>3, <1>4, PTL DEF Spec

(* For any number of retries: one key for all attempts until a beforeRetry  *)
(* hook replaces the request, and, where there is a signal to add, no body  *)
(* that has been read.  For any number of calls, queries and shared hashes, *)
(* however often the client below sends a request again: an operation runs  *)
(* no more often than it is sent again, and once besides, unless the server *)
(* denies having run it (applyIdempotencyKey, withSignal, exec).            *)
THEOREM CallsAgree == ASSUME HelpersAssumption PROVE Spec => []AttemptsAgree
<1>1. OutgoingCall!OutgoingCallAssumption /\ Graphql!GraphqlAssumption
  BY DEF HelpersAssumption
<1>2. Init => CallInv /\ GraphqlInv
  BY <1>1, CallStarts, GraphqlStarts DEF Init
<1>3. CallInv /\ GraphqlInv /\ [Next]_vars => (CallInv /\ GraphqlInv)'
  BY <1>1, OnePartMoves, CallSteps, GraphqlSteps
<1>4. CallInv /\ GraphqlInv => AttemptsAgree
  BY CallAgrees, GraphqlRunsOnce DEF GraphqlInv, AttemptsAgree
<1>. QED
  BY <1>2, <1>3, <1>4, PTL DEF Spec

(* However many retries and hooks there are: the span of otel has ended     *)
(* when its call has completed, if nobody has replaced the request since it *)
(* was started.  If somebody has, nothing is promised.                      *)
THEOREM SpansFollowRequests == ASSUME HelpersAssumption PROVE Spec => []SpansEndUnlessReplaced
<1>1. OutgoingCall!OutgoingCallAssumption
  BY DEF HelpersAssumption
<1>2. Init => CallInv
  BY <1>1, CallStarts DEF Init
<1>3. CallInv /\ [Next]_vars => CallInv'
  BY <1>1, OnePartMoves, CallSteps
<1>4. CallInv => SpansEndUnlessReplaced
  BY DEF CallInv, SpansEndUnlessReplaced
<1>. QED
  BY <1>2, <1>3, <1>4, PTL DEF Spec

(* For bodies of any size and any interval: the callback hears of a body    *)
(* that has moved whole, in order and not too often, and a cancelled        *)
(* download reads at most one more chunk (throttle, the pump, cancel).      *)
THEOREM ProgressReachesTheEnd == ASSUME HelpersAssumption PROVE Spec => []ProgressIsTold
<1>1. Progress!ProgressAssumption
  BY DEF HelpersAssumption
<1>2. Init => ProgressInv
  BY <1>1, ProgressStarts DEF Init
<1>3. ProgressInv /\ [Next]_vars => ProgressInv'
  BY <1>1, OnePartMoves, ProgressSteps
<1>4. ProgressInv => ProgressIsTold
  BY DEF ProgressInv, ProgressIsTold
<1>. QED
  BY <1>2, <1>3, <1>4, PTL DEF Spec

(* The variables of all eleven parts keep their types.                      *)
THEOREM HelpersAreWellTyped == ASSUME HelpersAssumption PROVE Spec => []HelpersTypeOK
<1> DEFINE Inv == /\ LimiterInv /\ UploadInv /\ DownloadInv /\ HedgeInv /\ PollInv /\ PageInv
                  /\ DelayInv /\ EventsInv /\ CallInv /\ GraphqlInv /\ ProgressInv
<1>1. Init => Inv
  BY LimiterStarts, UploadStarts, DownloadStarts, HedgeStarts, PollStarts, PageStarts, DelayStarts,
     EventsStart, CallStarts, GraphqlStarts, ProgressStarts DEF Init, HelpersAssumption
<1>2. Inv /\ [Next]_vars => Inv'
  BY OnePartMoves, LimiterSteps, UploadSteps, DownloadSteps, HedgeSteps, PollSteps, PageSteps,
     DelaySteps, EventsSteps, CallSteps, GraphqlSteps, ProgressSteps DEF HelpersAssumption
<1>3. Inv => HelpersTypeOK
  BY DEF LimiterInv, UploadInv, DownloadInv, HedgeInv, PollInv, PageInv, DelayInv, EventsInv,
         CallInv,
         GraphqlInv, ProgressInv, HelpersTypeOK
<1>. QED
  BY <1>1, <1>2, <1>3, PTL DEF Spec
=============================================================================
