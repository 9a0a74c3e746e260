---------------------------- MODULE HelpersProofs ----------------------------
(***************************************************************************)
(* Theorems about Helpers, for every value of its constants: the rate      *)
(* limiter, the transfers and the hedge.  Each part has an inductive       *)
(* invariant of its own, which its steps keep; the steps of the others     *)
(* leave its variables alone.                                              *)
(***************************************************************************)
EXTENDS Helpers, TLAPS

-----------------------------------------------------------------------------
(* A step is one of a single part, and a stutter for every other.           *)
LEMMA OnePartMoves ==
  ASSUME [Next]_vars
  PROVE  /\ [RateLimit!Next]_limiterVars
         /\ [Upload!Next]_uploadVars
         /\ [Download!Next]_downloadVars
         /\ [Hedge!Next]_hedgeVars
         /\ [Poll!Next]_pollVars
         /\ [Paginate!Next]_pageVars
         /\ [EventStream!Next]_eventsVars
         /\ [OutgoingCall!Next]_callVars
         /\ [Progress!Next]_progressVars
         /\ [RetryDelay!Next]_delayVars
         /\ [Graphql!Next]_queryVars
<1>1. CASE UNCHANGED vars
  BY <1>1 DEF vars
<1>2. CASE Moves("ratelimit", RateLimit!Next)
  BY <1>2 DEF Moves, Others
<1>3. CASE Moves("upload", Upload!Next)
  BY <1>3 DEF Moves, Others
<1>4. CASE Moves("download", Download!Next)
  BY <1>4 DEF Moves, Others
<1>5. CASE Moves("hedge", Hedge!Next)
  BY <1>5 DEF Moves, Others
<1>6. CASE Moves("poll", Poll!Next)
  BY <1>6 DEF Moves, Others
<1>7. CASE Moves("paginate", Paginate!Next)
  BY <1>7 DEF Moves, Others
<1>8. CASE Moves("events", EventStream!Next)
  BY <1>8 DEF Moves, Others
<1>9. CASE Moves("call", OutgoingCall!Next)
  BY <1>9 DEF Moves, Others
<1>10. CASE Moves("progress", Progress!Next)
  BY <1>10 DEF Moves, Others
<1>11. CASE Moves("delay", RetryDelay!Next)
  BY <1>11 DEF Moves, Others
<1>12. CASE Moves("graphql", Graphql!Next)
  BY <1>12 DEF Moves, Others
<1>. QED
  BY <1>1, <1>2, <1>3, <1>4, <1>5, <1>6, <1>7, <1>8, <1>9, <1>10, <1>11, <1>12 DEF Next

(* The elementary facts of natural numbers the buckets rest on.             *)
LEMMA CeilType == ASSUME RateLimit!RateLimitAssumption, NEW n \in Nat
                  PROVE  RateLimit!Ceil(n) \in Nat
<1>1. n + Rate - 1 \in Nat /\ Rate \in Nat /\ Rate > 0
  BY DEF RateLimit!RateLimitAssumption
<1>2. \A a, r \in Nat : r > 0 => a \div r \in Nat
  OBVIOUS
<1>. QED
  BY <1>1, <1>2 DEF RateLimit!Ceil

(* A product of two sizes is one.                                          *)
LEMMA ProductType == ASSUME NEW a \in Nat, NEW b \in Nat
                     PROVE  a * b \in Nat
OBVIOUS

(* What one more tick adds to a bucket.                                     *)
LEMMA OneTickMore == ASSUME NEW a \in Nat, NEW b \in Nat
                     PROVE  (a + 1) * b = a * b + b
OBVIOUS

(* After as many ticks as the bucket holds tokens it is full, whatever the  *)
(* rate.                                                                    *)
LEMMA FullAfterCapacity == ASSUME NEW a \in Nat, NEW b \in Nat \ {0}
                           PROVE  a * b >= a
OBVIOUS

(* A level is never above the capacity, nor below zero.                     *)
LEMMA LevelType == ASSUME RateLimit!RateLimitAssumption, RateLimit!TypeOK,
                          NEW b \in RateLimit!BucketNames
                   PROVE  RateLimit!Level(b) \in 0..Capacity
<1>1. elapsed[b] * Rate \in Nat
  BY ProductType DEF RateLimit!RateLimitAssumption, RateLimit!TypeOK
<1>. QED
  BY <1>1 DEF RateLimit!RateLimitAssumption, RateLimit!TypeOK, RateLimit!Level, RateLimit!Lesser

-----------------------------------------------------------------------------
(* Types, and the one fact about places the types do not say: a call that   *)
(* waits for tokens needs some.                                             *)
NeedsTokens == \A c \in Calls : at[c] = "tokens" => Cost[c] > 0

LimiterInv == RateLimit!TypeOK /\ NeedsTokens

(* What a waiting call needs of a bucket is at least one token.             *)
LEMMA NeedsType == ASSUME RateLimit!RateLimitAssumption, LimiterInv, NEW c \in Calls,
                          at[c] \in RateLimit!BucketNames
                   PROVE  RateLimit!Needs(c) \in Nat \ {0}
BY DEF RateLimit!RateLimitAssumption, LimiterInv, RateLimit!TypeOK, NeedsTokens, RateLimit!Needs,
       RateLimit!BucketNames

(* What an answer leaves of a bucket.                                       *)
LEMMA AnswerType ==
  ASSUME RateLimit!RateLimitAssumption, LimiterInv,
         NEW c \in Calls, NEW info \in [RateLimit!BucketNames -> Reports],
         NEW throttled \in BOOLEAN,
         RateLimit!Answer(c, info, throttled)
  PROVE  /\ available' \in [RateLimit!BucketNames -> 0..Capacity]
         /\ elapsed' \in [RateLimit!BucketNames -> 0..Capacity]
         /\ bypass' \in [RateLimit!BucketNames -> Nat]
         /\ \A b \in RateLimit!BucketNames : bypass'[b] >= bypass[b]
<1> USE DEF LimiterInv, RateLimit!TypeOK, RateLimit!RateLimitAssumption
<1>1. ASSUME NEW b \in RateLimit!BucketNames
      PROVE  info[b].remaining \in Int /\ info[b].reset \in Int
  <2>1. info[b] \in RateLimit!Report
    OBVIOUS
  <2>. QED
    BY <2>1 DEF RateLimit!Report
<1>2. ASSUME NEW b \in RateLimit!BucketNames
      PROVE  RateLimit!HoldOf(info[b], throttled) \in Int
  BY <1>1 DEF RateLimit!HoldOf
<1>3. ASSUME NEW b \in RateLimit!BucketNames
      PROVE  /\ RateLimit!Greater(bypass[b], RateLimit!HoldOf(info[b], throttled)) \in Nat
             /\ RateLimit!Greater(bypass[b], RateLimit!HoldOf(info[b], throttled)) >= bypass[b]
  BY <1>2 DEF RateLimit!Greater
<1>4. ASSUME NEW b \in RateLimit!BucketNames, RateLimit!Observed(info[b])
      PROVE  RateLimit!Lesser(Capacity, info[b].remaining) \in 0..Capacity
  BY <1>1, <1>4 DEF RateLimit!Observed, RateLimit!Lesser
<1>5. available' \in [RateLimit!BucketNames -> 0..Capacity]
  BY <1>4 DEF RateLimit!Answer
<1>6. elapsed' \in [RateLimit!BucketNames -> 0..Capacity]
  BY DEF RateLimit!Answer
<1>7. bypass' \in [RateLimit!BucketNames -> Nat] /\ \A b \in RateLimit!BucketNames : bypass'[b] >= bypass[b]
  BY <1>3 DEF RateLimit!Answer
<1>. QED
  BY <1>5, <1>6, <1>7


(* Full buckets and calls that have taken nothing satisfy it.               *)
LEMMA LimiterStarts == ASSUME RateLimit!RateLimitAssumption, RateLimit!Init PROVE LimiterInv
BY DEF RateLimit!RateLimitAssumption, RateLimit!Init, LimiterInv, RateLimit!TypeOK, NeedsTokens,
       RateLimit!BucketNames, RateLimit!Places

(* Callers that look, sleep and abort, answers and time keep it.            *)
LEMMA LimiterSteps == ASSUME RateLimit!RateLimitAssumption, LimiterInv,
                             [RateLimit!Next]_limiterVars PROVE LimiterInv'
<1>1. ASSUME NEW c \in Calls, RateLimit!Acquire(c)
      PROVE  LimiterInv'
  <2> DEFINE b == at[c]
  <2>1. b \in RateLimit!BucketNames /\ RateLimit!Level(b) \in 0..Capacity /\ RateLimit!Needs(c) \in Nat \ {0}
    BY <1>1, LevelType, NeedsType DEF RateLimit!Acquire, RateLimit!Waiting, LimiterInv
  <2>2. elapsed' \in [RateLimit!BucketNames -> 0..Capacity]
    BY <1>1, <2>1 DEF RateLimit!Acquire, RateLimit!Refill, LimiterInv, RateLimit!TypeOK,
                      RateLimit!RateLimitAssumption
  <2>3. CASE bypass[b] = 0 /\ RateLimit!Level(b) >= RateLimit!Needs(c)
    <3>1. RateLimit!Level(b) - RateLimit!Needs(c) \in 0..Capacity
      BY <2>1, <2>3 DEF RateLimit!RateLimitAssumption
    <3>2. available' \in [RateLimit!BucketNames -> 0..Capacity] /\ granted' \in [RateLimit!BucketNames -> Nat]
      BY <1>1, <2>1, <2>3, <3>1 DEF RateLimit!Acquire, RateLimit!Take, LimiterInv, RateLimit!TypeOK
    <3>3. at' \in [Calls -> RateLimit!Places] /\ NeedsTokens'
      BY <1>1, <2>3 DEF RateLimit!Acquire, RateLimit!Take, LimiterInv, RateLimit!TypeOK,
                        NeedsTokens, RateLimit!BucketNames, RateLimit!Places
    <3>. QED
      BY <1>1, <2>2, <2>3, <3>2, <3>3 DEF RateLimit!Acquire, RateLimit!Take, LimiterInv,
                                          RateLimit!TypeOK
  <2>4. CASE ~(bypass[b] = 0 /\ RateLimit!Level(b) >= RateLimit!Needs(c))
    <3>1. (IF bypass[b] > 0 THEN bypass[b] ELSE RateLimit!Ceil(RateLimit!Needs(c) - RateLimit!Level(b))) \in Nat
      <4>1. CASE bypass[b] > 0
        BY <2>1, <4>1 DEF LimiterInv, RateLimit!TypeOK
      <4>2. CASE ~(bypass[b] > 0)
        <5>1. RateLimit!Needs(c) - RateLimit!Level(b) \in Nat
          BY <2>1, <2>4, <4>2 DEF LimiterInv, RateLimit!TypeOK, RateLimit!RateLimitAssumption
        <5>. QED
          BY <4>2, <5>1, CeilType
      <4>. QED
        BY <4>1, <4>2
    <3>2. available' \in [RateLimit!BucketNames -> 0..Capacity]
      BY <1>1, <2>1, <2>4 DEF RateLimit!Acquire, LimiterInv, RateLimit!TypeOK
    <3>3. sleeping' \in [Calls -> Nat]
      BY <1>1, <2>4, <3>1 DEF RateLimit!Acquire, RateLimit!Sleep, LimiterInv, RateLimit!TypeOK
    <3>. QED
      BY <1>1, <2>2, <2>4, <3>2, <3>3 DEF RateLimit!Acquire, LimiterInv, RateLimit!TypeOK,
                                          NeedsTokens
  <2>. QED
    BY <2>3, <2>4
<1>2. ASSUME NEW c \in Calls, RateLimit!Abort(c)
      PROVE  LimiterInv'
  BY <1>2 DEF RateLimit!Abort, LimiterInv, RateLimit!TypeOK, NeedsTokens, RateLimit!Places,
              RateLimit!BucketNames
<1>3. ASSUME NEW c \in Calls, NEW info \in [RateLimit!BucketNames -> Reports],
             NEW throttled \in BOOLEAN,
             RateLimit!Answer(c, info, throttled)
      PROVE  LimiterInv'
  <2>1. /\ available' \in [RateLimit!BucketNames -> 0..Capacity]
        /\ elapsed' \in [RateLimit!BucketNames -> 0..Capacity]
        /\ bypass' \in [RateLimit!BucketNames -> Nat]
    BY <1>3, AnswerType
  <2>2. at' = [at EXCEPT ![c] = "done"] /\ UNCHANGED <<sleeping, granted>>
    BY <1>3 DEF RateLimit!Answer
  <2>. QED
    BY <2>1, <2>2 DEF LimiterInv, RateLimit!TypeOK, NeedsTokens, RateLimit!Places,
                      RateLimit!BucketNames
<1>4. CASE RateLimit!Tick
  <2>1. elapsed' \in [RateLimit!BucketNames -> 0..Capacity]
    BY <1>4 DEF RateLimit!Tick, LimiterInv, RateLimit!TypeOK, RateLimit!Lesser,
                RateLimit!RateLimitAssumption
  <2>2. bypass' \in [RateLimit!BucketNames -> Nat] /\ sleeping' \in [Calls -> Nat]
    BY <1>4 DEF RateLimit!Tick, LimiterInv, RateLimit!TypeOK, RateLimit!Greater
  <2>. QED
    BY <1>4, <2>1, <2>2 DEF RateLimit!Tick, LimiterInv, RateLimit!TypeOK, NeedsTokens
<1>5. CASE UNCHANGED limiterVars
  BY <1>5 DEF limiterVars, LimiterInv, RateLimit!TypeOK, NeedsTokens
<1>. QED
  BY <1>1, <1>2, <1>3, <1>4, <1>5 DEF RateLimit!Next

-----------------------------------------------------------------------------
(* One call looks at one bucket: its level is what was taken less, and no   *)
(* other level changes.                                                     *)
LEMMA LookingKeepsLevels ==
  ASSUME RateLimit!RateLimitAssumption, LimiterInv, NEW b \in RateLimit!BucketNames,
         NEW n \in Nat, n <= RateLimit!Level(b),
         available' = [available EXCEPT ![b] = RateLimit!Level(b) - n], RateLimit!Refill(b)
  PROVE  [x \in RateLimit!BucketNames |-> RateLimit!Level(x)]'
             = [[x \in RateLimit!BucketNames |-> RateLimit!Level(x)] EXCEPT ![b] = @ - n]
<1> USE DEF LimiterInv, RateLimit!TypeOK, RateLimit!RateLimitAssumption
<1>1. RateLimit!Level(b) \in 0..Capacity
  BY LevelType
<1>2. RateLimit!Level(b)' = RateLimit!Level(b) - n
  <2>1. available'[b] = RateLimit!Level(b) - n /\ elapsed'[b] = 0
    BY DEF RateLimit!Refill
  <2>2. elapsed'[b] * Rate = 0
    BY <2>1
  <2>3. RateLimit!Level(b)' = RateLimit!Lesser(Capacity, available'[b] + elapsed'[b] * Rate)
    BY DEF RateLimit!Level
  <2>. QED
    BY <1>1, <2>1, <2>2, <2>3 DEF RateLimit!Lesser
<1>3. ASSUME NEW x \in RateLimit!BucketNames, x # b
      PROVE  RateLimit!Level(x)' = RateLimit!Level(x)
  BY <1>3 DEF RateLimit!Level, RateLimit!Refill
<1>. QED
  BY <1>2, <1>3

(* What elapses is what the bucket gains, up to its capacity.               *)
LEMMA TickFillsLevels ==
  ASSUME RateLimit!RateLimitAssumption, LimiterInv, RateLimit!Tick, NEW b \in RateLimit!BucketNames
  PROVE  RateLimit!Level(b)' = RateLimit!Bucket!Least(Capacity, RateLimit!Level(b) + Rate)
<1> DEFINE e == elapsed[b]
           gained == e * Rate
<1>1. e \in 0..Capacity /\ available[b] \in 0..Capacity /\ Capacity \in Nat \ {0}
      /\ Rate \in Nat \ {0}
  BY DEF LimiterInv, RateLimit!TypeOK, RateLimit!RateLimitAssumption
<1>2. available'[b] = available[b] /\ elapsed'[b] = RateLimit!Lesser(Capacity, e + 1)
  BY DEF RateLimit!Tick
<1>3. gained \in Nat
  BY <1>1, ProductType
<1>4. RateLimit!Level(b) = RateLimit!Lesser(Capacity, available[b] + gained)
  BY DEF RateLimit!Level
<1>5. RateLimit!Level(b)' = RateLimit!Lesser(Capacity, available'[b] + elapsed'[b] * Rate)
  BY DEF RateLimit!Level
<1>6. CASE e < Capacity
  <2>1. elapsed'[b] * Rate = gained + Rate
    <3>1. elapsed'[b] = e + 1
      BY <1>1, <1>2, <1>6 DEF RateLimit!Lesser
    <3>. QED
      BY <1>1, <3>1, OneTickMore
  <2>. HIDE DEF gained
  <2>. QED
    BY <1>1, <1>2, <1>3, <1>4, <1>5, <2>1 DEF RateLimit!Lesser, RateLimit!Bucket!Least
<1>7. CASE e = Capacity
  <2>1. elapsed'[b] * Rate = gained
    BY <1>1, <1>2, <1>7 DEF RateLimit!Lesser
  <2>2. gained >= Capacity
    BY <1>1, <1>7, FullAfterCapacity
  <2>. HIDE DEF gained
  <2>. QED
    BY <1>1, <1>2, <1>3, <1>4, <1>5, <2>1, <2>2 DEF RateLimit!Lesser, RateLimit!Bucket!Least
<1>. QED
  BY <1>1, <1>6, <1>7

(* Full buckets are those the abstract ones begin with.                     *)
LEMMA BucketsStart == ASSUME RateLimit!RateLimitAssumption,
                             RateLimit!Init PROVE RateLimit!Bucket!Init
<1>1. ASSUME NEW b \in RateLimit!BucketNames
      PROVE  RateLimit!Level(b) = Capacity
  BY DEF RateLimit!Init, RateLimit!Level, RateLimit!Lesser, RateLimit!RateLimitAssumption
<1>. QED
  BY <1>1 DEF RateLimit!Init, RateLimit!Bucket!Init

(* Refilled only when a call looks, the buckets admit what buckets that fill *)
(* at every tick would admit: each step is one of theirs, or a stutter.     *)
LEMMA BucketsStep ==
  ASSUME RateLimit!RateLimitAssumption, LimiterInv, [RateLimit!Next]_limiterVars
  PROVE  [RateLimit!Bucket!Next]_(RateLimit!Bucket!vars)
<1> DEFINE level == [b \in RateLimit!BucketNames |-> RateLimit!Level(b)]
<1>1. ASSUME NEW c \in Calls, RateLimit!Acquire(c)
      PROVE  [RateLimit!Bucket!Next]_(RateLimit!Bucket!vars)
  <2> DEFINE b == at[c]
             n == RateLimit!Needs(c)
  <2>1. b \in RateLimit!BucketNames /\ RateLimit!Level(b) \in 0..Capacity /\ n \in Nat \ {0}
    BY <1>1, LevelType, NeedsType DEF RateLimit!Acquire, RateLimit!Waiting, LimiterInv
  <2>2. RateLimit!Refill(b) /\ UNCHANGED bypass
    BY <1>1 DEF RateLimit!Acquire
  <2>3. CASE bypass[b] = 0 /\ RateLimit!Level(b) >= n
    <3>1. /\ available' = [available EXCEPT ![b] = RateLimit!Level(b) - n]
          /\ granted' = [granted EXCEPT ![b] = @ + n]
      BY <1>1, <2>3 DEF RateLimit!Acquire, RateLimit!Take
    <3>2. level' = [level EXCEPT ![b] = @ - n]
      <4>1. n \in Nat /\ n <= RateLimit!Level(b)
        BY <2>1, <2>3 DEF RateLimit!RateLimitAssumption
      <4>. HIDE DEF b, n
      <4>. QED
        BY <2>1, <2>2, <3>1, <4>1, LookingKeepsLevels
    <3>3. n \in 1..Capacity /\ n \in 1..level[b]
      BY <2>1, <2>3 DEF RateLimit!RateLimitAssumption
    <3>4. RateLimit!Bucket!Take(b, n)
      BY <2>2, <2>3, <3>1, <3>2, <3>3 DEF RateLimit!Bucket!Take
    <3>. QED
      BY <2>1, <3>3, <3>4 DEF RateLimit!Bucket!Next
  <2>4. CASE ~(bypass[b] = 0 /\ RateLimit!Level(b) >= n)
    <3>1. available' = [available EXCEPT ![b] = RateLimit!Level(b) - 0] /\ UNCHANGED granted
      BY <1>1, <2>1, <2>4 DEF RateLimit!Acquire, RateLimit!RateLimitAssumption
    <3>2. level' = [level EXCEPT ![b] = @ - 0]
      <4>1. 0 \in Nat /\ 0 <= RateLimit!Level(b)
        BY <2>1 DEF RateLimit!RateLimitAssumption
      <4>. HIDE DEF b
      <4>. QED
        BY <2>1, <2>2, <3>1, <4>1, LookingKeepsLevels
    <3>3. level' = level
      <4>1. level[b] - 0 = level[b]
        BY <2>1 DEF RateLimit!RateLimitAssumption
      <4>. QED
        BY <2>1, <3>2, <4>1
    <3>. QED
      BY <2>2, <3>1, <3>3 DEF RateLimit!Bucket!vars
  <2>. QED
    BY <2>3, <2>4
<1>2. ASSUME UNCHANGED <<available, elapsed, bypass, granted>>
      PROVE  UNCHANGED RateLimit!Bucket!vars
  BY <1>2 DEF RateLimit!Bucket!vars, RateLimit!Level
<1>3. ASSUME NEW c \in Calls, NEW info \in [RateLimit!BucketNames -> Reports],
             NEW throttled \in BOOLEAN,
             RateLimit!Answer(c, info, throttled)
      PROVE  RateLimit!Bucket!Next
  <2>1. /\ available' \in [RateLimit!BucketNames -> 0..Capacity]
        /\ elapsed' \in [RateLimit!BucketNames -> 0..Capacity]
        /\ bypass' \in [RateLimit!BucketNames -> Nat]
        /\ \A b \in RateLimit!BucketNames : bypass'[b] >= bypass[b]
    BY <1>3, AnswerType
  <2>2. level' \in [RateLimit!BucketNames -> 0..Capacity]
    <3>1. ASSUME NEW b \in RateLimit!BucketNames
          PROVE  RateLimit!Level(b)' \in 0..Capacity
      <4>1. elapsed'[b] * Rate \in Nat
        BY <2>1, ProductType DEF RateLimit!RateLimitAssumption
      <4>. QED
        BY <2>1, <4>1 DEF RateLimit!Level, RateLimit!Lesser, RateLimit!RateLimitAssumption
    <3>. QED
      BY <3>1
  <2>3. RateLimit!Bucket!Feedback
    BY <1>3, <2>1, <2>2 DEF RateLimit!Answer, RateLimit!Bucket!Feedback
  <2>. QED
    BY <2>3 DEF RateLimit!Bucket!Next
<1>4. CASE RateLimit!Tick
  <2>1. \A b \in RateLimit!BucketNames : RateLimit!Level(b)' = RateLimit!Bucket!Least(Capacity,
  level[b] + Rate)
    BY <1>4, TickFillsLevels
  <2>2. bypass' = [b \in RateLimit!BucketNames |-> IF bypass[b] = 0 THEN 0 ELSE bypass[b] - 1]
    BY <1>4 DEF RateLimit!Tick, RateLimit!Greater, LimiterInv, RateLimit!TypeOK
  <2>3. RateLimit!Bucket!Tick
    BY <1>4, <2>1, <2>2 DEF RateLimit!Tick, RateLimit!Bucket!Tick
  <2>. QED
    BY <2>3 DEF RateLimit!Bucket!Next
<1>5. ASSUME NEW c \in Calls, RateLimit!Abort(c)
      PROVE  UNCHANGED RateLimit!Bucket!vars
  BY <1>2, <1>5 DEF RateLimit!Abort
<1>6. CASE UNCHANGED limiterVars
  BY <1>2, <1>6 DEF limiterVars
<1>. QED
  BY <1>1, <1>3, <1>4, <1>5, <1>6 DEF RateLimit!Next

(* The two buckets of the plugin are token buckets, for any calls, costs,   *)
(* holds and order of answers (refill, acquire, observeRemaining,           *)
(* drainAndBackoff).                                                        *)
THEOREM LimiterAdmitsLikeABucket == ASSUME HelpersAssumption PROVE Spec => AdmitsLikeABucket
<1>1. RateLimit!RateLimitAssumption
  BY DEF HelpersAssumption
<1>2. Init => LimiterInv /\ RateLimit!Bucket!Init
  BY <1>1, LimiterStarts, BucketsStart DEF Init
<1>3. LimiterInv /\ [Next]_vars => LimiterInv' /\ [RateLimit!Bucket!Next]_(RateLimit!Bucket!vars)
  BY <1>1, OnePartMoves, LimiterSteps, BucketsStep
<1>. QED
  BY <1>2, <1>3, PTL DEF Spec, AdmitsLikeABucket, RateLimit!AdmitsLikeABucket

-----------------------------------------------------------------------------
(* The inductive invariant: a server that has everything has been told so,  *)
(* and a call stops asking only when its own offset is at the end.          *)
CompleteWhenStored == stored = Total /\ Total > 0 => complete

DoneAtTheEnd ==
    /\ uploadPc = "done" => offset = Total
    /\ uploadPc \in {"patch", "delay"} => offset < Total

UploadInv == Upload!TypeOK /\ Upload!ClientNeverAhead /\ CompleteWhenStored /\ DoneAtTheEnd

(* A chunk ends behind where it begins, within the source.                  *)
LEMMA EndIsAhead == ASSUME Upload!UploadAssumption, Upload!TypeOK, offset < Total
                    PROVE  Upload!End \in offset + 1 .. Total
BY DEF Upload!UploadAssumption, Upload!TypeOK, Upload!End


(* It holds before the first call.                                          *)
LEMMA UploadStarts == ASSUME Upload!UploadAssumption, Upload!Init PROVE UploadInv
<1>1. 0 \in 0..Total /\ 0 \in 0..MaxRetries /\ 1 \in 1..MaxCalls
  BY DEF Upload!UploadAssumption
<1>2. Upload!Init => Upload!TypeOK
  BY <1>1 DEF Upload!Init, Upload!TypeOK, Upload!Pcs
<1>3. Upload!Init => Upload!ClientNeverAhead /\ CompleteWhenStored /\ DoneAtTheEnd
  BY DEF Upload!UploadAssumption, Upload!Init, Upload!ClientNeverAhead, CompleteWhenStored,
         DoneAtTheEnd
<1>. QED
  BY <1>2, <1>3 DEF UploadInv

(* However replies are lost, chunks arrive in part, and callers come back,  *)
(* no step breaks it.                                                       *)
LEMMA UploadSteps == ASSUME Upload!UploadAssumption, UploadInv,
                            [Upload!Next]_uploadVars PROVE UploadInv'
<1> USE DEF Upload!UploadAssumption, UploadInv, Upload!TypeOK, Upload!Pcs,
Upload!ClientNeverAhead, CompleteWhenStored,
            DoneAtTheEnd, Upload!client, Upload!server
<1>1. CASE Upload!Open
  BY <1>1 DEF Upload!Open
<1>2. CASE Upload!Recover
  BY <1>2 DEF Upload!Recover
<1>3. CASE Upload!Loop
  BY <1>3 DEF Upload!Loop
<1>4. CASE Upload!PatchSucceeds
  <2>1. Upload!End \in offset + 1 .. Total
    BY <1>4, EndIsAhead DEF Upload!PatchSucceeds
  <2>2. /\ stored' \in 0..Total /\ complete' \in BOOLEAN
        /\ stored' = Upload!End
        /\ stored' = Total /\ Total > 0 => complete'
    <3>1. Upload!Accept(Upload!End) /\ Upload!End \in 0..Total
      BY <1>4, <2>1 DEF Upload!PatchSucceeds
    <3>. QED
      BY <3>1 DEF Upload!Accept
  <2>. QED
    BY <1>4, <2>1, <2>2 DEF Upload!PatchSucceeds
<1>5. CASE Upload!PatchFails
  <2>1. offset < Total /\ uploadPc' \in {"delay", "failed"} /\ uploadAttempt' \in 0..MaxRetries
        /\ UNCHANGED <<offset, uploadAborted, calls>>
    BY <1>5 DEF Upload!PatchFails, Upload!Retry
  <2>2. CASE UNCHANGED Upload!server
    BY <2>1, <2>2
  <2>3. ASSUME NEW end \in offset..Upload!End, Upload!Accept(end)
        PROVE  UploadInv'
    <3>1. /\ stored' \in 0..Total /\ complete' \in BOOLEAN
          /\ stored' = end
          /\ stored' = Total /\ Total > 0 => complete'
      <4>1. end \in 0..Total
        BY <2>1, EndIsAhead
      <4>. QED
        BY <2>3, <4>1 DEF Upload!Accept
    <3>. QED
      BY <2>1, <3>1
  <2>. QED
    BY <1>5, <2>2, <2>3 DEF Upload!PatchFails
<1>6. CASE Upload!DelayEnds
  BY <1>6 DEF Upload!DelayEnds
<1>7. CASE Upload!Abort
  BY <1>7 DEF Upload!Abort
<1>8. CASE Upload!CallAgain
  <2>1. 0 \in 0..Total /\ 0 \in 0..MaxRetries /\ calls' \in 1..MaxCalls
    BY <1>8 DEF Upload!CallAgain
  <2>2. Upload!TypeOK'
    BY <1>8, <2>1 DEF Upload!CallAgain
  <2>3. Upload!ClientNeverAhead' /\ CompleteWhenStored' /\ DoneAtTheEnd'
    BY <1>8 DEF Upload!CallAgain
  <2>. QED
    BY <2>2, <2>3
<1>9. CASE UNCHANGED uploadVars
  BY <1>9 DEF uploadVars
<1>. QED
  BY <1>1, <1>2, <1>3, <1>4, <1>5, <1>6, <1>7, <1>8, <1>9 DEF Upload!Next, Upload!Step

(* A call that resolves has its own offset at the end, and the server has   *)
(* not less than that.                                                      *)
LEMMA UploadIsComplete ==
  ASSUME Upload!UploadAssumption, UploadInv
  PROVE  Upload!ClientNeverAhead /\ Upload!SuccessIsComplete
BY DEF Upload!UploadAssumption, UploadInv, Upload!TypeOK, Upload!ClientNeverAhead,
       CompleteWhenStored,
       DoneAtTheEnd, Upload!SuccessIsComplete

-----------------------------------------------------------------------------
(* What has been taken is the resource from where the caller stood to where *)
(* the loop stands, unless the server has strayed or one GET brought it     *)
(* whole.  An offset in use is one the resource has.                        *)
Pieces == [from : 0..Total, to : 0..Total]

FromStart ==
    \/ chunks = <<>> /\ loaded = StartOffset
    \/ /\ chunks # <<>>
       /\ chunks[1].from = StartOffset
       /\ \A i \in 2..Len(chunks) : chunks[i].from = chunks[i - 1].to
       /\ chunks[Len(chunks)].to = loaded

DownloadInv ==
    /\ Download!TypeOK /\ chunks \in Seq(Pieces)
    /\ downloadPc \in {"head", "probe", "single"} => chunks = <<>>
    /\ downloadPc \in {"get", "delay"} => loaded < Total
    /\ strayed = 0 => FromStart \/ (downloadPc = "done" /\ chunks = <<Download!Whole>>)
    /\ downloadPc = "done" => loaded >= Total \/ chunks = <<Download!Whole>>

(* A chunk that takes up where the last one ended is taken up by the next.  *)
LEMMA TakeKeepsFromStart ==
  ASSUME Download!DownloadAssumption, DownloadInv, FromStart, NEW to \in loaded..Total,
         Download!Take(loaded, to)
  PROVE  FromStart'
<1> DEFINE piece == [from |-> loaded, to |-> to]
<1>1. piece \in Pieces /\ chunks \in Seq(Pieces) /\ chunks' = Append(chunks, piece)
      /\ loaded' = to
  BY DEF DownloadInv, Download!TypeOK, Download!DownloadAssumption, Download!Take, Pieces
<1>2. /\ Len(chunks') = Len(chunks) + 1 /\ chunks'[Len(chunks) + 1] = piece
      /\ \A i \in 1..Len(chunks) : chunks'[i] = chunks[i]
  BY <1>1
<1>3. Len(chunks) \in Nat /\ (chunks = <<>> <=> Len(chunks) = 0)
  BY <1>1
<1>4. chunks' # <<>> /\ chunks'[Len(chunks')].to = loaded'
  BY <1>1, <1>2, <1>3
<1>5. CASE chunks = <<>>
  BY <1>2, <1>3, <1>4, <1>5 DEF FromStart
<1>6. CASE chunks # <<>>
  <2>1. chunks'[1].from = StartOffset
    BY <1>2, <1>3, <1>6 DEF FromStart
  <2>2. ASSUME NEW i \in 2..Len(chunks')
        PROVE  chunks'[i].from = chunks'[i - 1].to
    <3>1. CASE i = Len(chunks')
      BY <1>2, <1>3, <1>6, <3>1 DEF FromStart
    <3>2. CASE i # Len(chunks')
      BY <1>2, <1>3, <1>6, <3>2 DEF FromStart
    <3>. QED
      BY <3>1, <3>2
  <2>. QED
    BY <1>4, <2>1, <2>2 DEF FromStart
<1>. QED
  BY <1>5, <1>6

(* It holds before the HEAD.                                                *)
LEMMA DownloadStarts == ASSUME Download!DownloadAssumption, Download!Init PROVE DownloadInv
<1>1. chunks \in Seq(Pieces)
  BY DEF Download!Init
<1>2. 0 \in 0..MaxRetries /\ 0 \in 0..MaxPieces /\ StartOffset \in Nat
  BY DEF Download!DownloadAssumption
<1>3. Download!TypeOK
  <2>1. \A i \in DOMAIN chunks : chunks[i] \in Pieces
    BY <1>1
  <2>. QED
    BY <1>2, <2>1 DEF Download!Init, Download!TypeOK, Download!Pcs, Pieces
<1>. QED
  BY <1>1, <1>3 DEF Download!Init, DownloadInv, FromStart

(* However the server answers, and whatever it sends for a range, it stays  *)
(* true.                                                                    *)
LEMMA DownloadSteps ==
  ASSUME Download!DownloadAssumption, DownloadInv, [Download!Next]_downloadVars
  PROVE  DownloadInv'
<1>1. ASSUME UNCHANGED <<loaded, chunks, strayed>>, downloadPc # "done"
      PROVE  /\ chunks' \in Seq(Pieces)
             /\ FromStart' <=> FromStart
             /\ strayed' = 0 => FromStart'
  BY <1>1 DEF DownloadInv, FromStart
<1>2. CASE Download!HeadProbe \/ Download!RangeProbe
  BY <1>1, <1>2 DEF DownloadInv, Download!TypeOK, Download!Pcs, Download!HeadProbe,
                    Download!RangeProbe
<1>3. CASE Download!Single
  <2>1. CASE downloadPc' = "failed" /\ UNCHANGED chunks
    BY <1>1, <1>3, <2>1 DEF DownloadInv, Download!TypeOK, Download!Pcs, Download!Single
  <2>2. CASE downloadPc' = "done" /\ chunks' = <<Download!Whole>>
    <3>1. Download!Whole \in Pieces
      BY DEF Download!DownloadAssumption, Download!Whole, Pieces
    <3>2. chunks' \in Seq(Pieces) /\ \A i \in DOMAIN chunks' : chunks'[i] \in Pieces
      BY <2>2, <3>1
    <3>. QED
      BY <1>3, <2>2, <3>2 DEF DownloadInv, Download!TypeOK, Download!Pcs, Download!Single, Pieces
  <2>. QED
    BY <1>3, <2>1, <2>2 DEF Download!Single
<1>4. CASE Download!Loop
  BY <1>1, <1>4 DEF DownloadInv, Download!DownloadAssumption, Download!TypeOK, Download!Pcs,
                    Download!Loop
<1>5. CASE Download!ChunkFails \/ Download!DelayEnds
  BY <1>1, <1>5 DEF DownloadInv, Download!DownloadAssumption, Download!TypeOK, Download!Pcs,
                    Download!ChunkFails, Download!DelayEnds
<1>6. CASE Download!Abort
  BY <1>1, <1>6 DEF DownloadInv, Download!TypeOK, Download!Pcs, Download!Abort, Download!Ended
<1>7. ASSUME NEW from \in 0..Total, NEW to \in from..Total, Download!Take(from, to)
      PROVE  /\ chunks' \in Seq(Pieces) /\ \A i \in DOMAIN chunks' : chunks'[i] \in Pieces
             /\ loaded' \in Nat /\ downloadPc' = "loop"
  <2>1. [from |-> from, to |-> to] \in Pieces
    BY DEF Download!DownloadAssumption, Pieces
  <2>2. chunks' \in Seq(Pieces)
    BY <1>7, <2>1 DEF DownloadInv, Download!Take
  <2>. QED
    BY <1>7, <2>2 DEF DownloadInv, Download!DownloadAssumption, Download!TypeOK, Download!Take
<1>8. CASE Download!ChunkArrives
  <2>1. PICK to \in loaded + 1 .. Download!End : Download!Take(loaded, to)
    BY <1>8 DEF Download!ChunkArrives
  <2>2. loaded \in 0..Total /\ to \in loaded..Total
    BY <1>8 DEF DownloadInv, Download!DownloadAssumption, Download!TypeOK, Download!ChunkArrives,
                Download!End
  <2>3. strayed' = 0 => FromStart'
    BY <1>8, <2>1, <2>2, TakeKeepsFromStart DEF DownloadInv, Download!ChunkArrives
  <2>. QED
    BY <1>7, <1>8, <2>1, <2>2, <2>3 DEF DownloadInv, Download!TypeOK, Download!Pcs,
                                        Download!ChunkArrives, Pieces
<1>9. CASE Download!ServerStrays
  <2>1. PICK from \in 0..Total : \E to \in from..Total : Download!Take(from, to)
    BY <1>9 DEF DownloadInv, Download!DownloadAssumption, Download!TypeOK, Download!ServerStrays
  <2>. PICK to \in from..Total : Download!Take(from, to)
    BY <2>1
  <2>2. strayed' \in 0..MaxPieces /\ strayed' # 0
    BY <1>9 DEF DownloadInv, Download!DownloadAssumption, Download!TypeOK, Download!ServerStrays
  <2>. QED
    BY <1>7, <1>9, <2>1, <2>2 DEF DownloadInv, Download!TypeOK, Download!Pcs,
                                  Download!ServerStrays, Pieces
<1>10. CASE UNCHANGED downloadVars
  BY <1>10 DEF downloadVars, DownloadInv, Download!TypeOK, FromStart
<1>. QED
  BY <1>2, <1>3, <1>4, <1>5, <1>6, <1>8, <1>9, <1>10 DEF Download!Next, Download!Step

(* A download that is done has come to the end.                             *)
LEMMA DownloadFits ==
  ASSUME Download!DownloadAssumption, DownloadInv
  PROVE  Download!ChunksFitTogether
<1> SUFFICES ASSUME strayed = 0, chunks # <<>>, chunks # <<Download!Whole>>
             PROVE  /\ chunks[1].from = StartOffset
                    /\ \A i \in 2..Len(chunks) : chunks[i].from = chunks[i - 1].to
                    /\ downloadPc = "done" => chunks[Len(chunks)].to = Total
  BY DEF Download!ChunksFitTogether
<1>1. FromStart
  BY DEF DownloadInv
<1>2. chunks[Len(chunks)] \in Pieces
  BY DEF DownloadInv
<1>3. downloadPc = "done" => chunks[Len(chunks)].to = Total
  BY <1>1, <1>2 DEF DownloadInv, Download!DownloadAssumption, Download!TypeOK, FromStart, Pieces
<1>. QED
  BY <1>1, <1>3 DEF FromStart

(* For every length, chunk size, start and number of retries and calls: an  *)
(* upload never goes on from past what the server has, one that resolves is *)
(* complete, and the chunks of a download fit together and reach the end    *)
(* (uploadResumable, downloadResumable).                                    *)
THEOREM TransfersAreWhole == ASSUME HelpersAssumption PROVE Spec => []TransfersLoseNothing
<1>1. Upload!UploadAssumption /\ Download!DownloadAssumption
  BY DEF HelpersAssumption
<1>2. Init => UploadInv /\ DownloadInv
  BY <1>1, UploadStarts, DownloadStarts DEF Init
<1>3. UploadInv /\ DownloadInv /\ [Next]_vars => (UploadInv /\ DownloadInv)'
  BY <1>1, OnePartMoves, UploadSteps, DownloadSteps
<1>4. UploadInv /\ DownloadInv => TransfersLoseNothing
  BY <1>1, UploadIsComplete, DownloadFits DEF TransfersLoseNothing
<1>. QED
  BY <1>2, <1>3, <1>4, PTL DEF Spec

-----------------------------------------------------------------------------
(* The inductive invariant: endpoints are launched in order, and none once  *)
(* there is a winner; whoever wins has told all the others, and is the only *)
(* reason, beside the caller, for an attempt to be told or to be cancelled. *)
LaunchedInOrder ==
    /\ \A i \in Hedge!Endpoints : state[i] = "idle" <=> i > launched
    /\ hedgePc = "launch" => launched = 0
    /\ hedgePc = "delay" => launched < N
    /\ hedgePc \in {"any", "returned"} => launched = N \/ winner # 0

WinnerTellsAll ==
    /\ winner # 0 =>
        /\ state[winner] = "won"
        /\ \A i \in Hedge!Endpoints : i <= launched => i = winner \/ i \in stopped
    /\ winner = 0 => stopped = {}

LosersHaveAReason ==
    \A i \in Hedge!Endpoints :
        /\ state[i] \in {"won", "lost"} => winner # 0
        /\ state[i] = "cancelled" => winner # 0 \/ hedgeAborted

HedgeInv ==
    /\ Hedge!TypeOK
    /\ LaunchedInOrder
    /\ WinnerTellsAll
    /\ LosersHaveAReason
    /\ Hedge!RefusedOnlyByAll
    /\ hedgePc = "returned" => winner # 0

(* One turn of the loop launches endpoints and keeps the invariant, as long *)
(* as nobody has won.                                                       *)
LEMMA LaunchKeepsInv ==
  ASSUME Hedge!HedgeAssumption, HedgeInv, hedgePc \in {"launch", "delay"}, winner = 0,
         Hedge!LaunchNext, UNCHANGED <<delayed, stopped, winner, hedgeAborted>>
  PROVE  HedgeInv'
<1> DEFINE final == IF delayed THEN launched + 1 ELSE N
<1>1. launched \in 0..N - 1 /\ final \in launched + 1 .. N
  BY DEF Hedge!HedgeAssumption, HedgeInv, Hedge!TypeOK, LaunchedInOrder
<1>2. /\ launched' = final
      /\ hedgePc' = IF final < N THEN "delay" ELSE "any"
      /\ state' = [i \in Hedge!Endpoints |-> IF i \in launched + 1 .. final THEN "flying" ELSE state[i]]
  BY DEF Hedge!LaunchNext
<1> HIDE DEF final
<1>3. Hedge!TypeOK'
  BY <1>1, <1>2 DEF Hedge!HedgeAssumption, HedgeInv, Hedge!TypeOK
<1>4. LaunchedInOrder'
  BY <1>1, <1>2 DEF Hedge!HedgeAssumption, HedgeInv, Hedge!TypeOK, LaunchedInOrder, Hedge!Endpoints
<1>5. WinnerTellsAll' /\ LosersHaveAReason'
  BY <1>1, <1>2 DEF HedgeInv, Hedge!TypeOK, WinnerTellsAll, LosersHaveAReason, Hedge!Endpoints
<1>6. Hedge!RefusedOnlyByAll' /\ (hedgePc = "returned" => winner # 0)'
  BY <1>2 DEF Hedge!RefusedOnlyByAll
<1>. QED
  BY <1>3, <1>4, <1>5, <1>6 DEF HedgeInv


(* It holds before the first launch.                                        *)
LEMMA HedgeStarts == ASSUME Hedge!HedgeAssumption, Hedge!Init PROVE HedgeInv
<1>1. Hedge!TypeOK
  <2>1. 0 \in 0..N
    BY DEF Hedge!HedgeAssumption
  <2>. QED
    BY <2>1 DEF Hedge!Init, Hedge!TypeOK
<1>2. LaunchedInOrder
  BY DEF Hedge!HedgeAssumption, Hedge!Init, LaunchedInOrder, Hedge!Endpoints
<1>3. WinnerTellsAll /\ LosersHaveAReason /\ Hedge!RefusedOnlyByAll
  BY DEF Hedge!Init, WinnerTellsAll, LosersHaveAReason, Hedge!RefusedOnlyByAll
<1>. QED
  BY <1>1, <1>2, <1>3 DEF Hedge!Init, HedgeInv

(* Launches, delays, answers, failures and the caller keep it.              *)
LEMMA HedgeSteps == ASSUME Hedge!HedgeAssumption, HedgeInv, [Hedge!Next]_hedgeVars PROVE HedgeInv'
<1> USE DEF HedgeInv
<1>1. CASE Hedge!Launch
  <2>1. winner = 0
    BY <1>1 DEF Hedge!HedgeAssumption, Hedge!Launch, Hedge!TypeOK, LaunchedInOrder,
                WinnerTellsAll, Hedge!Endpoints
  <2>. QED
    BY <1>1, <2>1, LaunchKeepsInv DEF Hedge!Launch
<1>2. CASE Hedge!DelayEnds
  <2>1. CASE winner = 0
    BY <1>2, <2>1, LaunchKeepsInv DEF Hedge!DelayEnds
  <2>2. CASE winner # 0
    BY <1>2, <2>2 DEF Hedge!DelayEnds, Hedge!TypeOK, LaunchedInOrder, WinnerTellsAll,
                      LosersHaveAReason,
                      Hedge!RefusedOnlyByAll
  <2>. QED
    BY <2>1, <2>2
<1>3. CASE Hedge!Resolve
  <2>1. CASE winner # 0 /\ hedgePc' = "returned"
    BY <1>3, <2>1 DEF Hedge!Resolve, Hedge!TypeOK, LaunchedInOrder, WinnerTellsAll,
                      LosersHaveAReason,
                      Hedge!RefusedOnlyByAll
  <2>2. CASE /\ \A i \in 1..launched : state[i] \in {"failed", "cancelled", "lost"}
             /\ hedgePc' = "rejected"
    <3>1. winner = 0
      BY <2>2 DEF Hedge!HedgeAssumption, Hedge!TypeOK, LaunchedInOrder, WinnerTellsAll,
                  Hedge!Endpoints
    <3>2. launched = N
      BY <1>3, <3>1 DEF Hedge!Resolve, LaunchedInOrder
    <3>3. hedgeAborted \/ \A i \in Hedge!Endpoints : state[i] = "failed"
      BY <2>2, <3>1, <3>2 DEF LosersHaveAReason, Hedge!Endpoints
    <3>. QED
      BY <1>3, <2>2, <3>3 DEF Hedge!Resolve, Hedge!TypeOK, LaunchedInOrder, WinnerTellsAll,
                              LosersHaveAReason, Hedge!RefusedOnlyByAll
  <2>. QED
    BY <1>3, <2>1, <2>2 DEF Hedge!Resolve
<1>4. CASE Hedge!AbortDelay \/ Hedge!Abort
  BY <1>4 DEF Hedge!AbortDelay, Hedge!Abort, Hedge!TypeOK, LaunchedInOrder, WinnerTellsAll,
              LosersHaveAReason,
              Hedge!RefusedOnlyByAll
<1>5. ASSUME NEW i \in Hedge!Endpoints, Hedge!AttemptSucceeds(i)
      PROVE  HedgeInv'
  <2>1. i \in 1..N /\ i # 0 /\ UNCHANGED <<delayed, hedgePc, launched, hedgeAborted>>
    BY <1>5 DEF Hedge!Endpoints, Hedge!HedgeAssumption, Hedge!AttemptSucceeds
  <2>2. Hedge!RefusedOnlyByAll'
    <3>1. hedgePc = "rejected" => hedgeAborted
      BY <1>5 DEF Hedge!AttemptSucceeds, Hedge!RefusedOnlyByAll
    <3>. QED
      BY <2>1, <3>1 DEF Hedge!RefusedOnlyByAll
  <2>3. CASE winner = 0
    <3>1. /\ winner' = i
          /\ state' = [state EXCEPT ![i] = "won"]
          /\ stopped' = stopped \cup (1..launched \ {i})
      BY <1>5, <2>3 DEF Hedge!AttemptSucceeds
    <3>2. Hedge!TypeOK'
      BY <2>1, <3>1 DEF Hedge!TypeOK, Hedge!Endpoints, Hedge!HedgeAssumption
    <3>3. LaunchedInOrder'
      BY <1>5, <2>1, <3>1 DEF Hedge!AttemptSucceeds, Hedge!TypeOK, LaunchedInOrder
    <3>4. WinnerTellsAll'
      BY <2>1, <3>1 DEF Hedge!TypeOK, WinnerTellsAll, Hedge!Endpoints, Hedge!HedgeAssumption
    <3>5. LosersHaveAReason'
      BY <2>1, <3>1 DEF Hedge!TypeOK, LosersHaveAReason
    <3>. QED
      BY <2>1, <2>2, <3>1, <3>2, <3>3, <3>4, <3>5
  <2>4. CASE winner # 0
    <3>1. state' = [state EXCEPT ![i] = "lost"] /\ UNCHANGED <<winner, stopped>>
      BY <1>5, <2>4 DEF Hedge!AttemptSucceeds
    <3>2. i # winner
      BY <1>5, <2>4 DEF Hedge!AttemptSucceeds, WinnerTellsAll
    <3>3. Hedge!TypeOK'
      BY <2>1, <3>1 DEF Hedge!TypeOK
    <3>4. LaunchedInOrder'
      BY <1>5, <2>1, <3>1 DEF Hedge!AttemptSucceeds, Hedge!TypeOK, LaunchedInOrder
    <3>5. WinnerTellsAll'
      BY <2>1, <2>4, <3>1, <3>2 DEF Hedge!TypeOK, WinnerTellsAll
    <3>6. LosersHaveAReason'
      BY <2>1, <2>4, <3>1 DEF Hedge!TypeOK, LosersHaveAReason
    <3>. QED
      BY <2>1, <2>2, <2>4, <3>1, <3>3, <3>4, <3>5, <3>6
  <2>. QED
    BY <2>3, <2>4
<1>6. ASSUME NEW i \in Hedge!Endpoints, Hedge!AttemptFails(i)
      PROVE  HedgeInv'
  <2>1. Hedge!TypeOK' /\ LaunchedInOrder'
    BY <1>6 DEF Hedge!AttemptFails, Hedge!TypeOK, LaunchedInOrder
  <2>2. WinnerTellsAll'
    BY <1>6 DEF Hedge!AttemptFails, Hedge!TypeOK, WinnerTellsAll
  <2>3. LosersHaveAReason'
    <3>1. \A j \in Hedge!Endpoints : state'[j] = IF j = i
                                          THEN IF Hedge!Signalled(i) THEN "cancelled" ELSE "failed"
                                          ELSE state[j]
      BY <1>6 DEF Hedge!AttemptFails, Hedge!TypeOK
    <3>2. Hedge!Signalled(i) => hedgeAborted \/ winner # 0
      BY DEF Hedge!Signalled, WinnerTellsAll
    <3>3. UNCHANGED <<winner, hedgeAborted>>
      BY <1>6 DEF Hedge!AttemptFails
    <3>. QED
      BY <3>1, <3>2, <3>3 DEF LosersHaveAReason
  <2>4. Hedge!RefusedOnlyByAll'
    <3>1. hedgePc = "rejected" => hedgeAborted
      BY <1>6 DEF Hedge!AttemptFails, Hedge!RefusedOnlyByAll
    <3>. QED
      BY <1>6, <3>1 DEF Hedge!AttemptFails, Hedge!RefusedOnlyByAll
  <2>. QED
    BY <1>6, <2>1, <2>2, <2>3, <2>4 DEF Hedge!AttemptFails
<1>7. CASE UNCHANGED hedgeVars
  BY <1>7 DEF hedgeVars, Hedge!TypeOK, LaunchedInOrder, WinnerTellsAll, LosersHaveAReason,
              Hedge!RefusedOnlyByAll
<1>. QED
  BY <1>1, <1>2, <1>3, <1>4, <1>5, <1>6, <1>7 DEF Hedge!Next, Hedge!Step

-----------------------------------------------------------------------------
(* Whoever has its answer has told the others, so the invariant says what   *)
(* is wanted of the end.                                                    *)
LEMMA HedgeTellsLosers ==
  ASSUME Hedge!HedgeAssumption, HedgeInv
  PROVE  NoAttemptLeftRunning
<1> SUFFICES ASSUME Hedge!Ended, NEW i \in Hedge!Endpoints, state[i] = "flying"
             PROVE  Hedge!Signalled(i)
  BY DEF HedgeInv, NoAttemptLeftRunning, Hedge!NoAttemptLeftRunning
<1>1. CASE hedgePc = "rejected"
  BY <1>1 DEF HedgeInv, Hedge!RefusedOnlyByAll, Hedge!Signalled
<1>2. CASE hedgePc = "returned"
  <2>1. i <= launched /\ i # winner
    BY <1>2 DEF Hedge!HedgeAssumption, HedgeInv, Hedge!TypeOK, LaunchedInOrder, WinnerTellsAll,
                Hedge!Endpoints
  <2>. QED
    BY <1>2, <2>1 DEF HedgeInv, WinnerTellsAll, Hedge!Signalled
<1>. QED
  BY <1>1, <1>2 DEF Hedge!Ended

(* For any number of endpoints, with or without a delay: once the caller    *)
(* has its answer, each attempt still under way has been told to stop, and  *)
(* a refusal means that every endpoint failed or the caller aborted.        *)
THEOREM HedgeStopsLosers == ASSUME HelpersAssumption PROVE Spec => []NoAttemptLeftRunning
<1>1. Hedge!HedgeAssumption
  BY DEF HelpersAssumption
<1>2. Init => HedgeInv
  BY <1>1, HedgeStarts DEF Init
<1>3. HedgeInv /\ [Next]_vars => HedgeInv'
  BY <1>1, OnePartMoves, HedgeSteps
<1>4. HedgeInv => NoAttemptLeftRunning
  BY <1>1, HedgeTellsLosers
<1>. QED
  BY <1>2, <1>3, <1>4, PTL DEF Spec
=============================================================================
