--------------------------- MODULE BreakerProofs ---------------------------
(***************************************************************************)
(* Theorems about Breaker, for every set of calls and every value of the   *)
(* breaker's options.                                                      *)
(***************************************************************************)
EXTENDS Breaker, TLAPS, FiniteSetTheorems, SequenceTheorems

(* What is left of the window after pruning is a sequence of clock values,  *)
(* however many of its timestamps are stale.                                *)
LEMMA PruneType ==
  ASSUME NEW times \in Seq(Clock), NEW cutoff \in Int
  PROVE  PruneWindow(times, cutoff) \in Seq(Clock)
<1> DEFINE Stale == {i \in 1 .. Len(times) : times[i] < cutoff}
<1>1. Len(times) \in Nat
  BY LenProperties
<1>2. IsFiniteSet(1 .. Len(times))
  BY <1>1, FS_Interval
<1>3. Stale \in SUBSET (1 .. Len(times))
  OBVIOUS
<1>4. IsFiniteSet(Stale)
  BY <1>2, <1>3, FS_Subset
<1>5. Cardinality(Stale) \in Nat
  BY <1>4, FS_CardinalityType
<1>6. StaleCount(times, cutoff) \in Nat
  BY <1>5 DEF StaleCount
<1>7. SubSeq(times, StaleCount(times, cutoff) + 1, Len(times)) \in Seq(Clock)
  <2> DEFINE m == StaleCount(times, cutoff) + 1
  <2>1. m \in Nat /\ m >= 1
    BY <1>6
  <2>2. \A i \in m .. Len(times) : times[i] \in Clock
    BY <2>1, <1>1, ElementOfSeq
  <2>. QED
    BY <2>1, <2>2, <1>1, SubSeqProperties
<1>. QED
  BY <1>7 DEF PruneWindow

(* What the proofs use of the clock and of the types.                       *)
LEMMA ClockFacts ==
  ASSUME BreakerAssumption
  PROVE  /\ 0 \in Clock
         /\ \A t \in Clock : t \in Nat
         /\ \A S : <<>> \in Seq(S)
BY EmptySeq DEF BreakerAssumption, Clock

(* A clock value appended to a sequence of them.                            *)
LEMMA AppendNow ==
  ASSUME TypeOK, NEW times \in Seq(Clock)
  PROVE  /\ Append(times, now) \in Seq(Clock)
         /\ Len(Append(times, now)) = Len(times) + 1
         /\ \A i \in 1 .. Len(times) : Append(times, now)[i] = times[i]
         /\ Append(times, now)[Len(times) + 1] = now
BY AppendProperties DEF TypeOK

(* The variables keep their types.                                          *)
THEOREM BreakerTypeCorrect == ASSUME BreakerAssumption PROVE Spec => []TypeOK
<1> USE ClockFacts DEF BreakerAssumption
<1>1. Init => TypeOK
  BY DEF Init, TypeOK, BreakerStates
<1>2. TypeOK /\ [Next]_vars => TypeOK'
  <2> SUFFICES ASSUME TypeOK, [Next]_vars
               PROVE  TypeOK'
    OBVIOUS
  <2>0. /\ Append(failures, now) \in Seq(Clock)
        /\ Append(failed, now) \in Seq(Clock)
        /\ Append(probes, now) \in Seq(Clock)
    BY AppendNow DEF TypeOK
  <2>1. ASSUME NEW c \in Calls, Call(c)
        PROVE  TypeOK'
    <3>1. probes' \in Seq(Clock)
      BY <2>0, <2>1 DEF TypeOK, Call, AdmitClosed, AdmitProbe, AdmitHalfOpen
    <3>2. state' \in BreakerStates /\ openedAt' \in Clock
      BY <2>1 DEF TypeOK, BreakerStates, Call, AdmitClosed, AdmitProbe, AdmitHalfOpen,
                  TransitionToOpen
    <3>. QED
      BY <2>1, <3>1, <3>2 DEF TypeOK, Call
  <2>2. ASSUME NEW c \in Calls, FailFast(c)
        PROVE  TypeOK'
    BY <2>2 DEF TypeOK, Clock, FailFast, RetryAfter, Elapsed
  <2>3. ASSUME NEW c \in Calls, Succeed(c)
        PROVE  TypeOK'
    BY <2>3 DEF TypeOK, BreakerStates, Succeed, RecordSuccess
  <2>4. ASSUME NEW c \in Calls, FailCounted(c)
        PROVE  TypeOK'
    <3>1. PruneWindow(Append(failures, now), now - WindowMs) \in Seq(Clock)
      <4>1. now - WindowMs \in Int
        BY DEF TypeOK
      <4>. QED
        BY <2>0, <4>1, PruneType
    <3>2. failures' \in Seq(Clock)
      BY <3>1, <2>4 DEF TypeOK, FailCounted, RecordFailure, RecordProbeFailure,
                        RecordWindowFailure
    <3>3. state' \in BreakerStates /\ openedAt' \in Clock
      BY <2>4 DEF TypeOK, BreakerStates, FailCounted, RecordFailure, RecordProbeFailure,
                  RecordWindowFailure, TransitionToOpen
    <3>. QED
      BY <2>0, <2>4, <3>2, <3>3 DEF TypeOK, FailCounted, RecordFailure
  <2>5. ASSUME NEW c \in Calls, FailUncounted(c)
        PROVE  TypeOK'
    BY <2>5 DEF TypeOK, BreakerStates, FailUncounted, RecordSuccess, history
  <2>6. CASE Trip
    BY <2>6 DEF TypeOK, BreakerStates, Trip, TransitionToOpen, history
  <2>7. CASE Reset
    BY <2>7 DEF TypeOK, BreakerStates, Reset, RecordSuccess
  <2>8. CASE Tick
    BY <2>8 DEF TypeOK, Clock, Tick, history
  <2>9. CASE UNCHANGED vars
    BY <2>9 DEF TypeOK, vars
  <2>. QED
    BY <2>1, <2>2, <2>3, <2>4, <2>5, <2>6, <2>7, <2>8, <2>9 DEF Next
<1>. QED
  BY <1>1, <1>2, PTL DEF Spec

-----------------------------------------------------------------------------
(* The inductive invariant behind the two results about probes.  An open    *)
(* breaker has a timer at least as late as every probe; a half-open one has *)
(* just let its last probe through, halfOpenAfter after all the earlier     *)
(* ones; and no promise outlives the timer it was computed from.            *)
Chronological ==
    \A i \in 1 .. Len(probes) : probes[i] <= now

OpenInv ==
    state = "open" =>
        /\ openedAt <= now
        /\ \A i \in 1 .. Len(probes) : probes[i] <= openedAt
        /\ promised <= openedAt + HalfOpenAfter

HalfOpenInv ==
    state = "half-open" =>
        /\ Len(probes) > 0
        /\ \A i \in 1 .. Len(probes) - 1 : probes[i] + HalfOpenAfter <= probes[Len(probes)]
        /\ promised <= probes[Len(probes)]

ClosedInv ==
    state = "closed" => probes = <<>> /\ promised = 0

ProbeInv ==
    /\ TypeOK
    /\ Chronological
    /\ OpenInv
    /\ HalfOpenInv
    /\ ClosedInv
    /\ ProbesComeInPairs

\* recordSuccess leaves nothing for the invariant to constrain.
LEMMA SuccessKeepsProbeInv ==
  ASSUME TypeOK', RecordSuccess
  PROVE  ProbeInv'
<1> USE DEF RecordSuccess
<1>1. probes' = <<>> /\ Len(probes') = 0 /\ state' = "closed" /\ promised' = 0
  BY EmptySeq
<1>. QED
  BY <1>1 DEF ProbeInv, Chronological, OpenInv, HalfOpenInv, ClosedInv, ProbesComeInPairs

\* (Re)opening the breaker with a fresh timer, no probe being admitted.
LEMMA OpeningKeepsProbeInv ==
  ASSUME BreakerAssumption, ProbeInv, TypeOK', TransitionToOpen, UNCHANGED <<now, probes, promised>>
  PROVE  ProbeInv'
<1> USE ClockFacts DEF BreakerAssumption
<1>1. Len(probes) \in Nat /\ \A i \in 1 .. Len(probes) : probes[i] \in Nat
  BY LenProperties, ElementOfSeq DEF ProbeInv, TypeOK
<1>2. promised <= now + HalfOpenAfter
  <2>1. CASE state = "closed"
    BY <2>1 DEF ProbeInv, TypeOK, ClosedInv
  <2>2. CASE state = "open"
    BY <2>2 DEF ProbeInv, TypeOK, OpenInv
  <2>3. CASE state = "half-open"
    <3>1. Len(probes) \in 1 .. Len(probes)
      BY <2>3, <1>1 DEF ProbeInv, HalfOpenInv
    <3>2. promised <= probes[Len(probes)] /\ probes[Len(probes)] <= now
      BY <2>3, <3>1 DEF ProbeInv, HalfOpenInv, Chronological
    <3>3. probes[Len(probes)] \in Nat /\ now \in Nat /\ promised \in Nat
      BY <3>1, <1>1 DEF ProbeInv, TypeOK
    <3>. QED
      BY <3>2, <3>3
  <2>. QED
    BY <2>1, <2>2, <2>3 DEF ProbeInv, TypeOK, BreakerStates
<1>3. OpenInv'
  BY <1>2 DEF ProbeInv, TypeOK, Chronological, OpenInv, TransitionToOpen
<1>4. HalfOpenInv' /\ ClosedInv'
  BY DEF HalfOpenInv, ClosedInv, TransitionToOpen
<1>5. Chronological' /\ ProbesComeInPairs'
  BY DEF ProbeInv, Chronological, ProbesComeInPairs
<1>. QED
  BY <1>3, <1>4, <1>5 DEF ProbeInv

\* The probe that makes an open breaker half-open.
LEMMA FirstProbeKeepsProbeInv ==
  ASSUME BreakerAssumption, ProbeInv, TypeOK', AdmitProbe, UNCHANGED <<now, promised>>
  PROVE  ProbeInv' /\ now >= promised
<1> USE ClockFacts DEF BreakerAssumption
<1> DEFINE n == Len(probes)
<1>1. n \in Nat /\ \A i \in 1 .. n : probes[i] \in Nat
  BY LenProperties, ElementOfSeq DEF ProbeInv, TypeOK
<1>2. /\ Len(probes') = n + 1
      /\ \A i \in 1 .. n : probes'[i] = probes[i]
      /\ probes'[n + 1] = now
  BY AppendNow DEF ProbeInv, TypeOK, AdmitProbe
<1>3. now \in Nat /\ openedAt \in Nat /\ promised \in Nat
  BY DEF ProbeInv, TypeOK
<1>4. openedAt + HalfOpenAfter <= now
  BY <1>3 DEF AdmitProbe, Elapsed
<1>5. \A i \in 1 .. n : probes[i] + HalfOpenAfter <= now
  <2>1. \A i \in 1 .. n : probes[i] <= openedAt
    BY DEF ProbeInv, OpenInv, AdmitProbe
  <2>. QED
    BY <2>1, <1>1, <1>3, <1>4
<1>6. promised <= now
  BY <1>3, <1>4 DEF ProbeInv, OpenInv, AdmitProbe
<1>7. Chronological'
  <2>1. \A i \in 1 .. n : probes[i] <= now
    BY DEF ProbeInv, Chronological
  <2>. QED
    BY <1>1, <1>2, <1>3, <2>1 DEF Chronological
<1>8. HalfOpenInv'
  BY <1>1, <1>2, <1>5, <1>6 DEF HalfOpenInv
<1>9. OpenInv' /\ ClosedInv'
  BY DEF OpenInv, ClosedInv, AdmitProbe
<1>10. ProbesComeInPairs'
  <2> SUFFICES ASSUME NEW i \in 1 .. n - 1
               PROVE  probes'[i + 2] - probes'[i] >= HalfOpenAfter
    BY <1>1, <1>2 DEF ProbesComeInPairs
  <2>1. CASE i = n - 1
    <3>1. i \in 1 .. n /\ probes'[i + 2] = now /\ probes'[i] = probes[i]
      BY <2>1, <1>1, <1>2
    <3>. QED
      BY <3>1, <1>1, <1>3, <1>5
  <2>2. CASE i # n - 1
    BY <2>2, <1>1, <1>2 DEF ProbeInv, ProbesComeInPairs
  <2>. QED
    BY <2>1, <2>2
<1>. QED
  BY <1>6, <1>7, <1>8, <1>9, <1>10, <1>3 DEF ProbeInv

\* The second probe, which flips a half-open breaker back to open.
LEMMA SecondProbeKeepsProbeInv ==
  ASSUME BreakerAssumption, ProbeInv, TypeOK', AdmitHalfOpen, UNCHANGED <<now, promised>>
  PROVE  ProbeInv' /\ now >= promised
<1> USE ClockFacts DEF BreakerAssumption
<1> DEFINE n == Len(probes)
<1>1. n \in Nat /\ n > 0 /\ \A i \in 1 .. n : probes[i] \in Nat
  BY LenProperties, ElementOfSeq DEF ProbeInv, TypeOK, HalfOpenInv, AdmitHalfOpen
<1>2. /\ Len(probes') = n + 1
      /\ \A i \in 1 .. n : probes'[i] = probes[i]
      /\ probes'[n + 1] = now
  BY AppendNow DEF ProbeInv, TypeOK, AdmitHalfOpen
<1>3. now \in Nat /\ promised \in Nat /\ openedAt' = now
  BY DEF ProbeInv, TypeOK, AdmitHalfOpen, TransitionToOpen
<1>4. \A i \in 1 .. n : probes[i] <= now
  BY DEF ProbeInv, Chronological
<1>5. promised <= now
  <2>1. promised <= probes[n] /\ probes[n] <= now
    BY <1>1, <1>4 DEF ProbeInv, HalfOpenInv, AdmitHalfOpen
  <2>. QED
    BY <2>1, <1>1, <1>3
<1>6. Chronological'
  BY <1>1, <1>2, <1>3, <1>4 DEF Chronological
<1>7. OpenInv'
  BY <1>1, <1>2, <1>3, <1>4, <1>5 DEF OpenInv
<1>8. HalfOpenInv' /\ ClosedInv'
  BY DEF HalfOpenInv, ClosedInv, AdmitHalfOpen, TransitionToOpen
<1>9. ProbesComeInPairs'
  <2> SUFFICES ASSUME NEW i \in 1 .. n - 1
               PROVE  probes'[i + 2] - probes'[i] >= HalfOpenAfter
    BY <1>1, <1>2 DEF ProbesComeInPairs
  <2>1. CASE i = n - 1
    <3>1. probes[i] + HalfOpenAfter <= probes[n] /\ probes[n] <= now
      BY <2>1, <1>1, <1>4 DEF ProbeInv, HalfOpenInv, AdmitHalfOpen
    <3>. QED
      BY <2>1, <3>1, <1>1, <1>2, <1>3
  <2>2. CASE i # n - 1
    BY <2>2, <1>1, <1>2 DEF ProbeInv, ProbesComeInPairs
  <2>. QED
    BY <2>1, <2>2
<1>. QED
  BY <1>5, <1>6, <1>7, <1>8, <1>9, <1>3 DEF ProbeInv

\* A breaker that has done nothing satisfies the invariant.
LEMMA ProbeInvInit == ASSUME BreakerAssumption PROVE Init => ProbeInv
<1> SUFFICES ASSUME Init PROVE ProbeInv
  OBVIOUS
<1>1. TypeOK
  BY ClockFacts DEF BreakerAssumption, Init, TypeOK, BreakerStates
<1>2. Len(probes) = 0
  BY EmptySeq DEF Init
<1>. QED
  BY <1>1, <1>2 DEF Init, ProbeInv, Chronological, OpenInv, HalfOpenInv, ClosedInv,
                    ProbesComeInPairs

\* One step keeps the invariant, and a step that admits a probe is not early.
LEMMA ProbeInvStep ==
  ASSUME BreakerAssumption, ProbeInv, TypeOK', [Next]_vars
  PROVE  ProbeInv' /\ (Len(probes') > Len(probes) => now >= promised)
<1> USE ClockFacts DEF BreakerAssumption
<1>0. Len(probes) \in Nat /\ \A i \in 1 .. Len(probes) : probes[i] \in Nat
  BY LenProperties, ElementOfSeq DEF ProbeInv, TypeOK
<1> DEFINE Goal == ProbeInv' /\ (Len(probes') > Len(probes) => now >= promised)
<1>1. ASSUME RecordSuccess
      PROVE  Goal
  <2>1. Len(probes') = 0
    BY <1>1, EmptySeq DEF RecordSuccess
  <2>. QED
    BY <1>1, <2>1, <1>0, SuccessKeepsProbeInv
<1>2. ASSUME TransitionToOpen, UNCHANGED <<now, probes, promised>>
      PROVE  Goal
  BY <1>2, <1>0, OpeningKeepsProbeInv
<1>3. ASSUME UNCHANGED <<now, state, openedAt, probes, promised>>
      PROVE  Goal
  BY <1>3, <1>0 DEF ProbeInv, Chronological, OpenInv, HalfOpenInv, ClosedInv,
                    ProbesComeInPairs
<1>4. ASSUME NEW c \in Calls, Call(c)
      PROVE  Goal
  <2>1. CASE AdmitClosed
    BY <2>1, <1>3, <1>4 DEF Call, AdmitClosed
  <2>2. CASE AdmitProbe
    BY <2>2, <1>4, FirstProbeKeepsProbeInv DEF Call
  <2>3. CASE AdmitHalfOpen
    BY <2>3, <1>4, SecondProbeKeepsProbeInv DEF Call
  <2>. QED
    BY <1>4, <2>1, <2>2, <2>3 DEF Call
<1>5. ASSUME NEW c \in Calls, FailFast(c)
      PROVE  Goal
  <2>1. promised' = openedAt + HalfOpenAfter
    BY <1>5 DEF ProbeInv, TypeOK, FailFast, RetryAfter, Elapsed
  <2>. QED
    BY <1>5, <2>1, <1>0 DEF FailFast, ProbeInv, Chronological, OpenInv, HalfOpenInv,
                            ClosedInv, ProbesComeInPairs
<1>6. ASSUME NEW c \in Calls, Succeed(c)
      PROVE  Goal
  BY <1>6, <1>1 DEF Succeed
<1>7. ASSUME NEW c \in Calls, FailCounted(c)
      PROVE  Goal
  <2>1. CASE TransitionToOpen
    BY <2>1, <1>2, <1>7 DEF FailCounted, RecordFailure
  <2>2. CASE ~ TransitionToOpen
    BY <2>2, <1>3, <1>7 DEF FailCounted, RecordFailure, RecordProbeFailure,
                            RecordWindowFailure
  <2>. QED
    BY <2>1, <2>2
<1>8. ASSUME NEW c \in Calls, FailUncounted(c)
      PROVE  Goal
  <2>1. CASE state = "half-open"
    BY <2>1, <1>1, <1>8 DEF FailUncounted
  <2>2. CASE state # "half-open"
    BY <2>2, <1>3, <1>8 DEF FailUncounted, history
  <2>. QED
    BY <2>1, <2>2
<1>9. CASE Trip
  BY <1>9, <1>2 DEF Trip, history
<1>10. CASE Reset
  BY <1>10, <1>1 DEF Reset
<1>11. CASE Tick
  BY <1>11, <1>0 DEF Tick, history, ProbeInv, TypeOK, Chronological, OpenInv, HalfOpenInv,
                     ClosedInv, ProbesComeInPairs
<1>12. CASE UNCHANGED vars
  BY <1>12, <1>3 DEF vars
<1>. QED
  BY <1>4, <1>5, <1>6, <1>7, <1>8, <1>9, <1>10, <1>11, <1>12 DEF Next

(* The probes, the promise and the state of the breaker fit together in      *)
(* every reachable state (admit, transitionTo).                             *)
THEOREM ProbeInvariant == ASSUME BreakerAssumption PROVE Spec => []ProbeInv
<1>1. ProbeInv /\ TypeOK' /\ [Next]_vars => ProbeInv'
  BY ProbeInvStep
<1>2. (Init => ProbeInv) /\ (Spec => []TypeOK)
  BY ProbeInvInit, BreakerTypeCorrect
<1>. QED
  BY <1>1, <1>2, PTL DEF Spec

(* A breaker that is not closed never lets three calls through within       *)
(* halfOpenAfter, whatever the number of concurrent callers (admit).        *)
THEOREM ProbesArePaired == ASSUME BreakerAssumption PROVE Spec => []ProbesComeInPairs
<1>1. ProbeInv => ProbesComeInPairs
  BY DEF ProbeInv
<1>2. Spec => []ProbeInv
  BY ProbeInvariant
<1>. QED
  BY <1>1, <1>2, PTL

(* No call is admitted before the time CircuitOpenError.retryAfter gave the *)
(* last rejected caller, unless the breaker closed in between (admit).      *)
THEOREM RetryAfterHolds == ASSUME BreakerAssumption PROVE Spec => RetryAfterIsHonest
<1> DEFINE Honest == Len(probes') > Len(probes) => now >= promised
<1>1. ProbeInv /\ TypeOK' /\ [Next]_vars => [Honest]_vars
  BY ProbeInvStep
<1>2. Spec => []ProbeInv /\ []TypeOK
  BY ProbeInvariant, BreakerTypeCorrect
<1>. QED
  BY <1>1, <1>2, PTL DEF Spec, RetryAfterIsHonest

-----------------------------------------------------------------------------
(* The size of an interval of indices.                                      *)
LEMMA IntervalSize ==
  ASSUME NEW a \in Nat, NEW b \in Nat, a <= b + 1
  PROVE  IsFiniteSet(a .. b) /\ Cardinality(a .. b) = b - a + 1
<1>1. a \in Int /\ b \in Int
  OBVIOUS
<1>2. IsFiniteSet(a .. b) /\ Cardinality(a .. b) = IF a > b THEN 0 ELSE b - a + 1
  BY <1>1, FS_Interval
<1>. QED
  BY <1>2

(* What a sequence of clock values holds.                                   *)
LEMMA ClockValues ==
  ASSUME BreakerAssumption, NEW times \in Seq(Clock)
  PROVE  Len(times) \in Nat /\ \A i \in 1 .. Len(times) : times[i] \in Nat
<1>1. \A i \in 1 .. Len(times) : times[i] \in Clock
  BY ElementOfSeq
<1>. QED
  BY <1>1, ClockFacts, LenProperties

(* The window.  The clock does not go back, so what is stale is a prefix,   *)
(* and pruning by counting removes exactly that.                            *)
Ordered(times) ==
    \A i, j \in 1 .. Len(times) : i <= j => times[i] <= times[j]

(* The stale entries of an ordered window are its first StaleCount ones.    *)
LEMMA StaleIsPrefix ==
  ASSUME BreakerAssumption, NEW times \in Seq(Clock), Ordered(times), NEW cutoff \in Int
  PROVE  /\ StaleCount(times, cutoff) \in 0 .. Len(times)
         /\ \A i \in 1 .. Len(times) : times[i] < cutoff <=> i <= StaleCount(times, cutoff)
<1> DEFINE n == Len(times)
           Stale == {i \in 1 .. n : times[i] < cutoff}
           m == Cardinality(Stale)
<1>1. n \in Nat /\ StaleCount(times, cutoff) = m
  BY LenProperties DEF StaleCount
<1>2. IsFiniteSet(1 .. n) /\ Cardinality(1 .. n) = n
  <2>1. 1 <= n + 1 /\ n - 1 + 1 = n
    BY <1>1
  <2>. QED
    BY <1>1, <2>1, IntervalSize
<1>3. IsFiniteSet(Stale) /\ m \in 0 .. n
  BY <1>1, <1>2, FS_Subset, FS_CardinalityType
<1>4. \A i \in 1 .. n : times[i] \in Int
  BY ClockValues
<1>5. ASSUME NEW i \in 1 .. n, times[i] < cutoff
      PROVE  i <= m
  <2>1. 1 .. i \subseteq Stale
    BY <1>1, <1>4, <1>5 DEF Ordered
  <2>2. Cardinality(1 .. i) = i
    BY <1>1, FS_Interval
  <2>. QED
    BY <1>3, <2>1, <2>2, FS_Subset
<1>6. ASSUME NEW i \in 1 .. n, ~(times[i] < cutoff)
      PROVE  ~(i <= m)
  <2>1. Stale \in SUBSET (1 .. i - 1)
    BY <1>1, <1>4, <1>6 DEF Ordered
  <2>2. IsFiniteSet(1 .. i - 1) /\ Cardinality(1 .. i - 1) = i - 1
    <3>1. i - 1 \in Nat /\ 1 <= i - 1 + 1 /\ i - 1 - 1 + 1 = i - 1
      BY <1>1
    <3>. QED
      BY <3>1, IntervalSize
  <2>3. m <= i - 1
    BY <2>1, <2>2, FS_Subset
  <2>. QED
    BY <1>1, <1>3, <2>3
<1>. QED
  BY <1>1, <1>3, <1>5, <1>6

(* The failures counted since the breaker closed, and those of them that    *)
(* pruning has left in the window: all but k of the first, which are older  *)
(* than the window of the last.                                             *)
WindowFrom(k) ==
    /\ k \in 0 .. Len(failed)
    /\ Len(failures) = Len(failed) - k
    /\ \A i \in 1 .. Len(failures) : failures[i] = failed[k + i]
    /\ \A i \in 1 .. k : failed[i] < failed[Len(failed)] - WindowMs

WindowInv ==
    /\ Ordered(failed)
    /\ \A i \in 1 .. Len(failed) : failed[i] <= now
    /\ state = "closed" =>
        /\ Len(failures) < FailureThreshold
        /\ \E k \in Nat : WindowFrom(k)

(* The recent failures are those in the window.                             *)
LEMMA RecentAreInWindow ==
  ASSUME BreakerAssumption, TypeOK, Ordered(failed), NEW k \in Nat, WindowFrom(k), NEW t \in Int,
         \A i \in 1 .. k : failed[i] < t - WindowMs
  PROVE  Cardinality(Recent(failed, t)) <= Len(failures)
<1>1. Len(failed) \in Nat /\ k \in 0 .. Len(failed)
  BY LenProperties DEF TypeOK, WindowFrom
<1>2. \A i \in 1 .. Len(failed) : failed[i] \in Int
  BY ClockValues DEF TypeOK
<1>3. Recent(failed, t) \in SUBSET (k + 1 .. Len(failed))
  BY <1>1, <1>2 DEF BreakerAssumption, Recent
<1>4. IsFiniteSet(k + 1 .. Len(failed)) /\ Cardinality(k + 1 .. Len(failed)) = Len(failed) - k
  <2>1. k + 1 \in Nat /\ k + 1 <= Len(failed) + 1 /\ Len(failed) - (k + 1) + 1 = Len(failed) - k
    BY <1>1
  <2>. QED
    BY <1>1, <2>1, IntervalSize
<1>. QED
  BY <1>3, <1>4, FS_Subset DEF WindowFrom

(* A counted failure of a closed breaker: the window that is left holds the *)
(* failures no older than windowMs, and no other.                           *)
LEMMA FailureKeepsWindow ==
  ASSUME BreakerAssumption, TypeOK, WindowInv, state = "closed", RecordWindowFailure,
         failed' = Append(failed, now), UNCHANGED now
  PROVE  /\ \E k \in Nat : WindowFrom(k)'
         /\ Cardinality(Recent(failed', now)) >= Len(failures')
<1>0. PICK times, cutoff, m :
          /\ times = Append(failures, now)
          /\ cutoff = now - WindowMs
          /\ m = StaleCount(times, cutoff)
  OBVIOUS
<1>1. PICK k \in Nat : WindowFrom(k)
  BY DEF WindowInv
<1>2. /\ now \in Nat /\ WindowMs \in Nat /\ cutoff \in Int
      /\ Len(failed) \in Nat /\ Len(failures) \in Nat /\ k \in 0 .. Len(failed)
      /\ Len(failures) = Len(failed) - k
  BY <1>0, <1>1, LenProperties, ClockFacts DEF BreakerAssumption, TypeOK, WindowFrom
<1>3. /\ times \in Seq(Clock)
      /\ Len(times) = Len(failures) + 1
      /\ \A i \in 1 .. Len(failures) : times[i] = failures[i]
      /\ times[Len(failures) + 1] = now
  BY <1>0, AppendNow DEF TypeOK
<1>4. /\ Len(failed') = Len(failed) + 1
      /\ \A i \in 1 .. Len(failed) : failed'[i] = failed[i]
      /\ failed'[Len(failed) + 1] = now
      /\ \A i \in 1 .. Len(failed) : failed[i] \in Int
  <2>1. \A i \in 1 .. Len(failed) : failed[i] \in Nat
    BY ClockValues DEF TypeOK
  <2>. QED
    BY <2>1, AppendNow DEF TypeOK
<1>5. \A i \in 1 .. Len(times) : times[i] = failed'[k + i]
  <2>1. ASSUME NEW i \in 1 .. Len(failures)
        PROVE  times[i] = failed'[k + i]
    <3>1. k + i \in 1 .. Len(failed) /\ failures[i] = failed[k + i]
      BY <1>1, <1>2 DEF WindowFrom
    <3>. QED
      BY <1>3, <1>4, <3>1
  <2>2. times[Len(failures) + 1] = failed'[k + (Len(failures) + 1)]
    <3>1. k + (Len(failures) + 1) = Len(failed) + 1
      BY <1>2
    <3>. QED
      BY <1>3, <1>4, <3>1
  <2>. QED
    BY <1>2, <1>3, <2>1, <2>2
<1>6. Ordered(times)
  <2>1. Ordered(failed')
    BY <1>2, <1>4 DEF Ordered, WindowInv
  <2>2. ASSUME NEW i \in 1 .. Len(times), NEW j \in 1 .. Len(times), i <= j
        PROVE  times[i] <= times[j]
    <3>1. k + i \in 1 .. Len(failed') /\ k + j \in 1 .. Len(failed') /\ k + i <= k + j
      BY <1>2, <1>3, <1>4, <2>2
    <3>. QED
      BY <1>5, <2>1, <3>1 DEF Ordered
  <2>. QED
    BY <2>2 DEF Ordered
<1>7. /\ m \in 0 .. Len(times)
      /\ \A i \in 1 .. Len(times) : times[i] < cutoff <=> i <= m
  BY <1>0, <1>2, <1>3, <1>6, StaleIsPrefix
<1>8. failures' = SubSeq(times, m + 1, Len(times))
  BY <1>0 DEF RecordWindowFailure, PruneWindow
<1>9. /\ Len(failures') = Len(times) - m
      /\ \A i \in 1 .. Len(failures') : failures'[i] = times[m + i]
  <2>1. /\ m + 1 \in Int /\ Len(times) \in Int
        /\ \A i \in m + 1 .. Len(times) : times[i] \in Clock
    BY <1>2, <1>3, <1>7, ElementOfSeq
  <2>2. /\ Len(failures') = IF m + 1 <= Len(times) THEN Len(times) - (m + 1) + 1 ELSE 0
        /\ \A i \in 1 .. Len(times) - (m + 1) + 1 : failures'[i] = times[m + 1 + i - 1]
    BY <1>8, <2>1, SubSeqProperties
  <2>3. Len(failures') = Len(times) - m
    BY <1>2, <1>3, <1>7, <2>2
  <2>4. ASSUME NEW i \in 1 .. Len(failures')
        PROVE  failures'[i] = times[m + i]
    <3>1. m + 1 + i - 1 = m + i /\ i \in 1 .. Len(times) - (m + 1) + 1
      BY <1>2, <1>3, <1>7, <2>3
    <3>. QED
      BY <2>2, <3>1
  <2>. QED
    BY <2>3, <2>4
<1>10. \A i \in 1 .. k + m : failed'[i] < cutoff
  <2>1. ASSUME NEW i \in 1 .. k
        PROVE  failed'[i] < cutoff
    <3>1. i \in 1 .. Len(failed) /\ Len(failed) \in 1 .. Len(failed)
      BY <1>2
    <3>2. failed[i] < failed[Len(failed)] - WindowMs /\ failed[Len(failed)] <= now
      BY <1>1, <3>1 DEF WindowFrom, WindowInv
    <3>. QED
      BY <1>0, <1>2, <1>4, <3>1, <3>2
  <2>2. ASSUME NEW i \in k + 1 .. k + m
        PROVE  failed'[i] < cutoff
    <3>1. i - k \in 1 .. Len(times) /\ i - k <= m /\ k + (i - k) = i
      BY <1>2, <1>3, <1>7
    <3>. QED
      BY <1>5, <1>7, <3>1
  <2>. QED
    BY <1>2, <1>3, <1>7, <2>1, <2>2
<1>11. WindowFrom(k + m)'
  <2>1. k + m \in 0 .. Len(failed') /\ Len(failures') = Len(failed') - (k + m)
    BY <1>2, <1>3, <1>4, <1>7, <1>9
  <2>2. ASSUME NEW i \in 1 .. Len(failures')
        PROVE  failures'[i] = failed'[k + m + i]
    <3>1. m + i \in 1 .. Len(times) /\ k + (m + i) = k + m + i
      BY <1>2, <1>3, <1>7, <1>9
    <3>. QED
      BY <1>5, <1>9, <3>1
  <2>3. \A i \in 1 .. k + m : failed'[i] < failed'[Len(failed')] - WindowMs
    BY <1>0, <1>4, <1>10
  <2>. QED
    BY <2>1, <2>2, <2>3 DEF WindowFrom
<1>12. Cardinality(Recent(failed', now)) >= Len(failures')
  <2>1. \A i \in k + m + 1 .. Len(failed') : failed'[i] >= cutoff
    <3> SUFFICES ASSUME NEW i \in k + m + 1 .. Len(failed')
                 PROVE  failed'[i] >= cutoff
      OBVIOUS
    <3>1. i - k \in 1 .. Len(times) /\ ~(i - k <= m) /\ k + (i - k) = i
      BY <1>2, <1>3, <1>4, <1>7
    <3>2. ~(failed'[i] < cutoff)
      BY <1>5, <1>7, <3>1
    <3>3. failed'[i] \in Int
      BY <1>2, <1>4, <1>7, <1>3
    <3>4. \A x \in Int : ~(x < cutoff) => x >= cutoff
      BY <1>2
    <3>. QED
      BY <3>2, <3>3, <3>4, Zenon
  <2>2. k + m + 1 .. Len(failed') \in SUBSET Recent(failed', now)
    BY <1>0, <1>2, <1>3, <1>4, <1>7, <2>1 DEF Recent
  <2>3. IsFiniteSet(Recent(failed', now))
    <3>1. IsFiniteSet(1 .. Len(failed')) /\ Recent(failed', now) \in SUBSET (1 .. Len(failed'))
      BY <1>2, <1>4, FS_Interval DEF Recent
    <3>. QED
      BY <3>1, FS_Subset
  <2>4. Cardinality(k + m + 1 .. Len(failed')) = Len(failures')
    <3>1. /\ k + m + 1 \in Nat /\ Len(failed') \in Nat
          /\ k + m + 1 <= Len(failed') + 1
          /\ Len(failed') - (k + m + 1) + 1 = Len(failures')
      BY <1>2, <1>3, <1>4, <1>7, <1>9
    <3>. QED
      BY <3>1, IntervalSize
  <2>5. Cardinality(Recent(failed', now)) \in Nat
    BY <2>3, FS_CardinalityType
  <2>6. Cardinality(k + m + 1 .. Len(failed')) <= Cardinality(Recent(failed', now))
    BY <2>2, <2>3, FS_Subset
  <2>7. Len(failures') \in Nat
    BY <1>2, <1>3, <1>7, <1>9
  <2>. QED
    BY <2>4, <2>5, <2>6, <2>7
<1>13. k + m \in Nat
  BY <1>2, <1>3, <1>7
<1>. QED
  BY <1>11, <1>12, <1>13

(* A breaker that closes counts from nothing.                               *)
LEMMA SuccessKeepsWindow == ASSUME BreakerAssumption, TypeOK, RecordSuccess PROVE WindowInv'
<1>1. Len(failed') = 0 /\ Len(failures') = 0
  BY DEF RecordSuccess
<1>2. WindowFrom(0)'
  BY <1>1 DEF WindowFrom
<1>. QED
  BY <1>1, <1>2 DEF BreakerAssumption, WindowInv, Ordered

(* Another failure is no earlier than those before it.                      *)
LEMMA FailuresStayOrdered ==
  ASSUME BreakerAssumption, TypeOK, WindowInv, failed' = Append(failed, now), UNCHANGED now
  PROVE  Ordered(failed') /\ \A i \in 1 .. Len(failed') : failed'[i] <= now'
<1>1. /\ Len(failed') = Len(failed) + 1
      /\ \A i \in 1 .. Len(failed) : failed'[i] = failed[i]
      /\ failed'[Len(failed) + 1] = now
  BY AppendNow DEF TypeOK
<1>2. Len(failed) \in Nat /\ now \in Nat
  BY ClockValues, ClockFacts DEF TypeOK
<1>3. /\ \A i, j \in 1 .. Len(failed) : i <= j => failed[i] <= failed[j]
      /\ \A i \in 1 .. Len(failed) : failed[i] <= now
  BY DEF WindowInv, Ordered
<1>4. \A i \in 1 .. Len(failed') : i \in 1 .. Len(failed) \/ i = Len(failed) + 1
  BY <1>1, <1>2
<1>5. ASSUME NEW i \in 1 .. Len(failed')
      PROVE  failed'[i] <= now
  <2>1. now <= now
    BY <1>2
  <2>. QED
    BY <1>1, <1>3, <1>4, <2>1, Zenon
<1>6. ASSUME NEW i \in 1 .. Len(failed'), NEW j \in 1 .. Len(failed'), i <= j
      PROVE  failed'[i] <= failed'[j]
  <2>1. CASE j = Len(failed) + 1
    BY <1>1, <1>5, <2>1, Zenon
  <2>2. CASE j \in 1 .. Len(failed)
    <3>1. i \in 1 .. Len(failed)
      BY <1>2, <1>6, <2>2
    <3>. QED
      BY <1>1, <1>3, <1>6, <2>2, <3>1, Zenon
  <2>. QED
    BY <1>4, <2>1, <2>2
<1>. QED
  BY <1>5, <1>6 DEF Ordered

(* Both steps of the argument at once: the invariant, and what a trip shows *)
(* of the failures before it.                                               *)
LEMMA WindowInvStep ==
  ASSUME BreakerAssumption, TypeOK, WindowInv, TypeOK', [Next]_vars
  PROVE  /\ WindowInv'
         /\ state = "closed" /\ state' = "open" /\ failed' # failed =>
              Cardinality(Recent(failed', now)) >= FailureThreshold
<1> DEFINE Justified ==
             state = "closed" /\ state' = "open" /\ failed' # failed =>
               Cardinality(Recent(failed', now)) >= FailureThreshold
           Goal == WindowInv' /\ Justified
<1>1. ASSUME UNCHANGED <<failures, failed>>, state' = "closed" => state = "closed", now' >= now
      PROVE  Goal
  <2>1. \A i \in 1 .. Len(failed) : failed[i] <= now'
    <3>1. /\ now \in Nat /\ now' \in Nat
          /\ \A i \in 1 .. Len(failed) : failed[i] \in Nat /\ failed[i] <= now
      BY ClockValues, ClockFacts DEF TypeOK, WindowInv
    <3>. QED
      BY <1>1, <3>1
  <2>. QED
    BY <1>1, <2>1 DEF WindowInv, WindowFrom, Ordered
<1>2. ASSUME RecordSuccess
      PROVE  Goal
  <2>1. ~(state' = "open")
    BY <1>2 DEF RecordSuccess
  <2>. QED
    BY <1>2, <2>1, SuccessKeepsWindow
<1>3. now' >= now
  BY ClockFacts DEF TypeOK, Next, Call, FailFast, Succeed, FailCounted, FailUncounted, Trip, Reset,
                    Tick, vars
<1>4. ASSUME NEW c \in Calls, Call(c) \/ FailFast(c)
      PROVE  Goal
  <2>1. UNCHANGED <<failures, failed>> /\ (state' = "closed" => state = "closed")
    BY <1>4 DEF Call, FailFast, AdmitClosed, AdmitProbe, AdmitHalfOpen, TransitionToOpen
  <2>. QED
    BY <1>1, <1>3, <2>1
<1>5. ASSUME NEW c \in Calls, Succeed(c)
      PROVE  Goal
  BY <1>2, <1>5 DEF Succeed
<1>6. ASSUME NEW c \in Calls, FailCounted(c)
      PROVE  Goal
  <2>1. failed' = Append(failed, now) /\ UNCHANGED now
    BY <1>6 DEF FailCounted, RecordFailure
  <2>2. Ordered(failed') /\ \A i \in 1 .. Len(failed') : failed'[i] <= now'
    BY <2>1, FailuresStayOrdered
  <2>3. CASE state = "closed"
    <3>1. RecordWindowFailure
      BY <1>6, <2>3 DEF FailCounted, RecordFailure, RecordProbeFailure
    <3>2. /\ \E k \in Nat : WindowFrom(k)'
          /\ Cardinality(Recent(failed', now)) >= Len(failures')
      BY <2>1, <2>3, <3>1, FailureKeepsWindow
    <3>3. CASE Len(failures') >= FailureThreshold
      <4>1. state' = "open"
        BY <3>1, <3>3 DEF RecordWindowFailure, TransitionToOpen
      <4>2. Cardinality(Recent(failed', now)) >= FailureThreshold
        <5>1. Len(failures') \in Nat /\ Len(failed') \in Nat
          BY ClockValues DEF TypeOK
        <5>2. Cardinality(Recent(failed', now)) \in Nat
          <6>1. IsFiniteSet(1 .. Len(failed')) /\ Recent(failed', now) \in SUBSET (1 .. Len(failed'))
            BY <5>1, IntervalSize DEF Recent
          <6>. QED
            BY <6>1, FS_Subset, FS_CardinalityType
        <5>. QED
          BY <3>2, <3>3, <5>1, <5>2 DEF BreakerAssumption
      <4>. QED
        BY <2>2, <4>1, <4>2 DEF WindowInv
    <3>4. CASE ~(Len(failures') >= FailureThreshold)
      <4>1. state' = "closed"
        BY <2>3, <3>1, <3>4 DEF RecordWindowFailure
      <4>2. Len(failures') < FailureThreshold
        <5>1. Len(failures') \in Nat
          BY ClockValues DEF TypeOK
        <5>. QED
          BY <3>4, <5>1 DEF BreakerAssumption
      <4>. QED
        BY <2>2, <3>2, <4>1, <4>2 DEF WindowInv
    <3>. QED
      BY <3>3, <3>4
  <2>4. CASE state # "closed"
    <3>1. state' # "closed"
      BY <1>6, <2>4 DEF FailCounted, RecordFailure, RecordProbeFailure, RecordWindowFailure,
                        TransitionToOpen
    <3>. QED
      BY <2>2, <2>4, <3>1 DEF WindowInv
  <2>. QED
    BY <2>3, <2>4
<1>7. ASSUME NEW c \in Calls, FailUncounted(c)
      PROVE  Goal
  <2>1. CASE state = "half-open"
    BY <1>2, <1>7, <2>1 DEF FailUncounted
  <2>2. CASE state # "half-open"
    BY <1>1, <1>3, <1>7, <2>2 DEF FailUncounted, history
  <2>. QED
    BY <2>1, <2>2
<1>8. CASE Trip
  BY <1>1, <1>3, <1>8 DEF Trip, TransitionToOpen, history
<1>9. CASE Reset
  BY <1>2, <1>9 DEF Reset
<1>10. CASE Tick
  BY <1>1, <1>3, <1>10 DEF Tick, history
<1>11. CASE UNCHANGED vars
  BY <1>1, <1>3, <1>11 DEF vars
<1>. QED
  BY <1>4, <1>5, <1>6, <1>7, <1>8, <1>9, <1>10, <1>11 DEF Next

(* The window is right throughout.                                          *)
LEMMA WindowInvariant == ASSUME BreakerAssumption PROVE Spec => []WindowInv
<1>1. Init => WindowInv
  <2>1. Init => WindowFrom(0) /\ Ordered(failed)
    BY DEF Init, WindowFrom, Ordered
  <2>. QED
    BY <2>1 DEF BreakerAssumption, Init, WindowInv
<1>2. TypeOK /\ WindowInv /\ TypeOK' /\ [Next]_vars => WindowInv'
  BY WindowInvStep
<1>3. Spec => []TypeOK
  BY BreakerTypeCorrect
<1>. QED
  BY <1>1, <1>2, <1>3, PTL DEF Spec

(* While the breaker is closed, no failureThreshold of the failures counted *)
(* since it closed lie within windowMs, for any threshold and window: the   *)
(* pruned window forgets none that matters (recordFailure, pruneWindow).    *)
THEOREM ClosedStaysBelow == ASSUME BreakerAssumption PROVE Spec => []ClosedBelowThreshold
<1>1. TypeOK /\ WindowInv => ClosedBelowThreshold
  <2> SUFFICES ASSUME TypeOK, WindowInv, state = "closed", failed # <<>>
               PROVE  Cardinality(Recent(failed, failed[Len(failed)])) < FailureThreshold
    BY DEF ClosedBelowThreshold
  <2>1. PICK k \in Nat : WindowFrom(k)
    BY DEF WindowInv
  <2>2. /\ Len(failed) \in Nat /\ Len(failures) \in Nat
        /\ \A i \in 1 .. Len(failed) : failed[i] \in Nat
    BY ClockValues DEF TypeOK
  <2>3. Len(failed) \in 1 .. Len(failed)
    BY <2>2, EmptySeq DEF TypeOK
  <2>4. failed[Len(failed)] \in Int
    BY <2>2, <2>3
  <2>5. \A i \in 1 .. k : failed[i] < failed[Len(failed)] - WindowMs
    BY <2>1 DEF WindowFrom
  <2>6. Cardinality(Recent(failed, failed[Len(failed)])) <= Len(failures)
    BY <2>1, <2>4, <2>5, RecentAreInWindow DEF WindowInv
  <2>7. Cardinality(Recent(failed, failed[Len(failed)])) \in Nat
    <3>1. /\ IsFiniteSet(1 .. Len(failed))
          /\ Recent(failed, failed[Len(failed)]) \in SUBSET (1 .. Len(failed))
      BY <2>2, IntervalSize DEF Recent
    <3>. QED
      BY <3>1, FS_Subset, FS_CardinalityType
  <2>. QED
    BY <2>2, <2>6, <2>7 DEF BreakerAssumption, WindowInv
<1>2. Spec => []TypeOK /\ []WindowInv
  BY BreakerTypeCorrect, WindowInvariant
<1>. QED
  BY <1>1, <1>2, PTL

(* A failure opens a closed breaker only when failureThreshold failures     *)
(* since it closed lie within windowMs of it (recordFailure).               *)
THEOREM TripsAreJustified == ASSUME BreakerAssumption PROVE Spec => TripIsJustified
<1> DEFINE Justified ==
             state = "closed" /\ state' = "open" /\ failed' # failed =>
               Cardinality(Recent(failed', now)) >= FailureThreshold
<1>1. TypeOK /\ WindowInv /\ TypeOK' /\ [Next]_vars => [Justified]_vars
  BY WindowInvStep
<1>2. Spec => []TypeOK /\ []WindowInv
  BY BreakerTypeCorrect, WindowInvariant
<1>. QED
  BY <1>1, <1>2, PTL DEF Spec, TripIsJustified
=============================================================================
