--------------------------- MODULE PipelineProofs ---------------------------
(***************************************************************************)
(* Theorems about RequestPipeline, for every set of options and responses. *)
(***************************************************************************)
EXTENDS RequestPipeline, TLAPS, SequenceTheorems

(* What the proofs use of a call's options.                                 *)
LEMMA OptionFacts ==
  ASSUME opts \in Options
  PROVE  /\ opts.limit \in Nat
         /\ opts.maxHops \in Nat
         /\ opts.signal \in {NoError} \cup UserReasons
BY PipelineAssumption DEF OptionRecord

(* The reason of an abort is an error; so is what reading a body may fail   *)
(* with, and it is neither an HTTPError nor a NetworkError; only the body   *)
(* timeout makes it a TimeoutError.                                         *)
LEMMA FailureFacts ==
  ASSUME opts \in Options
  PROVE  /\ \A cause \in Causes : Reason(cause) \in {NoError} \cup UserReasons
         /\ \A r : \A failure \in ReadOutcomes(r) :
               /\ failure \in Errors \ {"HTTPError", "NetworkError"}
               /\ failure = "TimeoutError" => opts.bodyTimeout
<1>1. ASSUME NEW cause \in Causes
      PROVE  Reason(cause) \in {NoError} \cup UserReasons
  BY OptionFacts DEF Reason, UserReasons
<1>2. ASSUME NEW r, NEW failure \in ReadOutcomes(r)
      PROVE  /\ failure \in Errors \ {"HTTPError", "NetworkError"}
             /\ failure = "TimeoutError" => opts.bodyTimeout
  <2>1. Reason(aborted) \notin {"HTTPError", "NetworkError", "TimeoutError"}
    BY OptionFacts DEF Reason, UserReasons, NoError
  <2>. QED
    BY <2>1 DEF ReadOutcomes, OwnReasons, UserReasons, Errors, NoError
<1>. QED
  BY <1>1, <1>2

(* What the top of the loop body may come to: the call rejects, the attempt *)
(* fails, or its first request goes out.                                    *)
LEMMA DispatchFacts ==
  ASSUME NEW fresh \in BOOLEAN, Dispatch(fresh)
  PROVE  /\ aborted' = BuildAttemptSignal
         /\ detached' \in BOOLEAN
         /\ detached' => ~HasSignal
         /\ override' = (override \/ fresh)
         /\ \/ /\ pc' = "done"
               /\ outcome' = "TypeError"
               /\ UNCHANGED <<hops, err, counts>>
            \/ /\ pc' = "decide"
               /\ err' \in {"TimeoutError", "NetworkError"}
               /\ UNCHANGED <<hops, outcome, counts>>
            \/ /\ pc' = "driver"
               /\ hops' = 0
               /\ Send
               /\ UNCHANGED <<err, outcome>>
<1>1. detached' \in BOOLEAN /\ (detached' => ~HasSignal)
  BY DEF Dispatch
<1>2. CASE SpentOverride(fresh) /\ HasSignal /\ Reject("TypeError") /\ UNCHANGED <<hops, err, counts>>
  BY <1>1, <1>2 DEF Dispatch, Reject
<1>3. CASE TransportFails("TypeError") /\ UNCHANGED <<hops, counts>>
  BY <1>1, <1>3 DEF Dispatch, TransportFails, MapTransportError, Goto
<1>4. CASE Goto("driver") /\ hops' = 0 /\ Send /\ UNCHANGED err
  BY <1>1, <1>4 DEF Dispatch, Goto
<1>. QED
  BY <1>2, <1>3, <1>4 DEF Dispatch

-----------------------------------------------------------------------------
(* Type correctness, in two parts.  That attempt stays within the limit      *)
(* rests on the test made two awaits before the increment, that hops does   *)
(* on the redirect count being checked before the next request.             *)
LoopInv ==
    /\ opts \in Options
    /\ pc \in Pcs
    /\ attempt \in 0 .. opts.limit
    /\ hops \in 0 .. opts.maxHops + 1
    /\ errorOf \in -1 .. opts.limit
    /\ pc \in {"retryBody", "shouldRetry"} => attempt < opts.limit
    /\ pc \in {"driver", "redirect"} => hops <= opts.maxHops

ValueInv ==
    /\ override \in BOOLEAN
    /\ userAborted \in BOOLEAN
    /\ totalFired \in BOOLEAN
    /\ aborted \in Causes
    /\ detached \in BOOLEAN
    /\ delayed \in BOOLEAN
    /\ reply \in Responses \cup {NoResponse}
    /\ response \in Responses \cup {NoResponse}
    /\ err \in Errors
    /\ completions \in Seq(Report)
    /\ outcome \in Errors \cup {"pending"}
    /\ sends \in Nat
    /\ late \in Nat
    /\ stray \in Nat

TypeInv == LoopInv /\ ValueInv

(* The loops of runWithRetry and followRedirects keep to their limits.      *)
LEMMA LoopInvariant == Spec => []LoopInv
<1>1. Init => LoopInv
  <2> SUFFICES ASSUME Init PROVE LoopInv
    OBVIOUS
  <2>1. opts.limit \in Nat /\ opts.maxHops \in Nat
    BY OptionFacts DEF Init
  <2>. QED
    BY <2>1 DEF Init, LoopInv, Pcs
<1>2. LoopInv /\ [Next]_vars => LoopInv'
  <2> SUFFICES ASSUME LoopInv, [Next]_vars
               PROVE  LoopInv'
    OBVIOUS
  <2>0. opts.limit \in Nat /\ opts.maxHops \in Nat
    BY OptionFacts DEF LoopInv
  <2> USE <2>0 DEF LoopInv, Pcs
  <2>1. CASE Start
    BY <2>1 DEF Start, HookThrows, Reject, Goto
  <2>2. CASE RunDefer
    BY <2>2 DEF RunDefer, HookThrows, Reject, Goto
  <2>3. CASE BeforeRequest
    <3>1. CASE Dispatch(FALSE)
               /\ UNCHANGED <<opts, attempt, signals, delayed, reply, response, errorOf, completions>>
      <4>1. PICK fresh \in BOOLEAN : ~fresh /\ Dispatch(fresh)
        BY <3>1
      <4>. QED
        BY <2>3, <3>1, <4>1, DispatchFacts
           DEF BeforeRequest, BuildAttemptSignal, HasSignal, Send, signals, NoError
    <3>2. CASE HookThrows
      BY <2>3, <3>2 DEF BeforeRequest, HookThrows, Reject
    <3>3. CASE /\ reply' \in HookResponses
               /\ Goto("finalize")
               /\ UNCHANGED <<opts, attempt, hops, override, signals, carried, delayed, response,
                              errorOf, err, completions, counts>>
      BY <2>3, <3>3 DEF BeforeRequest, Goto, signals, carried, counts
    <3>. QED
      BY <2>3, <3>1, <3>2, <3>3 DEF BeforeRequest
  <2>4. CASE DriverAborts
    BY <2>4 DEF DriverAborts, TransportFails, MapTransportError, Reason, Goto
  <2>5. CASE BeforeRedirect
    BY <2>5 DEF BeforeRedirect, Send, TransportFails, MapTransportError, Reason, Goto
  <2>6. CASE Decide
    BY <2>6 DEF Decide, CanRetryError, Backoff, Reject, Goto
  <2>7. CASE AfterResponse
    BY <2>7 DEF AfterResponse, RetriesResponse, HookThrows, Reject, Goto
  <2>8. CASE ParseForRetry
    BY <2>8 DEF ParseForRetry, Reject, Goto
  <2>9. CASE ShouldRetry
    BY <2>9 DEF ShouldRetry, Backoff, HookThrows, Reject, Goto
  <2>10. CASE SleepAborts
    BY <2>10 DEF SleepAborts, SleepAborted, Reject
  <2>11. CASE SleepEnds
    BY <2>11 DEF SleepEnds, Reject, Goto
  <2>12. CASE BeforeRetry
    <3>1. CASE \E fresh \in BOOLEAN : Dispatch(fresh)
               /\ UNCHANGED <<opts, attempt, signals, delayed, reply, response, errorOf, completions>>
      <4>1. PICK fresh \in BOOLEAN : Dispatch(fresh)
        BY <3>1
      <4>. QED
        BY <2>12, <3>1, <4>1, DispatchFacts
           DEF BeforeRetry, BuildAttemptSignal, HasSignal, Send, signals, NoError
    <3>2. CASE ~\E fresh \in BOOLEAN : Dispatch(fresh)
      BY <2>12, <3>2 DEF BeforeRetry, HookThrows, Reject, Goto
    <3>. QED
      BY <2>12, <3>1, <3>2 DEF BeforeRetry, HookThrows, Reject, Goto
  <2>13. CASE Finalize
    BY <2>13 DEF Finalize, Goto
  <2>14. CASE Validate
    BY <2>14 DEF Validate, Verdicts, HookThrows, Reject, Goto
  <2>15. CASE BeforeError
    BY <2>15 DEF BeforeError, HookThrows, Reject, Goto
  <2>16. CASE Complete
    BY <2>16 DEF Complete, Reject
  <2>17. CASE DriverFails
    BY <2>17 DEF DriverFails, OwnReasons, TransportFails, MapTransportError, Reason, Goto
  <2>18. ASSUME NEW r \in DriverResponses, DriverResponds(r)
        PROVE  LoopInv'
    BY <2>18 DEF DriverResponds, FollowRedirect, Refusals, TooManyHops, Receive, Reject,
           TransportFails, MapTransportError, Reason, Goto
  <2>19. CASE TotalFires
    BY <2>19 DEF TotalFires
  <2>20. CASE AttemptTimesOut
    BY <2>20 DEF AttemptTimesOut
  <2>21. CASE UserAborts
    BY <2>21 DEF UserAborts
  <2>22. CASE Terminated
    BY <2>22 DEF Terminated, vars
  <2>23. CASE UNCHANGED vars
    BY <2>23 DEF vars
  <2>. QED
    BY <2>1, <2>2, <2>3, <2>4, <2>5, <2>6, <2>7, <2>8, <2>9, <2>10, <2>11, <2>12, <2>13,
       <2>14, <2>15, <2>16, <2>17, <2>18, <2>19, <2>20, <2>21, <2>22, <2>23
       DEF Next, CallStep, DriverStep, TimerStep
<1>. QED
  BY <1>1, <1>2, PTL DEF Spec

(* Every other variable keeps its type, given that the loops do.            *)
LEMMA TypeInvariant == Spec => []TypeInv
<1>1. Init => ValueInv
  <2> SUFFICES ASSUME Init PROVE ValueInv
    OBVIOUS
  <2>1. <<>> \in Seq(Report)
    BY EmptySeq
  <2>. QED
    BY <2>1, Zenon DEF Init, ValueInv, Causes, Errors, NoError
<1>2. LoopInv /\ ValueInv /\ [Next]_vars => ValueInv'
  <2> SUFFICES ASSUME LoopInv, ValueInv, [Next]_vars
               PROVE  ValueInv'
    OBVIOUS
  <2>0. /\ opts.signal \in Errors
        /\ HookResponses \subseteq Responses
        /\ DriverResponses \subseteq Responses
    BY OptionFacts DEF LoopInv, Errors, Responses
  <2> USE <2>0 DEF ValueInv, Causes, Errors, UserReasons, signals, carried, counts
  <2>1. CASE Start
    BY <2>1 DEF Start, HookThrows, Reject, Goto
  <2>2. CASE RunDefer
    BY <2>2 DEF RunDefer, HookThrows, Reject, Goto
  <2>3. CASE BeforeRequest
    <3>1. CASE Dispatch(FALSE)
               /\ UNCHANGED <<opts, attempt, signals, delayed, reply, response, errorOf, completions>>
      <4>1. PICK fresh \in BOOLEAN : ~fresh /\ Dispatch(fresh)
        BY <3>1
      <4>. QED
        BY <2>3, <3>1, <4>1, DispatchFacts
           DEF BeforeRequest, BuildAttemptSignal, HasSignal, Send, signals, NoError
    <3>2. CASE HookThrows
      BY <2>3, <3>2 DEF BeforeRequest, HookThrows, Reject
    <3>3. CASE /\ reply' \in HookResponses
               /\ Goto("finalize")
               /\ UNCHANGED <<opts, attempt, hops, override, signals, carried, delayed, response,
                              errorOf, err, completions, counts>>
      BY <2>3, <3>3 DEF BeforeRequest, Goto, signals, carried, counts
    <3>. QED
      BY <2>3, <3>1, <3>2, <3>3 DEF BeforeRequest
  <2>4. CASE DriverAborts
    BY <2>4 DEF DriverAborts, TransportFails, MapTransportError, Reason, Goto
  <2>5. CASE BeforeRedirect
    BY <2>5 DEF BeforeRedirect, Send, TransportFails, MapTransportError, Reason, Goto
  <2>6. CASE Decide
    BY <2>6 DEF Decide, CanRetryError, Backoff, Reject, Goto
  <2>7. CASE AfterResponse
    BY <2>7 DEF AfterResponse, RetriesResponse, HookThrows, Reject, Goto
  <2>8. CASE ParseForRetry
    <3>1. ReadOutcomes(reply) \subseteq Errors
      BY FailureFacts DEF LoopInv
    <3>. QED
      BY <2>8, <3>1 DEF ParseForRetry, Reject, Goto
  <2>9. CASE ShouldRetry
    BY <2>9 DEF ShouldRetry, Backoff, HookThrows, Reject, Goto
  <2>10. CASE SleepAborts
    BY <2>10 DEF SleepAborts, SleepAborted, Reject
  <2>11. CASE SleepEnds
    BY <2>11 DEF SleepEnds, Reject, Goto
  <2>12. CASE BeforeRetry
    <3>1. CASE \E fresh \in BOOLEAN : Dispatch(fresh)
               /\ UNCHANGED <<opts, attempt, signals, delayed, reply, response, errorOf, completions>>
      <4>1. PICK fresh \in BOOLEAN : Dispatch(fresh)
        BY <3>1
      <4>. QED
        BY <2>12, <3>1, <4>1, DispatchFacts
           DEF BeforeRetry, BuildAttemptSignal, HasSignal, Send, signals, NoError
    <3>2. CASE ~\E fresh \in BOOLEAN : Dispatch(fresh)
      BY <2>12, <3>2 DEF BeforeRetry, HookThrows, Reject, Goto
    <3>. QED
      BY <2>12, <3>1, <3>2 DEF BeforeRetry, HookThrows, Reject, Goto
  <2>13. CASE Finalize
    BY <2>13 DEF Finalize, Goto
  <2>14. CASE Validate
    BY <2>14 DEF Validate, Verdicts, HookThrows, Reject, Goto
  <2>15. CASE BeforeError
    BY <2>15 DEF BeforeError, HookThrows, Reject, Goto
  <2>16. CASE Complete
    <3>1. completions' \in Seq(Report)
      BY <2>16 DEF Complete, Report
    <3>. QED
      BY <2>16, <3>1 DEF Complete, Reject
  <2>17. CASE DriverFails
    BY <2>17 DEF DriverFails, OwnReasons, TransportFails, MapTransportError, Reason, Goto
  <2>18. ASSUME NEW r \in DriverResponses, DriverResponds(r)
        PROVE  ValueInv'
    BY <2>18 DEF DriverResponds, FollowRedirect, Refusals, TooManyHops, Receive, Reject,
           TransportFails, MapTransportError, Reason, Goto
  <2>19. CASE TotalFires
    BY <2>19 DEF TotalFires
  <2>20. CASE AttemptTimesOut
    BY <2>20 DEF AttemptTimesOut
  <2>21. CASE UserAborts
    BY <2>21 DEF UserAborts
  <2>22. CASE Terminated
    BY <2>22 DEF Terminated, vars
  <2>23. CASE UNCHANGED vars
    BY <2>23 DEF vars
  <2>. QED
    BY <2>1, <2>2, <2>3, <2>4, <2>5, <2>6, <2>7, <2>8, <2>9, <2>10, <2>11, <2>12, <2>13,
       <2>14, <2>15, <2>16, <2>17, <2>18, <2>19, <2>20, <2>21, <2>22, <2>23
       DEF Next, CallStep, DriverStep, TimerStep
<1>. QED
  BY LoopInvariant, <1>1, <1>2, PTL DEF Spec, TypeInv

(* A call stays within the states the code describes; in particular its     *)
(* attempts stay within retry.limit and its redirects within                *)
(* redirectMaxCount + 1 responses (runWithRetry, followRedirects).          *)
THEOREM PipelineTypeCorrect == Spec => []TypeOK
<1>1. TypeInv => TypeOK
  BY DEF TypeInv, LoopInv, ValueInv, TypeOK
<1>. QED
  BY TypeInvariant, <1>1, PTL

-----------------------------------------------------------------------------
(* The abort of the call.  Whatever attempt it is at, its signal has seen   *)
(* the caller's abort and the total timeout.  Once a request has gone out   *)
(* after them, the call cannot come to another attempt; once one with the   *)
(* signal has, it cannot come to another redirect either.  One without the  *)
(* signal takes a redirect of the attempt each.                             *)
AbortInv ==
    /\ userAborted \/ totalFired => aborted # "live"
    /\ userAborted => opts.signal # NoError
    /\ totalFired => opts.total
    /\ late \in {stray, stray + 1}
    /\ late > 0 =>
          /\ userAborted \/ totalFired
          /\ pc \notin {"start", "defer", "beforeRequest", "beforeRetry"}
    /\ late = stray + 1 =>
          /\ pc \in {"driver", "decide", "backoff", "beforeError", "complete", "done"}
          /\ pc = "driver" => ~detached
    /\ stray <= opts.maxHops
    /\ pc = "driver" => stray <= hops
    /\ pc = "redirect" => stray + 1 <= hops

(* Every step keeps what the call knows of an abort.                        *)
LEMMA AbortInvariant == Spec => []AbortInv
<1>1. Init => AbortInv
  <2> SUFFICES ASSUME Init PROVE AbortInv
    OBVIOUS
  <2>1. opts.maxHops \in Nat
    BY OptionFacts DEF Init
  <2>. QED
    BY <2>1 DEF Init, AbortInv
<1>2. TypeInv /\ AbortInv /\ [Next]_vars => AbortInv'
  <2> SUFFICES ASSUME TypeInv, AbortInv, [Next]_vars
               PROVE  AbortInv'
    OBVIOUS
  <2>0. opts.maxHops \in Nat
    BY OptionFacts DEF TypeInv, LoopInv
  <2> USE <2>0 DEF AbortInv, TypeInv, LoopInv, ValueInv, signals, carried, counts
  <2>1. CASE Start
    BY <2>1 DEF Start, HookThrows, Reject, Goto
  <2>2. CASE RunDefer
    BY <2>2 DEF RunDefer, HookThrows, Reject, Goto
  <2>3. CASE BeforeRequest
    <3>1. CASE Dispatch(FALSE)
               /\ UNCHANGED <<opts, attempt, signals, delayed, reply, response, errorOf, completions>>
      <4>1. PICK fresh \in BOOLEAN : ~fresh /\ Dispatch(fresh)
        BY <3>1
      <4>. QED
        BY <2>3, <3>1, <4>1, DispatchFacts
           DEF BeforeRequest, BuildAttemptSignal, HasSignal, Send, signals, NoError
    <3>2. CASE HookThrows
      BY <2>3, <3>2 DEF BeforeRequest, HookThrows, Reject
    <3>3. CASE /\ reply' \in HookResponses
               /\ Goto("finalize")
               /\ UNCHANGED <<opts, attempt, hops, override, signals, carried, delayed, response,
                              errorOf, err, completions, counts>>
      BY <2>3, <3>3 DEF BeforeRequest, Goto, signals, carried, counts
    <3>. QED
      BY <2>3, <3>1, <3>2, <3>3 DEF BeforeRequest
  <2>4. CASE DriverAborts
    BY <2>4 DEF DriverAborts, TransportFails, MapTransportError, Reason, Goto
  <2>5. CASE BeforeRedirect
    BY <2>5 DEF BeforeRedirect, Send, TransportFails, MapTransportError, Reason, Goto
  <2>6. CASE Decide
    BY <2>6 DEF Decide, CanRetryError, Backoff, Reject, Goto
  <2>7. CASE AfterResponse
    BY <2>7 DEF AfterResponse, RetriesResponse, HookThrows, Reject, Goto
  <2>8. CASE ParseForRetry
    BY <2>8 DEF ParseForRetry, Reject, Goto
  <2>9. CASE ShouldRetry
    BY <2>9 DEF ShouldRetry, Backoff, HookThrows, Reject, Goto
  <2>10. CASE SleepAborts
    BY <2>10 DEF SleepAborts, SleepAborted, Reject
  <2>11. CASE SleepEnds
    BY <2>11 DEF SleepEnds, Reject, Goto
  <2>12. CASE BeforeRetry
    <3>1. CASE \E fresh \in BOOLEAN : Dispatch(fresh)
               /\ UNCHANGED <<opts, attempt, signals, delayed, reply, response, errorOf, completions>>
      <4>1. PICK fresh \in BOOLEAN : Dispatch(fresh)
        BY <3>1
      <4>. QED
        BY <2>12, <3>1, <4>1, DispatchFacts
           DEF BeforeRetry, BuildAttemptSignal, HasSignal, Send, signals, NoError
    <3>2. CASE ~\E fresh \in BOOLEAN : Dispatch(fresh)
      BY <2>12, <3>2 DEF BeforeRetry, HookThrows, Reject, Goto, counts, signals
    <3>. QED
      BY <2>12, <3>1, <3>2 DEF BeforeRetry, HookThrows, Reject, Goto
  <2>13. CASE Finalize
    BY <2>13 DEF Finalize, Goto
  <2>14. CASE Validate
    BY <2>14 DEF Validate, Verdicts, HookThrows, Reject, Goto
  <2>15. CASE BeforeError
    BY <2>15 DEF BeforeError, HookThrows, Reject, Goto
  <2>16. CASE Complete
    BY <2>16 DEF Complete, Reject
  <2>17. CASE DriverFails
    BY <2>17 DEF DriverFails, OwnReasons, TransportFails, MapTransportError, Reason, Goto
  <2>18. ASSUME NEW r \in DriverResponses, DriverResponds(r)
        PROVE  AbortInv'
    BY <2>18 DEF DriverResponds, FollowRedirect, Refusals, TooManyHops, Receive, Reject,
           TransportFails, MapTransportError, Reason, Goto
  <2>19. CASE TotalFires
    BY <2>19 DEF TotalFires
  <2>20. CASE AttemptTimesOut
    BY <2>20 DEF AttemptTimesOut
  <2>21. CASE UserAborts
    BY <2>21 DEF UserAborts
  <2>22. CASE Terminated
    BY <2>22 DEF Terminated, vars
  <2>23. CASE UNCHANGED vars
    BY <2>23 DEF vars
  <2>. QED
    BY <2>1, <2>2, <2>3, <2>4, <2>5, <2>6, <2>7, <2>8, <2>9, <2>10, <2>11, <2>12, <2>13,
       <2>14, <2>15, <2>16, <2>17, <2>18, <2>19, <2>20, <2>21, <2>22, <2>23
       DEF Next, CallStep, DriverStep, TimerStep
<1>. QED
  BY TypeInvariant, <1>1, <1>2, PTL DEF Spec

(* For every call: a request the driver holds after the caller aborted, or  *)
(* after the total timeout, carries an aborted signal, unless a             *)
(* beforeRedirect hook made it without one (buildAttemptSignal).            *)
THEOREM AbortsReachTheDriver == Spec => []AbortReachesDriver
<1>1. TypeInv /\ AbortInv => AbortReachesDriver
  BY DEF AbortInv, AbortReachesDriver
<1>. QED
  BY TypeInvariant, AbortInvariant, <1>1, PTL

(* For every call: after the abort at most one request goes out with the    *)
(* signal, however many retries and redirects were left, and at most        *)
(* redirectMaxCount go out without it, made by beforeRedirect hooks         *)
(* (runWithRetry, followRedirects).                                         *)
THEOREM LateSendsAreBounded == Spec => []LateSendsAreFew
<1>1. TypeInv /\ AbortInv => LateSendsAreFew
  BY DEF AbortInv, TypeInv, ValueInv, LateSendsAreFew
<1>. QED
  BY TypeInvariant, AbortInvariant, <1>1, PTL

-----------------------------------------------------------------------------
(* ctx.error between the decision to retry and the hooks that see it.       *)
ErrorInv ==
    /\ pc = "shouldRetry" => errorOf = attempt
    /\ pc \in {"backoff", "beforeRetry"} => errorOf = attempt - 1

(* Every step keeps ctx.error tied to the attempt that failed.              *)
LEMMA ErrorInvariant == Spec => []ErrorInv
<1>1. Init => ErrorInv
  BY DEF Init, ErrorInv
<1>2. TypeInv /\ ErrorInv /\ [Next]_vars => ErrorInv'
  <2> SUFFICES ASSUME TypeInv, ErrorInv, [Next]_vars
               PROVE  ErrorInv'
    OBVIOUS
  <2> USE DEF ErrorInv, TypeInv, LoopInv, ValueInv, signals, carried, counts
  <2>1. CASE Start
    BY <2>1 DEF Start, HookThrows, Reject, Goto
  <2>2. CASE RunDefer
    BY <2>2 DEF RunDefer, HookThrows, Reject, Goto
  <2>3. CASE BeforeRequest
    <3>1. CASE Dispatch(FALSE)
               /\ UNCHANGED <<opts, attempt, signals, delayed, reply, response, errorOf, completions>>
      <4>1. PICK fresh \in BOOLEAN : ~fresh /\ Dispatch(fresh)
        BY <3>1
      <4>. QED
        BY <2>3, <3>1, <4>1, DispatchFacts
           DEF BeforeRequest, BuildAttemptSignal, HasSignal, Send, signals, NoError
    <3>2. CASE HookThrows
      BY <2>3, <3>2 DEF BeforeRequest, HookThrows, Reject
    <3>3. CASE /\ reply' \in HookResponses
               /\ Goto("finalize")
               /\ UNCHANGED <<opts, attempt, hops, override, signals, carried, delayed, response,
                              errorOf, err, completions, counts>>
      BY <2>3, <3>3 DEF BeforeRequest, Goto, signals, carried, counts
    <3>. QED
      BY <2>3, <3>1, <3>2, <3>3 DEF BeforeRequest
  <2>4. CASE DriverAborts
    BY <2>4 DEF DriverAborts, TransportFails, MapTransportError, Reason, Goto
  <2>5. CASE BeforeRedirect
    BY <2>5 DEF BeforeRedirect, Send, TransportFails, MapTransportError, Reason, Goto
  <2>6. CASE Decide
    BY <2>6 DEF Decide, CanRetryError, Backoff, Reject, Goto
  <2>7. CASE AfterResponse
    BY <2>7 DEF AfterResponse, RetriesResponse, HookThrows, Reject, Goto
  <2>8. CASE ParseForRetry
    BY <2>8 DEF ParseForRetry, Reject, Goto
  <2>9. CASE ShouldRetry
    BY <2>9 DEF ShouldRetry, Backoff, HookThrows, Reject, Goto
  <2>10. CASE SleepAborts
    BY <2>10 DEF SleepAborts, SleepAborted, Reject
  <2>11. CASE SleepEnds
    BY <2>11 DEF SleepEnds, Reject, Goto
  <2>12. CASE BeforeRetry
    <3>1. CASE \E fresh \in BOOLEAN : Dispatch(fresh)
               /\ UNCHANGED <<opts, attempt, signals, delayed, reply, response, errorOf, completions>>
      <4>1. PICK fresh \in BOOLEAN : Dispatch(fresh)
        BY <3>1
      <4>. QED
        BY <2>12, <3>1, <4>1, DispatchFacts
           DEF BeforeRetry, BuildAttemptSignal, HasSignal, Send, signals, NoError
    <3>2. CASE ~\E fresh \in BOOLEAN : Dispatch(fresh)
      BY <2>12, <3>2 DEF BeforeRetry, HookThrows, Reject, Goto, counts, signals
    <3>. QED
      BY <2>12, <3>1, <3>2 DEF BeforeRetry, HookThrows, Reject, Goto
  <2>13. CASE Finalize
    BY <2>13 DEF Finalize, Goto
  <2>14. CASE Validate
    BY <2>14 DEF Validate, Verdicts, HookThrows, Reject, Goto
  <2>15. CASE BeforeError
    BY <2>15 DEF BeforeError, HookThrows, Reject, Goto
  <2>16. CASE Complete
    BY <2>16 DEF Complete, Reject
  <2>17. CASE DriverFails
    BY <2>17 DEF DriverFails, OwnReasons, TransportFails, MapTransportError, Reason, Goto
  <2>18. ASSUME NEW r \in DriverResponses, DriverResponds(r)
        PROVE  ErrorInv'
    BY <2>18 DEF DriverResponds, FollowRedirect, Refusals, TooManyHops, Receive, Reject,
           TransportFails, MapTransportError, Reason, Goto
  <2>19. CASE TotalFires
    BY <2>19 DEF TotalFires
  <2>20. CASE AttemptTimesOut
    BY <2>20 DEF AttemptTimesOut
  <2>21. CASE UserAborts
    BY <2>21 DEF UserAborts
  <2>22. CASE Terminated
    BY <2>22 DEF Terminated, vars
  <2>23. CASE UNCHANGED vars
    BY <2>23 DEF vars
  <2>. QED
    BY <2>1, <2>2, <2>3, <2>4, <2>5, <2>6, <2>7, <2>8, <2>9, <2>10, <2>11, <2>12, <2>13,
       <2>14, <2>15, <2>16, <2>17, <2>18, <2>19, <2>20, <2>21, <2>22, <2>23
       DEF Next, CallStep, DriverStep, TimerStep
<1>. QED
  BY TypeInvariant, <1>1, <1>2, PTL DEF Spec

(* For every call: when the beforeRetry hooks run, ctx.error is the failure *)
(* of the attempt just before (runWithRetry).                               *)
THEOREM HooksSeeThePreviousError == Spec => []HookSeesPreviousError
<1>1. TypeInv /\ ErrorInv => HookSeesPreviousError
  BY DEF ErrorInv, HookSeesPreviousError
<1>. QED
  BY TypeInvariant, ErrorInvariant, <1>1, PTL

-----------------------------------------------------------------------------
(* What the onComplete hooks are told.  They run in the last step of the    *)
(* call only, and a call that settles without them does so with none of the *)
(* outcomes the README calls covered; the reason of an abort is one only if *)
(* there was no signal to abort.                                            *)
CompletionInv ==
    /\ ~Settled => completions = <<>>
    /\ userAborted => opts.signal # NoError
    /\ CompletionIsTruthful
    /\ CoveredPathsComplete

(* Every step keeps the completion hooks for the end of the call.           *)
LEMMA CompletionInvariant == Spec => []CompletionInv
<1>1. Init => CompletionInv
  BY DEF Init, CompletionInv, CompletionIsTruthful, CoveredPathsComplete, Settled
<1>2. TypeInv /\ CompletionInv /\ [Next]_vars => CompletionInv'
  <2> SUFFICES ASSUME TypeInv, CompletionInv, [Next]_vars
               PROVE  CompletionInv'
    OBVIOUS
  <2> USE OptionFacts DEF CompletionInv, CompletionIsTruthful, CoveredPathsComplete, Settled,
                          TypeInv, LoopInv, ValueInv, UserReasons, NoError, signals, carried, counts
  <2>1. CASE Start
    BY <2>1 DEF Start, HookThrows, Reject, Goto
  <2>2. CASE RunDefer
    BY <2>2 DEF RunDefer, HookThrows, Reject, Goto
  <2>3. CASE BeforeRequest
    <3>1. CASE Dispatch(FALSE)
               /\ UNCHANGED <<opts, attempt, signals, delayed, reply, response, errorOf, completions>>
      <4>1. PICK fresh \in BOOLEAN : ~fresh /\ Dispatch(fresh)
        BY <3>1
      <4>. QED
        BY <2>3, <3>1, <4>1, DispatchFacts
           DEF BeforeRequest, BuildAttemptSignal, HasSignal, Send, signals, NoError
    <3>2. CASE HookThrows
      BY <2>3, <3>2 DEF BeforeRequest, HookThrows, Reject
    <3>3. CASE /\ reply' \in HookResponses
               /\ Goto("finalize")
               /\ UNCHANGED <<opts, attempt, hops, override, signals, carried, delayed, response,
                              errorOf, err, completions, counts>>
      BY <2>3, <3>3 DEF BeforeRequest, Goto, signals, carried, counts
    <3>. QED
      BY <2>3, <3>1, <3>2, <3>3 DEF BeforeRequest
  <2>4. CASE DriverAborts
    BY <2>4 DEF DriverAborts, TransportFails, MapTransportError, Reason, Goto
  <2>5. CASE BeforeRedirect
    BY <2>5 DEF BeforeRedirect, Send, TransportFails, MapTransportError, Reason, Goto
  <2>6. CASE Decide
    BY <2>6 DEF Decide, CanRetryError, Backoff, Reject, Goto
  <2>7. CASE AfterResponse
    BY <2>7 DEF AfterResponse, RetriesResponse, HookThrows, Reject, Goto
  <2>8. CASE ParseForRetry
    <3>1. \A failure \in ReadOutcomes(reply) :
             /\ failure \notin {"HTTPError", "NetworkError"}
             /\ failure = "TimeoutError" => opts.bodyTimeout
      BY FailureFacts
    <3>. QED
      BY <2>8, <3>1 DEF ParseForRetry, Reject, Goto
  <2>9. CASE ShouldRetry
    BY <2>9 DEF ShouldRetry, Backoff, HookThrows, Reject, Goto
  <2>10. CASE SleepAborts
    BY <2>10 DEF SleepAborts, SleepAborted, Reject
  <2>11. CASE SleepEnds
    BY <2>11 DEF SleepEnds, Reject, Goto
  <2>12. CASE BeforeRetry
    <3>1. CASE \E fresh \in BOOLEAN : Dispatch(fresh)
               /\ UNCHANGED <<opts, attempt, signals, delayed, reply, response, errorOf, completions>>
      <4>1. PICK fresh \in BOOLEAN : Dispatch(fresh)
        BY <3>1
      <4>. QED
        BY <2>12, <3>1, <4>1, DispatchFacts
           DEF BeforeRetry, BuildAttemptSignal, HasSignal, Send, signals, NoError
    <3>2. CASE ~\E fresh \in BOOLEAN : Dispatch(fresh)
      BY <2>12, <3>2 DEF BeforeRetry, HookThrows, Reject, Goto, counts, signals
    <3>. QED
      BY <2>12, <3>1, <3>2 DEF BeforeRetry, HookThrows, Reject, Goto
  <2>13. CASE Finalize
    BY <2>13 DEF Finalize, Goto
  <2>14. CASE Validate
    BY <2>14 DEF Validate, Verdicts, HookThrows, Reject, Goto
  <2>15. CASE BeforeError
    BY <2>15 DEF BeforeError, HookThrows, Reject, Goto
  <2>16. CASE Complete
    <3>1. completions = <<>>
      BY <2>16 DEF Complete
    <3>2. PICK report : completions' = <<report>>
          /\ report.error = err
          /\ err = NoError => report.response = reply
      BY <2>16, <3>1 DEF Complete
    <3>3. Len(<<report>>) = 1 /\ <<report>>[1] = report
      OBVIOUS
    <3>. QED
      BY <2>16, <3>2, <3>3 DEF Complete, Reject
  <2>17. CASE DriverFails
    BY <2>17 DEF DriverFails, OwnReasons, TransportFails, MapTransportError, Reason, Goto
  <2>18. ASSUME NEW r \in DriverResponses, DriverResponds(r)
        PROVE  CompletionInv'
    BY <2>18 DEF DriverResponds, FollowRedirect, Refusals, TooManyHops, Receive, Reject,
           TransportFails, MapTransportError, Reason, Goto
  <2>19. CASE TotalFires
    BY <2>19 DEF TotalFires
  <2>20. CASE AttemptTimesOut
    BY <2>20 DEF AttemptTimesOut
  <2>21. CASE UserAborts
    BY <2>21 DEF UserAborts
  <2>22. CASE Terminated
    BY <2>22 DEF Terminated, vars
  <2>23. CASE UNCHANGED vars
    BY <2>23 DEF vars
  <2>. QED
    BY <2>1, <2>2, <2>3, <2>4, <2>5, <2>6, <2>7, <2>8, <2>9, <2>10, <2>11, <2>12, <2>13,
       <2>14, <2>15, <2>16, <2>17, <2>18, <2>19, <2>20, <2>21, <2>22, <2>23
       DEF Next, CallStep, DriverStep, TimerStep
<1>. QED
  BY TypeInvariant, <1>1, <1>2, PTL DEF Spec

(* For every call: the onComplete hooks run at most once, and are told what *)
(* the caller is told (runBeforeError, runOnComplete).                      *)
THEOREM CompletionsAreTruthful == Spec => []CompletionIsTruthful
<1>1. TypeInv /\ CompletionInv => CompletionIsTruthful
  BY DEF CompletionInv
<1>. QED
  BY TypeInvariant, CompletionInvariant, <1>1, PTL

(* For every call: one that resolves, or rejects with HTTPError,            *)
(* NetworkError or a TimeoutError that is not the body timeout's, has run   *)
(* the onComplete hooks (runOnComplete).                                    *)
THEOREM CoveredPathsAreComplete == Spec => []CoveredPathsComplete
<1>1. TypeInv /\ CompletionInv => CoveredPathsComplete
  BY DEF CompletionInv
<1>. QED
  BY TypeInvariant, CompletionInvariant, <1>1, PTL

-----------------------------------------------------------------------------
(* How many requests the driver is given: maxHops + 1 of them an attempt.   *)
Budget(attempts, maxHops) == attempts * (maxHops + 1)

(* One more attempt adds maxHops + 1, and the budget grows with attempts.   *)
LEMMA BudgetFacts ==
  ASSUME NEW n \in Nat, NEW limit \in Nat, NEW maxHops \in Nat
  PROVE  /\ Budget(n, maxHops) \in Nat
         /\ Budget(n + 1, maxHops) = Budget(n, maxHops) + maxHops + 1
         /\ n <= limit => Budget(n, maxHops) <= Budget(limit, maxHops)
<1> DEFINE M == maxHops + 1
<1>1. M \in Nat /\ n * M \in Nat
  OBVIOUS
<1>2. (n + 1) * M = n * M + M
  OBVIOUS
<1>3. ASSUME n <= limit
      PROVE  n * M <= limit * M
  <2>1. PICK rest \in Nat : limit = n + rest
    BY <1>3
  <2>2. limit * M = n * M + rest * M /\ rest * M \in Nat /\ limit * M \in Nat
    BY <2>1
  <2>. HIDE DEF M
  <2>. QED
    BY <1>1, <2>2
<1>. QED
  BY <1>1, <1>2, <1>3 DEF Budget

(* The attempt at hand adds one request for each redirect it has followed,  *)
(* and one for its first.                                                   *)
SendsInv ==
    LET Earlier == Budget(attempt, opts.maxHops)
    IN  /\ sends <= Earlier + opts.maxHops + 1
        /\ pc \in {"start", "defer", "beforeRequest", "backoff", "beforeRetry"} => sends <= Earlier
        /\ pc = "driver" => sends <= Earlier + hops + 1
        /\ pc = "redirect" => sends <= Earlier + hops

(* Every step keeps the requests sent within the budget of its attempt.     *)
LEMMA SendsInvariant == Spec => []SendsInv
<1>1. Init => SendsInv
  <2> SUFFICES ASSUME Init PROVE SendsInv
    OBVIOUS
  <2>1. opts.maxHops \in Nat /\ 0 \in Nat
    BY OptionFacts DEF Init
  <2>2. Budget(0, opts.maxHops) \in Nat
    BY <2>1, BudgetFacts
  <2>. QED
    BY <2>1, <2>2 DEF Init, SendsInv
<1>2. TypeInv /\ SendsInv /\ [Next]_vars => SendsInv'
  <2> SUFFICES ASSUME TypeInv, SendsInv, [Next]_vars
               PROVE  SendsInv'
    OBVIOUS
  <2>0. /\ Budget(attempt, opts.maxHops) \in Nat
        /\ Budget(attempt + 1, opts.maxHops) = Budget(attempt, opts.maxHops) + opts.maxHops + 1
    <3>1. attempt \in Nat /\ opts.maxHops \in Nat
      BY OptionFacts DEF TypeInv, LoopInv, ValueInv
    <3>. QED
      BY <3>1, BudgetFacts
  <2>a. /\ attempt \in Nat /\ hops \in Nat /\ sends \in Nat /\ opts.maxHops \in Nat
        /\ pc \in {"driver", "redirect"} => hops <= opts.maxHops
    BY OptionFacts DEF TypeInv, LoopInv, ValueInv
  <2> USE <2>0, <2>a DEF SendsInv, signals, carried, counts
  <2>1. CASE Start
    BY <2>1 DEF Start, HookThrows, Reject, Goto
  <2>2. CASE RunDefer
    BY <2>2 DEF RunDefer, HookThrows, Reject, Goto
  <2>3. CASE BeforeRequest
    <3>1. CASE Dispatch(FALSE)
               /\ UNCHANGED <<opts, attempt, signals, delayed, reply, response, errorOf, completions>>
      <4>1. PICK fresh \in BOOLEAN : ~fresh /\ Dispatch(fresh)
        BY <3>1
      <4>. QED
        BY <2>3, <3>1, <4>1, DispatchFacts
           DEF BeforeRequest, BuildAttemptSignal, HasSignal, Send, signals, NoError
    <3>2. CASE HookThrows
      BY <2>3, <3>2 DEF BeforeRequest, HookThrows, Reject
    <3>3. CASE /\ reply' \in HookResponses
               /\ Goto("finalize")
               /\ UNCHANGED <<opts, attempt, hops, override, signals, carried, delayed, response,
                              errorOf, err, completions, counts>>
      BY <2>3, <3>3 DEF BeforeRequest, Goto, signals, carried, counts
    <3>. QED
      BY <2>3, <3>1, <3>2, <3>3 DEF BeforeRequest
  <2>4. CASE DriverAborts
    BY <2>4 DEF DriverAborts, TransportFails, MapTransportError, Reason, Goto
  <2>5. CASE BeforeRedirect
    BY <2>5 DEF BeforeRedirect, Send, TransportFails, MapTransportError, Reason, Goto
  <2>6. CASE Decide
    BY <2>6 DEF Decide, CanRetryError, Backoff, Reject, Goto
  <2>7. CASE AfterResponse
    BY <2>7 DEF AfterResponse, RetriesResponse, HookThrows, Reject, Goto
  <2>8. CASE ParseForRetry
    BY <2>8 DEF ParseForRetry, Reject, Goto
  <2>9. CASE ShouldRetry
    BY <2>9 DEF ShouldRetry, Backoff, HookThrows, Reject, Goto
  <2>10. CASE SleepAborts
    BY <2>10 DEF SleepAborts, SleepAborted, Reject
  <2>11. CASE SleepEnds
    BY <2>11 DEF SleepEnds, Reject, Goto
  <2>12. CASE BeforeRetry
    <3>1. CASE \E fresh \in BOOLEAN : Dispatch(fresh)
               /\ UNCHANGED <<opts, attempt, signals, delayed, reply, response, errorOf, completions>>
      <4>1. PICK fresh \in BOOLEAN : Dispatch(fresh)
        BY <3>1
      <4>. QED
        BY <2>12, <3>1, <4>1, DispatchFacts
           DEF BeforeRetry, BuildAttemptSignal, HasSignal, Send, signals, NoError
    <3>2. CASE ~\E fresh \in BOOLEAN : Dispatch(fresh)
      BY <2>12, <3>2 DEF BeforeRetry, HookThrows, Reject, Goto, counts, signals
    <3>. QED
      BY <2>12, <3>1, <3>2 DEF BeforeRetry, HookThrows, Reject, Goto
  <2>13. CASE Finalize
    BY <2>13 DEF Finalize, Goto
  <2>14. CASE Validate
    BY <2>14 DEF Validate, Verdicts, HookThrows, Reject, Goto
  <2>15. CASE BeforeError
    BY <2>15 DEF BeforeError, HookThrows, Reject, Goto
  <2>16. CASE Complete
    BY <2>16 DEF Complete, Reject
  <2>17. CASE DriverFails
    BY <2>17 DEF DriverFails, OwnReasons, TransportFails, MapTransportError, Reason, Goto
  <2>18. ASSUME NEW r \in DriverResponses, DriverResponds(r)
        PROVE  SendsInv'
    BY <2>18 DEF DriverResponds, FollowRedirect, Refusals, TooManyHops, Receive, Reject,
           TransportFails, MapTransportError, Reason, Goto
  <2>19. CASE TotalFires
    BY <2>19 DEF TotalFires
  <2>20. CASE AttemptTimesOut
    BY <2>20 DEF AttemptTimesOut
  <2>21. CASE UserAborts
    BY <2>21 DEF UserAborts
  <2>22. CASE Terminated
    BY <2>22 DEF Terminated, vars
  <2>23. CASE UNCHANGED vars
    BY <2>23 DEF vars
  <2>. QED
    BY <2>1, <2>2, <2>3, <2>4, <2>5, <2>6, <2>7, <2>8, <2>9, <2>10, <2>11, <2>12, <2>13,
       <2>14, <2>15, <2>16, <2>17, <2>18, <2>19, <2>20, <2>21, <2>22, <2>23
       DEF Next, CallStep, DriverStep, TimerStep
<1>. QED
  BY TypeInvariant, <1>1, <1>2, PTL DEF Spec

(* For every call and every nesting of retries and redirects: the driver is *)
(* called at most (limit + 1) * (redirectMaxCount + 1) times (runWithRetry, *)
(* followRedirects).                                                        *)
THEOREM SendsStayBounded == Spec => []SendsAreBounded
<1>1. TypeInv /\ SendsInv => SendsAreBounded
  <2> SUFFICES ASSUME TypeInv, SendsInv
               PROVE  SendsAreBounded
    OBVIOUS
  <2>1. opts.limit \in Nat /\ opts.maxHops \in Nat /\ attempt \in Nat /\ attempt <= opts.limit
    BY OptionFacts DEF TypeInv, LoopInv, ValueInv
  <2>2. Budget(attempt, opts.maxHops) \in Nat /\ Budget(opts.limit, opts.maxHops) \in Nat
    BY <2>1, BudgetFacts
  <2>3. Budget(attempt, opts.maxHops) <= Budget(opts.limit, opts.maxHops)
    BY <2>1, BudgetFacts
  <2>4. Budget(opts.limit + 1, opts.maxHops) = Budget(opts.limit, opts.maxHops) + opts.maxHops + 1
    BY <2>1, BudgetFacts
  <2>5. sends <= Budget(attempt, opts.maxHops) + opts.maxHops + 1
    BY DEF SendsInv
  <2>6. sends <= Budget(opts.limit + 1, opts.maxHops)
    BY <2>1, <2>2, <2>3, <2>4, <2>5 DEF TypeInv, LoopInv, ValueInv
  <2>. QED
    BY <2>6 DEF Budget, SendsAreBounded
<1>. QED
  BY TypeInvariant, SendsInvariant, <1>1, PTL
=============================================================================
