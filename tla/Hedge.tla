-------------------------------- MODULE Hedge --------------------------------
(***************************************************************************)
(* hedge, src/src/hedge/index.ts: the loop of launch, which waits between  *)
(* two endpoints and, only after the last wait, for the first success; and *)
(* the attempts, which settle in any order meanwhile.                      *)
(***************************************************************************)
EXTENDS Integers

CONSTANT N          \* endpoints, at most max of them

HedgeAssumption == N \in Nat \ {0}

VARIABLES
    delayed,        \* delayMs > 0
    pc,
    launched,       \* endpoints dispatched so far
    state,          \* of the attempt at each endpoint
    stopped,        \* attempts whose own signal has aborted
    winner,         \* the attempt that set `settled', 0 before
    aborted         \* options.signal

vars == <<delayed, pc, launched, state, stopped, winner, aborted>>

Endpoints == 1..N
Ended == pc \in {"returned", "rejected"}

TypeOK ==
    /\ delayed \in BOOLEAN
    /\ pc \in {"launch", "delay", "any", "returned", "rejected"}
    /\ launched \in 0..N
    /\ state \in [Endpoints -> {"idle", "flying", "won", "lost", "failed", "cancelled"}]
    /\ stopped \subseteq Endpoints
    /\ winner \in 0..N
    /\ aborted \in BOOLEAN

Init ==
    /\ delayed \in BOOLEAN
    /\ pc = "launch"
    /\ launched = 0
    /\ state = [i \in Endpoints |-> "idle"]
    /\ stopped = {}
    /\ winner = 0
    /\ aborted = FALSE

-----------------------------------------------------------------------------

\* The loop from one await of launch to the next: one endpoint, or, without
\* a delay, all of them.
LaunchNext ==
    LET last == IF delayed THEN launched + 1 ELSE N IN
    /\ launched' = last
    /\ state' = [i \in Endpoints |-> IF i \in launched + 1 .. last THEN "flying" ELSE state[i]]
    /\ pc' = IF last < N THEN "delay" ELSE "any"

Launch ==
    /\ pc = "launch"
    /\ LaunchNext
    /\ UNCHANGED <<delayed, stopped, winner, aborted>>

\* Faulty variant of DelayEnds: `settled' is not looked at.
DelayEndsUnchecked ==
    /\ pc = "delay"
    /\ LaunchNext
    /\ UNCHANGED <<delayed, stopped, winner, aborted>>

DelayEnds ==
    /\ pc = "delay"
    /\ IF winner = 0 THEN LaunchNext
       ELSE pc' = "any" /\ UNCHANGED <<delayed, launched, state>>
    /\ UNCHANGED <<delayed, stopped, winner, aborted>>

\* The listener of the delay; it is not there outside a delay, and a signal
\* that aborted before the delay does not end it.
AbortDelay ==
    /\ pc = "delay" /\ ~aborted
    /\ aborted' = TRUE
    /\ pc' = "rejected"
    /\ UNCHANGED <<delayed, launched, state, stopped, winner>>

Abort ==
    /\ pc \in {"launch", "any"} /\ ~aborted
    /\ aborted' = TRUE
    /\ UNCHANGED <<delayed, pc, launched, state, stopped, winner>>

\* The signal an attempt was given.
Signalled(i) == aborted \/ i \in stopped

AttemptSucceeds(i) ==
    /\ state[i] = "flying"
    /\ IF winner = 0
       THEN /\ winner' = i
            /\ state' = [state EXCEPT ![i] = "won"]
            /\ stopped' = stopped \cup (1..launched \ {i})
       ELSE /\ state' = [state EXCEPT ![i] = "lost"]
            /\ UNCHANGED <<delayed, winner, stopped>>
    /\ UNCHANGED <<delayed, pc, launched, aborted>>

AttemptFails(i) ==
    /\ state[i] = "flying"
    /\ state' = [state EXCEPT ![i] = IF Signalled(i) THEN "cancelled" ELSE "failed"]
    /\ UNCHANGED <<delayed, pc, launched, stopped, winner, aborted>>

\* Promise.any over the attempts that were launched.
Resolve ==
    /\ pc = "any"
    /\ \/ winner # 0 /\ pc' = "returned"
       \/ /\ \A i \in 1..launched : state[i] \in {"failed", "cancelled", "lost"}
          /\ pc' = "rejected"
    /\ UNCHANGED <<delayed, launched, state, stopped, winner, aborted>>

Step == Launch \/ DelayEnds \/ Resolve
Cancelled(i) == Signalled(i) /\ AttemptFails(i)

Next ==
    \/ Step \/ AbortDelay \/ Abort
    \/ \E i \in Endpoints : AttemptSucceeds(i) \/ AttemptFails(i)

\* Timers fire and reactions run; nothing makes an endpoint answer, unless
\* its signal has aborted.
Fairness ==
    /\ WF_vars(Step)
    /\ \A i \in Endpoints : WF_vars(Cancelled(i))

Spec == Init /\ [][Next]_vars /\ Fairness

-----------------------------------------------------------------------------

(* Once the caller has its answer, of either kind, every attempt still      *)
(* under way has been told to stop, those launched after a long delay       *)
(* included (losers, composeOptional, the check after the delay).           *)
NoAttemptLeftRunning ==
    Ended => \A i \in Endpoints : state[i] = "flying" => Signalled(i)

(* The caller is refused only if every endpoint failed or the caller itself *)
(* aborted: no endpoint that is yet to be tried is given up for the failure *)
(* of another (Promise.any).                                                *)
RefusedOnlyByAll ==
    pc = "rejected" => aborted \/ \A i \in Endpoints : state[i] = "failed"

(* An answer is handed on, at the latest when the delay that was running    *)
(* ends, unless the caller aborts during that delay.                        *)
WinnerIsReturned == winner # 0 ~> pc = "returned" \/ aborted
=============================================================================
