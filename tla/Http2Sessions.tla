---------------------------- MODULE Http2Sessions ----------------------------
(***************************************************************************)
(* The sessions of the HTTP/2 driver, src/src/driver/http2.ts, for one     *)
(* origin: the map and the idle timers are keyed by origin and never mix   *)
(* two.  A session is named by the request that connects it.  node:http2   *)
(* is external: close() lets streams end, destroy() fails them, and the    *)
(* close event, which the driver listens for, comes later than either.     *)
(***************************************************************************)
CONSTANTS
    Requests,
    NoSession

Http2Assumption == NoSession \notin Requests

VARIABLES
    cached,         \* the session in the Map, NoSession without one
    timer,          \* an idle timer is set
    session,        \* state of every session
    phase,          \* where a request is
    uses,           \* the session getSession returned to it
    overlapped      \* a session was connected before the last one had ended

vars == <<cached, timer, session, phase, uses, overlapped>>

SessionStates == {"none", "open", "closing", "destroyed", "ended"}
Phases == {"idle", "connecting", "ready", "streaming", "done", "failed", "aborted"}

TypeOK ==
    /\ cached \in Requests \cup {NoSession}
    /\ timer \in BOOLEAN
    /\ session \in [Requests -> SessionStates]
    /\ phase \in [Requests -> Phases]
    /\ uses \in [Requests -> Requests \cup {NoSession}]
    /\ overlapped \in BOOLEAN

Init ==
    /\ cached = NoSession
    /\ timer = FALSE
    /\ session = [r \in Requests |-> "none"]
    /\ phase = [r \in Requests |-> "idle"]
    /\ uses = [r \in Requests |-> NoSession]
    /\ overlapped = FALSE

-----------------------------------------------------------------------------
(* A request: three stretches of code between its awaits.                   *)

Usable(s) == s # NoSession /\ session[s] = "open"

\* getSession up to its await.
Reuse(r) ==
    /\ phase[r] = "idle"
    /\ Usable(cached)
    /\ uses' = [uses EXCEPT ![r] = cached]
    /\ timer' = TRUE
    /\ phase' = [phase EXCEPT ![r] = "ready"]
    /\ UNCHANGED <<cached, session, overlapped>>

FindNone(r) ==
    /\ phase[r] = "idle"
    /\ ~Usable(cached)
    /\ phase' = [phase EXCEPT ![r] = "connecting"]
    /\ UNCHANGED <<cached, timer, session, uses, overlapped>>

\* getSession after its await: the map is not looked at again.
Connect(r) ==
    /\ phase[r] = "connecting"
    /\ session' = [session EXCEPT ![r] = "open"]
    /\ cached' = r
    /\ timer' = TRUE
    /\ uses' = [uses EXCEPT ![r] = r]
    /\ phase' = [phase EXCEPT ![r] = "ready"]
    /\ overlapped' = (overlapped \/ \E s \in Requests : session[s] \notin {"none", "ended"})

\* session.request after the body has been read: it throws on a session
\* that has been closed meanwhile; a signal that has aborted rejects.
OpenStream(r, p) ==
    /\ phase[r] = "ready"
    /\ \/ session[uses[r]] = "open" /\ p \in {"streaming", "aborted"}
       \/ session[uses[r]] # "open" /\ p = "failed"
    /\ phase' = [phase EXCEPT ![r] = p]
    /\ UNCHANGED <<cached, timer, session, uses, overlapped>>

StreamSettles(r, p) ==
    /\ phase[r] = "streaming"
    /\ p \in {"done", "failed", "aborted"}
    /\ phase' = [phase EXCEPT ![r] = p]
    /\ UNCHANGED <<cached, timer, session, uses, overlapped>>

-----------------------------------------------------------------------------
(* The sessions.                                                            *)

\* The listener of goaway, close and error: it removes the entry of the
\* origin, whichever session that is.
Drop == cached' = NoSession /\ timer' = FALSE

Goaway(s) ==
    /\ session[s] = "open"
    /\ session' = [session EXCEPT ![s] = "closing"]
    /\ Drop
    /\ UNCHANGED <<phase, uses, overlapped>>

Streams(s) == {r \in Requests : phase[r] = "streaming" /\ uses[r] = s}

\* The connection breaks: error and close.
Breaks(s) ==
    /\ session[s] \in {"open", "closing"}
    /\ session' = [session EXCEPT ![s] = "ended"]
    /\ phase' = [r \in Requests |-> IF r \in Streams(s) THEN "failed" ELSE phase[r]]
    /\ Drop
    /\ UNCHANGED <<uses, overlapped>>

\* The close event of a session that was closed or destroyed.
Ends(s) ==
    /\ session[s] = "destroyed" \/ (session[s] = "closing" /\ Streams(s) = {})
    /\ session' = [session EXCEPT ![s] = "ended"]
    /\ Drop
    /\ UNCHANGED <<phase, uses, overlapped>>

\* Faulty variant of IdleFires: the entry goes, the session stays.
IdleFiresKeeping ==
    /\ timer
    /\ Drop
    /\ UNCHANGED <<session, phase, uses, overlapped>>

\* The idle timer: it does not look at the streams.
IdleFires ==
    /\ timer
    /\ Drop
    /\ session' = IF Usable(cached) THEN [session EXCEPT ![cached] = "closing"] ELSE session
    /\ UNCHANGED <<phase, uses, overlapped>>

Dispose ==
    /\ cached # NoSession
    /\ Drop
    /\ session' = [session EXCEPT ![cached] = "destroyed"]
    /\ phase' = [r \in Requests |-> IF r \in Streams(cached) THEN "failed" ELSE phase[r]]
    /\ UNCHANGED <<uses, overlapped>>

RequestStep(r) ==
    \/ Reuse(r) \/ FindNone(r) \/ Connect(r)
    \/ \E p \in Phases : OpenStream(r, p) \/ StreamSettles(r, p)

Next ==
    \/ \E r \in Requests : RequestStep(r)
    \/ \E s \in Requests : Goaway(s) \/ Breaks(s) \/ Ends(s)
    \/ IdleFires
    \/ Dispose

Spec == Init /\ [][Next]_vars

-----------------------------------------------------------------------------
(* A cached session always has an idle timer to close it, and a timer has a *)
(* session to close, after any order of goaway, close events, idle timers   *)
(* and dispose (bumpIdle, drop, dispose).                                   *)
EntriesExpire == timer <=> cached # NoSession

(* An open session that is not in the map, which nothing will ever close or *)
(* reuse, needs two sessions that overlap: two requests that both found     *)
(* none, or a session connected before the close event of the last one      *)
(* (getSession, drop).                                                      *)
OnlyOverlapOrphans ==
    ~overlapped => \A s \in Requests : session[s] = "open" => s = cached

(* What the head of the file says: an origin has one open session, beside   *)
(* those told to go away.  The code does not hold this: getSession does not *)
(* look at the map again after its await, and the close event of an old     *)
(* session drops the entry of a new one, so that another is opened (drop).  *)
OneSessionPerOrigin ==
    \A s, t \in Requests : session[s] = "open" /\ session[t] = "open" => s = t

=============================================================================
