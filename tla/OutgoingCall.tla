----------------------------- MODULE OutgoingCall -----------------------------
(***************************************************************************)
(* The Request objects of one call, from the hooks of request to the last  *)
(* attempt of runWithRetry, src/src/misina.ts: who replaces them, which    *)
(* Idempotency-Key they carry (applyIdempotencyKey), whose body is read,   *)
(* and the span that the otel plugin, src/src/otel/index.ts, keeps for one *)
(* of them.  Why an attempt fails is in RequestPipeline.                   *)
(***************************************************************************)
EXTENDS Integers, Sequences

CONSTANT MaxLimit   \* bound of retry.limit

OutgoingCallAssumption == MaxLimit \in Nat

VARIABLES
    pc,
    setup,          \* the options that matter here
    current,        \* ctx.request
    override,       \* userOverride, or NoRequest
    made,           \* requests made so far
    attempt,
    span,           \* the request the span is filed under, 0 without one
    ended,          \* times it has been ended
    sent,           \* what the driver was given
    replacedBy      \* who replaced the request, read by properties only

vars == <<pc, setup, current, override, made, attempt, span, ended, sent, replacedBy>>

\* A generated key is named by the Request it was generated for.
NoKey == 0
UserKey == 1

\* `used': the body has been read, or moved to another Request.
Request == [id : Nat, key : Nat, used : BOOLEAN]
NoRequest == [id |-> 0, key |-> NoKey, used |-> FALSE]

\* Not every method gets a key: payload is POST, PATCH or DELETE.  There is a
\* signal unless both timeouts are off and the caller brings none.
Setup == [payload : BOOLEAN, body : BOOLEAN, policy : BOOLEAN, limit : 0..MaxLimit,
          signal : BOOLEAN, otel : {"off", "inject", "plain"}]

TypeOK ==
    /\ pc \in {"otel", "hook", "snapshot", "attempt", "sent", "wait", "completing",
               "completed", "thrown"}
    /\ setup \in Setup
    /\ {current, override} \subseteq Request
    /\ made \in Nat /\ attempt \in 0..MaxLimit + 1
    /\ span \in 0..made /\ ended \in 0..1
    /\ \A i \in DOMAIN sent : sent[i] \in Request
    /\ replacedBy \subseteq {"hook", "key", "retry"}

\* After buildRequest.
Init ==
    /\ setup \in Setup
    /\ setup.body => setup.payload
    /\ pc = IF setup.otel = "off" THEN "hook" ELSE "otel"
    /\ \E key \in {NoKey, UserKey} : current = [id |-> 2, key |-> key, used |-> FALSE]
    /\ override = NoRequest
    /\ made = 2
    /\ attempt = 0
    /\ span = 0 /\ ended = 0
    /\ sent = <<>>
    /\ replacedBy = {}

-----------------------------------------------------------------------------

\* Faulty variant of StartSpan: the span is filed under the request it was
\* started for.
StartSpanFiledFirst ==
    /\ pc = "otel"
    /\ pc' = "hook"
    /\ IF setup.otel = "inject"
       THEN made' = made + 1 /\ current' = [current EXCEPT !.id = made']
       ELSE UNCHANGED <<made, current>>
    /\ span' = current.id
    /\ UNCHANGED <<setup, override, attempt, ended, sent, replacedBy>>

\* beforeRequest of otel: to add traceparent it makes a Request of its own.
StartSpan ==
    /\ pc = "otel"
    /\ pc' = "hook"
    /\ IF setup.otel = "inject"
       THEN made' = made + 1 /\ current' = [current EXCEPT !.id = made']
       ELSE UNCHANGED <<made, current>>
    /\ span' = current'.id
    /\ UNCHANGED <<setup, override, attempt, ended, sent, replacedBy>>

Replace(key, by) ==
    /\ made' = made + 1
    /\ current' = [id |-> made', key |-> key, used |-> FALSE]
    /\ replacedBy' = replacedBy \cup {by}

\* The user's beforeRequest hooks: nothing, a Request made of the current
\* one, perhaps with a key, a Response, or an error.
BeforeRequest ==
    /\ pc = "hook"
    /\ \/ pc' = "snapshot" /\ UNCHANGED <<made, current, replacedBy>>
       \/ pc' = "snapshot" /\ \E key \in {current.key, UserKey} : Replace(key, "hook")
       \/ pc' \in {"completing", "thrown"} /\ UNCHANGED <<made, current, replacedBy>>
    /\ UNCHANGED <<setup, override, attempt, span, ended, sent>>

NeedsKey == setup.policy /\ setup.payload /\ setup.limit > 0 /\ current.key = NoKey

\* applyIdempotencyKey, once.
Snapshot ==
    /\ pc = "snapshot"
    /\ pc' = "attempt"
    /\ IF NeedsKey THEN Replace(made + 1, "key") ELSE UNCHANGED <<made, current, replacedBy>>
    /\ UNCHANGED <<setup, override, attempt, span, ended, sent>>

\* The override is the same Request every time, where the original is cloned.
Spent == setup.body /\ override.used
Outgoing == IF override # NoRequest THEN override ELSE current

\* A driver reads the body of what it is given; without a signal that is the
\* override itself, and a driver may leave it alone.
Given(request) ==
    /\ sent' = Append(sent, request)
    /\ \/ override' = [override EXCEPT !.used = (override # NoRequest)]
       \/ ~setup.signal /\ UNCHANGED override

\* Faulty variant of Attempt: the key is made anew when an attempt needs it.
AttemptRekeyed ==
    /\ pc = "attempt"
    /\ pc' = "sent"
    /\ Given(IF setup.policy /\ Outgoing.key # UserKey
             THEN [Outgoing EXCEPT !.key = made + attempt] ELSE Outgoing)
    /\ UNCHANGED <<setup, current, made, attempt, span, ended, replacedBy>>

\* withSignal: a Request whose body has been used throws, outside the try,
\* if there is a signal.  Without one followRedirects may refuse it, inside
\* the try, an attempt that fails unsent, or hand it to the driver.
Attempt ==
    /\ pc = "attempt"
    /\ \/ Spent /\ setup.signal /\ pc' = "thrown" /\ UNCHANGED <<sent, override>>
       \/ Spent /\ ~setup.signal /\ pc' = "sent" /\ UNCHANGED <<sent, override>>
       \/ (Spent => ~setup.signal) /\ pc' = "sent" /\ Given(Outgoing)
    /\ UNCHANGED <<setup, current, made, attempt, span, ended, replacedBy>>

\* A response or a failure that is final, one that is retried, or a throw
\* on one of the ways that RequestPipeline tells apart.
Settle ==
    /\ pc = "sent"
    /\ \/ pc' \in {"completing", "thrown"} /\ UNCHANGED attempt
       \/ attempt < setup.limit /\ pc' = "wait" /\ attempt' = attempt + 1
    /\ UNCHANGED <<setup, current, override, made, span, ended, sent, replacedBy>>

\* The wait, and the user's beforeRetry hooks: nothing, a Request of their
\* own or made of ctx.request, a Response, or an error.
BeforeRetry ==
    /\ pc = "wait"
    /\ \/ pc' = "attempt" /\ UNCHANGED <<made, current, override, replacedBy>>
       \/ /\ pc' = "attempt"
          /\ \E key \in {NoKey, UserKey} \cup (IF Spent THEN {} ELSE {current.key}) : Replace(key, "retry")
          /\ override' = current'
       \/ pc' \in {"completing", "thrown"} /\ UNCHANGED <<made, current, override, replacedBy>>
    /\ UNCHANGED <<setup, attempt, span, ended, sent>>

\* onComplete of otel finds the span by ctx.request.
Complete ==
    /\ pc = "completing"
    /\ pc' = "completed"
    /\ ended' = IF span # 0 /\ span = current.id THEN ended + 1 ELSE ended
    /\ UNCHANGED <<setup, current, override, made, attempt, span, sent, replacedBy>>

Next ==
    StartSpan \/ BeforeRequest \/ Snapshot \/ Attempt \/ Settle \/ BeforeRetry \/ Complete

Spec == Init /\ [][Next]_vars

-----------------------------------------------------------------------------

(* Until a beforeRetry hook replaces the request, every attempt of a call   *)
(* carries the same Idempotency-Key, the caller's own or one made for the   *)
(* call, and carries one wherever the policy asks for it; and where there   *)
(* is a signal to add no attempt goes out with a body that has been read,   *)
(* whoever replaced the request (applyIdempotencyKey, withSignal).          *)
AttemptsAgree ==
    \A i, j \in DOMAIN sent :
        /\ "retry" \notin replacedBy =>
            /\ sent[i].key = sent[j].key
            /\ setup.policy /\ setup.payload /\ setup.limit > 0 => sent[i].key # NoKey
        /\ setup.signal => ~(setup.body /\ sent[i].used)

(* When the completion hooks have run, the span of a request that nobody    *)
(* replaced has been ended (the WeakMap of otel).                           *)
SpansEndUnlessReplaced ==
    pc = "completed" /\ span # 0 /\ replacedBy = {} => ended = 1

(* What the comment of otel says: every span that was started has been      *)
(* ended when the completion hooks have run.  The code does not hold this:  *)
(* the span is filed under a Request, and a later hook or the               *)
(* Idempotency-Key that misina adds itself puts another in its place.       *)
SpansEnd == pc = "completed" /\ span # 0 => ended = 1
=============================================================================
