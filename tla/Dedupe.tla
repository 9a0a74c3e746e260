------------------------------- MODULE Dedupe -------------------------------
(***************************************************************************)
(* The dedupe plugin, src/src/dedupe/index.ts: calls with the same method  *)
(* and url that overlap share one request.  dedupedRequest runs without a  *)
(* pause.  When the underlying request settles, its three reactions run in *)
(* the order they were registered: `tracked', the finally that deletes the *)
(* entry of the map, and the caller's own; those of the callers that       *)
(* joined are queued by the first, and so come last.                       *)
(***************************************************************************)
CONSTANTS
    Calls,
    Keys,
    KeyOf,          \* computeKey of every call
    Deduped,        \* the calls whose method is in opts.methods
    NoCall,
    Outcomes,       \* how an underlying request may settle
    Unsettled

\* What the constants must be; AuthedClient assumes it of its own.
DedupeAssumption ==
    /\ KeyOf \in [Calls -> Keys]
    /\ Deduped \subseteq Calls
    /\ NoCall \notin Calls
    /\ Unsettled \notin Outcomes

VARIABLES
    inflight,       \* the Map: the call whose request is under way, by key
    waitsOn,        \* the call whose request a call waits for
    settled,        \* how the request of a call settled
    forgotten,      \* the calls whose finally has run
    received        \* what a caller was given

vars == <<inflight, waitsOn, settled, forgotten, received>>

TypeOK ==
    /\ inflight \in [Keys -> Calls \cup {NoCall}]
    /\ waitsOn \in [Calls -> Calls \cup {NoCall}]
    /\ settled \in [Calls -> Outcomes \cup {Unsettled}]
    /\ forgotten \subseteq Deduped
    /\ received \in [Calls -> Outcomes \cup {Unsettled}]

Init ==
    /\ inflight = [k \in Keys |-> NoCall]
    /\ waitsOn = [c \in Calls |-> NoCall]
    /\ settled = [c \in Calls |-> Unsettled]
    /\ forgotten = {}
    /\ received = [c \in Calls |-> Unsettled]

-----------------------------------------------------------------------------
(* dedupedRequest, its three ways out.                                      *)

\* The method is not to be deduplicated.
Bypass(c) ==
    /\ waitsOn[c] = NoCall
    /\ c \notin Deduped
    /\ waitsOn' = [waitsOn EXCEPT ![c] = c]
    /\ UNCHANGED <<inflight, settled, forgotten, received>>

Join(c) ==
    /\ waitsOn[c] = NoCall
    /\ c \in Deduped
    /\ inflight[KeyOf[c]] # NoCall
    /\ waitsOn' = [waitsOn EXCEPT ![c] = inflight[KeyOf[c]]]
    /\ UNCHANGED <<inflight, settled, forgotten, received>>

\* Faulty variant of Lead: the map is not looked at.
LeadAlways(c) ==
    /\ waitsOn[c] = NoCall
    /\ c \in Deduped
    /\ inflight' = [inflight EXCEPT ![KeyOf[c]] = c]
    /\ waitsOn' = [waitsOn EXCEPT ![c] = c]
    /\ UNCHANGED <<settled, forgotten, received>>

Lead(c) ==
    /\ waitsOn[c] = NoCall
    /\ c \in Deduped
    /\ inflight[KeyOf[c]] = NoCall
    /\ inflight' = [inflight EXCEPT ![KeyOf[c]] = c]
    /\ waitsOn' = [waitsOn EXCEPT ![c] = c]
    /\ UNCHANGED <<settled, forgotten, received>>

-----------------------------------------------------------------------------
(* The underlying request and its reactions.                                *)

InProgress(c) == waitsOn[c] = c /\ settled[c] = Unsettled

Settle(c, o) ==
    /\ InProgress(c)
    /\ settled' = [settled EXCEPT ![c] = o]
    /\ UNCHANGED <<inflight, waitsOn, forgotten, received>>

\* Faulty variant of Forget: the entry is deleted on success only (a then
\* in place of the finally).
ForgetSuccess(c) ==
    /\ waitsOn[c] = c
    /\ settled[c] # Unsettled
    /\ c \in Deduped \ forgotten
    /\ inflight' = [inflight EXCEPT ![KeyOf[c]] = IF settled[c] = "ok" THEN NoCall ELSE @]
    /\ forgotten' = forgotten \cup {c}
    /\ UNCHANGED <<waitsOn, settled, received>>

\* Faulty variant of Forget: the finally is put on every request.
ForgetAny(c) ==
    /\ waitsOn[c] = c
    /\ settled[c] # Unsettled
    /\ c \notin forgotten
    /\ inflight' = [inflight EXCEPT ![KeyOf[c]] = NoCall]
    /\ forgotten' = forgotten \cup {c}
    /\ UNCHANGED <<waitsOn, settled, received>>

\* The finally: whatever the entry of the key is, it is deleted.
Forget(c) ==
    /\ waitsOn[c] = c
    /\ settled[c] # Unsettled
    /\ c \in Deduped \ forgotten
    /\ inflight' = [inflight EXCEPT ![KeyOf[c]] = NoCall]
    /\ forgotten' = forgotten \cup {c}
    /\ UNCHANGED <<waitsOn, settled, received>>

\* The promise a call was given settles as the request it waits for did.
Deliver(c) ==
    /\ waitsOn[c] # NoCall
    /\ received[c] = Unsettled
    /\ settled[waitsOn[c]] # Unsettled
    /\ waitsOn[c] \in Deduped => waitsOn[c] \in forgotten
    /\ received' = [received EXCEPT ![c] = settled[waitsOn[c]]]
    /\ UNCHANGED <<inflight, waitsOn, settled, forgotten>>

Next ==
    \E c \in Calls :
        \/ Bypass(c) \/ Join(c) \/ Lead(c)
        \/ \E o \in Outcomes : Settle(c, o)
        \/ Forget(c) \/ Deliver(c)

Spec == Init /\ [][Next]_vars

-----------------------------------------------------------------------------
(* What it implements.                                                      *)

Flights == INSTANCE SingleFlight WITH
    Callers <- Deduped,
    NoCaller <- NoCall,
    NoOutcome <- Unsettled,
    flight <- [c \in Deduped |-> waitsOn[c]],
    outcome <- [c \in Deduped |-> settled[c]],
    answer <- [c \in Deduped |-> received[c]]

(* The calls that are deduplicated share requests as SingleFlight promises: *)
(* one request of a key at a time, its outcome for everyone who joined it,  *)
(* its rejection included, and none who joins after it was handed out       *)
(* (dedupedRequest).                                                        *)
SharesFlights == Flights!Spec
=============================================================================
