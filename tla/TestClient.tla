------------------------------ MODULE TestClient ------------------------------
(***************************************************************************)
(* record, replayFromJSON and createTestMisina, src/src/test/index.ts: a   *)
(* client records what a service answers, then a test client whose routes  *)
(* end in a replay handler is asked the same.  A request is known by its   *)
(* method and url, an answer by its number.                                *)
(***************************************************************************)
EXTENDS Integers, Sequences, SequencesExt

CONSTANTS
    Requests,       \* method and url
    Routes,         \* the requests each pattern matches, in order
    Strict,
    Consume,        \* consume of replayFromJSON
    MaxCalls        \* bound, for each of the two phases

TestClientAssumption ==
    /\ Routes \in Seq(SUBSET Requests)
    /\ Strict \in BOOLEAN /\ Consume \in BOOLEAN
    /\ MaxCalls \in Nat

VARIABLES
    phase,
    asked,          \* the calls of the recording client, as they were made
    recorded,       \* calls of record, later the cassette: [request, answer]
    used,           \* slots of the cassette
    played,         \* the calls of the test client, as they were made
    calls, unmatched,   \* of createTestMisina, as places in played
    matchedPatterns,
    crossed         \* requests of which two calls were ever under way at once

vars == <<phase, asked, recorded, used, played, calls, unmatched, matchedPatterns, crossed>>
recorder == <<asked, recorded>>
player == <<used, played, calls, unmatched, matchedPatterns>>

\* answer: a number, or what became of the call.
Pending == 0
Failed == -1
Refused == -2
NotFound == -3
Call == [request : Requests, answer : Int]

TypeOK ==
    /\ phase \in {"record", "replay"}
    /\ {asked, recorded, played} \subseteq Seq(Call)
    /\ used \subseteq DOMAIN recorded
    /\ \A i \in DOMAIN calls : calls[i] \in DOMAIN played
    /\ ToSet(unmatched) \subseteq ToSet(calls)
    /\ matchedPatterns \subseteq DOMAIN Routes
    /\ crossed \subseteq Requests

Init ==
    /\ phase = "record"
    /\ asked = <<>> /\ recorded = <<>>
    /\ used = {}
    /\ played = <<>> /\ calls = <<>> /\ unmatched = <<>>
    /\ matchedPatterns = {}
    /\ crossed = {}

-----------------------------------------------------------------------------
(* record.                                                                  *)

UnderWay(log, r) == \E i \in DOMAIN log : log[i] = [request |-> r, answer |-> Pending]

Made(log, r) ==
    /\ Len(log) < MaxCalls
    /\ crossed' = crossed \cup (IF UnderWay(log, r) THEN {r} ELSE {})

Ask(r) ==
    /\ phase = "record"
    /\ Made(asked, r)
    /\ asked' = Append(asked, [request |-> r, answer |-> Pending])
    /\ UNCHANGED <<phase, recorded, player>>

\* afterResponse: the pair is kept when the response is there.
Answer(i) ==
    /\ phase = "record" /\ asked[i].answer = Pending
    /\ asked' = [asked EXCEPT ![i].answer = i]
    /\ recorded' = Append(recorded, asked'[i])
    /\ UNCHANGED <<phase, player, crossed>>

\* Without a response the hook does not run.
Fail(i) ==
    /\ phase = "record" /\ asked[i].answer = Pending
    /\ asked' = [asked EXCEPT ![i].answer = Failed]
    /\ UNCHANGED <<phase, recorded, player, crossed>>

\* recordToJSON and replayFromJSON.
Replay ==
    /\ phase = "record"
    /\ \A r \in Requests : ~UnderWay(asked, r)
    /\ phase' = "replay"
    /\ UNCHANGED <<recorder, player, crossed>>

-----------------------------------------------------------------------------
(* createTestMisina with the replay handler behind every route.             *)

Play(r) ==
    /\ phase = "replay"
    /\ Made(played, r)
    /\ played' = Append(played, [request |-> r, answer |-> Pending])
    /\ UNCHANGED <<phase, recorder, used, calls, unmatched, matchedPatterns>>

\* Faulty variant of Slots: an entry that was used is found again.
SlotsUsedToo(r) == {s \in DOMAIN recorded : recorded[s].request = r}

\* The default matcher.
Slots(r) == {s \in DOMAIN recorded : recorded[s].request = r /\ (Consume => s \notin used)}

First(S) == CHOOSE s \in S : \A t \in S : s <= t

Matching(r) == {m \in DOMAIN Routes : r \in Routes[m]}

\* The handler of the driver after it has read the body: from there to the
\* answer of a replay route nothing is awaited.
Handle(i) ==
    LET r == played[i].request IN
    /\ phase = "replay" /\ played[i].answer = Pending
    /\ calls' = Append(calls, i)
    /\ IF Matching(r) = {}
       THEN /\ unmatched' = Append(unmatched, i)
            /\ played' = [played EXCEPT ![i].answer = IF Strict THEN Refused ELSE NotFound]
            /\ UNCHANGED <<matchedPatterns, used>>
       ELSE /\ matchedPatterns' = matchedPatterns \cup {First(Matching(r))}
            /\ IF Slots(r) = {}
               THEN /\ played' = [played EXCEPT ![i].answer = Refused]
                    /\ UNCHANGED used
               ELSE /\ played' = [played EXCEPT ![i].answer = recorded[First(Slots(r))].answer]
                    /\ used' = used \cup {First(Slots(r))}
            /\ UNCHANGED unmatched
    /\ UNCHANGED <<phase, recorder, crossed>>

\* reset may come between the call and its handler; the cassette is not
\* rewound.
Reset ==
    /\ phase = "replay" /\ calls # <<>>
    /\ calls' = <<>> /\ unmatched' = <<>> /\ matchedPatterns' = {}
    /\ UNCHANGED <<phase, recorder, used, played, crossed>>

Next ==
    \/ \E r \in Requests : Ask(r) \/ Play(r)
    \/ \E i \in DOMAIN asked : Answer(i) \/ Fail(i)
    \/ \E i \in DOMAIN played : Handle(i)
    \/ Replay
    \/ Reset

Spec == Init /\ [][Next]_vars

-----------------------------------------------------------------------------

\* The answers the recording had for the request of a call, and what of them
\* no call before it was given.
Recorded(r) == {j \in DOMAIN asked : asked[j].request = r /\ asked[j].answer # Failed}
Given(i) == {played[h].answer : h \in {h \in 1..i - 1 : played[h].request = played[i].request}}
Left(i) == Recorded(played[i].request) \ Given(i)

(* A request that was never made twice at once, in the recording or in the  *)
(* test, is answered in the test as it was in the recording, call by call,  *)
(* failures left out: a call gets the first answer that no call before it   *)
(* was given, and is refused only when there is none left; other requests,  *)
(* whatever their order, do not disturb that (record, replayFromJSON).      *)
ReplayRepeatsRecording ==
    phase = "replay" /\ Consume => \A i \in DOMAIN played :
        played[i].request \notin crossed /\ Matching(played[i].request) # {} =>
            played[i].answer \in {Pending, IF Left(i) = {} THEN Refused ELSE First(Left(i))}

(* What the test is told adds up at any moment, whatever reset came between *)
(* a call and its answer: a call is unmatched, or a pattern that matches it *)
(* is; and no pattern is matched without a call (coverage).                 *)
CoverageAddsUp ==
    /\ \A i \in ToSet(calls) \ ToSet(unmatched) :
        Matching(played[i].request) \cap matchedPatterns # {}
    /\ \A m \in matchedPatterns : \E i \in ToSet(calls) : played[i].request \in Routes[m]
=============================================================================
