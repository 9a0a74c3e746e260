---------------------------- MODULE SingleFlight ----------------------------
(***************************************************************************)
(* What sharing one execution among concurrent callers promises, however   *)
(* it is done.  Callers with the same key join one flight, named by the    *)
(* caller that started it.  At most one flight of a key is running; who    *)
(* joins it gets its outcome; and nobody joins a flight whose outcome has  *)
(* already been handed out, so that no caller is given an answer that was  *)
(* known before it asked.                                                  *)
(***************************************************************************)
CONSTANTS
    Callers,
    KeyOf,          \* the key of every caller
    NoCaller,
    Outcomes,
    NoOutcome

VARIABLES
    flight,         \* the flight a caller is on, NoCaller before it asks
    outcome,        \* how the flight a caller started ended
    answer          \* what a caller was given

vars == <<flight, outcome, answer>>

Running(d) == flight[d] = d /\ outcome[d] = NoOutcome

HandedOut(d) == \E c \in Callers : flight[c] = d /\ answer[c] # NoOutcome

Init ==
    /\ flight = [c \in Callers |-> NoCaller]
    /\ outcome = [c \in Callers |-> NoOutcome]
    /\ answer = [c \in Callers |-> NoOutcome]

Start(c) ==
    /\ flight[c] = NoCaller
    /\ \A d \in Callers : KeyOf[d] = KeyOf[c] => ~Running(d)
    /\ flight' = [flight EXCEPT ![c] = c]
    /\ UNCHANGED <<outcome, answer>>

Join(c, d) ==
    /\ flight[c] = NoCaller
    /\ flight[d] = d
    /\ KeyOf[d] = KeyOf[c]
    /\ ~HandedOut(d)
    /\ flight' = [flight EXCEPT ![c] = d]
    /\ UNCHANGED <<outcome, answer>>

Land(d, o) ==
    /\ Running(d)
    /\ outcome' = [outcome EXCEPT ![d] = o]
    /\ UNCHANGED <<flight, answer>>

Answer(c) ==
    /\ flight[c] # NoCaller
    /\ answer[c] = NoOutcome
    /\ outcome[flight[c]] # NoOutcome
    /\ answer' = [answer EXCEPT ![c] = outcome[flight[c]]]
    /\ UNCHANGED <<flight, outcome>>

Next ==
    \E c \in Callers :
        \/ Start(c)
        \/ \E d \in Callers : Join(c, d)
        \/ \E o \in Outcomes : Land(c, o)
        \/ Answer(c)

Spec == Init /\ [][Next]_vars
=============================================================================
