---------------------------- MODULE DedupeProofs ----------------------------
(***************************************************************************)
(* Dedupe implements SingleFlight, for any calls, keys and outcomes.       *)
(***************************************************************************)
EXTENDS Dedupe, TLAPS

(* The entry of a key is the one request of that key whose finally has not  *)
(* run, if there is one.                                                    *)
MapInv ==
    /\ \A k \in Keys : inflight[k] # NoCall =>
         /\ inflight[k] \in Deduped \ forgotten
         /\ KeyOf[inflight[k]] = k
         /\ waitsOn[inflight[k]] = inflight[k]
    /\ \A c \in Deduped \ forgotten : waitsOn[c] = c => inflight[KeyOf[c]] = c

(* The finally runs after the request has settled and before anyone is      *)
(* told; who has not asked has no request and no answer.                    *)
OrderInv ==
    /\ \A c \in forgotten : settled[c] # Unsettled
    /\ \A c \in Deduped : received[c] # Unsettled => waitsOn[c] \in forgotten
    /\ \A c \in Deduped : waitsOn[c] # NoCall => waitsOn[c] \in Deduped
    /\ \A c \in Deduped : waitsOn[c] # c => settled[c] = Unsettled
    /\ \A c \in Deduped : waitsOn[c] # NoCall => waitsOn[waitsOn[c]] = waitsOn[c]

FlightInv == TypeOK /\ MapInv /\ OrderInv

(* FlightInv holds at the start and every step keeps it.                    *)
LEMMA FlightInvariant ==
  ASSUME DedupeAssumption
  PROVE  Spec => []FlightInv
<1> USE DEF DedupeAssumption
<1>1. Init => FlightInv
  BY DEF Init, FlightInv, TypeOK, MapInv, OrderInv
<1>2. FlightInv /\ [Next]_vars => FlightInv'
  <2> SUFFICES ASSUME FlightInv, [Next]_vars
               PROVE  FlightInv'
    OBVIOUS
  <2> USE DEF FlightInv
  <2>1. ASSUME NEW c \in Calls, Bypass(c)
        PROVE  FlightInv'
    <3>1. TypeOK' /\ MapInv'
      BY <2>1 DEF TypeOK, MapInv, Bypass
    <3>2. OrderInv'
      BY <2>1 DEF TypeOK, OrderInv, Bypass
    <3>. QED
      BY <3>1, <3>2
  <2>2. ASSUME NEW c \in Calls, Join(c)
        PROVE  FlightInv'
    <3>1. inflight[KeyOf[c]] \in Deduped \ forgotten
      BY <2>2 DEF TypeOK, MapInv, Join
    <3>2. TypeOK' /\ MapInv'
      BY <2>2, <3>1 DEF TypeOK, MapInv, Join
    <3>3. OrderInv'
      BY <2>2, <3>1 DEF TypeOK, MapInv, OrderInv, Join
    <3>. QED
      BY <3>2, <3>3
  <2>3. ASSUME NEW c \in Calls, Lead(c)
        PROVE  FlightInv'
    <3>1. c \notin forgotten
      BY <2>3 DEF TypeOK, OrderInv, Lead
    <3>2. TypeOK' /\ MapInv'
      BY <2>3, <3>1 DEF TypeOK, MapInv, Lead
    <3>3. OrderInv'
      BY <2>3, <3>1 DEF TypeOK, OrderInv, Lead
    <3>. QED
      BY <3>2, <3>3
  <2>4. ASSUME NEW c \in Calls, NEW o \in Outcomes, Settle(c, o)
        PROVE  FlightInv'
    BY <2>4 DEF TypeOK, MapInv, OrderInv, Settle, InProgress
  <2>5. ASSUME NEW c \in Calls, Forget(c)
        PROVE  FlightInv'
    <3>1. inflight[KeyOf[c]] = c
      BY <2>5 DEF MapInv, Forget
    <3>2. TypeOK' /\ OrderInv'
      BY <2>5 DEF TypeOK, OrderInv, Forget
    <3>3. MapInv'
      BY <2>5, <3>1 DEF TypeOK, MapInv, Forget
    <3>. QED
      BY <3>2, <3>3
  <2>6. ASSUME NEW c \in Calls, Deliver(c)
        PROVE  FlightInv'
    BY <2>6 DEF TypeOK, MapInv, OrderInv, Deliver
  <2>7. CASE UNCHANGED vars
    BY <2>7 DEF TypeOK, MapInv, OrderInv, vars
  <2>. QED
    BY <2>1, <2>2, <2>3, <2>4, <2>5, <2>6, <2>7 DEF Next
<1>. QED
  BY <1>1, <1>2, PTL DEF Spec

-----------------------------------------------------------------------------
(* A step of Dedupe is a step of SingleFlight or changes none of its        *)
(* variables.                                                               *)
LEMMA FlightStep ==
  ASSUME DedupeAssumption, FlightInv, FlightInv', [Next]_vars
  PROVE  [Flights!Next]_(Flights!vars)
<1> USE DEF DedupeAssumption, FlightInv
<1>1. ASSUME NEW c \in Calls, Bypass(c)
      PROVE  UNCHANGED Flights!vars
  BY <1>1 DEF TypeOK, Bypass, Flights!vars
<1>2. ASSUME NEW c \in Calls, Join(c)
      PROVE  Flights!Next
  <2>1. c \in Deduped
    BY <1>2 DEF Join
  <2>2. PICK d \in Deduped \ forgotten :
            d = inflight[KeyOf[c]] /\ KeyOf[d] = KeyOf[c] /\ waitsOn[d] = d
    BY <1>2 DEF TypeOK, MapInv, Join
  <2>3. ~Flights!HandedOut(d)
    BY <2>2 DEF OrderInv, Flights!HandedOut
  <2>4. Flights!Join(c, d)
    BY <1>2, <2>2, <2>3 DEF TypeOK, Join, Flights!Join
  <2>. QED
    BY <2>1, <2>2, <2>4 DEF Flights!Next
<1>3. ASSUME NEW c \in Calls, Lead(c)
      PROVE  Flights!Next
  <2>1. \A d \in Deduped : KeyOf[d] = KeyOf[c] => ~Flights!Running(d)
    BY <1>3 DEF MapInv, OrderInv, Lead, Flights!Running
  <2>2. Flights!Start(c)
    BY <1>3, <2>1 DEF TypeOK, Lead, Flights!Start
  <2>. QED
    BY <1>3, <2>2 DEF Lead, Flights!Next
<1>4. ASSUME NEW c \in Calls, NEW o \in Outcomes, Settle(c, o)
      PROVE  [Flights!Next]_(Flights!vars)
  <2>1. CASE c \in Deduped
    <3>1. Flights!Running(c)
      BY <1>4, <2>1 DEF Settle, InProgress, Flights!Running
    <3>2. [d \in Deduped |-> settled'[d]] = [[d \in Deduped |-> settled[d]] EXCEPT ![c] = o]
      BY <1>4, <2>1 DEF TypeOK, Settle
    <3>3. UNCHANGED <<waitsOn, received>>
      BY <1>4 DEF Settle
    <3>4. Flights!Land(c, o)
      BY <3>1, <3>2, <3>3 DEF Flights!Land
    <3>. QED
      BY <2>1, <3>4 DEF Flights!Next
  <2>2. CASE c \notin Deduped
    BY <1>4, <2>2 DEF TypeOK, Settle, Flights!vars
  <2>. QED
    BY <2>1, <2>2
<1>5. ASSUME NEW c \in Calls, Forget(c)
      PROVE  UNCHANGED Flights!vars
  BY <1>5 DEF Forget, Flights!vars
<1>6. ASSUME NEW c \in Calls, Deliver(c)
      PROVE  [Flights!Next]_(Flights!vars)
  <2>1. CASE c \in Deduped
    <3>1. /\ waitsOn[c] \in Deduped
          /\ settled[waitsOn[c]] # Unsettled
          /\ received[c] = Unsettled
          /\ waitsOn[c] # NoCall
      BY <1>6, <2>1 DEF OrderInv, Deliver
    <3>2. [d \in Deduped |-> received'[d]]
            = [[d \in Deduped |-> received[d]] EXCEPT ![c] = settled[waitsOn[c]]]
      BY <1>6, <2>1 DEF TypeOK, Deliver
    <3>3. UNCHANGED <<waitsOn, settled>>
      BY <1>6 DEF Deliver
    <3>4. Flights!Answer(c)
      BY <2>1, <3>1, <3>2, <3>3 DEF Flights!Answer
    <3>. QED
      BY <2>1, <3>4 DEF Flights!Next
  <2>2. CASE c \notin Deduped
    BY <1>6, <2>2 DEF TypeOK, Deliver, Flights!vars
  <2>. QED
    BY <2>1, <2>2
<1>7. CASE UNCHANGED vars
  BY <1>7 DEF vars, Flights!vars
<1>. QED
  BY <1>1, <1>2, <1>3, <1>4, <1>5, <1>6, <1>7 DEF Next

(* Dedupe implements SingleFlight: one request of a key at a time, its      *)
(* outcome for everyone who joined it, and no joining an answer that is     *)
(* already out (dedupedRequest).                                            *)
THEOREM DedupeSharesFlights ==
  ASSUME DedupeAssumption
  PROVE  Spec => SharesFlights
<1>1. Init => Flights!Init
  BY DEF DedupeAssumption, Init, Flights!Init
<1>. QED
  BY <1>1, FlightInvariant, FlightStep, PTL DEF Spec, SharesFlights, Flights!Spec
=============================================================================
