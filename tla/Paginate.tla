------------------------------ MODULE Paginate ------------------------------
(***************************************************************************)
(* paginate, src/src/paginate/index.ts: requests, the items of a page      *)
(* yielded one by one, and what `next' decides.  A request is its          *)
(* fingerprint: url and init.                                              *)
(***************************************************************************)
EXTENDS Integers

CONSTANTS
    Pages,          \* the requests `next' may name
    First,          \* input and init
    PageSize,       \* bound: items of a page
    CountLimits,    \* what countLimit may be
    RequestLimits,
    NoLimit         \* a limit that is not set

PaginateAssumption ==
    /\ First \in Pages /\ PageSize \in Nat
    /\ CountLimits \cup RequestLimits \subseteq Nat \cup {NoLimit}

VARIABLES
    pc,
    page,           \* url and init of the next request
    attempt,
    items,          \* of this page, still to be looked at
    yielded,
    seen,
    countLimit, requestLimit

limits == <<countLimit, requestLimit>>
vars == <<pc, page, attempt, items, yielded, seen, limits>>

Ended == pc \in {"returned", "failed"}

TypeOK ==
    /\ pc \in {"loop", "request", "items", "next", "returned", "failed"}
    /\ page \in Pages
    /\ attempt \in Nat
    /\ items \in 0..PageSize
    /\ yielded \in Nat
    /\ seen \subseteq Pages
    /\ countLimit \in CountLimits
    /\ requestLimit \in RequestLimits

Init ==
    /\ pc = "loop"
    /\ page = First
    /\ attempt = 0
    /\ items = 0
    /\ yielded = 0
    /\ seen = {}
    /\ countLimit \in CountLimits
    /\ requestLimit \in RequestLimits

-----------------------------------------------------------------------------

Reached(n, limit) == limit # NoLimit /\ n >= limit

\* The limit of requests and the cycle guard.
Loop ==
    /\ pc = "loop"
    /\ IF Reached(attempt, requestLimit) \/ page \in seen
       THEN pc' = "returned" /\ UNCHANGED seen
       ELSE /\ pc' = "request"
            /\ seen' = seen \cup {page}
    /\ UNCHANGED <<page, attempt, items, yielded, limits>>

Response ==
    /\ pc = "request"
    /\ pc' = "items"
    /\ attempt' = attempt + 1
    /\ items' \in 0..PageSize
    /\ UNCHANGED <<page, yielded, seen, limits>>

\* The request, transform or next throws, or the consumer stops at a yield.
Stops ==
    /\ pc \in {"request", "items", "next"}
    /\ pc' = "failed"
    /\ UNCHANGED <<page, attempt, items, yielded, seen, limits>>

\* The limit is looked at after an item has gone out.
Yield ==
    /\ pc = "items" /\ items > 0
    /\ items' = items - 1
    /\ yielded' = yielded + 1
    /\ pc' = IF Reached(yielded + 1, countLimit) THEN "returned" ELSE "items"
    /\ UNCHANGED <<page, attempt, seen, limits>>

\* filter refuses the item.
Skip ==
    /\ pc = "items" /\ items > 0
    /\ items' = items - 1
    /\ UNCHANGED <<pc, page, attempt, yielded, seen, limits>>

PageEnds ==
    /\ pc = "items" /\ items = 0
    /\ pc' = "next"
    /\ UNCHANGED <<page, attempt, items, yielded, seen, limits>>

\* next, or the Link header: any page, or no more.
Decide ==
    /\ pc = "next"
    /\ \/ pc' = "returned" /\ UNCHANGED page
       \/ pc' = "loop" /\ page' \in Pages
    /\ UNCHANGED <<attempt, items, yielded, seen, limits>>

Next == Loop \/ Response \/ Stops \/ Yield \/ Skip \/ PageEnds \/ Decide

\* Every request settles and the consumer asks for the next item.
Fairness == WF_vars(Next)

Spec == Init /\ [][Next]_vars /\ Fairness

-----------------------------------------------------------------------------

(* Whatever pages point to, the consumer gets no more items than countLimit *)
(* (one, if it is 0), no more than requestLimit requests are made, and none *)
(* once the items are enough (the two tests of _paginate).                  *)
LimitsHold ==
    /\ countLimit # NoLimit =>
        /\ yielded <= (IF countLimit = 0 THEN 1 ELSE countLimit)
        /\ pc = "request" => ~(yielded > 0 /\ yielded >= countLimit)
    /\ requestLimit # NoLimit => attempt <= requestLimit

(* Pages that point back at each other, however far, end the iteration: it  *)
(* needs no limit for that, the guard lets no request go out twice          *)
(* (fingerprint, seen).                                                     *)
CyclesEnd == <>Ended
=============================================================================
