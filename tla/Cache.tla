-------------------------------- MODULE Cache --------------------------------
(***************************************************************************)
(* The cache plugin, src/src/cache/index.ts, for calls of one method and   *)
(* url that differ in a header the server may vary on.  An await of the    *)
(* store is one step: what was read may be stale when the next step runs.  *)
(* The store is memoryStore; a server answers as it likes.                 *)
(***************************************************************************)
EXTENDS Integers, Sequences

CONSTANTS
    Calls,
    Variants,       \* values of the header
    VariantOf,      \* the value each call sends
    Controls,       \* what Cache-Control may say, see CacheControl
    Ttl,            \* opts.ttl
    Revalidate,     \* opts.revalidate
    Honor,          \* opts.honorCacheControl
    MaxEntries,     \* max of memoryStore
    MaxNow          \* bound of the clock

\* parseCacheControl, durations in ticks; 0 where the directive is absent
\* (-1 for max-age, where 0 is a value).
CacheControl ==
    [noStore : BOOLEAN, maxAge : Int, swr : Nat, sie : Nat, immutable : BOOLEAN]

CacheAssumption ==
    /\ VariantOf \in [Calls -> Variants]
    /\ Controls \subseteq CacheControl
    /\ Ttl \in Nat /\ MaxNow \in Nat /\ MaxEntries \in Nat \ {0}
    /\ Revalidate \in BOOLEAN /\ Honor \in BOOLEAN
    /\ Variants \cap {"base", "none", "*", "any"} = {}

VARIABLES
    now,
    map,            \* the Map of memoryStore, oldest key first
    pc,
    held,           \* the entry a call has in hand across an await
    refreshing,     \* calls whose revalidateInBackground is under way
    said,           \* the answer the last step gave a caller, if it gave one
    evicted         \* memoryStore has dropped an entry

vars == <<now, map, pc, held, refreshing, said, evicted>>

Pcs == {"idle", "variant", "sent", "conditional", "confirm", "store", "base", "done"}
Keys == {"base"} \cup Variants

\* `for' is the variant the response was made for, `by' who stored it,
\* `heard' when the server last said something of it, `confirmed' that it
\* said so with a 304: read by properties only.
Entry == [
    expires : Int, vary : Variants \cup {"none", "*"}, cc : Controls,
    for : Variants \cup {"any"}, by : {"call", "background"}, heard : Nat,
    confirmed : BOOLEAN]
NoEntry == [expires |-> -1]
Silence == [how |-> "nothing"]

TypeOK ==
    /\ now \in 0..MaxNow
    /\ Len(map) <= MaxEntries
    /\ \A i \in DOMAIN map : map[i] \in [key : Keys, entry : Entry]
    /\ \A i, j \in DOMAIN map : map[i].key = map[j].key => i = j
    /\ pc \in [Calls -> Pcs]
    /\ \A c \in Calls : held[c] \in Entry \/ held[c] = NoEntry
    /\ refreshing \subseteq Calls
    /\ evicted \in BOOLEAN

Init ==
    /\ now = 0
    /\ map = <<>>
    /\ pc = [c \in Calls |-> "idle"]
    /\ held = [c \in Calls |-> NoEntry]
    /\ refreshing = {}
    /\ said = Silence
    /\ evicted = FALSE

-----------------------------------------------------------------------------
(* memoryStore.                                                             *)

Stored(k) == \E i \in DOMAIN map : map[i].key = k

StoreGet(k) ==
    IF Stored(k) THEN map[CHOOSE i \in DOMAIN map : map[i].key = k].entry ELSE NoEntry

\* Faulty variant of StoreSet: the oldest entry is dropped before the new
\* one is compared with the limit.
StoreSetOverLimit(k, e) ==
    LET item == [key |-> k, entry |-> e]
        drop == Len(map) > MaxEntries
    IN /\ map' = IF Stored(k) THEN [i \in DOMAIN map |-> IF map[i].key = k THEN item ELSE map[i]]
                 ELSE IF drop THEN Append(Tail(map), item)
                 ELSE Append(map, item)
       /\ evicted' = (evicted \/ drop)

\* A key that is set again keeps its place in the Map.
StoreSet(k, e) ==
    LET item == [key |-> k, entry |-> e]
        drop == ~Stored(k) /\ Len(map) = MaxEntries
    IN /\ map' = IF Stored(k) THEN [i \in DOMAIN map |-> IF map[i].key = k THEN item ELSE map[i]]
                 ELSE Append(IF drop THEN Tail(map) ELSE map, item)
       /\ evicted' = (evicted \/ drop)

StoreKept == UNCHANGED <<map, evicted>>

-----------------------------------------------------------------------------
(* Steps of a call.                                                         *)

Goto(c, p, e) == pc' = [pc EXCEPT ![c] = p] /\ held' = [held EXCEPT ![c] = e]

\* The caller gets a response of the store.
AnswerFrom(c, how, e) ==
    /\ Goto(c, "done", NoEntry)
    /\ said' = [how |-> how, to |-> VariantOf[c], entry |-> e, age |-> now - e.heard]

\* The caller gets what the server sent.
PassOn(c, status) ==
    /\ Goto(c, "done", NoEntry)
    /\ said' = [how |-> "server", to |-> VariantOf[c], status |-> status]

Proceed(c, p, e) == Goto(c, p, e) /\ said' = Silence

Fresh(e) == e.expires > now
WithinRevalidate(e) == now - e.expires < e.cc.swr /\ Honor
WithinError(e) == e.cc.sie > 0 /\ Honor /\ now - e.expires < e.cc.sie

VaryMatches(e, c) == e # NoEntry /\ e.vary \in {"none", VariantOf[c]}

\* beforeRequest with the entry of its last get.
Decide(c, e) ==
    IF ~VaryMatches(e, c) THEN Proceed(c, "sent", NoEntry) /\ UNCHANGED refreshing
    ELSE \/ /\ Fresh(e)
            /\ AnswerFrom(c, "hit", e)
            /\ UNCHANGED refreshing
         \/ /\ ~Fresh(e) /\ WithinRevalidate(e)
            /\ AnswerFrom(c, "swr", e)
            /\ refreshing' = refreshing \cup {c}
         \/ /\ ~Fresh(e) /\ ~WithinRevalidate(e)
            /\ Proceed(c, IF Revalidate /\ ~(e.cc.immutable /\ Honor)
                          THEN "conditional" ELSE "sent", NoEntry)
            /\ UNCHANGED refreshing

\* Faulty variant of LookUp: the entry under the base key is used whatever
\* its vary.
LookUpBaseOnly(c) ==
    /\ pc[c] = "idle"
    /\ LET e == StoreGet("base") IN
        Decide(c, IF e = NoEntry THEN e ELSE [e EXCEPT !.vary = "none"])
    /\ StoreKept
    /\ UNCHANGED now

LookUp(c) ==
    /\ pc[c] = "idle"
    /\ LET e == StoreGet("base") IN
        IF e # NoEntry /\ e.vary # "none"
        THEN Proceed(c, "variant", e) /\ UNCHANGED refreshing
        ELSE Decide(c, e)
    /\ StoreKept
    /\ UNCHANGED now

\* The key is computed from the names in the vary of the base entry: for
\* `*' nothing is ever stored under it.
LookUpVariant(c) ==
    /\ pc[c] = "variant"
    /\ Decide(c, IF held[c].vary = "*" THEN NoEntry ELSE StoreGet(VariantOf[c]))
    /\ StoreKept
    /\ UNCHANGED now

\* Faulty variant of ReceiveNotModified: the 304 is looked up under the
\* variant of the call.
ReceiveNotModifiedVariant(c) ==
    /\ pc[c] = "conditional"
    /\ LET e == StoreGet(VariantOf[c]) IN
        IF e = NoEntry THEN PassOn(c, 304) ELSE Proceed(c, "confirm", e)
    /\ StoreKept
    /\ UNCHANGED <<now, refreshing>>

\* afterResponse with a 304, to its first await.
ReceiveNotModified(c) ==
    /\ pc[c] = "conditional"
    /\ LET e == StoreGet("base") IN
        IF e = NoEntry THEN PassOn(c, 304) ELSE Proceed(c, "confirm", e)
    /\ StoreKept
    /\ UNCHANGED <<now, refreshing>>

\* The entry that was read is written back with a new expiry.
Confirm(c) ==
    /\ pc[c] = "confirm"
    /\ LET e == [held[c] EXCEPT !.expires = now + Ttl, !.heard = now,
                               !.confirmed = TRUE] IN
        StoreSet("base", e) /\ AnswerFrom(c, "confirmed", e)
    /\ UNCHANGED <<now, refreshing>>

\* Faulty variant of ReceiveError: any stale entry masks the error.
ReceiveErrorMasked(c, status) ==
    /\ pc[c] \in {"sent", "conditional"}
    /\ LET e == StoreGet("base") IN
        IF status >= 500 /\ e # NoEntry
        THEN AnswerFrom(c, "error", e) ELSE PassOn(c, status)
    /\ StoreKept
    /\ UNCHANGED <<now, refreshing>>

\* afterResponse with a status that is not ok.
ReceiveError(c, status) ==
    /\ pc[c] \in {"sent", "conditional"}
    /\ LET e == StoreGet("base") IN
        IF status >= 500 /\ e # NoEntry /\ WithinError(e)
        THEN AnswerFrom(c, "error", e) ELSE PassOn(c, status)
    /\ StoreKept
    /\ UNCHANGED <<now, refreshing>>

\* The request fails without a response: afterResponse does not run, and
\* stale-if-error does not apply.
TransportFails(c) ==
    /\ pc[c] \in {"sent", "conditional"}
    /\ PassOn(c, 0)
    /\ StoreKept
    /\ UNCHANGED <<now, refreshing>>

NewEntry(c, vary, cc, by) == [
    expires |-> now + (IF Honor /\ cc.maxAge >= 0 THEN cc.maxAge ELSE Ttl),
    vary |-> IF by = "background" THEN "none" ELSE vary,
    cc |-> cc,
    for |-> IF vary = "none" THEN "any" ELSE VariantOf[c],
    by |-> by,
    heard |-> now,
    confirmed |-> FALSE]

\* recordVaryHeaders of a response to a call.
VaryOf(c) == {"none", "*", VariantOf[c]}

\* afterResponse with an ok response, to its first await; shouldStore and
\* beforeStore may refuse the entry.
ReceiveOk(c, vary, cc) ==
    /\ pc[c] \in {"sent", "conditional"}
    /\ \/ PassOn(c, 200)
       \/ ~cc.noStore /\ Proceed(c, IF vary \in Variants THEN "store" ELSE "base",
                                 NewEntry(c, vary, cc, "call"))
    /\ StoreKept
    /\ UNCHANGED <<now, refreshing>>

StoreVariant(c) ==
    /\ pc[c] = "store"
    /\ StoreSet(VariantOf[c], held[c])
    /\ Proceed(c, "base", held[c])
    /\ UNCHANGED <<now, refreshing>>

StoreBase(c) ==
    /\ pc[c] = "base"
    /\ StoreSet("base", held[c])
    /\ PassOn(c, 200)
    /\ UNCHANGED <<now, refreshing>>

\* Faulty variant of RefreshEnds: no-store is not looked at.
RefreshEndsStored(c, vary, cc) ==
    /\ c \in refreshing
    /\ refreshing' = refreshing \ {c}
    /\ said' = Silence
    /\ StoreSet("base", NewEntry(c, vary, cc, "background"))
    /\ UNCHANGED <<now, pc, held>>

\* revalidateInBackground: its entry has no vary.
RefreshEnds(c, vary, cc) ==
    /\ c \in refreshing
    /\ refreshing' = refreshing \ {c}
    /\ said' = Silence
    /\ \/ ~cc.noStore /\ StoreSet("base", NewEntry(c, vary, cc, "background"))
       \/ StoreKept
    /\ UNCHANGED <<now, pc, held>>

Tick ==
    /\ now < MaxNow
    /\ now' = now + 1
    /\ said' = Silence
    /\ UNCHANGED <<map, pc, held, refreshing, evicted>>

Next ==
    \/ \E c \in Calls :
        \/ LookUp(c) \/ LookUpVariant(c)
        \/ ReceiveNotModified(c) \/ Confirm(c)
        \/ \E status \in {404, 503} : ReceiveError(c, status)
        \/ \E vary \in VaryOf(c), cc \in Controls :
            ReceiveOk(c, vary, cc) \/ RefreshEnds(c, vary, cc)
        \/ StoreVariant(c) \/ StoreBase(c) \/ TransportFails(c)
    \/ Tick

Spec == Init /\ [][Next]_vars

-----------------------------------------------------------------------------
FromStore == said.how \in {"hit", "swr", "confirmed", "error"}

(* A call that is answered without asking the server gets an entry made     *)
(* for the headers it sent, whatever other calls stored between its reads,  *)
(* as long as a call stored the entry (afterResponse, variantKeyFor,        *)
(* varyMatches).  Not so an entry stored by a background revalidation,      *)
(* which has no vary, nor the answer after a 304 or a 5xx, which is the     *)
(* entry under the base key, of whatever variant.                           *)
VariantsKeptApart ==
    said.how \in {"hit", "swr"} /\ said.entry.by = "call" =>
        said.entry.for \in {"any", said.to}

\* How long the code takes an entry for fresh after the server was heard: a
\* 304 puts the ttl in the place of the max-age of the response.
Lifetime(e) == IF Honor /\ e.cc.maxAge >= 0 /\ ~e.confirmed THEN e.cc.maxAge ELSE Ttl

\* The window after its lifetime an entry may be served under.
Window(e, how) ==
    CASE how = "swr" -> e.cc.swr
      [] how = "error" -> e.cc.sie
      [] OTHER -> 0

(* Nobody is given an entry of which the server has not been heard for its  *)
(* lifetime and the window it is served under, through confirmations that   *)
(* extend it and refreshes that replace it; the caller whose request was    *)
(* just confirmed gets it at age 0 (Decide, isWithinStaleIfError).          *)
StaleWithinWindows ==
    FromStore =>
        \/ said.how = "confirmed" /\ said.age = 0
        \/ said.age < Lifetime(said.entry) + Window(said.entry, said.how)

(* A response with no-store reaches the call that fetched it and no other,  *)
(* on every path that writes the store (afterResponse,                      *)
(* revalidateInBackground).                                                 *)
NoStoreIsPrivate == FromStore => ~said.entry.cc.noStore

(* A caller, who knows nothing of the validators the cache adds, is given a *)
(* bare 304 only if the store has meanwhile dropped an entry                *)
(* (afterResponse, memoryStore).                                            *)
NotModifiedOnlyAfterEviction == said.how = "server" /\ said.status = 304 => evicted
=============================================================================
