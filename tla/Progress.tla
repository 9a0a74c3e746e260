------------------------------ MODULE Progress ------------------------------
(***************************************************************************)
(* The streams of src/src/_progress.ts: progressUpload, which hands out    *)
(* the chunks of a body as they are pulled, progressDownload, which pumps  *)
(* a response into a stream of its own and which the reader may cancel,    *)
(* and the throttle both call the user's callback through.                 *)
(***************************************************************************)
EXTENDS Integers, Sequences

CONSTANTS
    Size,           \* chunks of the body
    Totals,         \* what may be known of its size, Unknown included
    Unknown,
    Interval,       \* progressIntervalMs, in ticks
    MaxNow          \* bound of the clock

ProgressAssumption ==
    /\ Size \in Nat /\ Interval \in Nat /\ MaxNow \in Nat
    /\ Unknown \notin Nat
    /\ Totals \subseteq Nat \cup {Unknown}

VARIABLES
    direction,
    total,
    now, last,      \* of the throttle; the epoch is long ago
    moved,          \* loaded or offset
    events,         \* what the callback was given
    stream,         \* the wrapped stream
    source,         \* the response body of a download
    late            \* chunks read from the source after a cancel

vars == <<direction, total, now, last, moved, events, stream, source, late>>
given == <<direction, total>>

LongAgo == -Interval

TypeOK ==
    /\ direction \in {"up", "down"}
    /\ total \in Totals \cup {Size}
    /\ now \in 0..MaxNow /\ last \in LongAgo..MaxNow
    /\ moved \in 0..Size
    /\ \A i \in DOMAIN events : events[i] \in [loaded : 1..Size, at : 0..MaxNow]
    /\ stream \in {"open", "closed", "cancelled", "errored"}
    /\ source \in {"locked", "released"}
    /\ late \in Nat

\* The total of an upload is the length of its bytes; that of a download is
\* the Content-Length, which counts the bytes before they are decoded.
Init ==
    /\ direction \in {"up", "down"}
    /\ total \in IF direction = "up" THEN {Size} ELSE Totals
    /\ now = 0 /\ last = LongAgo
    /\ moved = 0
    /\ events = <<>>
    /\ stream = "open"
    /\ source = IF direction = "down" THEN "locked" ELSE "released"
    /\ late = 0

-----------------------------------------------------------------------------

Silent == UNCHANGED <<last, events>>

\* Faulty variant of Throttled: the last event may be dropped too.
ThrottledAlways(loaded) ==
    IF now - last >= Interval
    THEN last' = now /\ events' = Append(events, [loaded |-> loaded, at |-> now])
    ELSE Silent

Throttled(loaded) ==
    IF loaded = total \/ now - last >= Interval
    THEN last' = now /\ events' = Append(events, [loaded |-> loaded, at |-> now])
    ELSE Silent

\* pull of the upload.
Pull ==
    /\ direction = "up" /\ stream = "open"
    /\ IF moved = Size
       THEN stream' = "closed" /\ Silent /\ UNCHANGED moved
       ELSE moved' = moved + 1 /\ Throttled(moved + 1) /\ UNCHANGED stream
    /\ UNCHANGED <<given, now, source, late>>

\* The pump of the download, which does not wait for the reader: in a stream
\* that was cancelled, enqueue throws before the callback is called.
Pump ==
    /\ direction = "down" /\ source = "locked" /\ moved < Size
    /\ moved' = moved + 1
    /\ IF stream = "open"
       THEN Throttled(moved + 1) /\ UNCHANGED <<source, late>>
       ELSE Silent /\ source' = "released" /\ late' = late + 1
    /\ UNCHANGED <<given, now, stream>>

\* The source ends: close, or throw and be caught.
PumpEnds ==
    /\ direction = "down" /\ source = "locked" /\ moved = Size
    /\ source' = "released"
    /\ stream' = IF stream = "open" THEN "closed" ELSE stream
    /\ Silent
    /\ UNCHANGED <<given, now, moved, late>>

\* The source fails, or the callback throws: the stream of an upload is
\* errored too.
Fails ==
    /\ source = "locked" \/ (direction = "up" /\ stream = "open" /\ moved > 0)
    /\ source' = "released"
    /\ stream' = IF stream = "open" THEN "errored" ELSE stream
    /\ Silent
    /\ UNCHANGED <<given, now, moved, late>>

\* body.cancel rejects, since the pump holds the lock: the source is left to
\* the pump to release.
Cancel ==
    /\ stream = "open"
    /\ stream' = "cancelled"
    /\ Silent
    /\ UNCHANGED <<given, now, moved, source, late>>

Tick ==
    /\ now < MaxNow
    /\ now' = now + 1
    /\ Silent
    /\ UNCHANGED <<given, moved, stream, source, late>>

Next == Pull \/ Pump \/ PumpEnds \/ Fails \/ Cancel \/ Tick

Spec == Init /\ [][Next]_vars

-----------------------------------------------------------------------------

(* A callback hears of every body that was moved to its end, even if the    *)
(* last chunk comes inside the interval, provided the size was known; what  *)
(* it hears grows, and comes no faster than the interval but for a full     *)
(* one.  A cancelled download reads at most one more chunk of the response  *)
(* (throttle, the pump, cancel).                                            *)
ProgressIsTold ==
    /\ stream = "closed" /\ total = Size /\ Size > 0 =>
        events # <<>> /\ events[Len(events)].loaded = Size
    /\ \A i \in 2..Len(events) :
        /\ events[i].loaded > events[i - 1].loaded
        /\ events[i].at >= events[i - 1].at + Interval \/ events[i].loaded = total
    /\ late <= 1
=============================================================================
