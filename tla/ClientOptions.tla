---------------------------- MODULE ClientOptions ----------------------------
(***************************************************************************)
(* What of the options of createMisina, of extend and of a call goes out   *)
(* with a request: mergeOptions in src/src/_merge.ts, createMisina,        *)
(* resolveOptions, applyDefer and buildRequest in src/src/misina.ts, the   *)
(* headers that serializeBody and the compression add.  A value is known   *)
(* by who set it.  Hooks, which may change anything, do not.               *)
(***************************************************************************)
EXTENDS Integers, Sequences, FiniteSetsExt

CONSTANTS
    Names,          \* of headers, in lower case
    Layers,         \* options a client may be given, see Layer
    Inits,          \* options a call may be given
    Patches,        \* what a defer callback may return
    Bodies,         \* see Body
    MaxClients      \* bound

\* A field that is there may be undefined; replaceOption marks a field.
Says == {"absent", "undefined", "set"}
Layer == [
    headers : [Names -> Says], hooks : BOOLEAN, plugin : BOOLEAN,
    timeout : Says, retry : SUBSET {"limit", "delay"}, defer : BOOLEAN, state : Says,
    replaces : SUBSET {"headers", "hooks"}]

\* A plain object is turned to JSON, `bytes' is what can be compressed,
\* `form' what cannot, and `instance' is refused.
Body == {"none", "plain", "bytes", "form", "instance"}

ClientOptionsAssumption ==
    /\ {"accept-encoding", "content-type", "content-encoding", "content-length"} \subseteq Names
    /\ Layers \cup Inits \cup Patches \subseteq Layer
    /\ \A l \in Inits \cup Patches : l.replaces = {} /\ ~l.plugin /\ l.state = "absent"
    /\ Bodies \subseteq Body
    /\ MaxClients \in Nat \ {0}

VARIABLES
    clients,        \* defaults of each
    chains,         \* the layers each was made of, read by properties only
    pc,
    options,        \* of the call under way
    deferring,      \* its defer callbacks still to run
    encoded,        \* the body has been compressed
    chain           \* the layers of the call, read by properties only

vars == <<clients, chains, pc, options, deferring, encoded, chain>>

\* Who set a value: the n-th client, the call, a callback, misina itself.
Nobody == 0
Clients == 1..MaxClients
Call == MaxClients + 1
Patched(who) == MaxClients + 1 + who
Misina == 2 * MaxClients + 3
Setters == Nobody..Misina

Settings == [
    headers : [Names -> Setters], timeout : Setters,
    retry : [limit : Setters, delay : Setters],
    hooks : Seq([by : Setters, plugin : BOOLEAN]), state : Setters, defer : Setters]

Blank == [
    headers |-> [n \in Names |-> Nobody], timeout |-> Nobody,
    retry |-> [limit |-> Nobody, delay |-> Nobody],
    hooks |-> <<>>, state |-> Nobody, defer |-> Nobody]

TypeOK ==
    /\ clients \in Seq(Settings) /\ Len(clients) <= MaxClients
    /\ DOMAIN chains = DOMAIN clients
    /\ pc \in {"idle", "resolved", "built"} /\ encoded \in BOOLEAN
    /\ options \in Settings
    /\ deferring \in Seq(Setters)

Init ==
    /\ clients = <<>> /\ chains = <<>>
    /\ pc = "idle"
    /\ options = Blank
    /\ deferring = <<>>
    /\ encoded = FALSE
    /\ chain = <<>>

-----------------------------------------------------------------------------

\* Faulty variant of Over: an undefined value is copied like another.
OverAny(headers, layer, who) ==
    [n \in Names |-> CASE layer.headers[n] = "set" -> who
                       [] layer.headers[n] = "undefined" -> Nobody
                       [] OTHER -> headers[n]]

\* copyInto, copyHeadersInto: an undefined value is skipped.
Over(headers, layer, who) ==
    [n \in Names |-> IF layer.headers[n] = "set" THEN who ELSE headers[n]]

\* A field that extend copies whatever its value.
Taken(says, old, who) ==
    CASE says = "set" -> who [] says = "undefined" -> Nobody [] OTHER -> old

OwnHooks(layer, who) == IF layer.hooks THEN <<[by |-> who, plugin |-> FALSE]>> ELSE <<>>

\* mergeOptions; for createMisina the parent is Blank and the hooks of the
\* plugins come first.
Merge(parent, layer, who) == [
    headers |-> Over(IF "headers" \in layer.replaces THEN Blank.headers ELSE parent.headers, layer, who),
    timeout |-> Taken(layer.timeout, parent.timeout, who),
    retry |-> IF layer.retry = {} THEN parent.retry
              ELSE [f \in {"limit", "delay"} |-> IF f \in layer.retry THEN who ELSE Nobody],
    hooks |-> (IF layer.plugin THEN <<[by |-> who, plugin |-> TRUE]>> ELSE <<>>)
              \o (IF "hooks" \in layer.replaces THEN <<>> ELSE parent.hooks)
              \o OwnHooks(layer, who),
    state |-> Taken(layer.state, parent.state, who),
    defer |-> IF layer.defer THEN who ELSE parent.defer]

Newcomer == Len(clients) + 1

CreateMisina(layer) ==
    /\ pc = "idle" /\ Newcomer \in Clients
    /\ layer.replaces = {}
    /\ clients' = Append(clients, Merge(Blank, layer, Newcomer))
    /\ chains' = Append(chains, <<[by |-> Newcomer, layer |-> layer]>>)
    /\ UNCHANGED <<pc, options, deferring, encoded, chain>>

Extend(parent, layer) ==
    /\ pc = "idle" /\ Newcomer \in Clients
    /\ ~layer.plugin
    /\ clients' = Append(clients, Merge(clients[parent], layer, Newcomer))
    /\ chains' = Append(chains, Append(chains[parent], [by |-> Newcomer, layer |-> layer]))
    /\ UNCHANGED <<pc, options, deferring, encoded, chain>>

\* resolveOptions: everything falls back to the client where the call says
\* nothing, an undefined value included.
Resolve(client, init, state) == [
    headers |-> Over(client.headers, init, Call),
    timeout |-> IF init.timeout = "set" THEN Call ELSE client.timeout,
    retry |-> [f \in {"limit", "delay"} |-> IF f \in init.retry THEN Call ELSE client.retry[f]],
    hooks |-> client.hooks \o OwnHooks(init, Call),
    state |-> state,
    defer |-> IF init.defer THEN Call ELSE Nobody]

\* The object of a client, named by the client it was made for.
SharedState(c) == IF clients[c].state # Nobody THEN clients[c].state ELSE c

\* The defer callback that was set, if one was.
Callback(who) == IF who = Nobody THEN <<>> ELSE <<who>>

Request(c, init) ==
    /\ pc \in {"idle", "built"}
    /\ pc' = "resolved"
    /\ options' = Resolve(clients[c], init, SharedState(c))
    /\ deferring' = Callback(clients[c].defer) \o Callback(options'.defer)
    /\ encoded' = FALSE
    /\ chain' = Append(chains[c], [by |-> Call, layer |-> init])
    /\ UNCHANGED <<clients, chains>>

\* A callback that returns an undefined header, which validateHeaderValue
\* does not survive.
Malformed(patch) == \E n \in Names : patch.headers[n] = "undefined"

DeferThrows(patch) ==
    /\ pc = "resolved" /\ deferring # <<>> /\ Malformed(patch)
    /\ pc' = "idle"
    /\ UNCHANGED <<clients, chains, options, deferring, encoded, chain>>

\* applyDefer, one callback: the options it sees are those the callbacks
\* before it have left.
Defer(patch) ==
    /\ pc = "resolved" /\ deferring # <<>> /\ ~Malformed(patch)
    /\ LET who == Patched(Head(deferring)) IN
        /\ options' = [options EXCEPT
                !.headers = Over(@, patch, who),
                !.timeout = IF patch.timeout = "set" THEN who ELSE @]
        /\ chain' = Append(chain, [by |-> who, layer |-> patch])
    /\ deferring' = Tail(deferring)
    /\ UNCHANGED <<clients, chains, pc, encoded>>

Added(headers, n, condition) ==
    [headers EXCEPT ![n] = IF condition /\ @ = Nobody THEN Misina ELSE @]

\* buildRequest.
Build(body, decompress, compress) ==
    /\ pc = "resolved" /\ deferring = <<>> /\ body # "instance"
    /\ LET advertised == Added(options.headers, "accept-encoding", decompress)
           typed == Added(advertised, "content-type", body = "plain")
       IN /\ encoded' = (compress /\ body \in {"plain", "bytes"})
          /\ options' = [options EXCEPT !.headers =
                IF encoded' THEN [typed EXCEPT !["content-encoding"] = Misina,
                                               !["content-length"] = Nobody]
                ELSE typed]
    /\ pc' = "built"
    /\ UNCHANGED <<clients, chains, deferring, chain>>

BuildThrows(body) ==
    /\ pc = "resolved" /\ deferring = <<>> /\ body = "instance"
    /\ pc' = "idle"
    /\ UNCHANGED <<clients, chains, options, deferring, encoded, chain>>

Next ==
    \/ \E layer \in Layers :
        \/ CreateMisina(layer)
        \/ \E p \in DOMAIN clients : Extend(p, layer)
    \/ \E c \in DOMAIN clients, init \in Inits : Request(c, init)
    \/ \E patch \in Patches : Defer(patch) \/ DeferThrows(patch)
    \/ \E body \in Bodies, decompress, compress \in BOOLEAN : Build(body, decompress, compress)
    \/ \E body \in Bodies : BuildThrows(body)

Spec == Init /\ [][Next]_vars

-----------------------------------------------------------------------------

\* The layers of a chain that give a header its value, unless a later one
\* replaces the headers.
Givers(n) == {i \in DOMAIN chain :
    /\ chain[i].layer.headers[n] = "set"
    /\ \A j \in i + 1 .. Len(chain) : "headers" \notin chain[j].layer.replaces}

MostSpecific(n) == IF Givers(n) = {} THEN Nobody ELSE chain[Max(Givers(n))].by

Shielded == {"content-encoding", "content-length"}

\* Hooks run from the least specific layer to the most, those of plugins
\* before everyone's.
HooksInOrder ==
    \A i, j \in DOMAIN options.hooks : i < j =>
        \/ options.hooks[i].plugin
        \/ ~options.hooks[j].plugin /\ options.hooks[i].by < options.hooks[j].by

(* The most specific has the last word.  A request carries, for every       *)
(* header, what the most specific of the client's ancestors, the client,    *)
(* the call and its defer callbacks gave, and of misina's own only what     *)
(* none of them gave, except that a body it compresses goes out under its   *)
(* own encoding and without a length; and hooks run in that order           *)
(* (mergeOptions, applyPluginHooks, resolveOptions, applyDefer,             *)
(* buildRequest).                                                           *)
MostSpecificWins ==
    pc = "built" =>
        /\ HooksInOrder
        /\ \A n \in Names :
            IF n \in Shielded /\ encoded
            THEN options.headers[n] = IF n = "content-encoding" THEN Misina ELSE Nobody
            ELSE options.headers[n] \in {MostSpecific(n)} \cup
                    (IF MostSpecific(n) = Nobody THEN {Misina} ELSE {})

=============================================================================
