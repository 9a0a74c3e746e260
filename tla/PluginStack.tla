---------------------------- MODULE PluginStack ----------------------------
(***************************************************************************)
(* How createMisina (src/src/misina.ts) turns the list options.use into a  *)
(* client: the hooks of all plugins are put before the user's, a bare      *)
(* client is made of them, and the `extend' of each plugin is applied to   *)
(* the result of the last.  A plugin of this library is one of             *)
(*   - only hooks (bearer, jwtRefresh, rateLimit, cache, cookieJar ...);   *)
(*   - a wrapper: it spreads the client it is given and replaces its       *)
(*     methods (dedupe, breaker);                                          *)
(*   - refreshOn401, which returns misina.extend(...) of the client.       *)
(* `extend' is spread as it is, so what it makes is a client of the        *)
(* defaults of the bare one.                                               *)
(***************************************************************************)
EXTENDS Naturals, Sequences, SequencesExt

CONSTANTS
    HookPlugins,
    Wrappers,
    Reextenders,
    MaxPlugins          \* bound on the length of options.use

Plugins == HookPlugins \cup Wrappers \cup Reextenders
UserHooks == "user"

\* "get" stands for the eight methods the wrappers replace; they leave
\* query and safe alone.
Methods == {"get", "query", "safe"}
WrappedMethods == {"get"}

VARIABLES
    use,        \* options.use
    applied,    \* how many of them have been extended
    defaults,   \* the hooks of the bare client, in order
    client      \* the hooks of a call and, by method, the wrappers around it

vars == <<use, applied, defaults, client>>

\* applyPluginHooks
MergedHooks(plugins) ==
    SelectSeq(plugins, LAMBDA p : p \in HookPlugins) \o <<UserHooks>>

BareClient(hooks) == [hooks |-> hooks, around |-> [m \in Methods |-> <<>>]]

Init ==
    /\ use \in {s \in SeqOf(Plugins, MaxPlugins) : IsInjective(s)}
    /\ applied = 0
    /\ defaults = MergedHooks(use)
    /\ client = BareClient(defaults)

Plugin == use[applied + 1]

KeepClient ==
    /\ Plugin \in HookPlugins
    /\ UNCHANGED client

\* {...misina, request: ..., get: ...}: the plugin is outermost.
WrapClient ==
    /\ Plugin \in Wrappers
    /\ client' = [client EXCEPT !.around =
                     [m \in Methods |->
                         IF m \in WrappedMethods THEN <<Plugin>> \o @[m] ELSE @[m]]]

\* misina.extend({ hooks }): createMisina(mergeOptions(defaults, child)).
ReextendClient ==
    /\ Plugin \in Reextenders
    /\ client' = BareClient(Append(defaults, Plugin))

Extend ==
    /\ applied < Len(use)
    /\ KeepClient \/ WrapClient \/ ReextendClient
    /\ applied' = applied + 1
    /\ UNCHANGED <<use, defaults>>

Next == Extend

Spec == Init /\ [][Next]_vars

-----------------------------------------------------------------------------
(* Properties.                                                              *)

(* The comment of createMisina (misina.ts:66-68) and of MisinaPlugin        *)
(* (types.ts:663): plugins are applied left to right, the first innermost,  *)
(* the last outermost.  What is around a call of the finished client is     *)
(* then every wrapper of the list, the last one first.  The code does not   *)
(* meet it when refreshOn401 follows a wrapper.                             *)
EveryWrapperApplies ==
    applied = Len(use) =>
        client.around["get"] = Reverse(SelectSeq(use, LAMBDA p : p \in Wrappers))
=============================================================================
