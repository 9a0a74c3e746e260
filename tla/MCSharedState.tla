---------------------------- MODULE MCSharedState ----------------------------
(* Model-checking instance of SharedState.                                  *)
EXTENDS SharedState, TLC

CONSTANTS
    c1, c2, c3,     \* calls
    r1, r2, r3      \* requests

\* Two calls send the same value of the header the server varies on.
VariantOfCall == (c1 :> "en") @@ (c2 :> "de") @@ (c3 :> "de")
Control(noStore, maxAge, swr, sie, immutable) ==
    [noStore |-> noStore, maxAge |-> maxAge, swr |-> swr, sie |-> sie, immutable |-> immutable]
CacheControls == {
    Control(FALSE, 0, 1, 0, FALSE),
    Control(FALSE, 2, 0, 1, TRUE),
    Control(TRUE, -1, 0, 0, FALSE)}

\* Two hosts of a site and a foreign one.
SiteOf == [h \in Hosts |-> IF h = "api.a" THEN "a" ELSE h]

\* What layers say of the headers: nothing, everything, or what they know.
Nothing == [n \in Names |-> "absent"]
Everything == [n \in Names |-> "set"]
Credentials == [Nothing EXCEPT !["authorization"] = "set", !["content-type"] = "set"]
Undefined == [Nothing EXCEPT !["authorization"] = "undefined", !["accept-encoding"] = "set"]
Plain(hs) == [
    headers |-> hs, hooks |-> FALSE, plugin |-> FALSE, timeout |-> "absent",
    retry |-> {}, defer |-> FALSE, state |-> "absent", replaces |-> {}]
ClientLayers == {
    [Plain(Nothing) EXCEPT !.plugin = TRUE, !.hooks = TRUE, !.state = "set"],
    [Plain(Everything) EXCEPT !.hooks = TRUE, !.retry = {"limit"}],
    [Plain(Undefined) EXCEPT !.timeout = "undefined", !.defer = TRUE, !.state = "undefined"],
    [Plain(Credentials) EXCEPT !.replaces = {"headers", "hooks"}, !.hooks = TRUE],
    [Plain(Credentials) EXCEPT !.timeout = "set", !.retry = {"delay"}]}
CallLayers == {
    Plain(Nothing),
    [Plain(Undefined) EXCEPT !.hooks = TRUE, !.defer = TRUE, !.timeout = "undefined"],
    [Plain(Credentials) EXCEPT !.retry = {"limit"}]}
DeferredLayers == {Plain(Nothing), Plain(Undefined), [Plain(Credentials) EXCEPT !.timeout = "set"]}

\* A request every route matches, one the second matches, one that none does.
Patterns == <<{r1}, {r1, r2}>>

\* The two calls that send the same header.
Symmetry == Permutations({c2, c3})
=============================================================================
