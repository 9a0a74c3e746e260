------------------------------ MODULE Redirects ------------------------------
(***************************************************************************)
(* What a chain of redirects carries along: the header and method policy   *)
(* of followRedirects, src/src/_redirect.ts, with the cookieJar plugin     *)
(* around it, src/src/cookie/index.ts.  A url is a host and a scheme; the  *)
(* jar outlives a call and the next one starts from it.                    *)
(***************************************************************************)
EXTENDS Integers, FiniteSets

CONSTANTS
    Hosts,
    ParentOf,       \* the host each is a subdomain of, itself at the top
    MaxRedirects,   \* redirectMaxCount
    AllowDowngrade,
    StripExtra,     \* redirectStripHeaders
    Attached,       \* the headers a call may be given
    MaxCalls        \* bound

Urls == [host : Hosts, https : BOOLEAN]

\* Names stand for the kinds of headers that are treated apart.
Headers == {"authorization", "accept", "custom", "content-type"}
Sensitive == {"authorization"}
Safe == {"accept"}

RedirectsAssumption ==
    /\ Hosts # {} /\ ParentOf \in [Hosts -> Hosts]
    /\ MaxRedirects \in Nat /\ MaxCalls \in Nat
    /\ AllowDowngrade \in BOOLEAN
    /\ StripExtra \subseteq Headers /\ Attached \subseteq SUBSET Headers

VARIABLES
    pc,
    first,          \* ctx.request.url
    current,        \* url of the request under way
    method, headers, cookies,
    visited,
    jar,            \* StoredCookies; `issuer' is read by properties only
    left,           \* the chain has left the origin it began at
    mixed,          \* a call was redirected to another host
    calls

vars == <<pc, first, current, method, headers, cookies, visited, jar, left, mixed, calls>>
request == <<first, current, method, headers, cookies, visited, left>>

Cookies == [domain : Hosts, secure : BOOLEAN, issuer : Hosts]

TypeOK ==
    /\ pc \in {"idle", "sent", "failed"}
    /\ {first, current} \subseteq Urls
    /\ method \in {"GET", "POST"}
    /\ headers \subseteq Headers
    /\ {cookies, jar} \subseteq SUBSET Cookies
    /\ \A c, d \in jar : c.domain = d.domain => c = d
    /\ visited \in 0..MaxRedirects + 1
    /\ {left, mixed} \subseteq BOOLEAN
    /\ calls \in 0..MaxCalls

Home == CHOOSE u \in Urls : u.https

Init ==
    /\ pc = "idle"
    /\ first = Home /\ current = Home
    /\ method = "GET" /\ headers = {} /\ cookies = {}
    /\ visited = 0
    /\ jar = {}
    /\ left = FALSE /\ mixed = FALSE
    /\ calls = 0

-----------------------------------------------------------------------------
(* MemoryCookieJar.  All cookies have one name and path: one per domain.    *)

DomainMatches(host, domain) == host = domain \/ ParentOf[host] = domain

\* getCookieString.
CookiesFor(j, u) == {c \in j : DomainMatches(u.host, c.domain) /\ (c.secure => u.https)}

\* A Set-Cookie header: without a Domain it is the host's own.
SetCookies(issuer) == {[kind |-> "none"]} \cup
    [kind : {"set"}, domain : Hosts \cup {"own"}, secure : BOOLEAN, issuer : {issuer}] \cup
    [kind : {"delete"}, domain : Hosts \cup {"own"}, issuer : {issuer}]

\* Faulty variant of SetCookie: the Domain attribute is not checked.
SetCookieAnywhere(j, sc, u) ==
    IF sc.kind = "none" THEN j
    ELSE LET domain == IF sc.domain = "own" THEN u.host ELSE sc.domain IN
         {c \in j : c.domain # domain} \cup
         (IF sc.kind = "set"
          THEN {[domain |-> domain, secure |-> sc.secure, issuer |-> sc.issuer]} ELSE {})

\* The url is the one the plugin passes, which is not always the issuer's.
SetCookie(j, sc, u) ==
    IF sc.kind = "none" THEN j
    ELSE LET domain == IF sc.domain = "own" THEN u.host ELSE sc.domain IN
         IF ~DomainMatches(u.host, domain) THEN j
         ELSE {c \in j : c.domain # domain} \cup
              (IF sc.kind = "set"
               THEN {[domain |-> domain, secure |-> sc.secure, issuer |-> sc.issuer]} ELSE {})

-----------------------------------------------------------------------------
(* followRedirects.                                                         *)

\* Faulty variant of FilterHeaders: only the sensitive headers are removed.
FilterSensitive(hs, sameOrigin) == IF sameOrigin THEN hs \ StripExtra ELSE hs \ Sensitive

FilterHeaders(hs, sameOrigin) ==
    IF sameOrigin THEN hs \ StripExtra ELSE (hs \cap Safe) \ StripExtra

ToGet(status) == status \in {301, 302, 303} /\ method = "POST"

\* beforeRequest of cookieJar, then the driver.
Call(u, m, hs) ==
    /\ pc = "idle" /\ calls < MaxCalls
    /\ calls' = calls + 1
    /\ first' = u /\ current' = u
    /\ method' = m
    /\ headers' = hs
    /\ cookies' = CookiesFor(jar, u)
    /\ visited' = 0
    /\ left' = FALSE
    /\ pc' = "sent"
    /\ UNCHANGED <<jar, mixed>>

\* The ways out that throw.
Refused(u) == visited >= MaxRedirects \/ (~AllowDowngrade /\ current.https /\ ~u.https)

Refuse(u) ==
    /\ pc = "sent"
    /\ Refused(u)
    /\ pc' = "failed"
    /\ UNCHANGED <<request, jar, mixed, calls>>

\* A redirect is followed; beforeRedirect of cookieJar stores under the next
\* url what the previous one set, and reads the Cookie header anew.
Follow(u, status, sc) ==
    /\ pc = "sent"
    /\ ~Refused(u)
    /\ visited' = visited + 1
    /\ current' = u
    /\ headers' = FilterHeaders(headers, u = current)
                    \ (IF ToGet(status) THEN {"content-type"} ELSE {})
    /\ method' = IF ToGet(status) THEN "GET" ELSE method
    /\ jar' = SetCookie(jar, sc, u)
    /\ cookies' = CookiesFor(jar', u)
    /\ left' = (left \/ u # first)
    /\ mixed' = (mixed \/ u.host # first.host)
    /\ UNCHANGED <<pc, first, calls>>

\* afterResponse of cookieJar: ctx.request is the first request.
Finish(sc) ==
    /\ pc = "sent"
    /\ pc' = "idle"
    /\ jar' = SetCookie(jar, sc, first)
    /\ UNCHANGED <<request, mixed, calls>>

\* The caller is told, and may call again.
Recover ==
    /\ pc = "failed"
    /\ pc' = "idle"
    /\ UNCHANGED <<request, jar, mixed, calls>>

Next ==
    \/ \E u \in Urls, m \in {"GET", "POST"}, hs \in Attached : Call(u, m, hs)
    \/ \E u \in Urls : Refuse(u)
    \/ \E u \in Urls, status \in {301, 303, 307}, sc \in SetCookies(current.host) :
        Follow(u, status, sc)
    \/ \E sc \in SetCookies(current.host) : Finish(sc)
    \/ Recover

Spec == Init /\ [][Next]_vars

-----------------------------------------------------------------------------

(* What the caller attached for the origin it named, credentials and custom *)
(* headers alike, is not sent after the chain has left that origin, not     *)
(* even when it comes back (filterRedirectHeaders).                         *)
HeadersStayHome ==
    pc = "sent" /\ left => headers \subseteq Safe

(* A chain that has once been secure stays so unless downgrades are         *)
(* allowed, and nothing goes out past the limit (isHttpsDowngrade).         *)
ChainsAreConfined ==
    pc = "sent" =>
        /\ visited <= MaxRedirects
        /\ first.https /\ ~AllowDowngrade => current.https

(* A cookie goes to hosts within the domain of the host that issued it, and *)
(* a Secure one over https only, through deletions and cookies set on the   *)
(* way, until a call is redirected to another host: from then on the plugin *)
(* stores cookies under urls that did not issue them (setCookie,            *)
(* getCookieString, the hooks of cookieJar).                                *)
CookiesStayInTheirDomain ==
    pc = "sent" =>
        /\ \A c \in cookies : c.secure => current.https
        /\ ~mixed => \A c \in cookies : DomainMatches(c.issuer, c.domain) /\ DomainMatches(current.host, c.domain)
=============================================================================
