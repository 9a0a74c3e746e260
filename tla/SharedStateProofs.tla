-------------------------- MODULE SharedStateProofs --------------------------
(***************************************************************************)
(* Theorems about SharedState, for every value of its constants: the       *)
(* breaker, the cache, the HTTP/2 sessions, the redirects with their cookie*)
(* jar, the clients and the test client.  A step moves one part            *)
(* (OnePartMoves), so what BreakerProofs proves of the breaker holds here, *)
(* and each other part has an inductive invariant of its own: Http2Inv,    *)
(* RedirectsInv, CacheInv, ClientsInv, TestInv.                            *)
(***************************************************************************)
EXTENDS SharedState, TLAPS, SequenceTheorems, WellFoundedInduction

Alone == INSTANCE BreakerProofs WITH Calls <- Callers, now <- clock

-----------------------------------------------------------------------------
(* A step is one of a single part, and a stutter for every other.           *)
LEMMA OnePartMoves ==
  ASSUME [Next]_vars
  PROVE  /\ [Breaker!Next]_breakerVars
         /\ [Cache!Next]_cacheVars
         /\ [Http2!Next]_http2Vars
         /\ [Redirects!Next]_redirectVars
         /\ [Clients!Next]_optionsVars
         /\ [Test!Next]_testVars
<1>1. CASE UNCHANGED vars
  BY <1>1 DEF vars
<1>2. CASE part = "cache" /\ Cache!Next /\ Others(part)
  BY <1>2 DEF Others
<1>3. CASE part = "http2" /\ Http2!Next /\ Others(part)
  BY <1>3 DEF Others
<1>4. CASE part = "redirects" /\ Redirects!Next /\ Others(part)
  BY <1>4 DEF Others
<1>5. CASE part = "options" /\ Clients!Next /\ Others(part)
  BY <1>5 DEF Others
<1>6. CASE part = "test" /\ Test!Next /\ Others(part)
  BY <1>6 DEF Others
<1>7. CASE part = "breaker" /\ Breaker!Next /\ Others(part)
  BY <1>7 DEF Others
<1>. QED
  BY <1>1, <1>2, <1>3, <1>4, <1>5, <1>6, <1>7 DEF Next

-----------------------------------------------------------------------------
(* A cached session is open; as long as sessions do not overlap, at most    *)
(* one has begun and not ended.                                             *)
CachedIsOpen == cached # NoSession => session[cached] = "open"
Alive(s) == session[s] \notin {"none", "ended"}
OneAtATime == ~overlapped => \A s, t \in Requests : Alive(s) /\ Alive(t) => s = t

Http2Inv == Http2!TypeOK /\ Http2!EntriesExpire /\ Http2!OnlyOverlapOrphans
            /\ CachedIsOpen /\ OneAtATime

(* There is no session.                                                     *)
LEMMA Http2Starts == ASSUME Http2!Http2Assumption, Http2!Init PROVE Http2Inv
BY DEF Http2!Init, Http2Inv, Http2!TypeOK, Http2!EntriesExpire, Http2!OnlyOverlapOrphans,
       CachedIsOpen,
       OneAtATime, Alive, Http2!SessionStates, Http2!Phases

(* Only a connection adds a session, and it knows whether it overlaps; what *)
(* removes an entry may remove that of another session, but not of an open  *)
(* one unless they overlap.                                                 *)
LEMMA Http2Steps == ASSUME Http2!Http2Assumption, Http2Inv, [Http2!Next]_http2Vars PROVE Http2Inv'
<1> USE DEF Http2!SessionStates, Http2!Phases
<1>1. ASSUME NEW r \in Requests, Http2!Reuse(r)
      PROVE  Http2Inv'
  BY <1>1 DEF Http2!Reuse, Http2!Usable, Http2Inv, Http2!TypeOK, Http2!EntriesExpire,
              Http2!OnlyOverlapOrphans, CachedIsOpen, OneAtATime, Alive
<1>2. ASSUME NEW r \in Requests, Http2!FindNone(r)
      PROVE  Http2Inv'
  BY <1>2 DEF Http2!FindNone, Http2Inv, Http2!TypeOK, Http2!EntriesExpire,
              Http2!OnlyOverlapOrphans, CachedIsOpen, OneAtATime, Alive
<1>3. ASSUME NEW r \in Requests, Http2!Connect(r)
      PROVE  Http2Inv'
  <2>1. Http2!TypeOK' /\ Http2!EntriesExpire'
    BY <1>3 DEF Http2!Connect, Http2!Http2Assumption, Http2Inv, Http2!TypeOK, Http2!EntriesExpire
  <2>2. ~overlapped' => \A s \in Requests \ {r} : ~Alive(s)'
    BY <1>3 DEF Http2!Connect, Http2Inv, Http2!TypeOK, Alive
  <2>. QED
    BY <1>3, <2>1, <2>2 DEF Http2!Connect, Http2Inv, Http2!TypeOK, Http2!OnlyOverlapOrphans,
                            CachedIsOpen, OneAtATime, Alive
<1>4. ASSUME NEW r \in Requests, NEW p \in Http2!Phases,
             Http2!OpenStream(r, p) \/ Http2!StreamSettles(r, p)
      PROVE  Http2Inv'
  BY <1>4 DEF Http2!OpenStream, Http2!StreamSettles, Http2Inv, Http2!TypeOK, Http2!EntriesExpire,
              Http2!OnlyOverlapOrphans, CachedIsOpen, OneAtATime, Alive
<1>5. ASSUME NEW s \in Requests, Http2!Goaway(s) \/ Http2!Breaks(s) \/ Http2!Ends(s)
      PROVE  Http2Inv'
  <2>1. /\ Alive(s) /\ cached' = NoSession /\ timer' = FALSE
        /\ session' \in [Requests -> Http2!SessionStates]
        /\ session'[s] \in {"closing", "ended"}
        /\ \A t \in Requests \ {s} : session'[t] = session[t]
        /\ phase' \in [Requests -> Http2!Phases]
        /\ UNCHANGED <<uses, overlapped>>
    BY <1>5 DEF Http2!Goaway, Http2!Breaks, Http2!Ends, Http2!Drop, Http2Inv, Http2!TypeOK, Alive
  <2>2. Http2!EntriesExpire' /\ timer' \in BOOLEAN
    BY <2>1, Zenon DEF Http2!EntriesExpire
  <2>3. ~overlapped' => \A t \in Requests : ~Alive(t)' \/ (t = s /\ session'[s] = "closing")
    BY <2>1 DEF Http2Inv, CachedIsOpen, OneAtATime, Alive
  <2>. QED
    BY <2>1, <2>2, <2>3 DEF Http2Inv, Http2!TypeOK, Http2!OnlyOverlapOrphans, CachedIsOpen,
                            OneAtATime, Alive
<1>6. CASE Http2!IdleFires
  BY <1>6 DEF Http2!IdleFires, Http2!Usable, Http2!Drop, Http2Inv, Http2!TypeOK,
              Http2!EntriesExpire,
              Http2!OnlyOverlapOrphans, CachedIsOpen, OneAtATime, Alive
<1>7. CASE Http2!Dispose
  <2>1. /\ cached \in Requests /\ cached' = NoSession /\ timer' = FALSE
        /\ session' = [session EXCEPT ![cached] = "destroyed"]
        /\ phase' \in [Requests -> Http2!Phases]
        /\ UNCHANGED <<uses, overlapped>>
    BY <1>7 DEF Http2!Dispose, Http2!Drop, Http2Inv, Http2!TypeOK
  <2>2. Http2!EntriesExpire' /\ timer' \in BOOLEAN
    BY <2>1, Zenon DEF Http2!EntriesExpire
  <2>3. /\ session' \in [Requests -> Http2!SessionStates] /\ session'[cached] = "destroyed"
        /\ \A s \in Requests \ {cached} : session'[s] = session[s]
    BY <2>1 DEF Http2Inv, Http2!TypeOK
  <2>4. ~overlapped => \A s \in Requests : session'[s] # "open"
    BY <2>3 DEF Http2Inv, Http2!OnlyOverlapOrphans
  <2>5. ~overlapped => \A s \in Requests : Alive(s)' => Alive(s) \/ s = cached
    BY <2>3 DEF Alive
  <2>6. Alive(cached)
    BY <2>1 DEF Http2Inv, CachedIsOpen, Alive, Http2!Http2Assumption
  <2>. QED
    BY <2>1, <2>2, <2>3, <2>4, <2>5, <2>6
       DEF Http2Inv, Http2!TypeOK, Http2!OnlyOverlapOrphans, CachedIsOpen, OneAtATime, Alive
<1>8. CASE UNCHANGED http2Vars
  BY <1>8 DEF http2Vars, Http2Inv, Http2!TypeOK, Http2!EntriesExpire, Http2!OnlyOverlapOrphans,
              CachedIsOpen, OneAtATime, Alive
<1>. QED
  BY <1>1, <1>2, <1>3, <1>4, <1>5, <1>6, <1>7, <1>8 DEF Http2!Next, Http2!RequestStep

-----------------------------------------------------------------------------
(* A chain that has not left is where it began; until a call is redirected  *)
(* to another host, the jar holds cookies of their own issuers.             *)
StaysWhereItBegan ==
    redirectPc = "sent" =>
        /\ ~left => current = first
        /\ ~mixed => current.host = first.host

JarIsOwn == ~mixed => \A c \in jar : Redirects!DomainMatches(c.issuer, c.domain)

RedirectsInv ==
    /\ Redirects!TypeOK /\ StaysWhereItBegan /\ JarIsOwn
    /\ Redirects!HeadersStayHome /\ Redirects!ChainsAreConfined /\ Redirects!CookiesStayInTheirDomain

(* Nobody has called and the jar is empty.                                  *)
LEMMA RedirectsStart == ASSUME Redirects!RedirectsAssumption, Redirects!Init PROVE RedirectsInv
<1>1. Redirects!Home \in Redirects!Urls
  <2>1. PICK h \in Hosts : TRUE
    BY DEF Redirects!RedirectsAssumption
  <2>2. [host |-> h, https |-> TRUE] \in Redirects!Urls /\ [host |-> h, https |-> TRUE].https
    BY DEF Redirects!Urls
  <2>. QED
    BY <2>2 DEF Redirects!Home
<1>2. 0 \in 0..MaxRedirects + 1 /\ 0 \in 0..MaxCalls
  BY DEF Redirects!RedirectsAssumption
<1>3. Redirects!TypeOK
  BY <1>1, <1>2 DEF Redirects!Init, Redirects!TypeOK
<1>. QED
  BY <1>3 DEF Redirects!Init, RedirectsInv, StaysWhereItBegan, JarIsOwn, Redirects!HeadersStayHome,
              Redirects!ChainsAreConfined, Redirects!CookiesStayInTheirDomain

(* What a Set-Cookie header leaves in a jar: cookies, one for a domain, and *)
(* no new one but the issuer's own if the url is of the issuer.             *)
LEMMA SetCookieKeeps ==
  ASSUME Redirects!RedirectsAssumption, NEW j \in SUBSET Redirects!Cookies,
         \A c, d \in j : c.domain = d.domain => c = d,
         NEW u \in Redirects!Urls, NEW issuer \in Hosts, NEW sc \in Redirects!SetCookies(issuer)
  PROVE  /\ Redirects!SetCookie(j, sc, u) \subseteq Redirects!Cookies
         /\ \A c, d \in Redirects!SetCookie(j, sc, u) : c.domain = d.domain => c = d
         /\ \A c \in Redirects!SetCookie(j, sc, u) :
                c \in j \/ (c.issuer = issuer /\ Redirects!DomainMatches(u.host, c.domain))
<1> DEFINE domain == IF sc.domain = "own" THEN u.host ELSE sc.domain
           new == [domain |-> domain, secure |-> sc.secure, issuer |-> sc.issuer]
<1>1. CASE sc.kind = "none" \/ ~Redirects!DomainMatches(u.host, domain)
  BY <1>1 DEF Redirects!SetCookie
<1>2. CASE sc.kind # "none" /\ Redirects!DomainMatches(u.host, domain)
  <2>1. /\ sc.kind \in {"set", "delete"} /\ sc.issuer = issuer /\ sc.domain \in Hosts \cup {"own"}
        /\ sc.kind = "set" => sc.secure \in BOOLEAN
    BY <1>2 DEF Redirects!SetCookies
  <2>2. domain \in Hosts
    BY <2>1 DEF Redirects!Urls
  <2>3. Redirects!SetCookie(j, sc, u) =
            {c \in j : c.domain # domain} \cup (IF sc.kind = "set" THEN {new} ELSE {})
    BY <1>2 DEF Redirects!SetCookie
  <2>4. CASE sc.kind = "set"
    <3>1. new \in Redirects!Cookies /\ new.domain = domain /\ new.issuer = issuer
      BY <2>1, <2>2, <2>4 DEF Redirects!Cookies
    <3>. HIDE DEF new, domain
    <3>. QED
      BY <1>2, <2>3, <2>4, <3>1
  <2>5. CASE sc.kind # "set"
    BY <2>3, <2>5
  <2>. QED
    BY <2>4, <2>5
<1>. QED
  BY <1>1, <1>2

(* Calls, redirects, Set-Cookie headers on the way and refusals keep it.    *)
LEMMA RedirectsSteps ==
  ASSUME Redirects!RedirectsAssumption, RedirectsInv,
         [Redirects!Next]_redirectVars PROVE RedirectsInv'
<1> USE DEF Redirects!request
<1>0. /\ MaxRedirects \in Nat /\ MaxCalls \in Nat /\ visited \in Nat /\ redirectCalls \in 0..MaxCalls
      /\ first \in Redirects!Urls /\ current \in Redirects!Urls
      /\ first.host \in Hosts /\ current.host \in Hosts
      /\ jar \in SUBSET Redirects!Cookies /\ \A c, d \in jar : c.domain = d.domain => c = d
  BY DEF RedirectsInv, Redirects!TypeOK, Redirects!RedirectsAssumption, Redirects!Urls
<1>1. ASSUME NEW u \in Redirects!Urls, NEW m \in {"GET", "POST"}, NEW hs \in Attached,
             Redirects!Call(u, m, hs)
      PROVE  RedirectsInv'
  <2>1. /\ hs \subseteq Redirects!Headers /\ redirectCalls' \in 0..MaxCalls
        /\ Redirects!CookiesFor(jar, u) \subseteq Redirects!Cookies
    BY <1>0, <1>1 DEF Redirects!RedirectsAssumption, Redirects!Call, Redirects!CookiesFor
  <2>2. Redirects!TypeOK'
    <3>1. 0 \in 0..MaxRedirects + 1 /\ FALSE \in BOOLEAN /\ mixed \in BOOLEAN
      BY <1>0 DEF RedirectsInv, Redirects!TypeOK
    <3>. QED
      BY <1>0, <1>1, <2>1, <3>1 DEF Redirects!Call, RedirectsInv, Redirects!TypeOK
  <2>3. Redirects!CookiesStayInTheirDomain'
    BY <1>1 DEF Redirects!Call, Redirects!CookiesStayInTheirDomain, RedirectsInv, JarIsOwn,
                Redirects!CookiesFor
  <2>4. Redirects!ChainsAreConfined'
    BY <1>0, <1>1 DEF Redirects!Call, Redirects!ChainsAreConfined
  <2>. QED
    BY <1>1, <2>2, <2>3, <2>4
       DEF Redirects!Call, RedirectsInv, StaysWhereItBegan, JarIsOwn, Redirects!HeadersStayHome
<1>2. ASSUME NEW u \in Redirects!Urls, Redirects!Refuse(u)
      PROVE  RedirectsInv'
  BY <1>2 DEF Redirects!Refuse, RedirectsInv, Redirects!TypeOK, StaysWhereItBegan, JarIsOwn,
              Redirects!HeadersStayHome, Redirects!ChainsAreConfined,
              Redirects!CookiesStayInTheirDomain
<1>3. ASSUME NEW u \in Redirects!Urls, NEW status \in {301, 303, 307},
             NEW sc \in Redirects!SetCookies(current.host), Redirects!Follow(u, status, sc)
      PROVE  RedirectsInv'
  <2>1. /\ redirectPc = "sent" /\ redirectPc' = "sent" /\ visited' = visited + 1 /\ current' = u
        /\ jar' = Redirects!SetCookie(jar, sc, u) /\ cookies' = Redirects!CookiesFor(jar', u)
        /\ left' = (left \/ u # first) /\ mixed' = (mixed \/ u.host # first.host)
        /\ UNCHANGED <<first, redirectCalls>>
        /\ method' \in {"GET", "POST"}
        /\ ~Redirects!Refused(u)
    BY <1>3 DEF Redirects!Follow, RedirectsInv, Redirects!TypeOK
  <2>2. /\ headers' \subseteq headers /\ headers' \subseteq Redirects!Headers
        /\ u # current => headers' \subseteq Redirects!Safe
    BY <1>3 DEF Redirects!Follow, Redirects!FilterHeaders, RedirectsInv, Redirects!TypeOK
  <2>3. visited + 1 <= MaxRedirects /\ (~AllowDowngrade /\ current.https => u.https)
    BY <1>0, <2>1 DEF Redirects!Refused
  <2>4. /\ jar' \subseteq Redirects!Cookies
        /\ \A c, d \in jar' : c.domain = d.domain => c = d
        /\ \A c \in jar' : c \in jar
                          \/ (c.issuer = current.host /\ Redirects!DomainMatches(u.host, c.domain))
    BY <1>0, <2>1, SetCookieKeeps
  <2>5. ~mixed' => ~mixed /\ u.host = first.host /\ current.host = first.host
    BY <2>1 DEF RedirectsInv, StaysWhereItBegan
  <2>6. JarIsOwn'
    <3>1. ASSUME ~mixed', NEW c \in jar'
          PROVE  Redirects!DomainMatches(c.issuer, c.domain)
      <4>1. CASE c \in jar
        BY <2>5, <3>1, <4>1 DEF RedirectsInv, JarIsOwn
      <4>2. CASE c.issuer = current.host /\ Redirects!DomainMatches(u.host, c.domain)
        BY <2>5, <3>1, <4>2
      <4>. QED
        BY <2>4, <4>1, <4>2
    <3>. QED
      BY <3>1 DEF JarIsOwn
  <2>7. Redirects!TypeOK'
    <3>1. left' \in BOOLEAN /\ mixed' \in BOOLEAN
      BY <2>1 DEF RedirectsInv, Redirects!TypeOK
    <3>2. cookies' \subseteq Redirects!Cookies
      BY <2>1, <2>4 DEF Redirects!CookiesFor
    <3>3. visited' \in 0..MaxRedirects + 1
      BY <1>0, <2>1, <2>3
    <3>. QED
      BY <2>1, <2>2, <2>4, <3>1, <3>2, <3>3 DEF RedirectsInv, Redirects!TypeOK
  <2>8. Redirects!HeadersStayHome'
    BY <2>1, <2>2 DEF RedirectsInv, Redirects!HeadersStayHome, StaysWhereItBegan
  <2>9. Redirects!ChainsAreConfined'
    BY <2>1, <2>3 DEF RedirectsInv, Redirects!ChainsAreConfined
  <2>10. Redirects!CookiesStayInTheirDomain'
    BY <2>1, <2>6 DEF Redirects!CookiesStayInTheirDomain, Redirects!CookiesFor, JarIsOwn
  <2>11. StaysWhereItBegan'
    BY <2>1, <2>5 DEF StaysWhereItBegan
  <2>. QED
    BY <2>6, <2>7, <2>8, <2>9, <2>10, <2>11 DEF RedirectsInv
<1>4. ASSUME NEW sc \in Redirects!SetCookies(current.host), Redirects!Finish(sc)
      PROVE  RedirectsInv'
  <2>1. /\ redirectPc = "sent" /\ redirectPc' = "idle" /\ jar' = Redirects!SetCookie(jar, sc, first)
        /\ UNCHANGED <<first, current, method, headers, cookies, visited, left, mixed, redirectCalls>>
    BY <1>4 DEF Redirects!Finish
  <2>2. /\ jar' \subseteq Redirects!Cookies
        /\ \A c, d \in jar' : c.domain = d.domain => c = d
        /\ \A c \in jar' :
            c \in jar \/ (c.issuer = current.host /\ Redirects!DomainMatches(first.host, c.domain))
    BY <1>0, <2>1, SetCookieKeeps
  <2>3. ~mixed => current.host = first.host
    BY <2>1 DEF RedirectsInv, StaysWhereItBegan
  <2>4. JarIsOwn'
    BY <2>1, <2>2, <2>3 DEF RedirectsInv, JarIsOwn
  <2>5. Redirects!TypeOK'
    BY <2>1, <2>2 DEF RedirectsInv, Redirects!TypeOK
  <2>. QED
    BY <2>1, <2>4, <2>5 DEF RedirectsInv, StaysWhereItBegan, Redirects!HeadersStayHome,
                            Redirects!ChainsAreConfined, Redirects!CookiesStayInTheirDomain
<1>5. CASE Redirects!Recover
  BY <1>5 DEF Redirects!Recover, RedirectsInv, Redirects!TypeOK, StaysWhereItBegan, JarIsOwn,
              Redirects!HeadersStayHome, Redirects!ChainsAreConfined,
              Redirects!CookiesStayInTheirDomain
<1>6. CASE UNCHANGED redirectVars
  BY <1>6 DEF redirectVars, RedirectsInv, Redirects!TypeOK, StaysWhereItBegan, JarIsOwn,
              Redirects!HeadersStayHome, Redirects!ChainsAreConfined,
              Redirects!CookiesStayInTheirDomain
<1>. QED
  BY <1>1, <1>2, <1>3, <1>4, <1>5, <1>6 DEF Redirects!Next

-----------------------------------------------------------------------------
Item == [key : Cache!Keys, entry : Cache!Entry]

(* What every entry is that a call may be answered from: it names the       *)
(* variant it was made for, it expires within its lifetime, and it may be   *)
(* stored.                                                                  *)
Sound(e) ==
    /\ e \in Cache!Entry
    /\ e.by = "call" =>
        (e.vary = "none" /\ e.for = "any") \/ e.vary = "*" \/ (e.vary \in Variants /\ e.for = e.vary)
    /\ e.expires <= e.heard + Cache!Lifetime(e)
    /\ ~e.cc.noStore

StoreIsSound ==
    /\ map \in Seq(Item) /\ Len(map) <= MaxEntries
    /\ \A i, j \in DOMAIN map : map[i].key = map[j].key => i = j
    /\ \A i \in DOMAIN map : Sound(map[i].entry)

(* An entry a call has in hand across an await is one of those.             *)
HeldIsSound ==
    /\ held \in [Calls -> Cache!Entry \cup {Cache!NoEntry}]
    /\ \A c \in Calls : held[c] # Cache!NoEntry => Sound(held[c])
    /\ \A c \in Calls : cachePc[c] \in {"variant", "confirm", "store", "base"}
            => held[c] # Cache!NoEntry

(* Who sends a validator has found the base entry, and only an eviction     *)
(* takes it away.                                                           *)
BaseWasThere ==
    \A c \in Calls : cachePc[c] \in {"variant", "conditional"} => evicted \/ Cache!Stored("base")

AnswersAreRight ==
    /\ Cache!VariantsKeptApart /\ Cache!StaleWithinWindows /\ Cache!NoStoreIsPrivate
    /\ Cache!NotModifiedOnlyAfterEviction

CacheInv == Cache!TypeOK /\ StoreIsSound /\ HeldIsSound /\ BaseWasThere /\ AnswersAreRight

(* The value for no entry is not an entry.                                  *)
LEMMA NoEntryIsNone == ASSUME NEW e \in Cache!Entry PROVE e # Cache!NoEntry
BY DEF Cache!Entry, Cache!NoEntry

(* What the fields of an entry are.                                         *)
LEMMA EntryFields ==
  ASSUME Cache!CacheAssumption, NEW e \in Cache!Entry
  PROVE  /\ e.expires \in Int /\ e.heard \in Nat /\ e.cc \in Controls
         /\ e.cc.maxAge \in Int /\ e.cc.swr \in Nat /\ e.cc.sie \in Nat /\ e.cc.noStore \in BOOLEAN
         /\ Cache!Lifetime(e) \in Nat
<1>1. e.expires \in Int /\ e.heard \in Nat /\ e.cc \in Controls
  BY DEF Cache!Entry
<1>2. e.cc \in Cache!CacheControl /\ Ttl \in Nat
  BY <1>1 DEF Cache!CacheAssumption
<1>. QED
  BY <1>1, <1>2 DEF Cache!CacheControl, Cache!Lifetime

(* What a get finds.                                                        *)
LEMMA GetFinds ==
  ASSUME StoreIsSound, NEW k
  PROVE  \/ Cache!StoreGet(k) = Cache!NoEntry /\ ~Cache!Stored(k)
         \/ Sound(Cache!StoreGet(k)) /\ Cache!StoreGet(k) # Cache!NoEntry /\ Cache!Stored(k)
<1>1. CASE ~Cache!Stored(k)
  BY <1>1 DEF Cache!StoreGet
<1>2. CASE Cache!Stored(k)
  <2>1. \E i \in DOMAIN map : Cache!StoreGet(k) = map[i].entry
    BY <1>2 DEF Cache!StoreGet, Cache!Stored
  <2>2. Sound(Cache!StoreGet(k))
    BY <2>1 DEF StoreIsSound
  <2>. QED
    BY <1>2, <2>2, NoEntryIsNone DEF Sound
<1>. QED
  BY <1>1, <1>2

(* A place in a sequence is the last one, or one with another behind it.    *)
LEMMA LastOrBefore ==
  ASSUME NEW n \in Nat, NEW i \in 1..n
  PROVE  i = n \/ (i \in 1..n - 1 /\ i + 1 \in 1..n)
OBVIOUS

(* What a set leaves: a sound store, with every key it had unless it evicts. *)
LEMMA SetKeeps ==
  ASSUME Cache!CacheAssumption, StoreIsSound, evicted \in BOOLEAN,
         NEW k \in Cache!Keys, NEW e, Sound(e), Cache!StoreSet(k, e)
  PROVE  /\ StoreIsSound'
         /\ evicted' \in BOOLEAN /\ (evicted => evicted')
         /\ \A n : Cache!Stored(n) => Cache!Stored(n)' \/ evicted'
<1> DEFINE item == [key |-> k, entry |-> e]
           drop == ~Cache!Stored(k) /\ Len(map) = MaxEntries
<1>0. /\ map \in Seq(Item) /\ Len(map) \in Nat /\ Len(map) <= MaxEntries /\ MaxEntries \in Nat \ {0}
      /\ DOMAIN map = 1..Len(map)
  BY DEF StoreIsSound, Cache!CacheAssumption
<1>1. item \in Item /\ item.key = k /\ item.entry = e
  BY DEF Item, Sound
<1>2. /\ map' = IF Cache!Stored(k) THEN [i \in DOMAIN map |-> IF map[i].key = k THEN item ELSE map[i]]
                ELSE Append(IF drop THEN Tail(map) ELSE map, item)
      /\ evicted' = (evicted \/ drop)
  BY DEF Cache!StoreSet
<1>3. evicted' \in BOOLEAN /\ (evicted => evicted') /\ (drop => evicted')
  BY <1>2, Zenon
<1>. HIDE DEF item
<1>4. CASE Cache!Stored(k)
  <2>1. map' = [i \in 1..Len(map) |-> IF map[i].key = k THEN item ELSE map[i]]
    BY <1>0, <1>2, <1>4
  <2>2. \A i \in 1..Len(map) : map[i] \in Item
    BY <1>0
  <2>3. /\ map' \in Seq(Item) /\ Len(map') = Len(map) /\ DOMAIN map' = 1..Len(map)
        /\ \A i \in 1..Len(map) : map'[i] = IF map[i].key = k THEN item ELSE map[i]
    <3>1. map' \in [1..Len(map) -> Item]
      BY <1>1, <2>1, <2>2
    <3>2. map' \in Seq(Item)
      BY <1>0, <3>1, SeqDef
    <3>. QED
      BY <1>0, <2>1, <3>1, <3>2
  <2>4. \A i \in 1..Len(map) : map'[i].key = map[i].key
    BY <1>1, <2>3
  <2>5. \A i \in 1..Len(map) : Sound(map'[i].entry)
    BY <1>0, <1>1, <2>3 DEF StoreIsSound
  <2>6. StoreIsSound'
    BY <1>0, <2>3, <2>4, <2>5 DEF StoreIsSound
  <2>7. \A n : Cache!Stored(n) => Cache!Stored(n)'
    BY <1>0, <2>3, <2>4 DEF Cache!Stored
  <2>. QED
    BY <1>3, <2>6, <2>7
<1>5. CASE ~Cache!Stored(k) /\ drop
  <2>1. map' = Append(Tail(map), item) /\ Len(map) >= 1 /\ evicted'
    BY <1>0, <1>2, <1>3, <1>5
  <2>2. /\ Tail(map) \in Seq(Item) /\ Len(Tail(map)) = Len(map) - 1
        /\ \A i \in 1..Len(map) - 1 : Tail(map)[i] = map[i + 1]
    BY <1>0, <2>1
  <2>3. /\ map' \in Seq(Item) /\ Len(map') = Len(map) /\ DOMAIN map' = 1..Len(map)
        /\ \A i \in 1..Len(map) - 1 : map'[i] = map[i + 1]
        /\ map'[Len(map)] = item
    BY <1>0, <1>1, <2>1, <2>2
  <2>4. \A i \in 1..Len(map) : map[i].key # k
    BY <1>0, <1>5 DEF Cache!Stored
  <2>5. ASSUME NEW i \in 1..Len(map), NEW j \in 1..Len(map), map'[i].key = map'[j].key
        PROVE  i = j
    <3>1. CASE i = Len(map) \/ j = Len(map)
      <4>1. \A n \in 1..Len(map) - 1 : n + 1 \in 1..Len(map) /\ map'[n].key # k
        BY <1>0, <2>3, <2>4
      <4>2. i = Len(map) \/ i \in 1..Len(map) - 1
        BY <1>0, LastOrBefore
      <4>3. j = Len(map) \/ j \in 1..Len(map) - 1
        BY <1>0, LastOrBefore
      <4>. QED
        BY <1>1, <2>3, <2>5, <3>1, <4>1, <4>2, <4>3
    <3>2. CASE i # Len(map) /\ j # Len(map)
      <4>1. /\ i + 1 \in 1..Len(map) /\ j + 1 \in 1..Len(map)
            /\ map'[i] = map[i + 1] /\ map'[j] = map[j + 1]
        BY <1>0, <2>3, <3>2, LastOrBefore
      <4>2. i + 1 = j + 1
        BY <1>0, <2>5, <4>1 DEF StoreIsSound
      <4>. QED
        BY <4>2
    <3>. QED
      BY <3>1, <3>2
  <2>6. ASSUME NEW i \in 1..Len(map)
        PROVE  Sound(map'[i].entry)
    <3>1. CASE i = Len(map)
      BY <1>1, <2>3, <3>1
    <3>2. CASE i # Len(map)
      <4>1. i + 1 \in 1..Len(map) /\ map'[i] = map[i + 1]
        BY <1>0, <2>3, <3>2, LastOrBefore
      <4>. QED
        BY <1>0, <4>1 DEF StoreIsSound
    <3>. QED
      BY <3>1, <3>2
  <2>7. StoreIsSound'
    BY <1>0, <2>3, <2>5, <2>6 DEF StoreIsSound
  <2>. QED
    BY <1>3, <2>1, <2>7
<1>6. CASE ~Cache!Stored(k) /\ ~drop
  <2>1. map' = Append(map, item) /\ Len(map) # MaxEntries
    BY <1>2, <1>6, Zenon
  <2>0. Len(map) + 1 <= MaxEntries
    <3>1. \A n, m \in Nat : n <= m /\ n # m => n + 1 <= m
      OBVIOUS
    <3>. QED
      BY <1>0, <2>1, <3>1
  <2>2. /\ map' \in Seq(Item) /\ Len(map') = Len(map) + 1 /\ DOMAIN map' = 1..Len(map) + 1
        /\ \A i \in 1..Len(map) : map'[i] = map[i]
        /\ map'[Len(map) + 1] = item
    <3>1. /\ Append(map, item) \in Seq(Item) /\ Len(Append(map, item)) = Len(map) + 1
          /\ \A i \in 1..Len(map) : Append(map, item)[i] = map[i]
          /\ Append(map, item)[Len(map) + 1] = item
      BY <1>0, <1>1, AppendProperties
    <3>2. /\ map' \in Seq(Item) /\ Len(map') = Len(map) + 1
          /\ \A i \in 1..Len(map) : map'[i] = map[i]
          /\ map'[Len(map) + 1] = item
      BY <2>1, <3>1
    <3>. QED
      BY <3>2
  <2>3. \A i \in 1..Len(map) : map[i].key # k
    BY <1>0, <1>6 DEF Cache!Stored
  <2>4. \A i \in 1..Len(map) + 1 : i \in 1..Len(map) \/ i = Len(map) + 1
    BY <1>0
  <2>5. \A i, j \in 1..Len(map) + 1 : map'[i].key = map'[j].key => i = j
    BY <1>0, <1>1, <2>2, <2>3, <2>4 DEF StoreIsSound
  <2>6. \A i \in 1..Len(map) + 1 : Sound(map'[i].entry)
    BY <1>0, <1>1, <2>2, <2>4 DEF StoreIsSound
  <2>7. StoreIsSound'
    BY <2>0, <2>2, <2>5, <2>6 DEF StoreIsSound
  <2>8. \A n : Cache!Stored(n) => Cache!Stored(n)'
    BY <1>0, <2>2 DEF Cache!Stored
  <2>. QED
    BY <1>3, <2>7, <2>8
<1>. QED
  BY <1>4, <1>5, <1>6

(* The store is kept.                                                       *)
LEMMA StoreKeeps ==
  ASSUME StoreIsSound, evicted \in BOOLEAN, Cache!StoreKept
  PROVE  /\ StoreIsSound'
         /\ evicted' \in BOOLEAN /\ (evicted => evicted')
         /\ \A n : Cache!Stored(n) => Cache!Stored(n)' \/ evicted'
<1>1. map' = map /\ evicted' = evicted
  BY DEF Cache!StoreKept
<1>2. StoreIsSound'
  BY <1>1 DEF StoreIsSound
<1>3. \A n : Cache!Stored(n) => Cache!Stored(n)'
  BY <1>1 DEF Cache!Stored
<1>4. evicted' \in BOOLEAN /\ (evicted => evicted')
  BY <1>1, Zenon
<1>. QED
  BY <1>2, <1>3, <1>4

(* Nothing is said, or what the server sent, and no bare 304.               *)
LEMMA SilenceIsRight == ASSUME said' = Cache!Silence PROVE AnswersAreRight'
BY DEF AnswersAreRight, Cache!Silence, Cache!VariantsKeptApart, Cache!FromStore,
       Cache!StaleWithinWindows,
       Cache!NoStoreIsPrivate, Cache!NotModifiedOnlyAfterEviction

(* An answer that is passed on breaks no promise.                           *)
LEMMA PassedOnIsRight ==
  ASSUME NEW c, NEW status, Cache!PassOn(c, status), status = 304 => evicted'
  PROVE  AnswersAreRight'
<1>1. said' = [how |-> "server", to |-> VariantOf[c], status |-> status]
  BY DEF Cache!PassOn
<1>2. said'.how = "server" /\ said'.status = status
  BY <1>1
<1>. QED
  BY <1>2 DEF AnswersAreRight, Cache!VariantsKeptApart, Cache!FromStore, Cache!StaleWithinWindows,
              Cache!NoStoreIsPrivate, Cache!NotModifiedOnlyAfterEviction

(* An answer out of the store is as it should be if the entry is sound and  *)
(* the call was allowed to have it.                                         *)
LEMMA AnsweredIsRight ==
  ASSUME Cache!CacheAssumption, now \in 0..MaxNow, NEW c \in Calls, NEW how, NEW e, Sound(e),
         Cache!AnswerFrom(c, how, e),
         \/ how = "hit" /\ Cache!VaryMatches(e, c) /\ Cache!Fresh(e)
         \/ how = "swr" /\ Cache!VaryMatches(e, c) /\ Cache!WithinRevalidate(e)
         \/ how = "error" /\ Cache!WithinError(e)
         \/ how = "confirmed" /\ e.heard = now
  PROVE  AnswersAreRight'
<1>1. said' = [how |-> how, to |-> VariantOf[c], entry |-> e, age |-> now - e.heard]
  BY DEF Cache!AnswerFrom
<1>2. said'.how = how /\ said'.to = VariantOf[c] /\ said'.entry = e /\ said'.age = now - e.heard
  BY <1>1
<1>. DEFINE l == Cache!Lifetime(e)
<1>3. /\ e.expires \in Int /\ e.heard \in Nat /\ e.cc.swr \in Nat /\ e.cc.sie \in Nat
      /\ l \in Nat /\ now \in Int /\ e.expires <= e.heard + l
  BY EntryFields DEF Sound, Cache!CacheAssumption
<1>. HIDE DEF l
<1>4. Cache!VariantsKeptApart'
  <2>1. SUFFICES ASSUME how \in {"hit", "swr"}, e.by = "call"
                 PROVE  e.for \in {"any", VariantOf[c]}
    BY <1>2 DEF Cache!VariantsKeptApart
  <2>2. e.vary \in {"none", VariantOf[c]}
    BY <2>1 DEF Cache!VaryMatches
  <2>3. VariantOf[c] \in Variants /\ "*" \notin Variants /\ "none" \notin Variants
    BY DEF Cache!CacheAssumption
  <2>. QED
    BY <2>1, <2>2, <2>3 DEF Sound
<1>5. Cache!StaleWithinWindows'
  <2>1. CASE how = "hit"
    <3>1. now - e.heard < l + 0
      BY <1>3, <2>1 DEF Cache!Fresh
    <3>. QED
      BY <1>2, <2>1, <3>1 DEF Cache!StaleWithinWindows, Cache!Window, l
  <2>2. CASE how = "swr"
    <3>1. now - e.heard < l + e.cc.swr
      BY <1>3, <2>2 DEF Cache!WithinRevalidate
    <3>. QED
      BY <1>2, <2>2, <3>1 DEF Cache!StaleWithinWindows, Cache!Window, l
  <2>3. CASE how = "error"
    <3>1. now - e.heard < l + e.cc.sie
      BY <1>3, <2>3 DEF Cache!WithinError
    <3>. QED
      BY <1>2, <2>3, <3>1 DEF Cache!StaleWithinWindows, Cache!Window, l
  <2>4. CASE how = "confirmed"
    <3>1. now - e.heard = 0
      BY <1>3, <2>4
    <3>. QED
      BY <1>2, <2>4, <3>1 DEF Cache!StaleWithinWindows
  <2>. QED
    BY <2>1, <2>2, <2>3, <2>4
<1>6. Cache!NoStoreIsPrivate'
  BY <1>2 DEF Cache!NoStoreIsPrivate, Sound
<1>7. Cache!NotModifiedOnlyAfterEviction'
  BY <1>2 DEF Cache!NotModifiedOnlyAfterEviction
<1>. QED
  BY <1>4, <1>5, <1>6, <1>7 DEF AnswersAreRight

(* A response that may be stored makes a sound entry.                       *)
LEMMA NewIsSound ==
  ASSUME Cache!CacheAssumption, now \in 0..MaxNow, NEW c \in Calls, NEW vary \in Cache!VaryOf(c),
         NEW cc \in Controls, ~cc.noStore, NEW by \in {"call", "background"}
  PROVE  Sound(Cache!NewEntry(c, vary, cc, by))
<1> DEFINE e == Cache!NewEntry(c, vary, cc, by)
           life == IF Honor /\ cc.maxAge >= 0 THEN cc.maxAge ELSE Ttl
<1>1. cc.maxAge \in Int /\ Ttl \in Nat /\ now \in Nat /\ VariantOf[c] \in Variants
  BY DEF Cache!CacheAssumption, Cache!CacheControl
<1>2. e = [expires |-> now + life,
           vary |-> IF by = "background" THEN "none" ELSE vary,
           cc |-> cc,
           for |-> IF vary = "none" THEN "any" ELSE VariantOf[c],
           by |-> by,
           heard |-> now,
           confirmed |-> FALSE]
  BY DEF Cache!NewEntry
<1>3. life \in Int /\ life = Cache!Lifetime(e)
  <2>1. e.cc = cc /\ e.confirmed = FALSE
    BY <1>2
  <2>. QED
    BY <1>1, <2>1 DEF Cache!Lifetime
<1>. HIDE DEF life
<1>4. now + life \in Int
  BY <1>1, <1>3
<1>5. e \in Cache!Entry
  BY <1>1, <1>2, <1>4 DEF Cache!Entry, Cache!VaryOf
<1>6. e.by = "call" =>
        (e.vary = "none" /\ e.for = "any") \/ e.vary = "*" \/ (e.vary \in Variants /\ e.for = e.vary)
  BY <1>1, <1>2 DEF Cache!VaryOf, Cache!CacheAssumption
<1>7. e.expires <= e.heard + Cache!Lifetime(e)
  <2>1. e.expires = now + life /\ e.heard = now
    BY <1>2
  <2>. QED
    BY <1>1, <1>3, <2>1
<1>8. ~e.cc.noStore
  BY <1>2
<1>. QED
  BY <1>5, <1>6, <1>7, <1>8 DEF Sound

(* What a step of a call has to keep for the invariant to hold after it.    *)
LEMMA CallMoves ==
  ASSUME Cache!CacheAssumption, CacheInv,
         NEW c \in Calls, NEW p \in Cache!Pcs, NEW e, Cache!Goto(c, p, e),
         e = Cache!NoEntry \/ Sound(e),
         p \in {"variant", "confirm", "store", "base"} => e # Cache!NoEntry,
         StoreIsSound', evicted' \in BOOLEAN, evicted => evicted',
         Cache!Stored("base") => Cache!Stored("base")' \/ evicted',
         p \in {"variant", "conditional"} => evicted' \/ Cache!Stored("base")',
         now' = now, refreshing' \subseteq Calls, AnswersAreRight'
  PROVE  CacheInv'
<1>1. cachePc \in [Calls -> Cache!Pcs] /\ now \in 0..MaxNow
  BY DEF CacheInv, Cache!TypeOK
<1>2. cachePc' = [cachePc EXCEPT ![c] = p] /\ held' = [held EXCEPT ![c] = e]
  BY DEF Cache!Goto
<1>3. /\ cachePc' \in [Calls -> Cache!Pcs]
      /\ cachePc'[c] = p /\ \A d \in Calls : d # c => cachePc'[d] = cachePc[d]
  BY <1>1, <1>2
<1>4. HeldIsSound'
  <2>1. e \in Cache!Entry \cup {Cache!NoEntry}
    BY DEF Sound
  <2>2. HeldIsSound
    BY DEF CacheInv
  <2>3. /\ held' \in [Calls -> Cache!Entry \cup {Cache!NoEntry}]
        /\ held'[c] = e /\ \A d \in Calls : d # c => held'[d] = held[d]
    BY <1>2, <2>1, <2>2 DEF HeldIsSound
  <2>4. \A d \in Calls : held'[d] # Cache!NoEntry => Sound(held'[d])
    BY <2>2, <2>3 DEF HeldIsSound
  <2>5. \A d \in Calls : cachePc'[d] \in {"variant", "confirm", "store", "base"} =>
            held'[d] # Cache!NoEntry
    BY <1>3, <2>2, <2>3 DEF HeldIsSound
  <2>. QED
    BY <2>3, <2>4, <2>5 DEF HeldIsSound
<1>5. BaseWasThere'
  <2>1. ASSUME NEW d \in Calls, cachePc'[d] \in {"variant", "conditional"}
        PROVE  evicted' \/ Cache!Stored("base")'
    <3>1. CASE d = c
      BY <1>3, <2>1, <3>1
    <3>2. CASE d # c
      <4>1. evicted \/ Cache!Stored("base")
        BY <1>3, <2>1, <3>2 DEF CacheInv, BaseWasThere
      <4>. QED
        BY <4>1
    <3>. QED
      BY <3>1, <3>2
  <2>. QED
    BY <2>1 DEF BaseWasThere
<1>6. Cache!TypeOK'
  <2>1. \A i \in DOMAIN map' : map'[i] \in Item
    BY DEF StoreIsSound
  <2>2. \A d \in Calls : held'[d] \in Cache!Entry \/ held'[d] = Cache!NoEntry
    BY <1>4 DEF HeldIsSound
  <2>3. now' \in 0..MaxNow
    BY <1>1
  <2>. QED
    BY <1>3, <2>1, <2>2, <2>3 DEF StoreIsSound, Item, Cache!TypeOK
<1>. QED
  BY <1>4, <1>5, <1>6 DEF CacheInv

(* beforeRequest with a sound entry, or none, keeps the invariant.          *)
LEMMA DecideKeeps ==
  ASSUME Cache!CacheAssumption, CacheInv, NEW c \in Calls, NEW e,
         e = Cache!NoEntry \/ Sound(e), e # Cache!NoEntry => evicted \/ Cache!Stored("base"),
         Cache!Decide(c, e), Cache!StoreKept, now' = now
  PROVE  CacheInv'
<1>1. now \in 0..MaxNow /\ refreshing \subseteq Calls /\ StoreIsSound /\ evicted \in BOOLEAN
  BY DEF CacheInv, Cache!TypeOK
<1>2. /\ StoreIsSound'
      /\ evicted' \in BOOLEAN /\ (evicted => evicted')
      /\ Cache!Stored("base") => Cache!Stored("base")' \/ evicted'
  BY <1>1, StoreKeeps
<1>3. "sent" \in Cache!Pcs /\ "done" \in Cache!Pcs /\ "conditional" \in Cache!Pcs
  BY DEF Cache!Pcs
<1>4. CASE ~Cache!VaryMatches(e, c)
  <2>1. Cache!Goto(c, "sent", Cache!NoEntry) /\ said' = Cache!Silence /\ refreshing' = refreshing
    BY <1>4 DEF Cache!Decide, Cache!Proceed
  <2>. QED
    BY <1>1, <1>2, <1>3, <2>1, CallMoves, SilenceIsRight
<1>5. CASE /\ Cache!VaryMatches(e, c) /\ Cache!Fresh(e)
           /\ Cache!AnswerFrom(c, "hit", e) /\ refreshing' = refreshing
  <2>1. Sound(e) /\ Cache!Goto(c, "done", Cache!NoEntry)
    BY <1>5 DEF Cache!VaryMatches, Cache!AnswerFrom
  <2>2. AnswersAreRight'
    BY <1>1, <1>5, <2>1, AnsweredIsRight
  <2>. QED
    BY <1>1, <1>2, <1>3, <1>5, <2>1, <2>2, CallMoves
<1>6. CASE /\ Cache!VaryMatches(e, c) /\ Cache!WithinRevalidate(e)
           /\ Cache!AnswerFrom(c, "swr", e) /\ refreshing' = refreshing \cup {c}
  <2>1. Sound(e) /\ Cache!Goto(c, "done", Cache!NoEntry)
    BY <1>6 DEF Cache!VaryMatches, Cache!AnswerFrom
  <2>2. AnswersAreRight'
    BY <1>1, <1>6, <2>1, AnsweredIsRight
  <2>3. refreshing' \subseteq Calls
    BY <1>1, <1>6
  <2>. QED
    BY <1>2, <1>3, <2>1, <2>2, <2>3, CallMoves
<1>7. CASE /\ Cache!VaryMatches(e, c)
           /\ \E p \in {"conditional", "sent"} : Cache!Proceed(c, p, Cache!NoEntry)
           /\ refreshing' = refreshing
  <2>1. PICK p \in {"conditional", "sent"} : Cache!Proceed(c, p, Cache!NoEntry)
    BY <1>7
  <2>2. Cache!Goto(c, p, Cache!NoEntry) /\ said' = Cache!Silence /\ p \in Cache!Pcs
    BY <1>3, <2>1 DEF Cache!Proceed
  <2>3. evicted' \/ Cache!Stored("base")'
    BY <1>2, <1>7 DEF Cache!VaryMatches
  <2>. QED
    BY <1>1, <1>2, <1>7, <2>1, <2>2, <2>3, CallMoves, SilenceIsRight
<1>. QED
  BY <1>4, <1>5, <1>6, <1>7 DEF Cache!Decide

(* The cache is empty.                                                      *)
LEMMA CacheStarts == ASSUME Cache!CacheAssumption, Cache!Init PROVE CacheInv
<1>1. /\ now = 0 /\ map = <<>> /\ cachePc = [c \in Calls |-> "idle"]
      /\ held = [c \in Calls |-> Cache!NoEntry] /\ refreshing = {}
      /\ said = Cache!Silence /\ evicted = FALSE
  BY DEF Cache!Init
<1>2. map \in Seq(Item) /\ Len(map) = 0 /\ DOMAIN map = {}
  BY <1>1
<1>3. MaxEntries \in Nat /\ MaxNow \in Nat
  BY DEF Cache!CacheAssumption
<1>4. now \in 0..MaxNow
  BY <1>1, <1>3
<1>5. StoreIsSound
  BY <1>2, <1>3 DEF StoreIsSound
<1>6. HeldIsSound /\ BaseWasThere
  BY <1>1 DEF HeldIsSound, BaseWasThere
<1>7. AnswersAreRight
  BY <1>1 DEF AnswersAreRight, Cache!Silence, Cache!VariantsKeptApart, Cache!FromStore,
              Cache!StaleWithinWindows, Cache!NoStoreIsPrivate, Cache!NotModifiedOnlyAfterEviction
<1>8. Cache!TypeOK
  <2>1. Len(map) <= MaxEntries
    BY <1>2, <1>3
  <2>2. evicted \in BOOLEAN
    BY <1>1
  <2>. QED
    BY <1>1, <1>2, <1>4, <2>1, <2>2 DEF Cache!TypeOK, Cache!Pcs
<1>. QED
  BY <1>5, <1>6, <1>7, <1>8 DEF CacheInv

(* Each step of the cache, one lemma or case for each action.               *)
LEMMA CacheSteps ==
  ASSUME Cache!CacheAssumption, CacheInv, [Cache!Next]_cacheVars PROVE CacheInv'
<1>1. /\ now \in 0..MaxNow /\ refreshing \subseteq Calls /\ evicted \in BOOLEAN
      /\ StoreIsSound /\ HeldIsSound /\ BaseWasThere
  BY DEF CacheInv, Cache!TypeOK
<1>2. "base" \in Cache!Keys /\ \A c \in Calls : VariantOf[c] \in Variants /\ VariantOf[c] \in Cache!Keys
  BY DEF Cache!CacheAssumption, Cache!Keys
<1>3. {"variant", "confirm", "base", "done"} \subseteq Cache!Pcs /\ "store" \in Cache!Pcs
  BY DEF Cache!Pcs
<1>4. Cache!StoreKept => StoreIsSound' /\ evicted' \in BOOLEAN /\ (evicted => evicted')
                           /\ (Cache!Stored("base") => Cache!Stored("base")' \/ evicted')
  BY <1>1, StoreKeeps
<1>5. ASSUME NEW k \in Cache!Keys, NEW e, Sound(e), Cache!StoreSet(k, e)
      PROVE  /\ StoreIsSound' /\ evicted' \in BOOLEAN /\ (evicted => evicted')
             /\ Cache!Stored("base") => Cache!Stored("base")' \/ evicted'
  BY <1>1, <1>5, SetKeeps
<1>6. ASSUME NEW c \in Calls, Cache!LookUp(c) PROVE CacheInv'
  <2> DEFINE e == Cache!StoreGet("base")
  <2>1. /\ Cache!StoreKept /\ now' = now
        /\ \/ e # Cache!NoEntry /\ Cache!Proceed(c, "variant", e) /\ refreshing' = refreshing
           \/ Cache!Decide(c, e)
    BY <1>6 DEF Cache!LookUp
  <2>2. \/ e = Cache!NoEntry
        \/ Sound(e) /\ Cache!Stored("base")
    BY <1>1, GetFinds
  <2>. HIDE DEF e
  <2>3. CASE e # Cache!NoEntry /\ Cache!Proceed(c, "variant", e) /\ refreshing' = refreshing
    <3>1. Cache!Goto(c, "variant", e) /\ said' = Cache!Silence
      BY <2>3 DEF Cache!Proceed
    <3>2. evicted' \/ Cache!Stored("base")'
      BY <1>4, <2>1, <2>2, <2>3
    <3>. QED
      BY <1>1, <1>3, <1>4, <2>1, <2>2, <2>3, <3>1, <3>2, CallMoves, SilenceIsRight
  <2>4. CASE Cache!Decide(c, e)
    BY <2>1, <2>2, <2>4, DecideKeeps
  <2>. QED
    BY <2>1, <2>3, <2>4
<1>7. ASSUME NEW c \in Calls, Cache!LookUpVariant(c) PROVE CacheInv'
  <2> DEFINE e == IF held[c].vary = "*" THEN Cache!NoEntry ELSE Cache!StoreGet(VariantOf[c])
  <2>1. cachePc[c] = "variant" /\ Cache!StoreKept /\ now' = now /\ Cache!Decide(c, e)
    BY <1>7 DEF Cache!LookUpVariant
  <2>2. e = Cache!NoEntry \/ Sound(e)
    BY <1>1, GetFinds
  <2>3. evicted \/ Cache!Stored("base")
    BY <1>1, <2>1 DEF BaseWasThere
  <2>. QED
    BY <2>1, <2>2, <2>3, DecideKeeps
<1>8. ASSUME NEW c \in Calls, Cache!ReceiveNotModified(c) PROVE CacheInv'
  <2> DEFINE e == Cache!StoreGet("base")
  <2>1. /\ cachePc[c] = "conditional" /\ Cache!StoreKept /\ now' = now /\ refreshing' = refreshing
        /\ \/ e = Cache!NoEntry /\ Cache!PassOn(c, 304)
           \/ e # Cache!NoEntry /\ Cache!Proceed(c, "confirm", e)
    BY <1>8 DEF Cache!ReceiveNotModified
  <2>2. \/ e = Cache!NoEntry /\ ~Cache!Stored("base")
        \/ Sound(e)
    BY <1>1, GetFinds
  <2>3. evicted \/ Cache!Stored("base")
    BY <1>1, <2>1 DEF BaseWasThere
  <2>. HIDE DEF e
  <2>4. CASE e = Cache!NoEntry /\ Cache!PassOn(c, 304)
    <3>1. Cache!Goto(c, "done", Cache!NoEntry)
      BY <2>4 DEF Cache!PassOn
    <3>2. evicted'
      BY <1>4, <2>1, <2>2, <2>3, <2>4, NoEntryIsNone DEF Sound
    <3>. QED
      BY <1>1, <1>3, <1>4, <2>1, <2>4, <3>1, <3>2, CallMoves, PassedOnIsRight
  <2>5. CASE e # Cache!NoEntry /\ Cache!Proceed(c, "confirm", e)
    <3>1. Cache!Goto(c, "confirm", e) /\ said' = Cache!Silence
      BY <2>5 DEF Cache!Proceed
    <3>. QED
      BY <1>1, <1>3, <1>4, <2>1, <2>2, <2>5, <3>1, CallMoves, SilenceIsRight
  <2>. QED
    BY <2>1, <2>4, <2>5
<1>9. ASSUME NEW c \in Calls, Cache!Confirm(c) PROVE CacheInv'
  <2> DEFINE h == held[c]
             e == [h EXCEPT !.expires = now + Ttl, !.heard = now, !.confirmed = TRUE]
  <2>1. /\ cachePc[c] = "confirm" /\ now' = now /\ refreshing' = refreshing
        /\ Cache!StoreSet("base", e) /\ Cache!AnswerFrom(c, "confirmed", e)
    BY <1>9 DEF Cache!Confirm
  <2>2. Sound(h)
    BY <1>1, <2>1 DEF HeldIsSound
  <2>3. now \in Nat /\ Ttl \in Nat /\ now + Ttl \in Int
    BY <1>1 DEF Cache!CacheAssumption
  <2>. HIDE DEF h
  <2>4. /\ e \in Cache!Entry /\ e.expires = now + Ttl /\ e.heard = now /\ e.confirmed
        /\ e.vary = h.vary /\ e.for = h.for /\ e.by = h.by /\ e.cc = h.cc
    BY <2>2, <2>3 DEF Sound, Cache!Entry
  <2>5. e.expires <= e.heard + Cache!Lifetime(e)
    <3>1. Cache!Lifetime(e) = Ttl
      BY <2>4 DEF Cache!Lifetime
    <3>. QED
      BY <2>3, <2>4, <3>1
  <2>6. Sound(e)
    BY <2>2, <2>4, <2>5 DEF Sound
  <2>7. Cache!Goto(c, "done", Cache!NoEntry)
    BY <2>1 DEF Cache!AnswerFrom
  <2>8. AnswersAreRight'
    BY <1>1, <2>1, <2>4, <2>6, AnsweredIsRight
  <2>9. /\ StoreIsSound' /\ evicted' \in BOOLEAN /\ (evicted => evicted')
        /\ Cache!Stored("base") => Cache!Stored("base")' \/ evicted'
    BY <1>2, <1>5, <2>1, <2>6
  <2>. HIDE DEF e
  <2>. QED
    BY <1>1, <1>3, <2>1, <2>7, <2>8, <2>9, CallMoves
<1>10. ASSUME NEW c \in Calls, NEW status \in {404, 503}, Cache!ReceiveError(c, status)
       PROVE  CacheInv'
  <2> DEFINE e == Cache!StoreGet("base")
  <2>1. /\ Cache!StoreKept /\ now' = now /\ refreshing' = refreshing
        /\ \/ e # Cache!NoEntry /\ Cache!WithinError(e) /\ Cache!AnswerFrom(c, "error", e)
           \/ Cache!PassOn(c, status)
    BY <1>10 DEF Cache!ReceiveError
  <2>2. e = Cache!NoEntry \/ Sound(e)
    BY <1>1, GetFinds
  <2>. HIDE DEF e
  <2>3. Cache!Goto(c, "done", Cache!NoEntry)
    BY <2>1 DEF Cache!AnswerFrom, Cache!PassOn
  <2>4. AnswersAreRight'
    BY <1>1, <2>1, <2>2, AnsweredIsRight, PassedOnIsRight
  <2>. QED
    BY <1>1, <1>3, <1>4, <2>1, <2>3, <2>4, CallMoves
<1>11. ASSUME NEW c \in Calls, Cache!TransportFails(c) PROVE CacheInv'
  <2>1. Cache!StoreKept /\ now' = now /\ refreshing' = refreshing /\ Cache!PassOn(c, 0)
    BY <1>11 DEF Cache!TransportFails
  <2>2. Cache!Goto(c, "done", Cache!NoEntry)
    BY <2>1 DEF Cache!PassOn
  <2>. QED
    BY <1>1, <1>3, <1>4, <2>1, <2>2, CallMoves, PassedOnIsRight
<1>12. ASSUME NEW c \in Calls, NEW vary \in Cache!VaryOf(c), NEW cc \in Controls,
              Cache!ReceiveOk(c, vary, cc)
       PROVE  CacheInv'
  <2> DEFINE e == Cache!NewEntry(c, vary, cc, "call")
  <2>1. /\ Cache!StoreKept /\ now' = now /\ refreshing' = refreshing
        /\ \/ Cache!PassOn(c, 200)
           \/ ~cc.noStore /\ \E p \in {"store", "base"} : Cache!Proceed(c, p, e)
    BY <1>12 DEF Cache!ReceiveOk
  <2>2. CASE Cache!PassOn(c, 200)
    <3>1. Cache!Goto(c, "done", Cache!NoEntry)
      BY <2>2 DEF Cache!PassOn
    <3>. QED
      BY <1>1, <1>3, <1>4, <2>1, <2>2, <3>1, CallMoves, PassedOnIsRight
  <2>3. ASSUME ~cc.noStore, NEW p \in {"store", "base"}, Cache!Proceed(c, p, e)
        PROVE  CacheInv'
    <3>1. Sound(e) /\ e # Cache!NoEntry
      BY <1>1, <2>3, NewIsSound, NoEntryIsNone DEF Sound
    <3>. HIDE DEF e
    <3>2. Cache!Goto(c, p, e) /\ said' = Cache!Silence
      BY <2>3 DEF Cache!Proceed
    <3>. QED
      BY <1>1, <1>3, <1>4, <2>1, <3>1, <3>2, CallMoves, SilenceIsRight
  <2>. QED
    BY <2>1, <2>2, <2>3
<1>13. ASSUME NEW c \in Calls, Cache!StoreVariant(c) PROVE CacheInv'
  <2> DEFINE e == held[c]
  <2>1. /\ cachePc[c] = "store" /\ now' = now /\ refreshing' = refreshing
        /\ Cache!StoreSet(VariantOf[c], e) /\ Cache!Goto(c, "base", e) /\ said' = Cache!Silence
    BY <1>13 DEF Cache!StoreVariant, Cache!Proceed
  <2>2. Sound(e) /\ e # Cache!NoEntry
    BY <1>1, <2>1 DEF HeldIsSound
  <2>. HIDE DEF e
  <2>. QED
    BY <1>1, <1>2, <1>3, <1>5, <2>1, <2>2, CallMoves, SilenceIsRight
<1>14. ASSUME NEW c \in Calls, Cache!StoreBase(c) PROVE CacheInv'
  <2> DEFINE e == held[c]
  <2>1. /\ cachePc[c] = "base" /\ now' = now /\ refreshing' = refreshing
        /\ Cache!StoreSet("base", e) /\ Cache!PassOn(c, 200)
    BY <1>14 DEF Cache!StoreBase
  <2>2. Sound(e) /\ e # Cache!NoEntry
    BY <1>1, <2>1 DEF HeldIsSound
  <2>3. Cache!Goto(c, "done", Cache!NoEntry)
    BY <2>1 DEF Cache!PassOn
  <2>. HIDE DEF e
  <2>. QED
    BY <1>1, <1>2, <1>3, <1>5, <2>1, <2>2, <2>3, CallMoves, PassedOnIsRight
<1>15. ASSUME now' \in 0..MaxNow, UNCHANGED <<cachePc, held>>, refreshing' \subseteq Calls,
              StoreIsSound', evicted' \in BOOLEAN, evicted => evicted',
              Cache!Stored("base") => Cache!Stored("base")' \/ evicted', AnswersAreRight'
       PROVE  CacheInv'
  <2>1. HeldIsSound' /\ cachePc' \in [Calls -> Cache!Pcs]
    BY <1>15 DEF HeldIsSound, CacheInv, Cache!TypeOK
  <2>2. BaseWasThere'
    <3>1. SUFFICES ASSUME NEW c \in Calls, cachePc[c] \in {"variant", "conditional"}
                   PROVE  evicted' \/ Cache!Stored("base")'
      BY <1>15 DEF BaseWasThere
    <3>2. evicted \/ Cache!Stored("base")
      BY <3>1 DEF CacheInv, BaseWasThere
    <3>. QED
      BY <1>15, <3>2
  <2>3. Cache!TypeOK'
    <3>1. \A i \in DOMAIN map' : map'[i] \in Item
      BY <1>15 DEF StoreIsSound
    <3>2. \A d \in Calls : held'[d] \in Cache!Entry \/ held'[d] = Cache!NoEntry
      BY <2>1 DEF HeldIsSound
    <3>. QED
      BY <1>15, <2>1, <3>1, <3>2 DEF StoreIsSound, Item, Cache!TypeOK
  <2>. QED
    BY <1>15, <2>1, <2>2, <2>3 DEF CacheInv
<1>16. ASSUME NEW c \in Calls, NEW vary \in Cache!VaryOf(c), NEW cc \in Controls,
              Cache!RefreshEnds(c, vary, cc)
       PROVE  CacheInv'
  <2> DEFINE e == Cache!NewEntry(c, vary, cc, "background")
  <2>1. /\ refreshing' = refreshing \ {c} /\ said' = Cache!Silence /\ UNCHANGED <<now, cachePc, held>>
        /\ (~cc.noStore /\ Cache!StoreSet("base", e)) \/ Cache!StoreKept
    BY <1>16 DEF Cache!RefreshEnds
  <2>2. ~cc.noStore => Sound(e)
    BY <1>1, NewIsSound
  <2>. HIDE DEF e
  <2>3. /\ StoreIsSound' /\ evicted' \in BOOLEAN /\ (evicted => evicted')
        /\ Cache!Stored("base") => Cache!Stored("base")' \/ evicted'
    BY <1>2, <1>4, <1>5, <2>1, <2>2
  <2>4. refreshing' \subseteq Calls /\ now' \in 0..MaxNow
    BY <1>1, <2>1
  <2>. QED
    BY <1>15, <2>1, <2>3, <2>4, SilenceIsRight
<1>17. CASE Cache!Tick
  <2>1. /\ now < MaxNow /\ now' = now + 1 /\ said' = Cache!Silence
        /\ UNCHANGED <<map, cachePc, held, refreshing, evicted>>
    BY <1>17 DEF Cache!Tick
  <2>2. now' \in 0..MaxNow
    BY <1>1, <2>1 DEF Cache!CacheAssumption
  <2>3. Cache!StoreKept
    BY <2>1 DEF Cache!StoreKept
  <2>. QED
    BY <1>1, <1>4, <1>15, <2>1, <2>2, <2>3, SilenceIsRight
<1>18. CASE UNCHANGED cacheVars
  BY <1>18 DEF cacheVars, CacheInv, Cache!TypeOK, StoreIsSound, HeldIsSound, BaseWasThere,
               Cache!Stored,
               AnswersAreRight, Cache!VariantsKeptApart, Cache!FromStore, Cache!StaleWithinWindows,
               Cache!NoStoreIsPrivate, Cache!NotModifiedOnlyAfterEviction
<1>. QED
  BY <1>6, <1>7, <1>8, <1>9, <1>10, <1>11, <1>12, <1>13, <1>14, <1>16, <1>17, <1>18 DEF Cache!Next

-----------------------------------------------------------------------------
(* A layer with who brought it, and a hook with who set it.                 *)
Link == [by : Clients!Setters, layer : Clients!Layer]
Hook == [by : Clients!Setters, plugin : BOOLEAN]

(* Who gives a header its value in a chain of layers: MostSpecific of any   *)
(* chain.                                                                   *)
GiversOf(ch, n) == {i \in DOMAIN ch :
    /\ ch[i].layer.headers[n] = "set"
    /\ \A j \in i + 1 .. Len(ch) : "headers" \notin ch[j].layer.replaces}
MostOf(ch, n) == IF GiversOf(ch, n) = {} THEN Clients!Nobody ELSE ch[Clients!Max(GiversOf(ch,
n))].by

(* Hooks in order, none of them set later than `top'.                       *)
HooksRise(hs, top) ==
    /\ \A i \in DOMAIN hs : hs[i].by <= top
    /\ \A i, j \in DOMAIN hs : i < j => hs[i].plugin \/ (~hs[j].plugin /\ hs[i].by < hs[j].by)

(* What a client would send is what its chain says, which it ends itself.   *)
MadeOf(s, ch, c) ==
    /\ s.defer \in 0..MaxClients
    /\ Len(ch) >= 1 /\ ch[Len(ch)].by = c
    /\ \A n \in Names : s.headers[n] = MostOf(ch, n)
    /\ HooksRise(s.hooks, c)

ClientsAreMade ==
    /\ chains \in Seq(Seq(Link)) /\ Len(chains) = Len(clients)
    /\ \A c \in DOMAIN clients : MadeOf(clients[c], chains[c], c)

(* So is what the call under way would send; its callbacks were set by the  *)
(* client or by the call.                                                   *)
CallIsMade ==
    /\ chain \in Seq(Link)
    /\ options.defer \in 0..Clients!Call /\ deferring \in Seq(1..Clients!Call)
    /\ optionsPc = "resolved" =>
        /\ \A n \in Names : options.headers[n] = MostOf(chain, n)
        /\ HooksRise(options.hooks, Clients!Call)

ClientsInv == Clients!TypeOK /\ ClientsAreMade /\ CallIsMade /\ Clients!MostSpecificWins

(* A set of numbers has a least one, and a bounded one a greatest.          *)
LEMMA LeastExists ==
  ASSUME NEW S, S \subseteq Nat, S # {}
  PROVE  \E x \in S : \A y \in S : x <= y
<1>1. PICK x \in S : \A y \in S : ~(<<y, x>> \in OpToRel(<, Nat))
  BY WFMin, NatLessThanWellFounded
<1>2. \A y \in S : ~(y < x)
  BY <1>1 DEF OpToRel
<1>. QED
  BY <1>2

(* The greatest of some places: the last one.                               *)
LEMMA GreatestExists ==
  ASSUME NEW n \in Nat, NEW S, S \subseteq 1..n, S # {}
  PROVE  Clients!Max(S) \in S /\ \A y \in S : Clients!Max(S) >= y
<1> DEFINE T == {n - x : x \in S}
<1>1. T \subseteq Nat /\ T # {}
  <2>1. \A x \in S : n - x \in Nat /\ n - x \in T
    <3>1. \A x \in 1..n : n - x \in Nat
      OBVIOUS
    <3>. QED
      BY <3>1
  <2>. QED
    BY <2>1
<1>2. PICK t \in T : \A y \in T : t <= y
  BY <1>1, LeastExists
<1>3. PICK m \in S : t = n - m
  BY <1>2
<1>4. \A y \in S : m >= y
  BY <1>2, <1>3
<1>. QED
  BY <1>4 DEF Clients!Max

(* What a layer more says: its own value, or nothing if it replaces the     *)
(* headers, or what the layers before it say.                               *)
LEMMA MostOfAppend ==
  ASSUME NEW ch \in Seq(Link), NEW link \in Link, NEW n \in Names
  PROVE  MostOf(Append(ch, link), n) =
            IF link.layer.headers[n] = "set" THEN link.by
            ELSE IF "headers" \in link.layer.replaces THEN Clients!Nobody ELSE MostOf(ch, n)
<1> DEFINE k == Len(ch) + 1
           more == Append(ch, link)
           g == GiversOf(ch, n)
           h == GiversOf(more, n)
<1>1. /\ Len(ch) \in Nat /\ DOMAIN ch = 1..Len(ch)
      /\ more \in Seq(Link) /\ Len(more) = k /\ DOMAIN more = 1..k
      /\ more[k] = link /\ \A i \in 1..Len(ch) : more[i] = ch[i]
  BY AppendProperties
<1>0. /\ MostOf(more, n) = IF h = {} THEN Clients!Nobody ELSE more[Clients!Max(h)].by
      /\ MostOf(ch, n) = IF g = {} THEN Clients!Nobody ELSE ch[Clients!Max(g)].by
  BY DEF MostOf
<1>. SUFFICES MostOf(more, n) =
                 IF link.layer.headers[n] = "set" THEN link.by
                 ELSE IF "headers" \in link.layer.replaces THEN Clients!Nobody ELSE MostOf(ch, n)
  OBVIOUS
<1>. HIDE DEF more
<1>2. g \subseteq 1..Len(ch) /\ h \subseteq 1..k
  BY <1>1 DEF GiversOf
<1>3. k \in h <=> link.layer.headers[n] = "set"
  BY <1>1 DEF GiversOf
<1>4. CASE link.layer.headers[n] = "set"
  <2>1. Clients!Max(h) \in h /\ Clients!Max(h) >= k
    BY <1>1, <1>2, <1>3, <1>4, GreatestExists
  <2>2. Clients!Max(h) = k
    BY <1>1, <1>2, <2>1
  <2>. QED
    BY <1>0, <1>1, <1>3, <1>4, <2>2
<1>5. CASE link.layer.headers[n] # "set" /\ "headers" \in link.layer.replaces
  <2>1. \A i \in 1..Len(ch) : k \in i + 1 .. k
    BY <1>1
  <2>2. \A i \in 1..Len(ch) : i \notin h
    BY <1>1, <1>5, <2>1 DEF GiversOf
  <2>3. h = {}
    BY <1>1, <1>2, <1>3, <1>5, <2>2
  <2>. QED
    BY <1>0, <1>5, <2>3
<1>6. CASE link.layer.headers[n] # "set" /\ "headers" \notin link.layer.replaces
  <2>1. ASSUME NEW i \in 1..Len(ch)
        PROVE  i \in h <=> i \in g
    <3>1. \A j \in i + 1 .. Len(ch) : j \in 1..Len(ch) /\ j \in i + 1 .. k
      BY <1>1
    <3>2. \A j \in i + 1 .. k : j = k \/ (j \in i + 1 .. Len(ch) /\ j \in 1..Len(ch))
      BY <1>1
    <3>3. i \in 1..k /\ more[i] = ch[i]
      BY <1>1
    <3>. QED
      BY <1>1, <1>6, <3>1, <3>2, <3>3 DEF GiversOf
  <2>2. \A i \in h : i \in 1..Len(ch)
    BY <1>1, <1>2, <1>3, <1>6
  <2>3. h = g
    BY <1>2, <2>1, <2>2
  <2>4. CASE g = {}
    BY <1>0, <1>6, <2>3, <2>4
  <2>5. CASE g # {}
    <3>1. Clients!Max(g) \in 1..Len(ch)
      BY <1>1, <1>2, <2>5, GreatestExists
    <3>. HIDE DEF g, h
    <3>2. more[Clients!Max(g)] = ch[Clients!Max(g)]
      BY <1>1, <3>1
    <3>. QED
      BY <1>0, <1>6, <2>3, <2>5, <3>2
  <2>. QED
    BY <2>4, <2>5
<1>. QED
  BY <1>4, <1>5, <1>6

(* Nobody gives a header in an empty chain.                                 *)
LEMMA MostOfNothing == ASSUME NEW n PROVE MostOf(<<>>, n) = Clients!Nobody
BY DEF MostOf, GiversOf

(* The hook of a later layer goes behind the others.                        *)
LEMMA HooksAdded ==
  ASSUME NEW hs \in Seq(Hook), NEW top \in Int, HooksRise(hs, top),
         NEW who \in Clients!Setters, top <= who, top < who \/ \A i \in DOMAIN hs : hs[i].plugin,
         NEW layer \in Clients!Layer
  PROVE  /\ hs \o Clients!OwnHooks(layer, who) \in Seq(Hook)
         /\ HooksRise(hs \o Clients!OwnHooks(layer, who), who)
<1>1. who \in Int
  BY DEF Clients!Setters, Clients!Nobody, Clients!Misina
<1>2. Len(hs) \in Nat /\ DOMAIN hs = 1..Len(hs) /\ \A i \in 1..Len(hs) : hs[i] \in Hook
  OBVIOUS
<1>3. \A i \in 1..Len(hs) : hs[i].by \in Int /\ hs[i].by <= top
  <2>1. \A i \in 1..Len(hs) : hs[i].by \in Int
    BY <1>2 DEF Hook, Clients!Setters, Clients!Nobody, Clients!Misina
  <2>2. \A i \in 1..Len(hs) : hs[i].by <= top
    BY <1>2 DEF HooksRise
  <2>. QED
    BY <2>1, <2>2
<1>4. CASE layer.hooks
  <2> DEFINE hook == [by |-> who, plugin |-> FALSE]
             all == hs \o <<hook>>
  <2>1. Clients!OwnHooks(layer, who) = <<hook>>
    BY <1>4 DEF Clients!OwnHooks
  <2>2. hook \in Hook /\ hook.by = who /\ ~hook.plugin
    BY DEF Hook
  <2>3. <<hook>> \in Seq(Hook) /\ Len(<<hook>>) = 1 /\ <<hook>>[1] = hook
    BY <2>2
  <2>4. /\ all \in Seq(Hook) /\ Len(all) = Len(hs) + 1
        /\ \A i \in 1..Len(hs) + 1 : all[i] = IF i <= Len(hs) THEN hs[i] ELSE <<hook>>[i - Len(hs)]
    BY <2>3, ConcatProperties
  <2>5. /\ DOMAIN all = 1..Len(hs) + 1
        /\ \A i \in 1..Len(hs) : all[i] = hs[i]
        /\ all[Len(hs) + 1] = hook
    BY <1>2, <2>3, <2>4
  <2>. HIDE DEF all, hook
  <2>6. \A i \in 1..Len(hs) + 1 : i \in 1..Len(hs) \/ i = Len(hs) + 1
    BY <1>2
  <2>7. \A i \in DOMAIN all : all[i].by <= who
    BY <1>1, <1>3, <2>2, <2>5, <2>6
  <2>8. ASSUME NEW i \in DOMAIN all, NEW j \in DOMAIN all, i < j
        PROVE  all[i].plugin \/ (~all[j].plugin /\ all[i].by < all[j].by)
    <3>1. i \in 1..Len(hs)
      BY <1>2, <2>5, <2>6, <2>8
    <3>2. CASE j \in 1..Len(hs)
      BY <1>2, <2>5, <2>8, <3>1, <3>2 DEF HooksRise
    <3>3. CASE j = Len(hs) + 1
      <4>1. hs[i].plugin \/ hs[i].by < who
        BY <1>1, <1>2, <1>3, <3>1
      <4>. QED
        BY <2>2, <2>5, <3>1, <3>3, <4>1
    <3>. QED
      BY <2>5, <2>6, <3>2, <3>3
  <2>. QED
    BY <2>1, <2>4, <2>7, <2>8 DEF HooksRise, all
<1>5. CASE ~layer.hooks
  <2>1. Clients!OwnHooks(layer, who) = <<>>
    BY <1>5 DEF Clients!OwnHooks
  <2>2. hs \o <<>> = hs
    BY ConcatEmptySeq
  <2>3. \A i \in DOMAIN hs : hs[i].by <= who
    BY <1>1, <1>2, <1>3
  <2>. QED
    BY <2>1, <2>2, <2>3 DEF HooksRise
<1>. QED
  BY <1>4, <1>5

(* Who can set a value.                                                     *)
LEMMA SettersAre ==
  ASSUME Clients!ClientOptionsAssumption
  PROVE  /\ MaxClients \in Nat /\ Clients!Setters = 0..2 * MaxClients + 3 /\ Clients!Nobody = 0
         /\ Clients!Call = MaxClients + 1 /\ Clients!Call \in Clients!Setters
         /\ Clients!Nobody \in Clients!Setters /\ Clients!Misina \in Clients!Setters
         /\ \A c \in 0..MaxClients : c \in Clients!Setters
         /\ \A who \in 0..Clients!Call : Clients!Patched(who) \in Clients!Setters
<1>1. MaxClients \in Nat
  BY DEF Clients!ClientOptionsAssumption
<1>. QED
  BY <1>1 DEF Clients!Setters, Clients!Nobody, Clients!Misina, Clients!Call, Clients!Patched

(* What mergeOptions makes of a client's options and a layer.               *)
LEMMA MergeMakes ==
  ASSUME Clients!ClientOptionsAssumption, NEW p \in Clients!Settings, NEW layer \in Clients!Layer,
         NEW who \in 1..MaxClients, Clients!Merge(p, layer, who).hooks \in Seq(Hook)
  PROVE  LET m == Clients!Merge(p, layer, who) IN
         /\ m \in Clients!Settings
         /\ m.defer \in {who, p.defer}
         /\ m.state = Clients!Taken(layer.state, p.state, who)
         /\ \A n \in Names : m.headers[n] =
                IF layer.headers[n] = "set" THEN who
                ELSE IF "headers" \in layer.replaces THEN Clients!Nobody ELSE p.headers[n]
<1> DEFINE m == Clients!Merge(p, layer, who)
           old == IF "headers" \in layer.replaces THEN Clients!Blank.headers ELSE p.headers
           rt == IF layer.retry = {} THEN p.retry
                 ELSE [f \in {"limit",
                 "delay"} |-> IF f \in layer.retry THEN who ELSE Clients!Nobody]
<1>1. who \in Clients!Setters /\ Clients!Nobody \in Clients!Setters
  BY SettersAre DEF Clients!ClientOptionsAssumption
<1>2. Clients!Blank.headers = [n \in Names |-> Clients!Nobody]
  BY DEF Clients!Blank
<1>3. /\ p.headers \in [Names -> Clients!Setters] /\ p.timeout \in Clients!Setters
      /\ p.retry \in [limit : Clients!Setters, delay : Clients!Setters]
      /\ p.state \in Clients!Setters /\ p.defer \in Clients!Setters
  BY DEF Clients!Settings
<1>4. /\ m.headers = Clients!Over(old, layer, who)
      /\ m.timeout = Clients!Taken(layer.timeout, p.timeout, who)
      /\ m.retry = rt
      /\ m.state = Clients!Taken(layer.state, p.state, who)
      /\ m.defer = IF layer.defer THEN who ELSE p.defer
  BY DEF Clients!Merge
<1>5. m = [headers |-> m.headers, timeout |-> m.timeout, retry |-> m.retry, hooks |-> m.hooks,
           state |-> m.state, defer |-> m.defer]
  BY DEF Clients!Merge
<1>. HIDE DEF m
<1>6. old \in [Names -> Clients!Setters]
  BY <1>1, <1>2, <1>3
<1>7. /\ m.headers \in [Names -> Clients!Setters]
      /\ \A n \in Names : m.headers[n] = IF layer.headers[n] = "set" THEN who ELSE old[n]
  <2>1. m.headers = [n \in Names |-> IF layer.headers[n] = "set" THEN who ELSE old[n]]
    BY <1>4 DEF Clients!Over
  <2>. QED
    BY <1>1, <1>6, <2>1
<1>8. m.timeout \in Clients!Setters /\ m.state \in Clients!Setters
  BY <1>1, <1>3, <1>4 DEF Clients!Taken
<1>9. m.retry \in [limit : Clients!Setters, delay : Clients!Setters]
  <2>1. CASE layer.retry = {}
    BY <1>3, <1>4, <2>1
  <2>2. CASE layer.retry # {}
    <3>1. m.retry = [f \in {"limit", "delay"} |-> IF f \in layer.retry THEN who ELSE Clients!Nobody]
      BY <1>4, <2>2
    <3>. QED
      BY <1>1, <3>1
  <2>. QED
    BY <2>1, <2>2
<1>10. m.defer \in Clients!Setters /\ m.defer \in {who, p.defer}
  BY <1>1, <1>3, <1>4
<1>11. m \in Clients!Settings
  BY <1>5, <1>7, <1>8, <1>9, <1>10 DEF Clients!Settings, Hook, m
<1>12. \A n \in Names : m.headers[n] =
          IF layer.headers[n] = "set" THEN who
          ELSE IF "headers" \in layer.replaces THEN Clients!Nobody ELSE p.headers[n]
  BY <1>2, <1>7
<1>. QED
  BY <1>4, <1>10, <1>11, <1>12 DEF m

(* A client more, made of a layer and of what its parent is, or of nothing. *)
LEMMA ClientAdded ==
  ASSUME Clients!ClientOptionsAssumption, ClientsInv,
         NEW p \in Clients!Settings, NEW ch \in Seq(Link), NEW layer \in Clients!Layer,
         NEW k, k = Len(clients) + 1, k \in 1..MaxClients,
         Clients!Merge(p, layer, k).hooks \in Seq(Hook), HooksRise(Clients!Merge(p, layer,
         k).hooks, k),
         clients' = Append(clients, Clients!Merge(p, layer, k)),
         chains' = Append(chains, Append(ch, [by |-> k, layer |-> layer])),
         UNCHANGED <<optionsPc, options, deferring, encoded, chain>>, optionsPc = "idle",
         p.defer \in 0..MaxClients,
         \A n \in Names : p.headers[n] = MostOf(ch, n)
  PROVE  ClientsInv'
<1> DEFINE m == Clients!Merge(p, layer, k)
           link == [by |-> k, layer |-> layer]
           new == Append(ch, link)
           l == Len(ch)
<1>1. /\ m \in Clients!Settings /\ m.defer \in {k, p.defer}
      /\ m.state = Clients!Taken(layer.state, p.state, k)
      /\ \A n \in Names : m.headers[n] =
            IF layer.headers[n] = "set" THEN k
            ELSE IF "headers" \in layer.replaces THEN Clients!Nobody ELSE p.headers[n]
      /\ HooksRise(m.hooks, k)
  BY MergeMakes
<1>2. link \in Link /\ link.by = k /\ link.layer = layer
  BY SettersAre DEF Link
<1>3. /\ clients \in Seq(Clients!Settings) /\ Len(clients) \in Nat /\ DOMAIN clients = 1..Len(clients)
      /\ chains \in Seq(Seq(Link)) /\ Len(chains) = Len(clients) /\ DOMAIN chains = 1..Len(clients)
  BY DEF ClientsInv, ClientsAreMade, Clients!TypeOK
<1>4. k \in Nat /\ k # 0 /\ k \notin 1..Len(clients)
  BY <1>3
<1>5. \A c \in 1..k : c = k \/ c \in 1..Len(clients)
  BY <1>3
<1>6. /\ l \in Nat /\ DOMAIN ch = 1..l /\ new \in Seq(Link) /\ Len(new) = l + 1 /\ DOMAIN new = 1..l + 1
      /\ new[l + 1] = link /\ \A i \in 1..l : new[i] = ch[i]
  BY <1>2, AppendProperties
<1>7. \A n \in Names : m.headers[n] = MostOf(new, n)
  BY <1>1, <1>2, MostOfAppend
<1>8. clients' = Append(clients, m) /\ chains' = Append(chains, new)
  OBVIOUS
<1>. HIDE DEF m, link, new
<1>9. /\ clients' \in Seq(Clients!Settings) /\ Len(clients') = k /\ DOMAIN clients' = 1..k
      /\ clients'[k] = m /\ \A c \in 1..Len(clients) : clients'[c] = clients[c]
  BY <1>1, <1>3, <1>8, AppendProperties
<1>10. /\ chains' \in Seq(Seq(Link)) /\ Len(chains') = k /\ DOMAIN chains' = 1..k
       /\ chains'[k] = new /\ \A c \in 1..Len(clients) : chains'[c] = chains[c]
  BY <1>3, <1>6, <1>8, AppendProperties
<1>12. MadeOf(m, new, k)
  <2>1. m.defer \in 0..MaxClients
    BY <1>1
  <2>2. Len(new) >= 1 /\ new[Len(new)].by = k
    BY <1>2, <1>6
  <2>. QED
    BY <1>1, <1>7, <2>1, <2>2 DEF MadeOf
<1>13. ASSUME NEW c \in 1..k
       PROVE  MadeOf(clients'[c], chains'[c], c)
  <2>1. CASE c = k
    BY <1>9, <1>10, <1>12, <2>1
  <2>2. CASE c \in 1..Len(clients)
    BY <1>3, <1>9, <1>10, <2>2 DEF ClientsInv, ClientsAreMade
  <2>. QED
    BY <1>5, <2>1, <2>2
<1>17. ClientsAreMade'
  BY <1>9, <1>10, <1>13 DEF ClientsAreMade
<1>18. Clients!TypeOK' /\ CallIsMade'
  BY <1>3, <1>9, <1>10 DEF ClientsInv, CallIsMade, Clients!TypeOK
<1>19. Clients!MostSpecificWins'
  BY DEF Clients!MostSpecificWins
<1>. QED
  BY <1>17, <1>18, <1>19 DEF ClientsInv

(* What mergeOptions and resolveOptions begin with.                         *)
LEMMA BlankIsSettings ==
  ASSUME Clients!ClientOptionsAssumption
  PROVE  /\ Clients!Blank \in Clients!Settings /\ Clients!Blank.hooks = <<>>
         /\ Clients!Blank.defer = 0 /\ Clients!Blank.state = Clients!Nobody
         /\ \A n \in Names : Clients!Blank.headers[n] = Clients!Nobody
<1>1. Clients!Nobody \in Clients!Setters /\ Clients!Nobody = 0
  BY SettersAre
<1>2. <<>> \in Seq([by : Clients!Setters, plugin : BOOLEAN])
  OBVIOUS
<1>. QED
  BY <1>1, <1>2 DEF Clients!Blank, Clients!Settings

(* There is no client.                                                      *)
LEMMA ClientsStart == ASSUME Clients!ClientOptionsAssumption, Clients!Init PROVE ClientsInv
<1>1. /\ clients = <<>> /\ chains = <<>> /\ optionsPc = "idle" /\ options = Clients!Blank
      /\ deferring = <<>> /\ encoded = FALSE /\ chain = <<>>
  BY DEF Clients!Init
<1>2. /\ clients \in Seq(Clients!Settings) /\ Len(clients) = 0 /\ DOMAIN clients = {}
      /\ chains \in Seq(Seq(Link)) /\ Len(chains) = 0 /\ DOMAIN chains = {}
      /\ deferring \in Seq(Clients!Setters) /\ deferring \in Seq(1..Clients!Call) /\ chain \in Seq(Link)
  BY <1>1
<1>3. options \in Clients!Settings /\ options.defer = 0 /\ 0 \in 0..Clients!Call /\ 0 <= MaxClients
  <2>1. MaxClients \in Nat /\ Clients!Call = MaxClients + 1
    BY SettersAre
  <2>. QED
    BY <1>1, <2>1, BlankIsSettings
<1>4. Clients!TypeOK
  BY <1>1, <1>2, <1>3 DEF Clients!TypeOK
<1>5. ClientsAreMade
  BY <1>2 DEF ClientsAreMade
<1>6. CallIsMade /\ Clients!MostSpecificWins
  BY <1>1, <1>2, <1>3 DEF CallIsMade, Clients!MostSpecificWins
<1>. QED
  BY <1>4, <1>5, <1>6 DEF ClientsInv

(* The types the invariant gives.                                           *)
LEMMA ClientsFacts ==
  ASSUME ClientsInv
  PROVE  /\ clients \in Seq(Clients!Settings) /\ Len(clients) \in Nat /\ Len(clients) <= MaxClients
         /\ DOMAIN clients = 1..Len(clients)
         /\ chains \in Seq(Seq(Link)) /\ Len(chains) = Len(clients) /\ DOMAIN chains = DOMAIN clients
         /\ options \in Clients!Settings /\ options.hooks \in Seq(Hook)
         /\ \A c \in DOMAIN clients :
                /\ clients[c] \in Clients!Settings /\ clients[c].hooks \in Seq(Hook)
                /\ chains[c] \in Seq(Link)
<1>1. /\ clients \in Seq(Clients!Settings) /\ Len(clients) <= MaxClients
      /\ chains \in Seq(Seq(Link)) /\ Len(chains) = Len(clients)
      /\ options \in Clients!Settings
  BY DEF ClientsInv, Clients!TypeOK, ClientsAreMade
<1>2. \A s \in Clients!Settings : s.hooks \in Seq(Hook)
  BY DEF Clients!Settings, Hook
<1>. QED
  BY <1>1, <1>2

(* createMisina: a client of one layer.                                     *)
LEMMA CreateKeeps ==
  ASSUME Clients!ClientOptionsAssumption, ClientsInv, NEW layer \in Layers,
         Clients!CreateMisina(layer)
  PROVE  ClientsInv'
<1> DEFINE k == Len(clients) + 1
           b == Clients!Blank
<1>1. /\ layer \in Clients!Layer /\ layer.replaces = {} /\ k \in 1..MaxClients /\ optionsPc = "idle"
      /\ clients' = Append(clients, Clients!Merge(b, layer, k))
      /\ chains' = Append(chains, <<[by |-> k, layer |-> layer]>>)
      /\ UNCHANGED <<optionsPc, options, deferring, encoded, chain>>
  BY DEF Clients!CreateMisina, Clients!Newcomer, Clients!Clients, Clients!ClientOptionsAssumption
<1>. HIDE DEF k
<1>2. k \in Clients!Setters /\ k \in Int /\ MaxClients \in Nat
  BY <1>1, SettersAre
<1>3. <<>> \in Seq(Link) /\ DOMAIN <<>> = {}
     /\ Append(<<>>, [by |-> k, layer |-> layer]) = <<[by |-> k, layer |-> layer]>>
  OBVIOUS
<1>4. Clients!Merge(b, layer, k).hooks \in Seq(Hook) /\ HooksRise(Clients!Merge(b, layer, k).hooks, k)
  <2> DEFINE hs == IF layer.plugin THEN <<[by |-> k, plugin |-> TRUE]>> ELSE <<>>
  <2>1. Clients!Merge(b, layer, k).hooks = hs \o <<>> \o Clients!OwnHooks(layer, k)
    BY <1>1, BlankIsSettings DEF Clients!Merge
  <2>2. hs \in Seq(Hook) /\ \A i \in DOMAIN hs : hs[i].plugin /\ hs[i].by = k
    <3>1. CASE layer.plugin
      <4>1. [by |-> k, plugin |-> TRUE] \in Hook
        BY <1>2 DEF Hook
      <4>. QED
        BY <3>1, <4>1
    <3>2. CASE ~layer.plugin
      <4>1. hs = <<>>
        BY <3>2
      <4>. QED
        BY <4>1
    <3>. QED
      BY <3>1, <3>2
  <2>. HIDE DEF hs
  <2>3. HooksRise(hs, k)
    BY <1>2, <2>2 DEF HooksRise
  <2>4. hs \o <<>> = hs
    BY <2>2, ConcatEmptySeq
  <2>. QED
    BY <1>1, <1>2, <2>1, <2>2, <2>3, <2>4, HooksAdded
<1>6. \A n \in Names : b.headers[n] = MostOf(<<>>, n)
  BY BlankIsSettings, MostOfNothing
<1>7. b.defer \in 0..MaxClients /\ b \in Clients!Settings
  BY <1>2, BlankIsSettings
<1>8. chains' = Append(chains, Append(<<>>, [by |-> k, layer |-> layer]))
  BY <1>1, <1>3
<1>9. k = Len(clients) + 1
  BY DEF k
<1>. HIDE DEF b
<1>. QED
  BY <1>1, <1>3, <1>4, <1>6, <1>7, <1>8, <1>9, ClientAdded

(* extend: a layer more than the parent.                                    *)
LEMMA ExtendKeeps ==
  ASSUME Clients!ClientOptionsAssumption, ClientsInv, NEW layer \in Layers,
         NEW p \in DOMAIN clients,
         Clients!Extend(p, layer)
  PROVE  ClientsInv'
<1> DEFINE k == Len(clients) + 1
           s == clients[p]
<1>1. /\ layer \in Clients!Layer /\ ~layer.plugin /\ k \in 1..MaxClients /\ optionsPc = "idle"
      /\ clients' = Append(clients, Clients!Merge(s, layer, k))
      /\ chains' = Append(chains, Append(chains[p], [by |-> k, layer |-> layer]))
      /\ UNCHANGED <<optionsPc, options, deferring, encoded, chain>>
  BY DEF Clients!Extend, Clients!Newcomer, Clients!Clients, Clients!ClientOptionsAssumption
<1>2. /\ s \in Clients!Settings /\ s.hooks \in Seq(Hook) /\ chains[p] \in Seq(Link)
      /\ MadeOf(s, chains[p], p)
      /\ p \in 1..Len(clients) /\ Len(clients) \in Nat
  BY ClientsFacts DEF ClientsInv, ClientsAreMade
<1>3. k \in Int /\ p \in Int /\ p < k /\ p <= k
  BY <1>2
<1>4. k \in Clients!Setters
  BY <1>1, SettersAre
<1>. HIDE DEF s, k
<1>5. Clients!Merge(s, layer, k).hooks \in Seq(Hook) /\ HooksRise(Clients!Merge(s, layer, k).hooks, k)
  <2> DEFINE hs == IF "hooks" \in layer.replaces THEN <<>> ELSE s.hooks
  <2>1. Clients!Merge(s, layer, k).hooks = <<>> \o hs \o Clients!OwnHooks(layer, k)
    BY <1>1 DEF Clients!Merge
  <2>2. hs \in Seq(Hook) /\ HooksRise(hs, p)
    <3>1. HooksRise(<<>>, p)
      BY DEF HooksRise
    <3>. QED
      BY <1>2, <3>1 DEF MadeOf
  <2>. HIDE DEF hs
  <2>3. <<>> \o hs = hs
    BY <2>2, ConcatEmptySeq
  <2>. QED
    BY <1>1, <1>3, <1>4, <2>1, <2>2, <2>3, HooksAdded
<1>6. /\ s.defer \in 0..MaxClients
      /\ \A n \in Names : s.headers[n] = MostOf(chains[p], n)
  BY <1>2 DEF MadeOf
<1>7. k = Len(clients) + 1
  BY DEF k
<1>. QED
  BY <1>1, <1>2, <1>5, <1>6, <1>7, ClientAdded

(* What of the invariant is about clients stays when only a call moves.     *)
LEMMA ClientsKept ==
  ASSUME ClientsInv, UNCHANGED <<clients, chains>>,
         optionsPc' \in {"idle", "resolved", "built"}, encoded' \in BOOLEAN,
         options' \in Clients!Settings, deferring' \in Seq(Clients!Setters),
         CallIsMade', Clients!MostSpecificWins'
  PROVE  ClientsInv'
<1>1. Clients!TypeOK' /\ ClientsAreMade'
  BY DEF ClientsInv, Clients!TypeOK, ClientsAreMade
<1>. QED
  BY <1>1 DEF ClientsInv

(* The options of a call are a layer more than those of its client.         *)
LEMMA RequestKeeps ==
  ASSUME Clients!ClientOptionsAssumption, ClientsInv, NEW c \in DOMAIN clients, NEW init \in Inits,
         Clients!Request(c, init)
  PROVE  ClientsInv'
<1> DEFINE s == clients[c]
           own == Clients!SharedState(c)
           o == Clients!Resolve(s, init, own)
           link == [by |-> Clients!Call, layer |-> init]
<1>1. /\ init \in Clients!Layer /\ init.replaces = {}
      /\ optionsPc' = "resolved" /\ encoded' = FALSE /\ UNCHANGED <<clients, chains>>
      /\ options' = o /\ chain' = Append(chains[c], link)
      /\ deferring' = Clients!Callback(s.defer) \o Clients!Callback(options'.defer)
  BY DEF Clients!Request, Clients!ClientOptionsAssumption
<1>2. /\ s \in Clients!Settings /\ s.hooks \in Seq(Hook) /\ chains[c] \in Seq(Link)
      /\ MadeOf(s, chains[c], c) /\ c \in 1..Len(clients) /\ Len(clients) <= MaxClients
      /\ Len(clients) \in Nat
  BY ClientsFacts DEF ClientsInv, ClientsAreMade
<1>3. /\ MaxClients \in Nat /\ Clients!Setters = 0..2 * MaxClients + 3 /\ Clients!Nobody = 0
      /\ Clients!Call = MaxClients + 1 /\ Clients!Call \in Clients!Setters
      /\ Clients!Nobody \in Clients!Setters
  BY SettersAre
<1>4. c \in Clients!Setters /\ c \in Int /\ c < Clients!Call /\ c <= Clients!Call
  BY <1>2, <1>3
<1>5. own \in Clients!Setters
  BY <1>2, <1>4 DEF Clients!SharedState, Clients!Settings
<1>6. link \in Link /\ link.by = Clients!Call /\ link.layer = init
  BY <1>1, <1>3 DEF Link
<1>7. /\ s.headers \in [Names -> Clients!Setters] /\ s.timeout \in Clients!Setters
      /\ s.retry \in [limit : Clients!Setters, delay : Clients!Setters]
      /\ s.defer \in 0..MaxClients /\ HooksRise(s.hooks, c)
      /\ \A n \in Names : s.headers[n] = MostOf(chains[c], n)
  BY <1>2 DEF Clients!Settings, MadeOf
<1>. HIDE DEF s, own, link
<1>8. /\ o = [headers |-> o.headers, timeout |-> o.timeout, retry |-> o.retry, hooks |-> o.hooks,
             state |-> o.state, defer |-> o.defer]
      /\ o.headers = Clients!Over(s.headers, init, Clients!Call)
      /\ o.timeout = IF init.timeout = "set" THEN Clients!Call ELSE s.timeout
      /\ o.retry = [f \in {"limit", "delay"} |-> IF f \in init.retry THEN Clients!Call ELSE s.retry[f]]
      /\ o.hooks = s.hooks \o Clients!OwnHooks(init, Clients!Call)
      /\ o.state = own
      /\ o.defer = IF init.defer THEN Clients!Call ELSE Clients!Nobody
  BY DEF Clients!Resolve
<1>. HIDE DEF o
<1>9. o.hooks \in Seq(Hook) /\ HooksRise(o.hooks, Clients!Call)
  <2>1. /\ s.hooks \in Seq(Hook) /\ HooksRise(s.hooks, c) /\ init \in Clients!Layer
        /\ Clients!Call \in Clients!Setters /\ c \in Int /\ c < Clients!Call /\ c <= Clients!Call
    BY <1>1, <1>2, <1>3, <1>4, <1>7
  <2>2. /\ s.hooks \o Clients!OwnHooks(init, Clients!Call) \in Seq(Hook)
        /\ HooksRise(s.hooks \o Clients!OwnHooks(init, Clients!Call), Clients!Call)
    BY <2>1, HooksAdded
  <2>. QED
    BY <1>8, <2>2
<1>10. /\ o.headers \in [Names -> Clients!Setters]
       /\ \A n \in Names : o.headers[n] = IF init.headers[n] = "set" THEN Clients!Call ELSE s.headers[n]
  BY <1>3, <1>7, <1>8 DEF Clients!Over
<1>11. o.retry \in [limit : Clients!Setters, delay : Clients!Setters]
  <2>1. s.retry["limit"] \in Clients!Setters /\ s.retry["delay"] \in Clients!Setters
    BY <1>7
  <2>. QED
    BY <1>3, <1>8, <2>1
<1>12. o.defer \in 0..Clients!Call /\ o.defer \in Clients!Setters
  BY <1>3, <1>8
<1>13. o \in Clients!Settings
  <2>1. o.timeout \in Clients!Setters /\ o.state \in Clients!Setters
    BY <1>3, <1>5, <1>7, <1>8
  <2>. QED
    BY <1>8, <1>9, <1>10, <1>11, <1>12, <2>1 DEF Clients!Settings, Hook
<1>14. deferring' \in Seq(1..Clients!Call)
  <2>1. \A who \in 0..Clients!Call : Clients!Callback(who) \in Seq(1..Clients!Call)
    <3>1. ASSUME NEW who \in 0..Clients!Call
          PROVE  Clients!Callback(who) \in Seq(1..Clients!Call)
      <4>1. CASE who = 0
        <5>1. Clients!Callback(who) = <<>>
          BY <1>3, <4>1 DEF Clients!Callback
        <5>. QED
          BY <5>1
      <4>2. CASE who # 0
        <5>1. Clients!Callback(who) = <<who>> /\ who \in 1..Clients!Call
          BY <1>3, <4>2 DEF Clients!Callback
        <5>. QED
          BY <5>1
      <4>. QED
        BY <4>1, <4>2
    <3>. QED
      BY <3>1
  <2>2. s.defer \in 0..Clients!Call
    BY <1>3, <1>7
  <2>. QED
    BY <1>1, <1>12, <2>1, <2>2, ConcatProperties
<1>15. deferring' \in Seq(Clients!Setters)
  <2>1. 1..Clients!Call \subseteq Clients!Setters
    BY <1>3
  <2>. QED
    BY <1>14, <2>1, SeqMonotonic
<1>16. CallIsMade'
  <2>1. chain' \in Seq(Link)
    BY <1>1, <1>2, <1>6, AppendProperties
  <2>2. \A n \in Names : o.headers[n] = MostOf(chain', n)
    <3>1. ASSUME NEW n \in Names
          PROVE  MostOf(Append(chains[c], link), n) =
                    IF init.headers[n] = "set" THEN Clients!Call ELSE s.headers[n]
      <4>1. MostOf(Append(chains[c], link), n) =
                IF link.layer.headers[n] = "set" THEN link.by
                ELSE IF "headers" \in link.layer.replaces THEN Clients!Nobody ELSE MostOf(chains[c], n)
        BY <1>2, <1>6, MostOfAppend
      <4>. QED
        BY <1>1, <1>6, <1>7, <4>1
    <3>. QED
      BY <1>1, <1>10, <3>1
  <2>. QED
    BY <1>1, <1>9, <1>12, <1>14, <2>1, <2>2 DEF CallIsMade
<1>17. Clients!MostSpecificWins'
  BY <1>1 DEF Clients!MostSpecificWins
<1>. QED
  BY <1>1, <1>13, <1>15, <1>16, <1>17, ClientsKept

(* A callback adds a layer of its own to the call.                          *)
LEMMA DeferKeeps ==
  ASSUME Clients!ClientOptionsAssumption, ClientsInv, NEW patch \in Patches, Clients!Defer(patch)
  PROVE  ClientsInv'
<1> DEFINE who == Clients!Patched(Head(deferring))
           link == [by |-> who, layer |-> patch]
           hd == Clients!Over(options.headers, patch, who)
           tm == IF patch.timeout = "set" THEN who ELSE options.timeout
<1>1. /\ patch \in Clients!Layer /\ patch.replaces = {}
      /\ optionsPc = "resolved" /\ deferring # <<>>
      /\ options' = [options EXCEPT !.headers = hd, !.timeout = tm]
      /\ chain' = Append(chain, link) /\ deferring' = Tail(deferring)
      /\ UNCHANGED <<clients, chains, optionsPc, encoded>>
  BY DEF Clients!Defer, Clients!ClientOptionsAssumption
<1>2. /\ deferring \in Seq(1..Clients!Call) /\ chain \in Seq(Link) /\ encoded \in BOOLEAN
      /\ options \in Clients!Settings /\ options.defer \in 0..Clients!Call
      /\ \A n \in Names : options.headers[n] = MostOf(chain, n)
      /\ HooksRise(options.hooks, Clients!Call)
  BY <1>1 DEF ClientsInv, CallIsMade, Clients!TypeOK
<1>3. Head(deferring) \in 1..Clients!Call /\ Tail(deferring) \in Seq(1..Clients!Call)
  BY <1>1, <1>2, HeadTailProperties
<1>4. who \in Clients!Setters /\ 1..Clients!Call \subseteq Clients!Setters
  <2>1. /\ MaxClients \in Nat /\ Clients!Setters = 0..2 * MaxClients + 3
         /\ Clients!Call = MaxClients + 1
        /\ \A w \in 0..Clients!Call : Clients!Patched(w) \in Clients!Setters
    BY SettersAre
  <2>2. Head(deferring) \in 0..Clients!Call
    BY <1>3, <2>1
  <2>. QED
    BY <2>1, <2>2
<1>. HIDE DEF who
<1>5. link \in Link /\ link.by = who /\ link.layer = patch
  BY <1>1, <1>4 DEF Link
<1>6. /\ options.headers \in [Names -> Clients!Setters] /\ options.timeout \in Clients!Setters
  BY <1>2 DEF Clients!Settings
<1>7. /\ hd \in [Names -> Clients!Setters]
      /\ \A n \in Names : hd[n] = IF patch.headers[n] = "set" THEN who ELSE options.headers[n]
  BY <1>4, <1>6 DEF Clients!Over
<1>8. tm \in Clients!Setters
  BY <1>4, <1>6
<1>. HIDE DEF link, hd, tm
<1>9. /\ options' \in Clients!Settings /\ options'.headers = hd
      /\ options'.defer = options.defer /\ options'.hooks = options.hooks
  BY <1>1, <1>2, <1>7, <1>8 DEF Clients!Settings
<1>10. CallIsMade'
  <2>1. chain' \in Seq(Link)
    BY <1>1, <1>2, <1>5, AppendProperties
  <2>2. \A n \in Names : hd[n] = MostOf(chain', n)
    BY <1>1, <1>2, <1>5, <1>7, MostOfAppend
  <2>. QED
    BY <1>1, <1>2, <1>3, <1>9, <2>1, <2>2 DEF CallIsMade
<1>11. Clients!MostSpecificWins'
  BY <1>1 DEF Clients!MostSpecificWins
<1>12. deferring' \in Seq(Clients!Setters)
  BY <1>1, <1>3, <1>4, SeqMonotonic
<1>. QED
  BY <1>1, <1>2, <1>9, <1>10, <1>11, <1>12, ClientsKept

(* The request is built from what the layers came to.                       *)
LEMMA BuildKeeps ==
  ASSUME Clients!ClientOptionsAssumption, ClientsInv, NEW body \in Bodies,
         NEW decompress \in BOOLEAN, NEW compress \in BOOLEAN,
         Clients!Build(body, decompress, compress)
  PROVE  ClientsInv'
<1> DEFINE adv == Clients!Added(options.headers, "accept-encoding", decompress)
           typed == Clients!Added(adv, "content-type", body = "plain")
           hd == IF encoded' THEN [typed EXCEPT !["content-encoding"] = Clients!Misina,
                                               !["content-length"] = Clients!Nobody]
                 ELSE typed
<1>1. /\ optionsPc = "resolved" /\ optionsPc' = "built"
      /\ encoded' = (compress /\ body \in {"plain", "bytes"})
      /\ options' = [options EXCEPT !.headers = hd]
      /\ UNCHANGED <<clients, chains, deferring, chain>>
  BY DEF Clients!Build
<1>2. /\ options \in Clients!Settings /\ deferring \in Seq(Clients!Setters)
      /\ \A n \in Names : options.headers[n] = MostOf(chain, n)
      /\ options.hooks \in Seq(Hook) /\ HooksRise(options.hooks, Clients!Call)
      /\ chain \in Seq(Link) /\ options.defer \in 0..Clients!Call /\ deferring \in Seq(1..Clients!Call)
  BY <1>1, ClientsFacts DEF ClientsInv, CallIsMade, Clients!TypeOK
<1>3. encoded' \in BOOLEAN
  BY <1>1, Zenon
<1>4. /\ Clients!Misina \in Clients!Setters /\ Clients!Nobody \in Clients!Setters
      /\ Clients!Misina # Clients!Nobody
      /\ {"accept-encoding", "content-type", "content-encoding", "content-length"} \subseteq Names
  <2>1. Clients!Misina # Clients!Nobody
    BY SettersAre DEF Clients!Misina
  <2>. QED
    BY <2>1, SettersAre DEF Clients!ClientOptionsAssumption
<1>5. ASSUME NEW h \in [Names -> Clients!Setters], NEW x \in Names, NEW cond
      PROVE  /\ Clients!Added(h, x, cond) \in [Names -> Clients!Setters]
             /\ \A n \in Names : Clients!Added(h, x, cond)[n] = h[n]
                    \/ (h[n] = Clients!Nobody /\ Clients!Added(h, x, cond)[n] = Clients!Misina)
  BY <1>4 DEF Clients!Added
<1>6. options.headers \in [Names -> Clients!Setters]
  BY <1>2 DEF Clients!Settings
<1>7. /\ adv \in [Names -> Clients!Setters]
      /\ \A n \in Names : adv[n] = options.headers[n]
            \/ (options.headers[n] = Clients!Nobody /\ adv[n] = Clients!Misina)
  BY <1>4, <1>5, <1>6
<1>. HIDE DEF adv
<1>8. /\ typed \in [Names -> Clients!Setters]
      /\ \A n \in Names : typed[n] = adv[n] \/ (adv[n] = Clients!Nobody /\ typed[n] = Clients!Misina)
  BY <1>4, <1>5, <1>7
<1>. HIDE DEF typed
<1>9. \A n \in Names : typed[n] \in {MostOf(chain, n)} \cup
                            (IF MostOf(chain, n) = Clients!Nobody THEN {Clients!Misina} ELSE {})
  BY <1>2, <1>4, <1>7, <1>8
<1>10. /\ hd \in [Names -> Clients!Setters]
       /\ encoded' => /\ hd["content-encoding"] = Clients!Misina
                      /\ hd["content-length"] = Clients!Nobody
                      /\ \A n \in Names \ Clients!Shielded : hd[n] = typed[n]
       /\ ~encoded' => hd = typed
  BY <1>4, <1>8 DEF Clients!Shielded
<1>. HIDE DEF hd
<1>11. options' \in Clients!Settings /\ options'.headers = hd /\ options'.hooks = options.hooks
       /\ options'.defer = options.defer
  BY <1>1, <1>2, <1>10 DEF Clients!Settings
<1>12. CallIsMade'
  BY <1>1, <1>2, <1>11 DEF CallIsMade
<1>13. Clients!MostSpecificWins'
  <2>1. Clients!HooksInOrder'
    BY <1>2, <1>11 DEF Clients!HooksInOrder, HooksRise
  <2>2. \A n : Clients!MostSpecific(n)' = MostOf(chain, n)
    BY <1>1 DEF Clients!MostSpecific, MostOf, Clients!Givers, GiversOf
  <2>3. ASSUME NEW n \in Names
        PROVE  IF n \in Clients!Shielded /\ encoded'
               THEN hd[n] = IF n = "content-encoding" THEN Clients!Misina ELSE Clients!Nobody
               ELSE hd[n] \in {MostOf(chain, n)} \cup
                                (IF MostOf(chain, n) = Clients!Nobody THEN {Clients!Misina} ELSE {})
    <3>1. CASE n \in Clients!Shielded /\ encoded'
      BY <1>10, <3>1 DEF Clients!Shielded
    <3>2. CASE ~(n \in Clients!Shielded /\ encoded')
      <4>1. hd[n] = typed[n]
        BY <1>10, <3>2
      <4>. QED
        BY <1>9, <3>2, <4>1
    <3>. QED
      BY <3>1, <3>2
  <2>. QED
    BY <1>11, <2>1, <2>2, <2>3 DEF Clients!MostSpecificWins
<1>. QED
  BY <1>1, <1>2, <1>3, <1>11, <1>12, <1>13, ClientsKept

(* Each step of the clients, one lemma for each action.                     *)
LEMMA ClientsSteps ==
  ASSUME Clients!ClientOptionsAssumption, ClientsInv, [Clients!Next]_optionsVars PROVE ClientsInv'
<1>1. ASSUME UNCHANGED <<clients, chains, options, deferring, encoded, chain>>,
             optionsPc' = "idle" \/ optionsPc' = optionsPc
      PROVE  ClientsInv'
  <2>1. optionsPc' \in {"idle", "resolved", "built"} /\ encoded' \in BOOLEAN
        /\ options' \in Clients!Settings /\ deferring' \in Seq(Clients!Setters)
    BY <1>1 DEF ClientsInv, Clients!TypeOK
  <2>2. CallIsMade'
    BY <1>1 DEF ClientsInv, CallIsMade
  <2>3. Clients!MostSpecificWins'
    <3>1. CASE optionsPc' = "idle"
      BY <3>1 DEF Clients!MostSpecificWins
    <3>2. CASE optionsPc' = optionsPc
      <4>1. ASSUME NEW n PROVE Clients!MostSpecific(n)' = Clients!MostSpecific(n)
        BY <1>1 DEF Clients!MostSpecific, Clients!Givers
      <4>2. Clients!HooksInOrder => Clients!HooksInOrder'
        BY <1>1 DEF Clients!HooksInOrder
      <4>. QED
        BY <1>1, <3>2, <4>1, <4>2 DEF ClientsInv, Clients!MostSpecificWins
    <3>. QED
      BY <1>1, <3>1, <3>2
  <2>. QED
    BY <1>1, <2>1, <2>2, <2>3, ClientsKept
<1>2. CASE UNCHANGED optionsVars
  BY <1>1, <1>2 DEF optionsVars
<1>3. ASSUME NEW body \in Bodies, Clients!BuildThrows(body) PROVE ClientsInv'
  BY <1>1, <1>3 DEF Clients!BuildThrows
<1>4. ASSUME NEW patch \in Patches, Clients!DeferThrows(patch) PROVE ClientsInv'
  BY <1>1, <1>4 DEF Clients!DeferThrows
<1>. QED
  BY <1>2, <1>3, <1>4, CreateKeeps, ExtendKeeps, RequestKeeps, DeferKeeps, BuildKeeps
     DEF Clients!Next

-----------------------------------------------------------------------------
(* A cassette holds every answer of the recording, and nothing else; no     *)
(* answer is pending when it is replayed.                                   *)
CassetteIsWhole ==
    /\ \A s \in DOMAIN recorded :
        /\ recorded[s].answer \in DOMAIN asked /\ asked[recorded[s].answer] = recorded[s]
    /\ \A j \in DOMAIN asked :
        /\ asked[j].answer \in {Test!Pending, Test!Failed, j}
        /\ asked[j].answer = j => \E s \in DOMAIN recorded : recorded[s] = asked[j]
        /\ mode = "replay" => asked[j].answer # Test!Pending

(* A call that is under way is the last of its request, unless two were     *)
(* under way at once.                                                       *)
PendingIsLast(log, cr) ==
    \A i, j \in DOMAIN log :
        log[i].request = log[j].request /\ log[i].request \notin cr
            /\ log[i].answer = Test!Pending => j <= i

(* A request that was not crossed is recorded in the order it was asked.    *)
RecordedInOrder ==
    \A s, t \in DOMAIN recorded :
        recorded[s].request = recorded[t].request /\ recorded[s].request \notin crossed /\ s < t =>
            recorded[s].answer < recorded[t].answer

(* The slots that are used are those whose answer a call was given.         *)
UsedIsGiven ==
    /\ \A s \in used : \E h \in DOMAIN played : played[h] = recorded[s]
    /\ \A h \in DOMAIN played :
        /\ played[h].answer \in {Test!Pending, Test!Refused, Test!NotFound} \cup DOMAIN asked
        /\ played[h].answer \in DOMAIN asked => \E s \in used : recorded[s] = played[h]

TestInv ==
    /\ Test!TypeOK /\ calls \in Seq(Int) /\ unmatched \in Seq(Int)
    /\ mode = "record" => played = <<>>
    /\ CassetteIsWhole /\ PendingIsLast(asked, crossed) /\ PendingIsLast(played, crossed)
    /\ RecordedInOrder /\ UsedIsGiven
    /\ Test!ReplayRepeatsRecording /\ Test!CoverageAddsUp

(* The first of some places.                                                *)
LEMMA FirstIsLeast ==
  ASSUME NEW S, S \subseteq Nat, S # {}
  PROVE  Test!First(S) \in S /\ \A t \in S : Test!First(S) <= t
BY LeastExists DEF Test!First

(* What the elements of a longer sequence are.                              *)
LEMMA ToSetOfAppend ==
  ASSUME NEW s \in Seq(Int), NEW x \in Int
  PROVE  Test!ToSet(Append(s, x)) = Test!ToSet(s) \cup {x} /\ Append(s, x) \in Seq(Int)
<1>1. /\ Len(s) \in Nat /\ DOMAIN s = 1..Len(s)
      /\ Append(s, x) \in Seq(Int) /\ DOMAIN Append(s, x) = 1..Len(s) + 1
      /\ Append(s, x)[Len(s) + 1] = x /\ \A i \in 1..Len(s) : Append(s, x)[i] = s[i]
  BY AppendProperties
<1>2. \A i \in 1..Len(s) + 1 : i \in 1..Len(s) \/ i = Len(s) + 1
  BY <1>1
<1>. QED
  BY <1>1, <1>2 DEF Test!ToSet

(* A call that is made is the last of its request.                          *)
LEMMA MadeIsLast ==
  ASSUME NEW log \in Seq(Test!Call), NEW r \in Requests, NEW cr, NEW more,
         PendingIsLast(log, cr),
         more = cr \cup (IF Test!UnderWay(log, r) THEN {r} ELSE {})
  PROVE  PendingIsLast(Append(log, [request |-> r, answer |-> Test!Pending]), more)
<1> DEFINE call == [request |-> r, answer |-> Test!Pending]
           new == Append(log, call)
<1>1. call \in Test!Call /\ call.request = r /\ call.answer = Test!Pending
  BY DEF Test!Call, Test!Pending
<1>. HIDE DEF call
<1>2. /\ Len(log) \in Nat /\ DOMAIN log = 1..Len(log) /\ DOMAIN new = 1..Len(log) + 1
      /\ new[Len(log) + 1] = call /\ \A i \in 1..Len(log) : new[i] = log[i] /\ log[i] \in Test!Call
  BY <1>1, AppendProperties
<1>3. \A i \in 1..Len(log) + 1 : i \in 1..Len(log) \/ i = Len(log) + 1
  BY <1>2
<1>. HIDE DEF new
<1>4. ASSUME NEW i \in 1..Len(log), log[i].request = r, log[i].answer = Test!Pending
      PROVE  r \in more
  <2>1. log[i] = call
    BY <1>1, <1>2, <1>4 DEF Test!Call
  <2>. QED
    BY <1>2, <2>1 DEF Test!UnderWay, call
<1>5. ASSUME NEW i \in DOMAIN new, NEW j \in DOMAIN new, new[i].request = new[j].request,
             new[i].request \notin more, new[i].answer = Test!Pending
      PROVE  j <= i
  <2>1. CASE i = Len(log) + 1
    BY <1>2, <2>1
  <2>2. CASE i \in 1..Len(log) /\ j \in 1..Len(log)
    BY <1>2, <1>5, <2>2 DEF PendingIsLast
  <2>3. CASE i \in 1..Len(log) /\ j = Len(log) + 1
    BY <1>1, <1>2, <1>4, <1>5, <2>3
  <2>. QED
    BY <1>2, <1>3, <2>1, <2>2, <2>3
<1>. QED
  BY <1>5 DEF PendingIsLast, new, call

(* An answer that is not pending keeps it so.                               *)
LEMMA AnsweredIsLast ==
  ASSUME NEW log \in Seq(Test!Call), NEW cr, NEW i \in DOMAIN log, NEW a \in Int,
         PendingIsLast(log, cr), a # Test!Pending,
         NEW new \in [DOMAIN log -> Test!Call], new[i].request = log[i].request, new[i].answer = a,
         \A j \in DOMAIN log : j # i => new[j] = log[j]
  PROVE  /\ new \in Seq(Test!Call) /\ PendingIsLast(new, cr)
         /\ \A j \in DOMAIN log : new[j].request = log[j].request
<1>1. Len(log) \in Nat /\ DOMAIN log = 1..Len(log)
  OBVIOUS
<1>2. new \in Seq(Test!Call)
  BY <1>1, SeqDef
<1>3. \A j \in DOMAIN log : new[j].request = log[j].request
  OBVIOUS
<1>4. DOMAIN new = DOMAIN log
  OBVIOUS
<1>5. PendingIsLast(new, cr)
  BY <1>3, <1>4 DEF PendingIsLast
<1>. QED
  BY <1>2, <1>3, <1>5

(* Nothing is recorded.                                                     *)
LEMMA TestStarts == ASSUME Test!TestClientAssumption, Test!Init PROVE TestInv
<1>1. /\ mode = "record" /\ asked = <<>> /\ recorded = <<>> /\ used = {} /\ played = <<>>
      /\ calls = <<>> /\ unmatched = <<>> /\ matchedPatterns = {} /\ crossed = {}
  BY DEF Test!Init
<1>2. /\ asked \in Seq(Test!Call) /\ recorded \in Seq(Test!Call) /\ played \in Seq(Test!Call)
      /\ calls \in Seq(Int) /\ unmatched \in Seq(Int)
      /\ DOMAIN asked = {} /\ DOMAIN recorded = {} /\ DOMAIN played = {} /\ DOMAIN calls = {}
      /\ DOMAIN unmatched = {}
  BY <1>1
<1>3. Test!ToSet(calls) = {} /\ Test!ToSet(unmatched) = {}
  BY <1>2 DEF Test!ToSet
<1>4. Test!TypeOK
  BY <1>1, <1>2, <1>3 DEF Test!TypeOK
<1>5. CassetteIsWhole /\ RecordedInOrder /\ UsedIsGiven
  BY <1>1, <1>2 DEF CassetteIsWhole, RecordedInOrder, UsedIsGiven
<1>6. PendingIsLast(asked, crossed) /\ PendingIsLast(played, crossed)
  BY <1>2 DEF PendingIsLast
<1>7. Test!ReplayRepeatsRecording /\ Test!CoverageAddsUp
  BY <1>1, <1>3 DEF Test!ReplayRepeatsRecording, Test!CoverageAddsUp
<1>. QED
  BY <1>1, <1>2, <1>4, <1>5, <1>6, <1>7 DEF TestInv

(* The types the invariant gives.                                           *)
LEMMA TestFacts ==
  ASSUME Test!TestClientAssumption, TestInv
  PROVE  /\ asked \in Seq(Test!Call) /\ recorded \in Seq(Test!Call) /\ played \in Seq(Test!Call)
         /\ Len(asked) \in Nat /\ DOMAIN asked = 1..Len(asked)
         /\ Len(recorded) \in Nat /\ DOMAIN recorded = 1..Len(recorded)
         /\ Len(played) \in Nat /\ DOMAIN played = 1..Len(played)
         /\ \A i \in DOMAIN asked : asked[i] \in Test!Call
         /\ \A i \in DOMAIN recorded : recorded[i] \in Test!Call
         /\ \A i \in DOMAIN played : played[i] \in Test!Call
         /\ used \subseteq DOMAIN recorded /\ crossed \subseteq Requests
         /\ calls \in Seq(Int) /\ unmatched \in Seq(Int) /\ matchedPatterns \subseteq DOMAIN Routes
         /\ \A i \in Test!ToSet(calls) : i \in DOMAIN played
         /\ Test!ToSet(unmatched) \subseteq Test!ToSet(calls)
<1>1. asked \in Seq(Test!Call) /\ recorded \in Seq(Test!Call) /\ played \in Seq(Test!Call)
  BY DEF TestInv, Test!TypeOK
<1>2. \A log \in Seq(Test!Call) :
        Len(log) \in Nat /\ DOMAIN log = 1..Len(log) /\ \A i \in DOMAIN log : log[i] \in Test!Call
  OBVIOUS
<1>3. /\ used \subseteq DOMAIN recorded /\ crossed \subseteq Requests
      /\ matchedPatterns \subseteq DOMAIN Routes
      /\ calls \in Seq(Int) /\ unmatched \in Seq(Int)
      /\ Test!ToSet(unmatched) \subseteq Test!ToSet(calls)
  BY DEF TestInv, Test!TypeOK
<1>4. \A i \in Test!ToSet(calls) : i \in DOMAIN played
  BY DEF TestInv, Test!TypeOK, Test!ToSet
<1>. QED
  BY <1>1, <1>2, <1>3, <1>4

(* What a recording step leaves alone.                                      *)
LEMMA RecordingKeeps ==
  ASSUME Test!TestClientAssumption, TestInv, mode = "record",
         mode' \in {"record", "replay"}, UNCHANGED <<used, played, calls, unmatched,
         matchedPatterns>>,
         asked' \in Seq(Test!Call), recorded' \in Seq(Test!Call), crossed' \subseteq Requests,
         CassetteIsWhole', PendingIsLast(asked', crossed'), RecordedInOrder'
  PROVE  TestInv'
<1>1. played = <<>> /\ DOMAIN played = {} /\ used = {} /\ Test!ToSet(calls) = {} /\ DOMAIN calls = {}
  <2>1. played = <<>>
    BY DEF TestInv
  <2>2. DOMAIN played = {}
    BY <2>1
  <2>3. used = {}
    BY <2>2 DEF TestInv, UsedIsGiven
  <2>4. DOMAIN calls = {}
    BY <2>2 DEF TestInv, Test!TypeOK
  <2>. QED
    BY <2>1, <2>2, <2>3, <2>4 DEF Test!ToSet
<1>2. Test!TypeOK' /\ calls' \in Seq(Int) /\ unmatched' \in Seq(Int)
  <2>1. Test!ToSet(unmatched)' \subseteq Test!ToSet(calls)'
    BY DEF TestInv, Test!TypeOK, Test!ToSet
  <2>2. \A i \in DOMAIN calls' : calls'[i] \in DOMAIN played'
    BY <1>1
  <2>3. {asked', recorded', played'} \subseteq Seq(Test!Call)
    BY DEF TestInv, Test!TypeOK
  <2>. QED
    BY <1>1, <2>1, <2>2, <2>3 DEF TestInv, Test!TypeOK
<1>3. UsedIsGiven' /\ PendingIsLast(played', crossed') /\ Test!ReplayRepeatsRecording'
  BY <1>1 DEF UsedIsGiven, PendingIsLast, Test!ReplayRepeatsRecording
<1>4. Test!CoverageAddsUp'
  <2>1. matchedPatterns = {}
    BY <1>1 DEF TestInv, Test!CoverageAddsUp
  <2>2. Test!ToSet(calls)' = {}
    BY <1>1 DEF Test!ToSet
  <2>. QED
    BY <2>1, <2>2 DEF Test!CoverageAddsUp
<1>. QED
  BY <1>1, <1>2, <1>3, <1>4 DEF TestInv

(* A call that is recorded is the last of its request.                      *)
LEMMA AskKeeps ==
  ASSUME Test!TestClientAssumption, TestInv, NEW r \in Requests, Test!Ask(r) PROVE TestInv'
<1> DEFINE call == [request |-> r, answer |-> Test!Pending]
<1>1. /\ mode = "record" /\ mode' = mode /\ asked' = Append(asked, call)
      /\ crossed' = crossed \cup (IF Test!UnderWay(asked, r) THEN {r} ELSE {})
      /\ UNCHANGED <<recorded, used, played, calls, unmatched, matchedPatterns>>
  BY DEF Test!Ask, Test!Made, Test!player
<1>2. /\ asked \in Seq(Test!Call) /\ recorded \in Seq(Test!Call)
      /\ Len(asked) \in Nat /\ DOMAIN asked = 1..Len(asked) /\ crossed \subseteq Requests
  BY TestFacts
<1>3. call \in Test!Call /\ call.answer = Test!Pending /\ call.request = r
  BY DEF Test!Call, Test!Pending
<1>4. /\ asked' \in Seq(Test!Call) /\ DOMAIN asked' = 1..Len(asked) + 1
      /\ asked'[Len(asked) + 1] = call /\ \A i \in 1..Len(asked) : asked'[i] = asked[i]
  <2>1. asked' \in Seq(Test!Call) /\ Len(asked') = Len(asked) + 1
    BY <1>1, <1>2, <1>3, AppendProperties
  <2>. QED
    BY <1>1, <1>2, <1>3, <2>1, AppendProperties
<1>5. \A i \in 1..Len(asked) + 1 : i \in 1..Len(asked) \/ i = Len(asked) + 1
  BY <1>2
<1>6. PendingIsLast(asked', crossed')
  BY <1>1, <1>2, MadeIsLast DEF TestInv
<1>. HIDE DEF call
<1>7. CassetteIsWhole'
  <2>1. CassetteIsWhole
    BY DEF TestInv
  <2>2. ASSUME NEW s \in DOMAIN recorded
        PROVE  recorded[s].answer \in DOMAIN asked' /\ asked'[recorded[s].answer] = recorded[s]
    <3>1. recorded[s].answer \in 1..Len(asked) /\ asked[recorded[s].answer] = recorded[s]
      BY <1>2, <2>1 DEF CassetteIsWhole
    <3>. QED
      BY <1>2, <1>4, <3>1
  <2>3. ASSUME NEW j \in 1..Len(asked) + 1
        PROVE  /\ asked'[j].answer \in {Test!Pending, Test!Failed, j}
               /\ asked'[j].answer = j => \E s \in DOMAIN recorded : recorded[s] = asked'[j]
    <3>1. CASE j \in 1..Len(asked)
      BY <1>2, <1>4, <2>1, <3>1 DEF CassetteIsWhole
    <3>2. CASE j = Len(asked) + 1
      BY <1>2, <1>3, <1>4, <3>2 DEF Test!Pending
    <3>. QED
      BY <1>5, <3>1, <3>2
  <2>. QED
    BY <1>1, <1>4, <2>2, <2>3 DEF CassetteIsWhole
<1>8. RecordedInOrder'
  BY <1>1 DEF TestInv, RecordedInOrder
<1>9. crossed' \subseteq Requests
  BY <1>1, <1>2
<1>. QED
  BY <1>1, <1>2, <1>4, <1>6, <1>7, <1>8, <1>9, RecordingKeeps

(* The answer of a call is set.                                             *)
LEMMA AnswerIsSet ==
  ASSUME NEW call \in Test!Call, NEW a \in Int
  PROVE  [call EXCEPT !.answer = a] = [request |-> call.request, answer |-> a]
BY DEF Test!Call

(* An answer is added to the cassette.                                      *)
LEMMA AnswerKeeps ==
  ASSUME Test!TestClientAssumption, TestInv, NEW i \in DOMAIN asked, Test!Answer(i) PROVE TestInv'
<1>1. /\ mode = "record" /\ mode' = mode /\ asked[i].answer = Test!Pending
      /\ asked' = [asked EXCEPT ![i].answer = i] /\ recorded' = Append(recorded, asked'[i])
      /\ UNCHANGED <<used, played, calls, unmatched, matchedPatterns, crossed>>
  BY DEF Test!Answer, Test!player
<1>2. /\ asked \in Seq(Test!Call) /\ recorded \in Seq(Test!Call)
      /\ Len(asked) \in Nat /\ DOMAIN asked = 1..Len(asked) /\ crossed \subseteq Requests
      /\ Len(recorded) \in Nat /\ DOMAIN recorded = 1..Len(recorded)
      /\ \A j \in DOMAIN asked : asked[j] \in Test!Call
  BY TestFacts
<1>3. i \in Int /\ i # Test!Pending /\ i # Test!Failed
  BY <1>2 DEF Test!Pending, Test!Failed
<1>4. PendingIsLast(asked, crossed) /\ CassetteIsWhole /\ RecordedInOrder
  BY DEF TestInv
<1>5. /\ asked' \in Seq(Test!Call) /\ DOMAIN asked' = DOMAIN asked /\ PendingIsLast(asked', crossed)
      /\ asked'[i] = [request |-> asked[i].request, answer |-> i]
      /\ \A j \in DOMAIN asked : asked'[j].request = asked[j].request
                                  /\ (j # i => asked'[j] = asked[j])
  <2> DEFINE e == [request |-> asked[i].request, answer |-> i]
  <2>1. asked[i] \in Test!Call /\ e \in Test!Call /\ e.request = asked[i].request /\ e.answer = i
    BY <1>2, <1>3 DEF Test!Call
  <2>2. [asked[i] EXCEPT !.answer = i] = e
    BY <1>3, <2>1, AnswerIsSet
  <2>3. /\ DOMAIN asked' = DOMAIN asked /\ asked'[i] = e
        /\ \A j \in DOMAIN asked : j # i => asked'[j] = asked[j]
    BY <1>1, <1>2, <2>2
  <2>4. asked' \in [DOMAIN asked -> Test!Call]
    BY <1>1, <1>2, <2>1, <2>2
  <2>. HIDE DEF e
  <2>5. asked'[i].request = asked[i].request /\ asked'[i].answer = i
    BY <2>1, <2>3
  <2>6. /\ asked' \in Seq(Test!Call) /\ PendingIsLast(asked', crossed)
        /\ \A j \in DOMAIN asked : asked'[j].request = asked[j].request
    BY <1>2, <1>3, <1>4, <2>3, <2>4, <2>5, AnsweredIsLast
  <2>7. asked'[i] = [request |-> asked[i].request, answer |-> i]
    BY <2>3 DEF e
  <2>. QED
    BY <2>3, <2>6, <2>7
<1>6. asked'[i] \in Test!Call /\ asked'[i].answer = i
  BY <1>5
<1>7. /\ recorded' \in Seq(Test!Call) /\ DOMAIN recorded' = 1..Len(recorded) + 1
      /\ recorded'[Len(recorded) + 1] = asked'[i]
      /\ \A s \in 1..Len(recorded) : recorded'[s] = recorded[s]
  <2>1. recorded' \in Seq(Test!Call) /\ Len(recorded') = Len(recorded) + 1
    BY <1>1, <1>2, <1>6, AppendProperties
  <2>. QED
    BY <1>1, <1>2, <1>6, <2>1, AppendProperties
<1>8. \A s \in 1..Len(recorded) + 1 : s \in 1..Len(recorded) \/ s = Len(recorded) + 1
  BY <1>2
<1>9. \A s \in 1..Len(recorded) : /\ recorded[s].answer \in DOMAIN asked /\ recorded[s].answer # i
                                  /\ asked'[recorded[s].answer] = recorded[s]
  <2>1. ASSUME NEW s \in 1..Len(recorded)
        PROVE  /\ recorded[s].answer \in DOMAIN asked /\ recorded[s].answer # i
               /\ asked'[recorded[s].answer] = recorded[s]
    <3>1. recorded[s].answer \in DOMAIN asked /\ asked[recorded[s].answer] = recorded[s]
      BY <1>2, <1>4 DEF CassetteIsWhole
    <3>2. recorded[s].answer # i
      BY <1>1, <1>3, <3>1
    <3>. QED
      BY <1>5, <3>1, <3>2
  <2>. QED
    BY <2>1
<1>10. CassetteIsWhole'
  <2>1. ASSUME NEW s \in 1..Len(recorded) + 1
        PROVE  recorded'[s].answer \in DOMAIN asked' /\ asked'[recorded'[s].answer] = recorded'[s]
    BY <1>5, <1>6, <1>7, <1>8, <1>9
  <2>2. ASSUME NEW j \in DOMAIN asked
        PROVE  /\ asked'[j].answer \in {Test!Pending, Test!Failed, j}
               /\ asked'[j].answer = j => \E s \in DOMAIN recorded' : recorded'[s] = asked'[j]
    <3>1. CASE j = i
      <4>1. Len(recorded) + 1 \in DOMAIN recorded'
        BY <1>2, <1>7
      <4>. QED
        BY <1>6, <1>7, <3>1, <4>1
    <3>2. CASE j # i
      <4>1. asked'[j] = asked[j]
        BY <1>5, <3>2
      <4>2. asked[j].answer = j => \E s \in DOMAIN recorded : recorded[s] = asked[j]
        BY <1>4 DEF CassetteIsWhole
      <4>3. \A s \in DOMAIN recorded : s \in DOMAIN recorded' /\ recorded'[s] = recorded[s]
        BY <1>2, <1>7
      <4>4. asked[j].answer \in {Test!Pending, Test!Failed, j}
        BY <1>4 DEF CassetteIsWhole
      <4>. QED
        BY <4>1, <4>2, <4>3, <4>4
    <3>. QED
      BY <3>1, <3>2
  <2>. QED
    BY <1>1, <1>5, <1>7, <2>1, <2>2 DEF CassetteIsWhole
<1>11. RecordedInOrder'
  <2>1. ASSUME NEW s \in 1..Len(recorded) + 1, NEW t \in 1..Len(recorded) + 1,
               recorded'[s].request = recorded'[t].request, recorded'[s].request \notin crossed,
               s < t
        PROVE  recorded'[s].answer < recorded'[t].answer
    <3>1. s \in 1..Len(recorded)
      BY <1>2, <2>1
    <3>2. CASE t \in 1..Len(recorded)
      BY <1>2, <1>4, <1>7, <2>1, <3>1, <3>2 DEF RecordedInOrder
    <3>3. CASE t = Len(recorded) + 1
      <4> DEFINE j == recorded[s].answer
      <4>1. j \in DOMAIN asked /\ j # i /\ asked'[j] = recorded[s] /\ recorded'[s] = recorded[s]
        BY <1>7, <1>9, <3>1
      <4>2. recorded'[t] = asked'[i]
        BY <1>7, <3>3
      <4>3. asked[j].request = asked[i].request /\ asked[i].request \notin crossed
        BY <1>5, <2>1, <4>1, <4>2
      <4>4. j <= i
        BY <1>1, <1>4, <4>1, <4>3 DEF PendingIsLast
      <4>. QED
        BY <1>2, <1>6, <4>1, <4>2, <4>4
    <3>. QED
      BY <1>8, <3>2, <3>3
  <2>. QED
    BY <1>1, <1>7, <2>1 DEF RecordedInOrder
<1>12. PendingIsLast(asked', crossed') /\ crossed' \subseteq Requests
  BY <1>1, <1>2, <1>5
<1>. QED
  BY <1>1, <1>5, <1>7, <1>10, <1>11, <1>12, RecordingKeeps

(* A failure is not.                                                        *)
LEMMA FailKeeps ==
  ASSUME Test!TestClientAssumption, TestInv, NEW i \in DOMAIN asked, Test!Fail(i) PROVE TestInv'
<1>1. /\ mode = "record" /\ mode' = mode /\ asked[i].answer = Test!Pending
      /\ asked' = [asked EXCEPT ![i].answer = Test!Failed]
      /\ UNCHANGED <<recorded, used, played, calls, unmatched, matchedPatterns, crossed>>
  BY DEF Test!Fail, Test!player
<1>2. /\ asked \in Seq(Test!Call) /\ recorded \in Seq(Test!Call) /\ crossed \subseteq Requests
      /\ Len(asked) \in Nat /\ DOMAIN asked = 1..Len(asked)
      /\ \A j \in DOMAIN asked : asked[j] \in Test!Call
  BY TestFacts
<1>3. Test!Failed \in Int /\ Test!Failed # Test!Pending /\ Test!Failed \notin DOMAIN asked
      /\ Test!Pending \notin DOMAIN asked
  BY <1>2 DEF Test!Pending, Test!Failed
<1>4. PendingIsLast(asked, crossed) /\ CassetteIsWhole /\ RecordedInOrder
  BY DEF TestInv
<1>5. /\ asked' \in Seq(Test!Call) /\ DOMAIN asked' = DOMAIN asked /\ PendingIsLast(asked', crossed)
      /\ asked'[i] = [request |-> asked[i].request, answer |-> Test!Failed]
      /\ \A j \in DOMAIN asked : asked'[j].request = asked[j].request
                                  /\ (j # i => asked'[j] = asked[j])
  <2> DEFINE e == [request |-> asked[i].request, answer |-> Test!Failed]
  <2>1. /\ asked[i] \in Test!Call /\ e \in Test!Call
        /\ e.request = asked[i].request /\ e.answer = Test!Failed
    BY <1>2, <1>3 DEF Test!Call
  <2>2. [asked[i] EXCEPT !.answer = Test!Failed] = e
    BY <1>3, <2>1, AnswerIsSet
  <2>3. /\ DOMAIN asked' = DOMAIN asked /\ asked'[i] = e
        /\ \A j \in DOMAIN asked : j # i => asked'[j] = asked[j]
    BY <1>1, <1>2, <2>2
  <2>4. asked' \in [DOMAIN asked -> Test!Call]
    BY <1>1, <1>2, <2>1, <2>2
  <2>. HIDE DEF e
  <2>5. asked'[i].request = asked[i].request /\ asked'[i].answer = Test!Failed
    BY <2>1, <2>3
  <2>6. /\ asked' \in Seq(Test!Call) /\ PendingIsLast(asked', crossed)
        /\ \A j \in DOMAIN asked : asked'[j].request = asked[j].request
    BY <1>2, <1>3, <1>4, <2>3, <2>4, <2>5, AnsweredIsLast
  <2>7. asked'[i] = [request |-> asked[i].request, answer |-> Test!Failed]
    BY <2>3 DEF e
  <2>. QED
    BY <2>3, <2>6, <2>7
<1>6. CassetteIsWhole'
  <2>1. ASSUME NEW s \in DOMAIN recorded
        PROVE  recorded[s].answer \in DOMAIN asked' /\ asked'[recorded[s].answer] = recorded[s]
    <3>1. recorded[s].answer \in DOMAIN asked /\ asked[recorded[s].answer] = recorded[s]
      BY <1>4 DEF CassetteIsWhole
    <3>2. recorded[s].answer # i
      BY <1>1, <1>3, <3>1
    <3>. QED
      BY <1>5, <3>1, <3>2
  <2>2. ASSUME NEW j \in DOMAIN asked
        PROVE  /\ asked'[j].answer \in {Test!Pending, Test!Failed, j}
               /\ asked'[j].answer = j => \E s \in DOMAIN recorded : recorded[s] = asked'[j]
    <3>1. CASE j = i
      BY <1>3, <1>5, <3>1
    <3>2. CASE j # i
      BY <1>4, <1>5, <3>2 DEF CassetteIsWhole
    <3>. QED
      BY <3>1, <3>2
  <2>. QED
    BY <1>1, <1>5, <2>1, <2>2 DEF CassetteIsWhole
<1>7. RecordedInOrder' /\ PendingIsLast(asked', crossed') /\ recorded' \in Seq(Test!Call)
      /\ crossed' \subseteq Requests
  BY <1>1, <1>2, <1>4, <1>5 DEF RecordedInOrder
<1>. QED
  BY <1>1, <1>5, <1>6, <1>7, RecordingKeeps

(* A cassette is replayed when nothing is under way.                        *)
LEMMA ReplayKeeps ==
  ASSUME Test!TestClientAssumption, TestInv, Test!Replay PROVE TestInv'
<1>1. /\ mode = "record" /\ mode' = "replay" /\ \A r \in Requests : ~Test!UnderWay(asked, r)
      /\ UNCHANGED <<asked, recorded, used, played, calls, unmatched, matchedPatterns, crossed>>
  BY DEF Test!Replay, Test!recorder, Test!player
<1>2. /\ asked \in Seq(Test!Call) /\ recorded \in Seq(Test!Call) /\ crossed \subseteq Requests
      /\ \A j \in DOMAIN asked : asked[j] \in Test!Call
  BY TestFacts
<1>3. \A j \in DOMAIN asked : asked[j].answer # Test!Pending
  <2>1. SUFFICES ASSUME NEW j \in DOMAIN asked, asked[j].answer = Test!Pending PROVE FALSE
    OBVIOUS
  <2>2. asked[j].request \in Requests
       /\ asked[j] = [request |-> asked[j].request, answer |-> Test!Pending]
    BY <1>2, <2>1 DEF Test!Call
  <2>. QED
    BY <1>1, <2>2 DEF Test!UnderWay
<1>4. CassetteIsWhole' /\ RecordedInOrder' /\ PendingIsLast(asked', crossed')
  BY <1>1, <1>3 DEF TestInv, CassetteIsWhole, RecordedInOrder
<1>. QED
  BY <1>1, <1>2, <1>4, RecordingKeeps

(* ReplayRepeatsRecording, of what a log says rather than of the state.     *)
LeftIn(alog, log, i) ==
    {j \in DOMAIN alog : alog[j].request = log[i].request /\ alog[j].answer # Test!Failed}
        \ {log[h].answer : h \in {h \in 1..i - 1 : log[h].request = log[i].request}}

Repeats(alog, log, cr) ==
    \A i \in DOMAIN log :
        log[i].request \notin cr /\ Test!Matching(log[i].request) # {} =>
            log[i].answer \in {Test!Pending, IF LeftIn(alog, log, i) = {}
                                             THEN Test!Refused ELSE Test!First(LeftIn(alog, log,
                                             i))}

(* The two say the same, of a state and of the next.                        *)
LEMMA RepeatsIsReplay ==
  /\ Test!ReplayRepeatsRecording <=> (mode = "replay" /\ Consume => Repeats(asked, played, crossed))
  /\ Test!ReplayRepeatsRecording' <=> (mode' = "replay" /\ Consume
                                        => Repeats(asked', played', crossed'))
BY DEF Test!ReplayRepeatsRecording, Repeats, LeftIn, Test!Left, Test!Recorded, Test!Given

(* What is left for a call depends on the calls before it for its request.  *)
LEMMA LeftStays ==
  ASSUME NEW alog, NEW log, NEW new, NEW k \in Nat, new[k].request = log[k].request,
         \A h \in 1..k - 1 : /\ new[h].request = log[h].request
                             /\ new[h].request = new[k].request => new[h].answer = log[h].answer
  PROVE  LeftIn(alog, new, k) = LeftIn(alog, log, k)
<1>1. {h \in 1..k - 1 : new[h].request = new[k].request}
         = {h \in 1..k - 1 : log[h].request = log[k].request}
  OBVIOUS
<1>2. {new[h].answer : h \in {h \in 1..k - 1 : new[h].request = new[k].request}}
        = {log[h].answer : h \in {h \in 1..k - 1 : log[h].request = log[k].request}}
  BY <1>1
<1>. QED
  BY <1>2 DEF LeftIn

(* What a step of the test client, which adds or answers one call, leaves   *)
(* to be shown.                                                             *)
LEMMA PlayingKeeps ==
  ASSUME Test!TestClientAssumption, TestInv, mode = "replay", UNCHANGED <<mode, asked, recorded>>,
         NEW i \in Nat, played' \in Seq(Test!Call), DOMAIN played' = DOMAIN played \cup {i},
         \A k \in DOMAIN played : /\ played'[k].request = played[k].request
                                  /\ k # i => played'[k] = played[k],
         i \in DOMAIN played => played[i].answer = Test!Pending /\ crossed' = crossed,
         crossed \subseteq crossed', crossed' \subseteq Requests,
         PendingIsLast(played', crossed'),
         used' \subseteq DOMAIN recorded, UsedIsGiven',
         Consume /\ played'[i].request \notin crossed' /\ Test!Matching(played'[i].request) # {} =>
            played'[i].answer \in {Test!Pending, IF LeftIn(asked, played', i) = {}
                                                 THEN Test!Refused ELSE Test!First(LeftIn(asked,
                                                 played', i))},
         calls' \in Seq(Int), unmatched' \in Seq(Int), matchedPatterns' \subseteq DOMAIN Routes,
         Test!ToSet(calls') \subseteq DOMAIN played',
         Test!ToSet(unmatched') \subseteq Test!ToSet(calls'),
         Test!CoverageAddsUp'
  PROVE  TestInv'
<1>1. /\ asked \in Seq(Test!Call) /\ recorded \in Seq(Test!Call)
      /\ Len(played) \in Nat /\ DOMAIN played = 1..Len(played)
  BY TestFacts
<1>2. Test!TypeOK'
  <2>1. \A k \in DOMAIN calls' : calls'[k] \in DOMAIN played'
    BY DEF Test!ToSet
  <2>. QED
    BY <1>1, <2>1 DEF Test!TypeOK, Test!ToSet
<1>3. CassetteIsWhole' /\ RecordedInOrder' /\ PendingIsLast(asked', crossed')
  <2>1. CassetteIsWhole /\ RecordedInOrder /\ PendingIsLast(asked, crossed)
    BY DEF TestInv
  <2>2. CassetteIsWhole'
    BY <2>1 DEF CassetteIsWhole
  <2>3. RecordedInOrder'
    BY <2>1 DEF RecordedInOrder
  <2>4. PendingIsLast(asked, crossed')
    BY <2>1 DEF PendingIsLast
  <2>. QED
    BY <2>2, <2>3, <2>4
<1>4. Test!ReplayRepeatsRecording'
  <2>1. SUFFICES ASSUME Consume PROVE Repeats(asked, played', crossed')
    BY RepeatsIsReplay
  <2>2. Repeats(asked, played, crossed) /\ PendingIsLast(played, crossed)
    BY <2>1, RepeatsIsReplay DEF TestInv
  <2>3. ASSUME NEW k \in DOMAIN played, k # i,
               played'[k].request \notin crossed', Test!Matching(played'[k].request) # {}
        PROVE  played'[k].answer \in {Test!Pending, IF LeftIn(asked, played', k) = {}
                                      THEN Test!Refused ELSE Test!First(LeftIn(asked, played', k))}
    <3>1. k \in Nat /\ \A h \in 1..k - 1 : h \in DOMAIN played
      BY <1>1
    <3>2. ASSUME NEW h \in 1..k - 1, played'[h].request = played'[k].request
          PROVE  h # i
      <4>1. CASE i \in DOMAIN played
        <5>1. CASE h = i
          <6>1. played[i].request = played[k].request /\ played[i].request \notin crossed
                  /\ played[i].answer = Test!Pending
            BY <2>3, <3>1, <3>2, <4>1, <5>1
          <6>2. k <= i
            BY <2>2, <2>3, <4>1, <6>1 DEF PendingIsLast
          <6>. QED
            BY <1>1, <3>1, <5>1, <6>2
        <5>. QED
          BY <5>1
      <4>2. CASE i \notin DOMAIN played
        BY <3>1, <4>2
      <4>. QED
        BY <4>1, <4>2
    <3>3. /\ played'[k].request = played[k].request
          /\ \A h \in 1..k - 1 :
                /\ played'[h].request = played[h].request
                /\ played'[h].request = played'[k].request => played'[h].answer = played[h].answer
      BY <3>1, <3>2
    <3>4. LeftIn(asked, played', k) = LeftIn(asked, played, k)
      BY <3>1, <3>3, LeftStays
    <3>5. played'[k] = played[k] /\ played[k].request \notin crossed
      BY <2>3
    <3>. QED
      BY <2>2, <2>3, <3>4, <3>5 DEF Repeats
  <2>4. \A k \in DOMAIN played' : k = i \/ (k \in DOMAIN played /\ k # i)
    OBVIOUS
  <2>. QED
    BY <2>1, <2>3, <2>4 DEF Repeats
<1>. QED
  BY <1>2, <1>3, <1>4 DEF TestInv

(* A call of the test client has no answer yet.                             *)
LEMMA PlayKeeps ==
  ASSUME Test!TestClientAssumption, TestInv, NEW r \in Requests, Test!Play(r) PROVE TestInv'
<1> DEFINE call == [request |-> r, answer |-> Test!Pending]
           i == Len(played) + 1
<1>1. /\ mode = "replay" /\ played' = Append(played, call)
      /\ crossed' = crossed \cup (IF Test!UnderWay(played, r) THEN {r} ELSE {})
      /\ UNCHANGED <<mode, asked, recorded, used, calls, unmatched, matchedPatterns>>
  BY DEF Test!Play, Test!Made, Test!recorder
<1>2. /\ played \in Seq(Test!Call) /\ Len(played) \in Nat /\ DOMAIN played = 1..Len(played)
      /\ crossed \subseteq Requests /\ used \subseteq DOMAIN recorded
      /\ calls \in Seq(Int) /\ unmatched \in Seq(Int) /\ matchedPatterns \subseteq DOMAIN Routes
      /\ \A k \in Test!ToSet(calls) : k \in DOMAIN played
      /\ Test!ToSet(unmatched) \subseteq Test!ToSet(calls)
      /\ \A j \in DOMAIN asked : asked[j] \in Test!Call
      /\ Len(asked) \in Nat /\ DOMAIN asked = 1..Len(asked)
  BY TestFacts
<1>3. call \in Test!Call /\ call.answer = Test!Pending /\ call.request = r
  BY DEF Test!Call, Test!Pending
<1>4. PendingIsLast(played', crossed')
  BY <1>1, <1>2, MadeIsLast DEF TestInv
<1>. HIDE DEF call
<1>5. /\ played' \in Seq(Test!Call) /\ DOMAIN played' = 1..Len(played) + 1
      /\ played'[i] = call /\ \A k \in 1..Len(played) : played'[k] = played[k]
  <2>1. played' \in Seq(Test!Call) /\ Len(played') = Len(played) + 1
    BY <1>1, <1>2, <1>3, AppendProperties
  <2>. QED
    BY <1>1, <1>2, <1>3, <2>1, AppendProperties
<1>6. i \in Nat /\ i \notin DOMAIN played /\ DOMAIN played' = DOMAIN played \cup {i}
  BY <1>2, <1>5
<1>. HIDE DEF i
<1>7. \A k \in DOMAIN played : played'[k] = played[k] /\ k \in DOMAIN played'
  BY <1>2, <1>5, <1>6
<1>8. UsedIsGiven'
  <2>1. UsedIsGiven
    BY DEF TestInv
  <2>2. ASSUME NEW s \in used PROVE \E h \in DOMAIN played' : played'[h] = recorded[s]
    BY <1>7, <2>1, <2>2 DEF UsedIsGiven
  <2>3. ASSUME NEW h \in DOMAIN played'
        PROVE  /\ played'[h].answer \in {Test!Pending, Test!Refused, Test!NotFound} \cup DOMAIN asked
               /\ played'[h].answer \in DOMAIN asked => \E s \in used : recorded[s] = played'[h]
    <3>1. CASE h = i
      BY <1>2, <1>3, <1>5, <3>1 DEF Test!Pending
    <3>2. CASE h \in DOMAIN played
      BY <1>7, <2>1, <3>2 DEF UsedIsGiven
    <3>. QED
      BY <1>6, <2>3, <3>1, <3>2
  <2>. QED
    BY <1>1, <2>2, <2>3 DEF UsedIsGiven
<1>9. Test!ToSet(calls') = Test!ToSet(calls) /\ Test!ToSet(unmatched') = Test!ToSet(unmatched)
  BY <1>1
<1>10. Test!CoverageAddsUp'
  <2>1. Test!CoverageAddsUp /\ \A k \in Test!ToSet(calls) : played'[k] = played[k]
    BY <1>2, <1>7 DEF TestInv
  <2>2. \A k \in Test!ToSet(calls') \ Test!ToSet(unmatched') :
          Test!Matching(played'[k].request) \cap matchedPatterns' # {}
    BY <1>1, <1>9, <2>1 DEF Test!CoverageAddsUp
  <2>3. \A m \in matchedPatterns' : \E k \in Test!ToSet(calls') : played'[k].request \in Routes[m]
    BY <1>1, <1>9, <2>1 DEF Test!CoverageAddsUp
  <2>. QED
    BY <1>9, <2>2, <2>3 DEF Test!CoverageAddsUp, Test!ToSet
<1>11. /\ crossed \subseteq crossed' /\ crossed' \subseteq Requests
       /\ Test!ToSet(calls') \subseteq DOMAIN played'
       /\ Test!ToSet(unmatched') \subseteq Test!ToSet(calls')
       /\ played'[i].answer = Test!Pending
  BY <1>1, <1>2, <1>3, <1>5, <1>6, <1>9
<1>12. \A k \in DOMAIN played : /\ played'[k].request = played[k].request
                                /\ k # i => played'[k] = played[k]
  BY <1>7
<1>. QED
  BY <1>1, <1>2, <1>4, <1>5, <1>6, <1>8, <1>10, <1>11, <1>12, PlayingKeeps

(* reset forgets what the test was told, not what is used.                  *)
LEMMA ResetKeeps ==
  ASSUME Test!TestClientAssumption, TestInv, Test!Reset PROVE TestInv'
<1>1. /\ mode = "replay" /\ calls # <<>>
      /\ calls' = <<>> /\ unmatched' = <<>> /\ matchedPatterns' = {}
      /\ UNCHANGED <<mode, asked, recorded, used, played, crossed>>
  BY DEF Test!Reset, Test!recorder
<1>2. calls' \in Seq(Int) /\ unmatched' \in Seq(Int) /\ DOMAIN calls' = {} /\ DOMAIN unmatched' = {}
  BY <1>1
<1>3. Test!ToSet(calls)' = {} /\ Test!ToSet(unmatched)' = {}
  BY <1>2 DEF Test!ToSet
<1>4. Test!TypeOK'
  BY <1>1, <1>2, <1>3 DEF TestInv, Test!TypeOK
<1>5. Test!CoverageAddsUp'
  BY <1>1, <1>3 DEF Test!CoverageAddsUp
<1>6. CassetteIsWhole' /\ RecordedInOrder' /\ UsedIsGiven' /\ Test!ReplayRepeatsRecording'
  <2>1. CassetteIsWhole /\ RecordedInOrder /\ UsedIsGiven /\ Test!ReplayRepeatsRecording
    BY DEF TestInv
  <2>2. Test!ReplayRepeatsRecording'
    BY <1>1, <2>1, RepeatsIsReplay
  <2>. QED
    BY <1>1, <2>1, <2>2 DEF CassetteIsWhole, RecordedInOrder, UsedIsGiven
<1>. QED
  BY <1>1, <1>2, <1>4, <1>5, <1>6 DEF TestInv

(* No step of the test client.                                              *)
LEMMA TestStutters ==
  ASSUME TestInv, UNCHANGED <<mode, asked, recorded, used, played, calls, unmatched,
         matchedPatterns, crossed>>
  PROVE  TestInv'
<1>1. /\ CassetteIsWhole /\ RecordedInOrder /\ UsedIsGiven /\ Test!ReplayRepeatsRecording /\ Test!TypeOK
      /\ Test!CoverageAddsUp
  BY DEF TestInv
<1>2. Test!ReplayRepeatsRecording'
  BY <1>1, RepeatsIsReplay
<1>3. Test!TypeOK' /\ Test!CoverageAddsUp'
  <2>1. Test!TypeOK'
    BY <1>1 DEF Test!TypeOK, Test!ToSet
  <2>2. Test!CoverageAddsUp'
    BY <1>1 DEF Test!CoverageAddsUp, Test!ToSet
  <2>. QED
    BY <2>1, <2>2
<1>4. CassetteIsWhole' /\ RecordedInOrder' /\ UsedIsGiven'
  BY <1>1 DEF CassetteIsWhole, RecordedInOrder, UsedIsGiven
<1>. QED
  BY <1>2, <1>3, <1>4 DEF TestInv

(* A slot of the cassette that is not used yet and an answer that is left   *)
(* are the same thing.                                                      *)
LEMMA SlotsAreLeft ==
  ASSUME Test!TestClientAssumption, TestInv, mode = "replay", Consume, NEW i \in DOMAIN played,
         played[i].answer = Test!Pending, played[i].request \notin crossed
  PROVE  /\ \A s \in Test!Slots(played[i].request) : recorded[s].answer \in LeftIn(asked, played, i)
         /\ \A j \in LeftIn(asked, played, i) :
               \E s \in Test!Slots(played[i].request) : recorded[s].answer = j
<1> DEFINE r == played[i].request
           given == {played[h].answer : h \in {h \in 1..i - 1 : played[h].request = r}}
<1>1. /\ Len(asked) \in Nat /\ DOMAIN asked = 1..Len(asked)
      /\ Len(recorded) \in Nat /\ DOMAIN recorded = 1..Len(recorded)
      /\ Len(played) \in Nat /\ DOMAIN played = 1..Len(played)
  BY TestFacts
<1>2. CassetteIsWhole /\ PendingIsLast(played, crossed) /\ RecordedInOrder /\ UsedIsGiven
  BY DEF TestInv
<1>3. Test!Slots(r) = {s \in DOMAIN recorded : recorded[s].request = r /\ s \notin used}
  BY DEF Test!Slots
<1>4. LeftIn(asked, played, i)
        = {j \in DOMAIN asked : asked[j].request = r /\ asked[j].answer # Test!Failed} \ given
  BY DEF LeftIn
<1>5. ASSUME NEW s \in Test!Slots(r) PROVE recorded[s].answer \in LeftIn(asked, played, i)
  <2> DEFINE a == recorded[s].answer
  <2>1. s \in DOMAIN recorded /\ recorded[s].request = r /\ s \notin used
    BY <1>3, <1>5
  <2>2. a \in DOMAIN asked /\ asked[a] = recorded[s]
    BY <1>2, <2>1 DEF CassetteIsWhole
  <2>3. asked[a].request = r /\ asked[a].answer # Test!Failed
    BY <1>1, <2>1, <2>2 DEF Test!Failed
  <2>4. ASSUME NEW h \in 1..i - 1, played[h].request = r, played[h].answer = a PROVE FALSE
    <3>1. h \in DOMAIN played
      BY <1>1
    <3>2. PICK t \in used : recorded[t] = played[h]
      BY <1>2, <2>2, <2>4, <3>1 DEF UsedIsGiven
    <3>3. t \in DOMAIN recorded /\ t # s /\ recorded[t].request = r /\ recorded[t].answer = a
      BY <2>1, <2>4, <3>2, TestFacts
    <3>4. s < t => a < a
      BY <1>2, <2>1, <3>3 DEF RecordedInOrder
    <3>5. t < s => a < a
      BY <1>2, <2>1, <3>3 DEF RecordedInOrder
    <3>. QED
      BY <1>1, <2>1, <2>2, <3>3, <3>4, <3>5
  <2>5. a \notin given
    BY <2>4
  <2>. QED
    BY <1>4, <2>2, <2>3, <2>5
<1>6. ASSUME NEW j \in LeftIn(asked, played, i)
      PROVE  \E s \in Test!Slots(r) : recorded[s].answer = j
  <2>1. j \in DOMAIN asked /\ asked[j].request = r /\ asked[j].answer # Test!Failed /\ j \notin given
    BY <1>4, <1>6
  <2>2. asked[j].answer = j
    BY <1>2, <2>1 DEF CassetteIsWhole
  <2>3. PICK s \in DOMAIN recorded : recorded[s] = asked[j]
    BY <1>2, <2>1, <2>2 DEF CassetteIsWhole
  <2>4. s \notin used
    <3>1. SUFFICES ASSUME s \in used PROVE FALSE
      OBVIOUS
    <3>2. PICK h \in DOMAIN played : played[h] = recorded[s]
      BY <1>2, <3>1 DEF UsedIsGiven
    <3>3. played[h].request = r /\ played[h].answer = j
      BY <2>1, <2>2, <2>3, <3>2
    <3>4. h <= i /\ h # i
      BY <1>1, <1>2, <2>1, <3>2, <3>3 DEF PendingIsLast, Test!Pending
    <3>5. h \in 1..i - 1
      BY <1>1, <3>4
    <3>6. j \in given
      BY <3>3, <3>5
    <3>. QED
      BY <2>1, <3>6
  <2>5. s \in Test!Slots(r) /\ recorded[s].answer = j
    BY <1>3, <2>1, <2>2, <2>3, <2>4
  <2>. QED
    BY <2>5
<1>. QED
  BY <1>5, <1>6

(* The first slot holds the first answer that is left.                      *)
LEMMA FirstSlotFirstLeft ==
  ASSUME Test!TestClientAssumption, TestInv, mode = "replay", Consume, NEW i \in DOMAIN played,
         played[i].answer = Test!Pending, played[i].request \notin crossed
  PROVE  LET slots == Test!Slots(played[i].request)
             unused == LeftIn(asked, played, i)
         IN  /\ slots = {} => unused = {}
             /\ slots # {} => unused # {} /\ recorded[Test!First(slots)].answer = Test!First(unused)
<1> DEFINE slots == Test!Slots(played[i].request)
           unused == LeftIn(asked, played, i)
           s == Test!First(slots)
<1>1. /\ Len(asked) \in Nat /\ DOMAIN asked = 1..Len(asked)
      /\ Len(recorded) \in Nat /\ DOMAIN recorded = 1..Len(recorded)
  BY TestFacts
<1>2. /\ \A t \in slots : recorded[t].answer \in unused
      /\ \A j \in unused : \E t \in slots : recorded[t].answer = j
  BY SlotsAreLeft
<1>3. slots \subseteq Nat /\ unused \subseteq Nat
      /\ \A t \in slots : t \in DOMAIN recorded /\ recorded[t].request = played[i].request
  BY <1>1 DEF Test!Slots, LeftIn
<1>4. RecordedInOrder
  BY DEF TestInv
<1>. HIDE DEF unused
<1>5. ASSUME slots # {} PROVE unused # {} /\ recorded[s].answer = Test!First(unused)
  <2>1. s \in slots /\ \A t \in slots : s <= t
    BY <1>3, <1>5, FirstIsLeast
  <2>. HIDE DEF slots, s
  <2>2. recorded[s].answer \in unused
    BY <1>2, <2>1
  <2>3. Test!First(unused) \in unused /\ \A t \in unused : Test!First(unused) <= t
    BY <1>3, <2>2, FirstIsLeast
  <2>4. PICK t \in slots : recorded[t].answer = Test!First(unused)
    BY <1>2, <2>3
  <2>5. s = t \/ s < t
    BY <1>3, <2>1, <2>4
  <2>6. s < t => recorded[s].answer < recorded[t].answer
    BY <1>3, <1>4, <2>1, <2>4 DEF RecordedInOrder
  <2> DEFINE a == recorded[s].answer
             b == Test!First(unused)
  <2>7. a \in Nat /\ b \in Nat /\ b <= a
    BY <1>3, <2>2, <2>3
  <2>8. a = b \/ a < b
    BY <2>4, <2>5, <2>6
  <2>9. unused # {}
    BY <2>2
  <2>. HIDE DEF a, b
  <2>10. a = b
    BY <2>7, <2>8
  <2>. QED
    BY <2>9, <2>10 DEF a, b
<1>6. slots = {} => unused = {}
  BY <1>2
<1>. QED
  BY <1>5, <1>6 DEF unused

(* The handler answers with the first that is left.                         *)
LEMMA HandleKeeps ==
  ASSUME Test!TestClientAssumption, TestInv, NEW i \in DOMAIN played, Test!Handle(i) PROVE TestInv'
<1> DEFINE r == played[i].request
<1>1. /\ mode = "replay" /\ played[i].answer = Test!Pending /\ calls' = Append(calls, i)
      /\ UNCHANGED <<mode, asked, recorded, crossed>>
  BY DEF Test!Handle, Test!recorder
<1>2. /\ played \in Seq(Test!Call) /\ Len(played) \in Nat /\ DOMAIN played = 1..Len(played)
      /\ Len(recorded) \in Nat /\ DOMAIN recorded = 1..Len(recorded)
      /\ Len(asked) \in Nat /\ DOMAIN asked = 1..Len(asked)
      /\ crossed \subseteq Requests /\ used \subseteq DOMAIN recorded
      /\ calls \in Seq(Int) /\ unmatched \in Seq(Int) /\ matchedPatterns \subseteq DOMAIN Routes
      /\ \A k \in Test!ToSet(calls) : k \in DOMAIN played
      /\ Test!ToSet(unmatched) \subseteq Test!ToSet(calls)
      /\ \A s \in DOMAIN recorded : recorded[s] \in Test!Call
      /\ \A k \in DOMAIN played : played[k] \in Test!Call
  BY TestFacts
<1>3. /\ PendingIsLast(played, crossed) /\ CassetteIsWhole /\ UsedIsGiven /\ Test!CoverageAddsUp
  BY DEF TestInv
<1>4. i \in Nat /\ i \in Int
  BY <1>2
\* What the handler answers.
<1>5. PICK answer \in Int :
        /\ played' = [played EXCEPT ![i].answer = answer]
        /\ \/ /\ Test!Matching(r) = {} /\ answer \in {Test!Refused, Test!NotFound}
              /\ unmatched' = Append(unmatched, i) /\ UNCHANGED <<matchedPatterns, used>>
           \/ /\ Test!Matching(r) # {} /\ Test!Slots(r) = {} /\ answer = Test!Refused
              /\ matchedPatterns' = matchedPatterns \cup {Test!First(Test!Matching(r))}
              /\ UNCHANGED <<unmatched, used>>
           \/ /\ Test!Matching(r) # {} /\ Test!Slots(r) # {}
              /\ answer = recorded[Test!First(Test!Slots(r))].answer
              /\ matchedPatterns' = matchedPatterns \cup {Test!First(Test!Matching(r))}
              /\ used' = used \cup {Test!First(Test!Slots(r))} /\ UNCHANGED unmatched
  <2>1. CASE Test!Matching(r) = {}
    <3>1. Test!Refused \in Int /\ Test!NotFound \in Int
      BY DEF Test!Refused, Test!NotFound
    <3>. QED
      BY <2>1, <3>1 DEF Test!Handle
  <2>2. CASE Test!Matching(r) # {} /\ Test!Slots(r) = {}
    <3>1. Test!Refused \in Int
      BY DEF Test!Refused
    <3>. QED
      BY <2>2, <3>1 DEF Test!Handle
  <2>3. CASE Test!Matching(r) # {} /\ Test!Slots(r) # {}
    <3>1. Test!First(Test!Slots(r)) \in DOMAIN recorded
      <4>1. Test!Slots(r) \subseteq DOMAIN recorded /\ Test!Slots(r) \subseteq Nat
        BY <1>2 DEF Test!Slots
      <4>. QED
        BY <2>3, <4>1, FirstIsLeast
    <3>2. recorded[Test!First(Test!Slots(r))].answer \in Int
      BY <1>2, <3>1 DEF Test!Call
    <3>. QED
      BY <2>3, <3>2 DEF Test!Handle
  <2>. QED
    BY <2>1, <2>2, <2>3
<1>6. Test!Slots(r) # {} => /\ Test!First(Test!Slots(r)) \in DOMAIN recorded
                            /\ recorded[Test!First(Test!Slots(r))].request = r
                            /\ recorded[Test!First(Test!Slots(r))].answer \in DOMAIN asked
  <2>1. Test!Slots(r) \subseteq Nat
    BY <1>2 DEF Test!Slots
  <2>2. Test!Slots(r) # {} => Test!First(Test!Slots(r)) \in Test!Slots(r)
    BY <2>1, FirstIsLeast
  <2>3. \A s \in Test!Slots(r) : s \in DOMAIN recorded /\ recorded[s].request = r
    BY DEF Test!Slots
  <2>. QED
    BY <1>3, <2>2, <2>3 DEF CassetteIsWhole
<1>7. Test!Matching(r) # {} => /\ Test!First(Test!Matching(r)) \in DOMAIN Routes
                               /\ Test!First(Test!Matching(r)) \in Test!Matching(r)
                               /\ r \in Routes[Test!First(Test!Matching(r))]
  <2>1. DOMAIN Routes \subseteq Nat
    BY DEF Test!TestClientAssumption
  <2>2. Test!Matching(r) \subseteq Nat
    BY <2>1 DEF Test!Matching
  <2>3. Test!Matching(r) # {} => Test!First(Test!Matching(r)) \in Test!Matching(r)
    BY <2>2, FirstIsLeast
  <2>4. \A m \in Test!Matching(r) : m \in DOMAIN Routes /\ r \in Routes[m]
    BY DEF Test!Matching
  <2>. QED
    BY <2>3, <2>4
<1>8. answer # Test!Pending
  BY <1>2, <1>5, <1>6 DEF Test!Pending, Test!Refused, Test!NotFound
\* The call it answers.
<1>9. /\ played' \in Seq(Test!Call) /\ DOMAIN played' = DOMAIN played /\ PendingIsLast(played', crossed)
      /\ played'[i] = [request |-> r, answer |-> answer]
      /\ \A j \in DOMAIN played : played'[j].request = played[j].request
                                   /\ (j # i => played'[j] = played[j])
  <2> DEFINE e == [request |-> r, answer |-> answer]
  <2>1. played[i] \in Test!Call /\ e \in Test!Call /\ e.request = played[i].request /\ e.answer = answer
    BY <1>2 DEF Test!Call
  <2>2. [played[i] EXCEPT !.answer = answer] = e
    BY <2>1, AnswerIsSet
  <2>3. /\ DOMAIN played' = DOMAIN played /\ played'[i] = e
        /\ \A j \in DOMAIN played : j # i => played'[j] = played[j]
    BY <1>2, <1>5, <2>2
  <2>4. played' \in [DOMAIN played -> Test!Call]
    BY <1>2, <1>5, <2>1, <2>2
  <2>. HIDE DEF e
  <2>5. played'[i].request = played[i].request /\ played'[i].answer = answer
    BY <2>1, <2>3
  <2>6. /\ played' \in Seq(Test!Call) /\ PendingIsLast(played', crossed)
        /\ \A j \in DOMAIN played : played'[j].request = played[j].request
    BY <1>2, <1>3, <1>8, <2>3, <2>4, <2>5, AnsweredIsLast
  <2>7. played'[i] = [request |-> r, answer |-> answer]
    BY <2>3 DEF e
  <2>. QED
    BY <2>3, <2>6, <2>7
<1>10. played'[i].request = r /\ played'[i].answer = answer
  BY <1>9
<1>. HIDE DEF r
<1>11. used' \subseteq DOMAIN recorded /\ UsedIsGiven'
  <2>1. used' = used \/ (Test!Slots(r) # {} /\ used' = used \cup {Test!First(Test!Slots(r))}
                           /\ answer = recorded[Test!First(Test!Slots(r))].answer)
    BY <1>5
  <2>2. used' \subseteq DOMAIN recorded
    BY <1>2, <1>6, <2>1
  <2>3. ASSUME NEW s \in used PROVE \E h \in DOMAIN played' : played'[h] = recorded[s]
    <3>1. PICK h \in DOMAIN played : played[h] = recorded[s]
      BY <1>3 DEF UsedIsGiven
    <3>2. played[h].answer \in DOMAIN asked
      BY <1>2, <1>3, <3>1 DEF CassetteIsWhole
    <3>3. h # i
      BY <1>1, <1>2, <3>2 DEF Test!Pending
    <3>. QED
      BY <1>9, <3>1, <3>3
  <2>4. Test!Slots(r) # {} /\ answer = recorded[Test!First(Test!Slots(r))].answer
          => recorded[Test!First(Test!Slots(r))] = played'[i]
    <3>1. \A c \in Test!Call : c = [request |-> c.request, answer |-> c.answer]
      BY DEF Test!Call
    <3>. QED
      BY <1>2, <1>6, <1>9, <3>1
  <2>5. \A s \in used' : \E h \in DOMAIN played' : played'[h] = recorded[s]
    BY <1>9, <2>1, <2>3, <2>4
  <2>6. used \subseteq used'
    BY <2>1
  <2>7. ASSUME NEW h \in DOMAIN played
        PROVE  /\ played'[h].answer \in {Test!Pending, Test!Refused, Test!NotFound} \cup DOMAIN asked
               /\ played'[h].answer \in DOMAIN asked => \E s \in used' : recorded[s] = played'[h]
    <3>1. CASE h # i
      BY <1>3, <1>9, <2>6, <3>1 DEF UsedIsGiven
    <3>2. CASE h = i
      <4>1. answer \in {Test!Refused, Test!NotFound}
            \/ (Test!Slots(r) # {} /\ answer = recorded[Test!First(Test!Slots(r))].answer
                  /\ used' = used \cup {Test!First(Test!Slots(r))})
        BY <1>5
      <4>2. answer \in {Test!Refused, Test!NotFound} => answer \notin DOMAIN asked
        BY <1>2 DEF Test!Refused, Test!NotFound
      <4>. QED
        BY <1>6, <1>10, <2>4, <3>2, <4>1, <4>2
    <3>. QED
      BY <3>1, <3>2
  <2>. QED
    BY <1>1, <1>9, <2>2, <2>5, <2>7 DEF UsedIsGiven
\* It is the first that is left.
<1>12. Consume /\ played'[i].request \notin crossed' /\ Test!Matching(played'[i].request) # {} =>
         played'[i].answer \in {Test!Pending, IF LeftIn(asked, played', i) = {}
                                              THEN Test!Refused ELSE Test!First(LeftIn(asked,
                                              played', i))}
  <2>1. SUFFICES ASSUME Consume, r \notin crossed, Test!Matching(r) # {}
                 PROVE  answer = IF LeftIn(asked, played, i) = {}
                                 THEN Test!Refused ELSE Test!First(LeftIn(asked, played, i))
    <3>1. played'[i].request = played[i].request
      BY <1>9
    <3>2. \A h \in 1..i - 1 :
            /\ played'[h].request = played[h].request
            /\ played'[h].request = played'[i].request => played'[h].answer = played[h].answer
      <4>1. \A h \in 1..i - 1 : h \in DOMAIN played /\ h # i
        BY <1>2
      <4>. QED
        BY <1>9, <4>1
    <3>3. LeftIn(asked, played', i) = LeftIn(asked, played, i)
      BY <1>4, <3>1, <3>2, LeftStays
    <3>. QED
      BY <1>1, <1>10, <3>3
  <2>2. /\ Test!Slots(r) = {} => LeftIn(asked, played, i) = {}
        /\ Test!Slots(r) # {} =>
              /\ LeftIn(asked, played, i) # {}
              /\ recorded[Test!First(Test!Slots(r))].answer = Test!First(LeftIn(asked, played, i))
    BY <1>1, <2>1, FirstSlotFirstLeft DEF r
  <2>. QED
    BY <1>5, <2>1, <2>2
\* What the test is told.
<1>13. /\ calls' \in Seq(Int) /\ Test!ToSet(calls') = Test!ToSet(calls) \cup {i}
       /\ unmatched' \in Seq(Int)
       /\ Test!ToSet(unmatched') = Test!ToSet(unmatched)
            \cup (IF Test!Matching(r) = {} THEN {i} ELSE {})
  <2>1. /\ Append(calls, i) \in Seq(Int) /\ Append(unmatched, i) \in Seq(Int)
        /\ Test!ToSet(Append(calls, i)) = Test!ToSet(calls) \cup {i}
        /\ Test!ToSet(Append(unmatched, i)) = Test!ToSet(unmatched) \cup {i}
    BY <1>2, <1>4, ToSetOfAppend
  <2>2. CASE Test!Matching(r) = {}
    BY <1>1, <1>5, <2>1, <2>2
  <2>3. CASE Test!Matching(r) # {}
    BY <1>1, <1>2, <1>5, <2>1, <2>3
  <2>. QED
    BY <2>2, <2>3
<1>14. matchedPatterns' = matchedPatterns \cup
         (IF Test!Matching(r) = {} THEN {} ELSE {Test!First(Test!Matching(r))})
  BY <1>5
<1>15. /\ Test!ToSet(calls') \subseteq DOMAIN played'
       /\ Test!ToSet(unmatched') \subseteq Test!ToSet(calls')
       /\ matchedPatterns' \subseteq DOMAIN Routes
  BY <1>2, <1>7, <1>9, <1>13, <1>14
<1>16. Test!CoverageAddsUp'
  <2>1. \A k \in Test!ToSet(calls) : played'[k].request = played[k].request
    BY <1>2, <1>9
  <2>2. \A k \in Test!ToSet(calls') \ Test!ToSet(unmatched') :
          Test!Matching(played'[k].request) \cap matchedPatterns' # {}
    <3>1. ASSUME NEW k \in Test!ToSet(calls') \ Test!ToSet(unmatched')
          PROVE  Test!Matching(played'[k].request) \cap matchedPatterns' # {}
      <4>1. CASE k = i
        BY <1>7, <1>10, <1>13, <1>14, <4>1
      <4>2. CASE k \in Test!ToSet(calls) \ Test!ToSet(unmatched)
        <5>1. Test!Matching(played[k].request) \cap matchedPatterns # {}
          BY <1>3, <4>2 DEF Test!CoverageAddsUp
        <5>. QED
          BY <1>14, <2>1, <4>2, <5>1
      <4>. QED
        BY <1>13, <4>1, <4>2
    <3>. QED
      BY <3>1
  <2>3. \A m \in matchedPatterns' : \E k \in Test!ToSet(calls') : played'[k].request \in Routes[m]
    <3>1. \A m \in matchedPatterns : \E k \in Test!ToSet(calls) : played[k].request \in Routes[m]
      BY <1>3 DEF Test!CoverageAddsUp
    <3>2. ASSUME NEW m \in matchedPatterns'
          PROVE  \E k \in Test!ToSet(calls') : played'[k].request \in Routes[m]
      <4>1. CASE m \in matchedPatterns
        BY <1>13, <2>1, <3>1, <4>1
      <4>2. CASE Test!Matching(r) # {} /\ m = Test!First(Test!Matching(r))
        BY <1>7, <1>10, <1>13, <4>2
      <4>. QED
        BY <1>14, <4>1, <4>2
    <3>. QED
      BY <3>2
  <2>4. Test!ToSet(calls)' = Test!ToSet(calls') /\ Test!ToSet(unmatched)' = Test!ToSet(unmatched')
    BY DEF Test!ToSet
  <2>. QED
    BY <2>2, <2>3, <2>4 DEF Test!CoverageAddsUp
<1>17. /\ DOMAIN played' = DOMAIN played \cup {i}
       /\ \A k \in DOMAIN played : /\ played'[k].request = played[k].request
                                   /\ k # i => played'[k] = played[k]
       /\ crossed \subseteq crossed' /\ crossed' \subseteq Requests
       /\ PendingIsLast(played', crossed')
  BY <1>1, <1>2, <1>9
<1>. QED
  BY <1>1, <1>4, <1>9, <1>11, <1>12, <1>13, <1>15, <1>16, <1>17, PlayingKeeps

(* Each step of the test client, one lemma for each action.                 *)
LEMMA TestSteps ==
  ASSUME Test!TestClientAssumption, TestInv, [Test!Next]_testVars PROVE TestInv'
<1>1. CASE UNCHANGED testVars
  BY <1>1, TestStutters DEF testVars
<1>2. CASE \E r \in Requests : Test!Ask(r) \/ Test!Play(r)
  BY <1>2, AskKeeps, PlayKeeps
<1>3. CASE \E i \in DOMAIN asked : Test!Answer(i) \/ Test!Fail(i)
  BY <1>3, AnswerKeeps, FailKeeps
<1>4. CASE \E i \in DOMAIN played : Test!Handle(i)
  BY <1>4, HandleKeeps
<1>5. CASE Test!Replay
  BY <1>5, ReplayKeeps
<1>6. CASE Test!Reset
  BY <1>6, ResetKeeps
<1>. QED
  BY <1>1, <1>2, <1>3, <1>4, <1>5, <1>6 DEF Test!Next

-----------------------------------------------------------------------------
(* The theorems.                                                            *)

(* For any number of requests: a cached session has the timer that will     *)
(* close it, and an open one leaves the map only when two overlap           *)
(* (getSession, drop).                                                      *)
THEOREM SessionsAreClosed == ASSUME SharedStateAssumption PROVE Spec => []NoSessionForgotten
<1>1. Http2!Http2Assumption
  BY DEF SharedStateAssumption
<1>2. Init => Http2Inv
  BY <1>1, Http2Starts DEF Init
<1>3. Http2Inv /\ [Next]_vars => Http2Inv'
  BY <1>1, OnePartMoves, Http2Steps
<1>4. Http2Inv => NoSessionForgotten
  BY DEF Http2Inv, NoSessionForgotten
<1>. QED
  BY <1>2, <1>3, <1>4, PTL DEF Spec

(* For all hosts, limits and headers, and whatever redirects the servers    *)
(* answer: what the caller attached stays on the origin of the call, and    *)
(* a chain stays secure and short (filterRedirectHeaders).                  *)
THEOREM HeadersStopAtTheOrigin == ASSUME SharedStateAssumption PROVE Spec => []HeadersStayHome
<1>1. Redirects!RedirectsAssumption
  BY DEF SharedStateAssumption
<1>2. Init => RedirectsInv
  BY <1>1, RedirectsStart DEF Init
<1>3. RedirectsInv /\ [Next]_vars => RedirectsInv'
  BY <1>1, OnePartMoves, RedirectsSteps
<1>4. RedirectsInv => HeadersStayHome
  BY DEF RedirectsInv, HeadersStayHome
<1>. QED
  BY <1>2, <1>3, <1>4, PTL DEF Spec

(* For all hosts and their parents: a cookie goes to the domain of the      *)
(* host that set it only, a Secure one over https only, until a call is     *)
(* redirected to another host (cookieJar).                                  *)
THEOREM CookiesStayHome == ASSUME SharedStateAssumption PROVE Spec => []CookiesStayInTheirDomain
<1>1. Redirects!RedirectsAssumption
  BY DEF SharedStateAssumption
<1>2. Init => RedirectsInv
  BY <1>1, RedirectsStart DEF Init
<1>3. RedirectsInv /\ [Next]_vars => RedirectsInv'
  BY <1>1, OnePartMoves, RedirectsSteps
<1>4. RedirectsInv => CookiesStayInTheirDomain
  BY DEF RedirectsInv, CookiesStayInTheirDomain
<1>. QED
  BY <1>2, <1>3, <1>4, PTL DEF Spec

(* For any number of calls under way at once, any store size and any Vary:  *)
(* an answer that is given without asking the server (a hit, or stale while *)
(* it is refreshed) was made for the headers of its call, if a call and not *)
(* a background revalidation stored it (variantKeyFor, varyMatches).        *)
THEOREM VariantsStayApart == ASSUME SharedStateAssumption PROVE Spec => []VariantsKeptApart
<1>1. Cache!CacheAssumption
  BY DEF SharedStateAssumption
<1>2. Init => CacheInv
  BY <1>1, CacheStarts DEF Init
<1>3. CacheInv /\ [Next]_vars => CacheInv'
  BY <1>1, OnePartMoves, CacheSteps
<1>4. CacheInv => VariantsKeptApart
  BY DEF CacheInv, AnswersAreRight, VariantsKeptApart
<1>. QED
  BY <1>2, <1>3, <1>4, PTL DEF Spec

(* For all lifetimes, windows and interleavings: nobody gets an entry past  *)
(* the lifetime the code gives it (max-age before ttl, ttl once a 304 has   *)
(* confirmed it) and the window it is served under (beforeRequest,          *)
(* isWithinStaleIfError).                                                   *)
THEOREM NothingTooOld == ASSUME SharedStateAssumption PROVE Spec => []StaleWithinWindows
<1>1. Cache!CacheAssumption
  BY DEF SharedStateAssumption
<1>2. Init => CacheInv
  BY <1>1, CacheStarts DEF Init
<1>3. CacheInv /\ [Next]_vars => CacheInv'
  BY <1>1, OnePartMoves, CacheSteps
<1>4. CacheInv => StaleWithinWindows
  BY DEF CacheInv, AnswersAreRight, StaleWithinWindows
<1>. QED
  BY <1>2, <1>3, <1>4, PTL DEF Spec

(* Whichever call or revalidation fetches it: a response with no-store      *)
(* answers one call only (afterResponse, revalidateInBackground).           *)
THEOREM NoStoreIsNotShared == ASSUME SharedStateAssumption PROVE Spec => []NoStoreIsPrivate
<1>1. Cache!CacheAssumption
  BY DEF SharedStateAssumption
<1>2. Init => CacheInv
  BY <1>1, CacheStarts DEF Init
<1>3. CacheInv /\ [Next]_vars => CacheInv'
  BY <1>1, OnePartMoves, CacheSteps
<1>4. CacheInv => NoStoreIsPrivate
  BY DEF CacheInv, AnswersAreRight, NoStoreIsPrivate
<1>. QED
  BY <1>2, <1>3, <1>4, PTL DEF Spec

(* Whatever the calls interleave: a caller sees a 304 it did not ask for    *)
(* only after an entry was evicted (afterResponse, memoryStore).            *)
THEOREM NotModifiedNeedsEviction ==
  ASSUME SharedStateAssumption PROVE Spec => []NotModifiedOnlyAfterEviction
<1>1. Cache!CacheAssumption
  BY DEF SharedStateAssumption
<1>2. Init => CacheInv
  BY <1>1, CacheStarts DEF Init
<1>3. CacheInv /\ [Next]_vars => CacheInv'
  BY <1>1, OnePartMoves, CacheSteps
<1>4. CacheInv => NotModifiedOnlyAfterEviction
  BY DEF CacheInv, AnswersAreRight, NotModifiedOnlyAfterEviction
<1>. QED
  BY <1>2, <1>3, <1>4, PTL DEF Spec

(* For all layers, names and hooks: a request carries what the most         *)
(* specific layer says, and its hooks run from the outermost in             *)
(* (mergeOptions, resolveOptions, applyDefer, buildRequest).                *)
THEOREM TheLastLayerWins == ASSUME SharedStateAssumption PROVE Spec => []MostSpecificWins
<1>1. Clients!ClientOptionsAssumption
  BY DEF SharedStateAssumption
<1>2. Init => ClientsInv
  BY <1>1, ClientsStart DEF Init
<1>3. ClientsInv /\ [Next]_vars => ClientsInv'
  BY <1>1, OnePartMoves, ClientsSteps
<1>4. ClientsInv => MostSpecificWins
  BY DEF ClientsInv, MostSpecificWins
<1>. QED
  BY <1>2, <1>3, <1>4, PTL DEF Spec

(* For all routes and requests, failures and resets: a replay answers a     *)
(* request as the recording did, call by call, and its coverage adds up     *)
(* (record, replayFromJSON, createTestMisina).                              *)
THEOREM ReplayIsTheRecording == ASSUME SharedStateAssumption PROVE Spec => []ReplayRepeatsRecording
<1>1. Test!TestClientAssumption
  BY DEF SharedStateAssumption
<1>2. Init => TestInv
  BY <1>1, TestStarts DEF Init
<1>3. TestInv /\ [Next]_vars => TestInv'
  BY <1>1, OnePartMoves, TestSteps
<1>4. TestInv => ReplayRepeatsRecording
  BY DEF TestInv, ReplayRepeatsRecording
<1>. QED
  BY <1>2, <1>3, <1>4, PTL DEF Spec

(* The instance of the breaker that is proved about and the one that is     *)
(* composed count alike and move alike.                                     *)
LEMMA SameCardinality == ASSUME NEW S PROVE Alone!Cardinality(S) = Breaker!Cardinality(S)
BY DEF Alone!Cardinality, Breaker!Cardinality

LEMMA SameMoves == Breaker!Next => Alone!Next
<1>. USE DEF Breaker!Elapsed, Alone!Elapsed, Breaker!RetryAfter, Alone!RetryAfter,
             Breaker!TransitionToOpen, Alone!TransitionToOpen,
             Breaker!RecordSuccess, Alone!RecordSuccess, Breaker!history, Alone!history
<1>1. ASSUME NEW c \in Callers, Breaker!Call(c)
      PROVE  Alone!Call(c)
  BY <1>1 DEF Breaker!Call, Alone!Call, Breaker!AdmitClosed, Alone!AdmitClosed,
              Breaker!AdmitProbe, Alone!AdmitProbe, Breaker!AdmitHalfOpen, Alone!AdmitHalfOpen
<1>2. ASSUME NEW c \in Callers, Breaker!FailFast(c)
      PROVE  Alone!FailFast(c)
  BY <1>2 DEF Breaker!FailFast, Alone!FailFast
<1>3. ASSUME NEW c \in Callers, Breaker!Succeed(c)
      PROVE  Alone!Succeed(c)
  BY <1>3 DEF Breaker!Succeed, Alone!Succeed
<1>4. ASSUME NEW c \in Callers, Breaker!FailCounted(c)
      PROVE  Alone!FailCounted(c)
  BY <1>4, SameCardinality
     DEF Breaker!FailCounted, Alone!FailCounted, Breaker!RecordFailure, Alone!RecordFailure,
         Breaker!RecordProbeFailure, Alone!RecordProbeFailure,
         Breaker!RecordWindowFailure, Alone!RecordWindowFailure,
         Breaker!PruneWindow, Alone!PruneWindow, Breaker!StaleCount, Alone!StaleCount
<1>5. ASSUME NEW c \in Callers, Breaker!FailUncounted(c)
      PROVE  Alone!FailUncounted(c)
  BY <1>5 DEF Breaker!FailUncounted, Alone!FailUncounted
<1>6. /\ Breaker!Trip => Alone!Trip
      /\ Breaker!Reset => Alone!Reset
      /\ Breaker!Tick => Alone!Tick
  BY DEF Breaker!Trip, Alone!Trip, Breaker!Reset, Alone!Reset, Breaker!Tick, Alone!Tick
<1>. QED
  BY <1>1, <1>2, <1>3, <1>4, <1>5, <1>6 DEF Breaker!Next, Alone!Next

(* The breaker among the other parts behaves as the breaker alone.          *)
LEMMA BreakerIsAlone == Spec => Alone!Spec
<1>1. Init => Alone!Init
  BY DEF Init, Breaker!Init, Alone!Init
<1>2. [Next]_vars => [Alone!Next]_(Alone!vars)
  BY OnePartMoves, SameMoves DEF breakerVars, Alone!vars
<1>. QED
  BY <1>1, <1>2, PTL DEF Spec, Alone!Spec

(* The constants of the breaker are what its theorems assume.               *)
LEMMA AloneAssumption == ASSUME SharedStateAssumption PROVE Alone!BreakerAssumption
BY DEF SharedStateAssumption, Breaker!BreakerAssumption, Alone!BreakerAssumption

(* For any number of callers and any delay: a breaker that is not closed     *)
(* never lets three calls through within halfOpenAfter (admit).             *)
THEOREM BreakerSparesTheService == ASSUME SharedStateAssumption PROVE Spec => []ProbesComeInPairs
<1>1. Alone!Spec => []Alone!ProbesComeInPairs
  BY AloneAssumption, Alone!ProbesArePaired
<1>2. Alone!ProbesComeInPairs => ProbesComeInPairs
  BY DEF Alone!ProbesComeInPairs, Breaker!ProbesComeInPairs, ProbesComeInPairs
<1>. QED
  BY <1>1, <1>2, BreakerIsAlone, PTL

(* For any threshold and window: a closed breaker is below its threshold,    *)
(* the failures it has pruned counted (recordFailure, pruneWindow).         *)
THEOREM BreakerForgetsNoFailure == ASSUME SharedStateAssumption PROVE Spec => []ClosedBelowThreshold
<1>1. Alone!Spec => []Alone!ClosedBelowThreshold
  BY AloneAssumption, Alone!ClosedStaysBelow
<1>2. Alone!ClosedBelowThreshold => ClosedBelowThreshold
  BY SameCardinality
     DEF Alone!ClosedBelowThreshold, Breaker!ClosedBelowThreshold, ClosedBelowThreshold,
         Alone!Recent, Breaker!Recent
<1>. QED
  BY <1>1, <1>2, BreakerIsAlone, PTL

(* For any threshold and window: a failure opens a closed breaker only when  *)
(* enough of them lie within windowMs (recordFailure).                      *)
THEOREM BreakerTripsForAReason == ASSUME SharedStateAssumption PROVE Spec => TripIsJustified
<1>1. Alone!Spec => Alone!TripIsJustified
  BY AloneAssumption, Alone!TripsAreJustified
<1>2. Alone!TripIsJustified => TripIsJustified
  <2> DEFINE Trips == state = "closed" /\ state' = "open" /\ failed' # failed
             A == Trips => Alone!Cardinality(Alone!Recent(failed', clock)) >= FailureThreshold
             B == Trips => Breaker!Cardinality(Breaker!Recent(failed', clock)) >= FailureThreshold
  <2>1. [A]_(Alone!vars) => [B]_(Breaker!vars)
    BY SameCardinality DEF Alone!Recent, Breaker!Recent, Alone!vars, Breaker!vars
  <2>. QED
    BY <2>1, PTL DEF Alone!TripIsJustified, Breaker!TripIsJustified, TripIsJustified
<1>. QED
  BY <1>1, <1>2, BreakerIsAlone, PTL

(* For any delay and interleaving: nobody is let through before the time     *)
(* the last rejected caller was told (admit, transitionToOpen).             *)
THEOREM BreakerKeepsItsPromise == ASSUME SharedStateAssumption PROVE Spec => RetryAfterIsHonest
<1>1. Alone!Spec => Alone!RetryAfterIsHonest
  BY AloneAssumption, Alone!RetryAfterHolds
<1>2. Alone!RetryAfterIsHonest => RetryAfterIsHonest
  BY DEF Alone!RetryAfterIsHonest, Breaker!RetryAfterIsHonest, RetryAfterIsHonest,
         Alone!vars, Breaker!vars
<1>. QED
  BY <1>1, <1>2, BreakerIsAlone, PTL

(* The variables of all six parts keep their types.                         *)
THEOREM SharedIsWellTyped == ASSUME SharedStateAssumption PROVE Spec => []SharedTypeOK
<1> DEFINE Inv == CacheInv /\ Http2Inv /\ RedirectsInv /\ ClientsInv /\ TestInv
<1>1. Init => Inv
  BY CacheStarts, Http2Starts, RedirectsStart, ClientsStart, TestStarts DEF Init,
       SharedStateAssumption
<1>2. Inv /\ [Next]_vars => Inv'
  BY OnePartMoves, CacheSteps, Http2Steps, RedirectsSteps, ClientsSteps, TestSteps
     DEF SharedStateAssumption
<1>3. Spec => []Alone!TypeOK
  <2>1. Alone!Spec => []Alone!TypeOK
    BY AloneAssumption, Alone!BreakerTypeCorrect
  <2>. QED
    BY <2>1, BreakerIsAlone, PTL
<1>4. Inv /\ Alone!TypeOK => SharedTypeOK
  BY DEF CacheInv, Http2Inv, RedirectsInv, ClientsInv, TestInv, SharedTypeOK,
         Breaker!TypeOK, Breaker!Clock, Breaker!BreakerStates,
         Alone!TypeOK, Alone!Clock, Alone!BreakerStates
<1>. QED
  BY <1>1, <1>2, <1>3, <1>4, PTL DEF Spec
=============================================================================
