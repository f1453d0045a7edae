-------------------------- MODULE HttpServerProofs --------------------------
(***************************************************************************)
(* Proofs about HttpServer, for any requests, tokens, configurations and   *)
(* bounds.                                                                 *)
(*                                                                         *)
(* A request loads the published states at different times, so each part   *)
(* of the invariant relates what a request holds to what is published now: *)
(* Staged says how the two states go together at each stage of a reload,   *)
(* AuthFollows what the middleware may still load for a request that is    *)
(* verifying its token, and ProxyFollows that every URL and document in    *)
(* the proxy is of an issuer that was published while its request ran.     *)
(***************************************************************************)
EXTENDS HttpServer, TLAPS

Same(a, b) == content[a].oauth = content[b].oauth

\* How the two published states go together.
Staged ==
    /\ cfgState <= newest /\ oauthState <= newest
    /\ before.cfg <= newest /\ before.oauth <= newest
    /\ stage \in {"rest", "read", "config"} => Same(oauthState, cfgState)
    /\ stage # "rest" => Same(before.oauth, before.cfg)
    /\ stage = "read" => oauthState = before.oauth
    /\ stage = "config" => cfgState = newest
    /\ stage \in {"read", "oauth", "back"} => cfgState = before.cfg
    /\ stage \in {"oauth", "config", "back"} =>
         /\ Same(oauthState, newest)
         /\ oauthState \in {newest, before.oauth}

PublishedInv == PublishedTypeOK /\ Staged

\* A snapshot that the configuration c may be judged with.
Fits(snap, c) == snap >= c \/ Same(snap, c)

Verified(a) ==
    LET url == content[a.snap].oauth.url
    IN /\ url # NoURL
       /\ ~a.token.expired
       /\ ValidateWithProvider(a.token, content[a.cfg].audience, url)

\* A request in the middleware, and the snapshot it may load next.
AuthOK(a) ==
    /\ a.cfg <= newest /\ a.snap <= newest
    /\ a.pc # "absent" => Fits(a.snap, a.cfg) \/ a.takenBack
    /\ a.pc = "online" =>
         /\ a.path = "mcp" /\ content[a.cfg].oauth.url # NoURL
         /\ a.token # NoToken /\ ~a.token.expired
         /\ Fits(oauthState, a.cfg) \/ a.takenBack
         /\ Same(oauthState, a.cfg) \/ a.reloading
    /\ a.pc # "unconfigured"
    /\ a.pc = "unavailable" => a.reloading
    /\ a.pc = "admitted" /\ a.path = "mcp" /\ content[a.cfg].require =>
         a.token # NoToken /\ (Passthrough(content[a.cfg]) \/ Verified(a))

AuthFollows == AuthTypeOK /\ \A r \in Requests : AuthOK(auth[r])

\* A document as the authorization server gave it.
Upstream(d) == d \in Documents /\ d.scopes = NoOverride /\ d.registration = TRUE

\* The issuers that were published while a request ran.
IssuersOf(w) == {content[c].oauth.url : c \in w.since}

InTime(w) ==
    /\ w.doc \in Documents
    /\ w.doc.of \in IssuersOf(w) \ {NoURL}
    /\ w.doc.at + TTL > w.asked

WkSet == [pc : WkStates, ep : Endpoints, url : URLs, doc : Documents \cup {Nil}, own : BOOLEAN,
          gone : BOOLEAN, asked : 0..MaxTime, since : SUBSET Configs, snap : Configs, fault : BOOLEAN]

\* A request in the proxy.
ProxyOK(w) ==
    /\ w.snap <= newest /\ \A c \in w.since : c <= newest
    /\ w.asked <= clock
    /\ w.pc # "absent" => oauthState \in w.since
    /\ w.pc \in {"direct", "miss", "waiting"} => w.url \in IssuersOf(w)
    /\ w.pc = "direct" => w.url # NoURL
    /\ w.pc \in {"got", "override", "ok"} => InTime(w)
    /\ w.pc \in {"got", "override"} => Upstream(w.doc)
    /\ w.pc = "override" => w.own
    /\ w.pc = "ok" => /\ w.doc.scopes = content[w.snap].oauth.scopes
                      /\ w.doc.registration = ~content[w.snap].oauth.noRegistration
    /\ w.pc = "failed" => w.fault

\* What is cached is what was fetched, for the URL and at the time it is kept with.
CacheOK ==
    cache.doc # Nil => /\ Upstream(cache.doc)
                       /\ cache.url # NoURL
                       /\ cache.doc.of = cache.url
                       /\ cache.doc.at = cache.time

ProxyTypeOK ==
    /\ clock \in 0..MaxTime
    /\ cache \in [doc : Documents \cup {Nil}, url : URLs, time : 0..MaxTime]
    /\ wk \in [Requests -> WkSet]

ProxyFollows == ProxyTypeOK /\ CacheOK /\ \A r \in Requests : ProxyOK(wk[r])

Inv == PublishedInv /\ AuthFollows /\ ProxyFollows

-----------------------------------------------------------------------------
(***************************************************************************)
(* The published states.                                                   *)
(***************************************************************************)
LEMMA InitPublishedInv == PublishedInit => PublishedInv
<1>1. 1 \in Configs
  BY PublishedAssumption DEF Configs
<1>2. QED
  BY <1>1 DEF PublishedInit, PublishedInv, PublishedTypeOK, Staged, Same, Stages

\* A reload step changes no configuration that has been read.
LEMMA ContentKept ==
  ASSUME PublishedInv, PublishedNext
  PROVE  /\ newest' >= newest
         /\ \A c \in Configs : c <= newest => content'[c] = content[c]
<1>1. CASE \E t \in Contents : ReadNew(t)
  BY <1>1 DEF ReadNew, PublishedInv, PublishedTypeOK, Configs
<1>2. CASE UNCHANGED <<content, newest>>
  BY <1>2 DEF PublishedInv, PublishedTypeOK, Configs
<1>3. QED
  BY <1>1, <1>2 DEF PublishedNext, GiveUp, PublishOAuth, PublishConfig, Keep, TakeBackConfig, TakeBackOAuth

LEMMA NextPublishedInv ==
  ASSUME PublishedInv, PublishedNext
  PROVE  PublishedInv'
<1> USE DEF PublishedInv, PublishedTypeOK, Stages
<1>1. ASSUME NEW t \in Contents, ReadNew(t) PROVE PublishedInv'
  <2>1. newest + 1 \in Configs /\ newest' = newest + 1
    BY <1>1, PublishedAssumption DEF ReadNew, Configs
  <2>2. /\ content'[cfgState] = content[cfgState] /\ content'[oauthState] = content[oauthState]
    BY <1>1, ContentKept DEF PublishedNext, Staged
  <2>3. PublishedTypeOK'
    BY <1>1, <2>1 DEF ReadNew
  <2>4. Staged'
    BY <1>1, <2>1, <2>2 DEF ReadNew, Staged, Same, Configs
  <2>5. QED
    BY <2>3, <2>4
<1>2. CASE GiveUp
  BY <1>2 DEF GiveUp, Staged, Same
<1>3. CASE PublishOAuth
  BY <1>3 DEF PublishOAuth, OAuthChanged, Staged, Same, Configs
<1>4. CASE PublishConfig
  BY <1>4 DEF PublishConfig, Staged, Same, Configs
<1>5. CASE Keep
  BY <1>5 DEF Keep, Staged, Same
<1>6. CASE TakeBackConfig
  BY <1>6 DEF TakeBackConfig, Staged, Same
<1>7. CASE TakeBackOAuth
  BY <1>7 DEF TakeBackOAuth, Staged, Same
<1>8. QED
  BY <1>1, <1>2, <1>3, <1>4, <1>5, <1>6, <1>7 DEF PublishedNext

\* The snapshot changes to the newest configuration or, taken back, to an earlier one.
LEMMA SnapshotMoves ==
  ASSUME PublishedInv, PublishedNext
  PROVE  \/ oauthState' = oauthState
         \/ oauthState' = newest /\ newest' = newest
         \/ stage = "back"
BY DEF PublishedNext, ReadNew, GiveUp, PublishOAuth, PublishConfig, Keep, TakeBackConfig, TakeBackOAuth

\* Whatever is loaded together fits.
LEMMA LoadedFits ==
  ASSUME PublishedInv
  PROVE  /\ Fits(oauthState, cfgState)
         /\ stage \notin {"oauth", "back"} => Same(oauthState, cfgState)
BY DEF PublishedInv, PublishedTypeOK, Stages, Staged, Fits, Same, Configs

-----------------------------------------------------------------------------
(***************************************************************************)
(* The middleware.                                                         *)
(***************************************************************************)
AuthSet == [pc : AuthStates, path : Paths, token : Tokens \cup {NoToken}, cfg : Configs,
            snap : Configs, reloading : BOOLEAN, takenBack : BOOLEAN]

LEMMA AbsentOK == PublishedInv => Absent \in AuthSet /\ AuthOK(Absent)
<1>1. 1 \in Configs
  BY PublishedAssumption DEF Configs
<1>2. QED
  BY <1>1 DEF PublishedInv, PublishedTypeOK, Configs, Absent, AuthSet, AuthStates, Paths, AuthOK

\* A step that changes one request at most, to a state that is right.
LEMMA OneRequest ==
  ASSUME AuthFollows, UNCHANGED publishedVars, NEW r \in Requests, NEW a \in AuthSet, AuthOK(a),
         auth' = [auth EXCEPT ![r] = a]
  PROVE  AuthFollows'
<1>1. AuthTypeOK'
  BY DEF AuthFollows, AuthTypeOK, AuthSet
<1>2. ASSUME NEW q \in Requests PROVE AuthOK(auth[q])'
  <2>1. auth'[q] = IF q = r THEN a ELSE auth[q]
    BY DEF AuthFollows, AuthTypeOK
  <2>2. AuthOK(auth'[q])
    BY <2>1 DEF AuthFollows
  <2>3. QED
    BY <2>2 DEF publishedVars, AuthOK, Fits, Same, Verified
<1>3. QED
  BY <1>1, <1>2 DEF AuthFollows

LEMMA EnterFollows ==
  ASSUME PublishedInv, AuthFollows, UNCHANGED publishedVars, NEW r \in Requests, NEW path \in Paths,
         NEW token \in Tokens \cup {NoToken}, Enter(r, path, token)
  PROVE  AuthFollows'
<1> DEFINE a == [pc |-> OnEntry(content[cfgState], path, token), path |-> path,
                 token |-> token, cfg |-> cfgState, snap |-> oauthState,
                 reloading |-> stage \in {"oauth", "back"}, takenBack |-> FALSE]
           t == content[cfgState]
<1>1. t \in Contents /\ validateOAuth(t)
  BY AuthorizationAssumption DEF PublishedInv, PublishedTypeOK
<1>2. a.pc \in {"admitted", "unauthorized", "online"}
  BY DEF OnEntry
<1>3. a \in AuthSet
  BY <1>2 DEF AuthSet, AuthStates, PublishedInv, PublishedTypeOK
<1>4. a.pc = "online" =>
        /\ path = "mcp" /\ t.oauth.url # NoURL /\ token # NoToken /\ ~token.expired
  BY <1>1 DEF OnEntry, ValidateOffline, validateOAuth, Paths
<1>5. a.pc = "admitted" /\ path = "mcp" /\ t.require => token # NoToken /\ Passthrough(t)
  BY DEF OnEntry, Passthrough
<1>6. AuthOK(a)
  BY <1>2, <1>4, <1>5, LoadedFits DEF AuthOK, PublishedInv, Staged
<1>7. QED
  BY <1>3, <1>6, OneRequest DEF Enter

LEMMA VerifyFollows ==
  ASSUME PublishedInv, AuthFollows, UNCHANGED publishedVars, NEW r \in Requests, Verify(r)
  PROVE  AuthFollows'
<1>1. auth[r] \in AuthSet /\ auth[r].pc = "online" /\ AuthOK(auth[r])
  BY DEF AuthFollows, AuthTypeOK, AuthSet, Verify
<1> DEFINE t   == content[auth[r].cfg]
           url == content[oauthState].oauth.url
           a(pc) == [auth[r] EXCEPT !.snap = oauthState, !.pc = pc]
<1>2. ASSUME NEW pc \in AuthStates PROVE a(pc) \in AuthSet
  BY <1>1 DEF AuthSet, PublishedInv, PublishedTypeOK
<1>3. ASSUME NEW pc \in {"admitted", "unauthorized", "unavailable"},
             pc = "unavailable" => url = NoURL,
             pc = "admitted" => url # NoURL /\ ValidateWithProvider(auth[r].token, t.audience, url)
      PROVE  AuthOK(a(pc))
  <2>1. /\ a(pc).pc = pc /\ a(pc).snap = oauthState /\ a(pc).cfg = auth[r].cfg
        /\ a(pc).token = auth[r].token /\ a(pc).path = auth[r].path
        /\ a(pc).reloading = auth[r].reloading /\ a(pc).takenBack = auth[r].takenBack
    BY <1>1 DEF AuthSet
  <2>2. pc = "unavailable" => auth[r].reloading
    BY <1>1, <1>3 DEF AuthOK, Same
  <2>3. pc = "admitted" => Verified(a(pc))
    BY <1>1, <1>3, <2>1 DEF AuthOK, Verified
  <2>4. oauthState <= newest
    BY DEF PublishedInv, Staged
  <2>5. QED
    BY <1>1, <2>1, <2>2, <2>3, <2>4 DEF AuthOK
<1>4. /\ Online(t, auth[r].token, url) \in {"admitted", "unauthorized", "unavailable"}
      /\ Online(t, auth[r].token, url) = "unavailable" => url = NoURL
      /\ Online(t, auth[r].token, url) = "admitted" =>
           url # NoURL /\ ValidateWithProvider(auth[r].token, t.audience, url)
  BY <1>1 DEF Online, AuthOK
<1>5. ASSUME NEW pc \in AuthStates, AuthOK(a(pc)),
             auth' = [auth EXCEPT ![r].snap = oauthState, ![r].pc = pc]
      PROVE  AuthFollows'
  <2>1. auth' = [auth EXCEPT ![r] = a(pc)]
    BY <1>1, <1>5 DEF AuthFollows, AuthTypeOK, AuthSet
  <2>2. QED
    BY <1>2, <1>5, <2>1, OneRequest
<1>6. AuthOK(a(Online(t, auth[r].token, url))) /\ AuthOK(a("unauthorized"))
  BY <1>3, <1>4
<1>7. QED
  BY <1>4, <1>5, <1>6 DEF Verify, AuthStates

LEMMA LeaveFollows ==
  ASSUME PublishedInv, AuthFollows, UNCHANGED publishedVars, NEW r \in Requests, Leave(r)
  PROVE  AuthFollows'
BY AbsentOK, OneRequest DEF Leave

\* A reload keeps what every request may still load, or is noted by it.
LEMMA ReloadFollows ==
  ASSUME PublishedInv, AuthFollows, Reload
  PROVE  AuthFollows'
<1>1. PublishedNext
  BY DEF Reload
<1>2. PublishedInv'
  BY <1>1, NextPublishedInv
<1>3. ASSUME NEW r \in Requests
      PROVE  auth'[r] \in AuthSet /\ AuthOK(auth[r])'
  <2>1. auth[r] \in AuthSet /\ AuthOK(auth[r])
    BY DEF AuthFollows, AuthTypeOK, AuthSet
  <2>2. /\ newest' >= newest
        /\ content'[auth[r].cfg] = content[auth[r].cfg]
        /\ content'[auth[r].snap] = content[auth[r].snap]
    BY <1>1, <2>1, ContentKept DEF AuthSet, AuthOK
  <2>3. content'[oauthState] = content[oauthState] /\ oauthState \in Configs
    BY <1>1, ContentKept DEF PublishedInv, PublishedTypeOK, Staged
  <2>4. CASE auth[r].pc # "online"
    <3>1. auth'[r] = auth[r]
      BY <2>4 DEF Reload
    <3>2. QED
      BY <1>2, <2>1, <2>2, <2>4, <3>1 DEF AuthOK, AuthSet, Fits, Same, Verified, Passthrough,
         PublishedInv, PublishedTypeOK, Configs
  <2>5. CASE auth[r].pc = "online"
    <3>1. auth'[r] = [auth[r] EXCEPT !.reloading = @ \/ oauthState' # oauthState,
                                     !.takenBack = @ \/ stage = "back"]
      BY <2>5 DEF Reload
    <3>2. /\ auth'[r] \in AuthSet
          /\ auth'[r].pc = "online" /\ auth'[r].path = auth[r].path /\ auth'[r].token = auth[r].token
          /\ auth'[r].cfg = auth[r].cfg /\ auth'[r].snap = auth[r].snap
          /\ auth'[r].reloading <=> auth[r].reloading \/ oauthState' # oauthState
          /\ auth'[r].takenBack <=> auth[r].takenBack \/ stage = "back"
      BY <2>1, <2>5, <3>1 DEF AuthSet
    <3>3. auth'[r].takenBack \/ Fits(oauthState, auth[r].cfg)'
      BY <1>1, <2>1, <2>2, <2>3, <2>5, <3>2, SnapshotMoves DEF AuthOK, AuthSet, Fits, Same
    <3>4. auth'[r].reloading \/ Same(oauthState, auth[r].cfg)'
      BY <2>1, <2>2, <2>3, <2>5, <3>2 DEF AuthOK, Same
    <3>5. auth'[r].takenBack \/ Fits(auth[r].snap, auth[r].cfg)'
      BY <2>1, <2>2, <2>5, <3>2 DEF AuthOK, AuthSet, Fits, Same
    <3>6. auth[r].cfg <= newest' /\ auth[r].snap <= newest'
      BY <1>2, <2>1, <2>2 DEF AuthOK, AuthSet, PublishedInv, PublishedTypeOK, Configs
    <3>7. QED
      BY <2>1, <2>2, <2>5, <3>2, <3>3, <3>4, <3>5, <3>6 DEF AuthOK
  <2>6. QED
    BY <2>4, <2>5
<1>4. QED
  BY <1>3 DEF AuthFollows, AuthTypeOK, AuthSet, Reload

-----------------------------------------------------------------------------
(***************************************************************************)
(* The well-known proxy.                                                   *)
(***************************************************************************)
LEMMA TimesAreNumbers == TTL \in Nat /\ TTL > 0 /\ MaxTime \in Nat
BY WellKnownAssumption

LEMMA NotServedOK == PublishedInv /\ clock \in Nat => NotServed \in WkSet /\ ProxyOK(NotServed)
<1>1. 1 \in Configs /\ 0 \in 0..MaxTime
  BY PublishedAssumption, TimesAreNumbers DEF Configs
<1>2. QED
  BY <1>1 DEF PublishedInv, PublishedTypeOK, Configs, NotServed, WkSet, WkStates, Endpoints, URLs, ProxyOK

\* What is published is a URL and scopes of some configuration.
LEMMA PublishedURLs ==
  ASSUME PublishedInv
  PROVE  /\ authorizationURL \in URLs /\ NoURL \in URLs
         /\ content[oauthState].oauth.scopes \in Scopes
         /\ oauthState \in Configs /\ oauthState <= newest
BY DEF PublishedInv, PublishedTypeOK, Staged, authorizationURL, URLs, Scopes

\* A fetched document is as its issuer gave it, and no older than the clock.
LEMMA FetchedIsUpstream ==
  ASSUME ProxyTypeOK, NEW u \in URLs
  PROVE  Upstream(Fetched(u)) /\ Fetched(u).of = u /\ Fetched(u).at = clock
BY DEF ProxyTypeOK, Upstream, Fetched, Documents, Scopes

\* A step of one request, to a state that is right, with the cache left alone.
LEMMA OneServed ==
  ASSUME ProxyFollows, UNCHANGED <<publishedVars, cache, clock>>, NEW r \in Requests, NEW w \in WkSet,
         ProxyOK(w), wk' = [wk EXCEPT ![r] = w]
  PROVE  ProxyFollows'
<1>1. ProxyTypeOK'
  BY DEF ProxyFollows, ProxyTypeOK
<1>2. CacheOK'
  BY DEF ProxyFollows, CacheOK, Upstream
<1>3. ASSUME NEW q \in Requests PROVE ProxyOK(wk[q])'
  <2>1. wk'[q] = IF q = r THEN w ELSE wk[q]
    BY DEF ProxyFollows, ProxyTypeOK
  <2>2. ProxyOK(wk'[q])
    BY <2>1 DEF ProxyFollows
  <2>3. QED
    BY <2>2 DEF publishedVars, ProxyOK, InTime, IssuersOf, Upstream
<1>4. QED
  BY <1>1, <1>2, <1>3 DEF ProxyFollows

LEMMA ServeFollows ==
  ASSUME PublishedInv, ProxyFollows, UNCHANGED publishedVars, NEW r \in Requests, NEW ep \in Endpoints,
         Serve(r, ep)
  PROVE  ProxyFollows'
<1> DEFINE w == [NotServed EXCEPT !.pc = IF authorizationURL = NoURL THEN "notFound" ELSE "direct",
                                  !.ep = ep, !.url = authorizationURL,
                                  !.asked = clock, !.since = {oauthState}]
<1>1. clock \in 0..MaxTime /\ clock \in Nat
  BY TimesAreNumbers DEF ProxyFollows, ProxyTypeOK
<1>2. NotServed \in WkSet
  BY <1>1, NotServedOK
<1>3. w \in WkSet
  BY <1>1, <1>2, PublishedURLs DEF WkSet, WkStates
<1>4. /\ w.pc = IF authorizationURL = NoURL THEN "notFound" ELSE "direct"
      /\ w.url = authorizationURL /\ w.asked = clock /\ w.since = {oauthState} /\ w.snap = 1
  BY <1>2 DEF WkSet, NotServed
<1>5. ProxyOK(w)
  BY <1>1, <1>4, PublishedURLs DEF ProxyOK, IssuersOf, authorizationURL, PublishedInv, PublishedTypeOK, Configs
<1>6. QED
  BY <1>3, <1>5, OneServed DEF Serve

\* The fetch for the request alone.
LEMMA DirectFollows ==
  ASSUME PublishedInv, ProxyFollows, UNCHANGED publishedVars, NEW r \in Requests, NEW a \in Answers,
         FetchDirect(r, a)
  PROVE  ProxyFollows'
<1>1. /\ wk[r] \in WkSet /\ ProxyOK(wk[r]) /\ wk[r].pc = "direct" /\ ProxyTypeOK
      /\ clock \in 0..MaxTime /\ clock \in Nat
  BY TimesAreNumbers DEF ProxyFollows, ProxyTypeOK, FetchDirect
<1> DEFINE next == [wk[r] EXCEPT !.ep = "openIDConfiguration", !.url = NoURL]
<1>2. /\ next \in WkSet /\ next.since = wk[r].since /\ next.asked = wk[r].asked /\ next.snap = wk[r].snap
      /\ next.doc = wk[r].doc
  BY <1>1, PublishedURLs DEF WkSet, Endpoints
<1>3. CASE a = "document"
  <2> DEFINE w == [next EXCEPT !.pc = "override", !.own = TRUE, !.doc = Fetched(wk[r].url)]
  <2>1. Upstream(Fetched(wk[r].url)) /\ Fetched(wk[r].url).of = wk[r].url /\ Fetched(wk[r].url).at = clock
    BY <1>1, FetchedIsUpstream DEF WkSet
  <2>2. /\ w \in WkSet /\ w.pc = "override" /\ w.own /\ w.doc = Fetched(wk[r].url)
        /\ w.since = wk[r].since /\ w.asked = wk[r].asked /\ w.snap = wk[r].snap
    BY <1>2, <2>1 DEF WkSet, WkStates, Upstream
  <2>3. InTime(w)
    BY <1>1, <2>1, <2>2, TimesAreNumbers DEF InTime, IssuersOf, Upstream, ProxyOK, WkSet
  <2>4. ProxyOK(w)
    BY <1>1, <2>1, <2>2, <2>3 DEF ProxyOK
  <2>5. wk' = [wk EXCEPT ![r] = w]
    BY <1>3 DEF FetchDirect
  <2>6. QED
    BY <2>2, <2>4, <2>5, OneServed DEF FetchDirect
<1>4. ASSUME NEW w \in WkSet, w.pc \in {"lookup", "notFound", "failed"}, w.pc = "failed" => w.fault,
             w.since = wk[r].since, w.asked = wk[r].asked, w.snap = wk[r].snap,
             wk' = [wk EXCEPT ![r] = w]
      PROVE  ProxyFollows'
  <2>1. ProxyOK(w)
    BY <1>1, <1>4 DEF ProxyOK
  <2>2. QED
    BY <1>4, <2>1, OneServed DEF FetchDirect
<1>5. CASE a = "absent"
  <2> DEFINE w == [next EXCEPT !.pc = IF wk[r].ep = "generatable" THEN "lookup" ELSE "notFound"]
  <2>1. /\ w \in WkSet /\ w.pc \in {"lookup", "notFound"}
        /\ w.since = wk[r].since /\ w.asked = wk[r].asked /\ w.snap = wk[r].snap
    BY <1>2 DEF WkSet, WkStates
  <2>2. QED
    BY <1>4, <1>5, <2>1 DEF FetchDirect
<1>6. CASE a = "error"
  <2> DEFINE w == [next EXCEPT !.pc = "failed", !.fault = TRUE]
  <2>1. /\ w \in WkSet /\ w.pc = "failed" /\ w.fault
        /\ w.since = wk[r].since /\ w.asked = wk[r].asked /\ w.snap = wk[r].snap
    BY <1>2 DEF WkSet, WkStates
  <2>2. QED
    BY <1>4, <1>6, <2>1 DEF FetchDirect
<1>7. QED
  BY <1>3, <1>5, <1>6 DEF Answers

\* Every holder gets a map of its own.
LEMMA CopyFollows ==
  ASSUME PublishedInv, ProxyFollows, UNCHANGED <<publishedVars, cache, clock>>, NEW r \in Requests,
         wk[r].pc # "absent", NEW doc \in Documents, Upstream(doc),
         doc.of \in IssuersOf(wk[r]) \ {NoURL}, doc.at + TTL > wk[r].asked, CopyMap(r, doc)
  PROVE  ProxyFollows'
<1>1. wk[r] \in WkSet /\ ProxyOK(wk[r])
  BY DEF ProxyFollows, ProxyTypeOK
<1> DEFINE w == [wk[r] EXCEPT !.pc = "override", !.doc = doc, !.own = TRUE, !.url = NoURL]
<1>2. /\ w \in WkSet /\ w.pc = "override" /\ w.own /\ w.doc = doc
      /\ w.since = wk[r].since /\ w.asked = wk[r].asked /\ w.snap = wk[r].snap
  BY <1>1, PublishedURLs DEF WkSet, WkStates
<1>3. ProxyOK(w)
  BY <1>1, <1>2 DEF ProxyOK, InTime, IssuersOf
<1>4. wk' = [wk EXCEPT ![r] = w]
  BY <1>1 DEF CopyMap, ProxyFollows, ProxyTypeOK, WkSet
<1>5. QED
  BY <1>2, <1>3, <1>4, OneServed

LEMMA LookUpFollows ==
  ASSUME PublishedInv, ProxyFollows, UNCHANGED publishedVars, NEW r \in Requests, LookUp(r)
  PROVE  ProxyFollows'
<1>1. wk[r] \in WkSet /\ ProxyOK(wk[r]) /\ wk[r].pc = "lookup" /\ clock \in 0..MaxTime
  BY DEF ProxyFollows, ProxyTypeOK, LookUp
<1>2. authorizationURL \in IssuersOf(wk[r])
  BY <1>1 DEF ProxyOK, IssuersOf, authorizationURL
<1>3. CASE CacheHit(authorizationURL) /\ CopyMap(r, cache.doc)
  <2>1. /\ Upstream(cache.doc) /\ cache.doc.of = authorizationURL /\ authorizationURL # NoURL
        /\ cache.doc.at = cache.time /\ clock - cache.time < TTL /\ cache.time \in 0..MaxTime
    BY <1>3 DEF CacheHit, ProxyFollows, CacheOK, ProxyTypeOK
  <2>2. cache.doc.at + TTL > wk[r].asked
    BY <1>1, <2>1, TimesAreNumbers DEF ProxyOK, WkSet
  <2>3. QED
    BY <1>1, <1>2, <1>3, <2>1, <2>2, CopyFollows DEF Upstream, LookUp
<1>4. CASE wk' = [wk EXCEPT ![r].pc = "miss", ![r].url = authorizationURL]
  <2> DEFINE w == [wk[r] EXCEPT !.pc = "miss", !.url = authorizationURL]
  <2>1. /\ w \in WkSet /\ w.pc = "miss" /\ w.url = authorizationURL
        /\ w.since = wk[r].since /\ w.asked = wk[r].asked /\ w.snap = wk[r].snap
    BY <1>1, PublishedURLs DEF WkSet, WkStates
  <2>2. ProxyOK(w)
    BY <1>1, <1>2, <2>1 DEF ProxyOK, IssuersOf
  <2>3. wk' = [wk EXCEPT ![r] = w]
    BY <1>1, <1>4 DEF ProxyFollows, ProxyTypeOK, WkSet
  <2>4. QED
    BY <2>1, <2>2, <2>3, OneServed DEF LookUp
<1>5. QED
  BY <1>3, <1>4 DEF LookUp

LEMMA JoinFollows ==
  ASSUME PublishedInv, ProxyFollows, UNCHANGED publishedVars, NEW r \in Requests,
         Join(r) \/ ClientGoesAway(r)
  PROVE  ProxyFollows'
<1>1. wk[r] \in WkSet /\ ProxyOK(wk[r])
  BY DEF ProxyFollows, ProxyTypeOK
<1>2. CASE Join(r)
  <2> DEFINE w == [wk[r] EXCEPT !.pc = "waiting"]
  <2>1. /\ w \in WkSet /\ w.pc = "waiting" /\ w.url = wk[r].url
        /\ w.since = wk[r].since /\ w.asked = wk[r].asked /\ w.snap = wk[r].snap
    BY <1>1 DEF WkSet, WkStates
  <2>2. ProxyOK(w)
    BY <1>1, <1>2, <2>1 DEF ProxyOK, IssuersOf, Join
  <2>3. wk' = [wk EXCEPT ![r] = w]
    BY <1>2 DEF Join
  <2>4. QED
    BY <1>2, <2>1, <2>2, <2>3, OneServed DEF Join
<1>3. CASE ClientGoesAway(r)
  <2> DEFINE w == [wk[r] EXCEPT !.gone = TRUE]
  <2>1. /\ w \in WkSet /\ w.pc = wk[r].pc /\ w.url = wk[r].url
        /\ w.since = wk[r].since /\ w.asked = wk[r].asked /\ w.snap = wk[r].snap
    BY <1>1 DEF WkSet
  <2>2. ProxyOK(w)
    BY <1>1, <1>3, <2>1 DEF ProxyOK, IssuersOf, ClientGoesAway
  <2>3. wk' = [wk EXCEPT ![r] = w]
    BY <1>3 DEF ClientGoesAway
  <2>4. QED
    BY <1>3, <2>1, <2>2, <2>3, OneServed DEF ClientGoesAway
<1>4. QED
  BY <1>2, <1>3

LEMMA TakeFollows ==
  ASSUME PublishedInv, ProxyFollows, UNCHANGED publishedVars, NEW r \in Requests, TakeResult(r)
  PROVE  ProxyFollows'
<1>1. ProxyOK(wk[r]) /\ wk[r].pc = "got"
  BY DEF ProxyFollows, TakeResult
<1>2. QED
  BY <1>1, CopyFollows DEF ProxyOK, InTime, TakeResult

\* The map is the request's own: nobody else sees the overrides.
LEMMA OverrideFollows ==
  ASSUME PublishedInv, ProxyFollows, UNCHANGED publishedVars, NEW r \in Requests, Override(r)
  PROVE  ProxyFollows'
<1>1. wk[r] \in WkSet /\ ProxyOK(wk[r]) /\ wk[r].pc = "override" /\ wk[r].own = TRUE
  BY DEF ProxyFollows, ProxyTypeOK, Override, ProxyOK, WkSet
<1> DEFINE s == content[oauthState].oauth
           e == Overridden(wk[r].doc, s)
           w == [wk[r] EXCEPT !.pc = "ok", !.doc = e, !.snap = oauthState]
<1>2. wk[r].doc \in Documents /\ Upstream(wk[r].doc)
  BY <1>1 DEF ProxyOK, Upstream
<1>3. /\ e \in Documents /\ e.of = wk[r].doc.of /\ e.at = wk[r].doc.at
      /\ e.scopes = s.scopes /\ e.registration = ~s.noRegistration
  BY <1>2, PublishedURLs DEF Overridden, Documents, Upstream
<1>4. /\ w \in WkSet /\ w.pc = "ok" /\ w.doc = e /\ w.snap = oauthState
      /\ w.since = wk[r].since /\ w.asked = wk[r].asked
  BY <1>1, <1>3, PublishedURLs DEF WkSet, WkStates
<1>5. ProxyOK(w)
  BY <1>1, <1>3, <1>4, PublishedURLs DEF ProxyOK, InTime, IssuersOf
<1>6. wk' = [wk EXCEPT ![r] = w] /\ UNCHANGED <<cache, clock>>
  BY <1>1 DEF Override, ProxyFollows, ProxyTypeOK
<1>7. QED
  BY <1>4, <1>5, <1>6, OneServed

LEMMA FinishFollows ==
  ASSUME PublishedInv, ProxyFollows, UNCHANGED publishedVars, NEW r \in Requests, Finish(r)
  PROVE  ProxyFollows'
<1>1. clock \in Nat
  BY TimesAreNumbers DEF ProxyFollows, ProxyTypeOK
<1>2. QED
  BY <1>1, NotServedOK, OneServed DEF Finish

\* A fetch ends for all who wait for it, with what its URL's server gave.
LEMMA FlightFollows ==
  ASSUME PublishedInv, ProxyFollows, UNCHANGED publishedVars, NEW u \in URLs, NEW a \in Answers,
         EndFlight(u, a)
  PROVE  ProxyFollows'
<1>1. ProxyTypeOK /\ clock \in 0..MaxTime /\ clock \in Nat /\ clock' = clock
  BY TimesAreNumbers DEF ProxyFollows, ProxyTypeOK, EndFlight
<1>2. Upstream(Fetched(u)) /\ Fetched(u).of = u /\ Fetched(u).at = clock
  BY <1>1, FetchedIsUpstream
<1>3. PICK pc \in {"got", "notFound", "failed"}, doc \in {Fetched(u), Nil} :
        /\ Deliver(u, pc, doc)
        /\ pc = "got" => doc = Fetched(u) /\ u # NoURL
  BY DEF EndFlight, AbsentIs
<1>4. ASSUME NEW r \in Requests PROVE wk'[r] \in WkSet /\ ProxyOK(wk[r])'
  <2>1. wk[r] \in WkSet /\ ProxyOK(wk[r])
    BY DEF ProxyFollows, ProxyTypeOK
  <2>2. CASE r \notin Flight(u)
    <3>1. wk'[r] = wk[r]
      BY <1>3, <2>2 DEF Deliver
    <3>2. QED
      BY <1>1, <2>1, <3>1 DEF publishedVars, ProxyOK, InTime, IssuersOf, Upstream
  <2>3. CASE r \in Flight(u)
    <3>1. wk'[r] = [wk[r] EXCEPT !.pc = pc, !.url = NoURL, !.doc = doc,
                                 !.fault = pc = "failed" /\ FlightContext(u)]
      BY <1>3, <2>3 DEF Deliver
    <3>2. doc \in Documents \cup {Nil}
      BY <1>2 DEF Upstream
    <3>3. /\ wk'[r] \in WkSet /\ wk'[r].pc = pc /\ wk'[r].doc = doc
          /\ wk'[r].since = wk[r].since /\ wk'[r].asked = wk[r].asked /\ wk'[r].snap = wk[r].snap
          /\ pc = "failed" => wk'[r].fault
      BY <2>1, <3>1, <3>2, PublishedURLs DEF WkSet, WkStates, FlightContext
    <3>4. u \in IssuersOf(wk[r]) /\ wk[r].pc = "waiting"
      BY <2>1, <2>3 DEF Flight, ProxyOK
    <3>5. pc = "got" => InTime(wk'[r]) /\ Upstream(wk'[r].doc)
      BY <1>1, <1>2, <1>3, <2>1, <3>3, <3>4, TimesAreNumbers DEF InTime, IssuersOf, Upstream, ProxyOK, WkSet
    <3>6. ProxyOK(wk'[r])
      BY <2>1, <3>3, <3>4, <3>5 DEF ProxyOK
    <3>7. QED
      BY <1>1, <3>3, <3>6 DEF publishedVars, ProxyOK, InTime, IssuersOf, Upstream
  <2>4. QED
    BY <2>2, <2>3
<1>5. ProxyTypeOK' /\ CacheOK'
  <2>1. wk' \in [Requests -> WkSet]
    BY <1>3, <1>4 DEF Deliver
  <2>2. CASE UNCHANGED cache
    BY <1>1, <2>1, <2>2 DEF ProxyFollows, ProxyTypeOK, CacheOK, Upstream
  <2>3. CASE a = "document" /\ cache' = [doc |-> Fetched(u), url |-> u, time |-> clock]
    <3>1. u # NoURL
      BY <2>3 DEF EndFlight
    <3>2. CacheOK'
      BY <1>2, <2>3, <3>1 DEF CacheOK, Upstream
    <3>3. QED
      BY <1>1, <1>2, <2>1, <2>3, <3>2 DEF ProxyTypeOK, Upstream
  <2>4. QED
    BY <2>2, <2>3 DEF EndFlight
<1>6. QED
  BY <1>4, <1>5 DEF ProxyFollows

LEMMA TickFollows ==
  ASSUME PublishedInv, ProxyFollows, UNCHANGED publishedVars, Tick
  PROVE  ProxyFollows'
<1>1. clock' = clock + 1 /\ clock' \in 0..MaxTime /\ clock \in 0..MaxTime /\ UNCHANGED <<cache, wk>>
  BY TimesAreNumbers DEF Tick, ProxyFollows, ProxyTypeOK
<1>2. ProxyTypeOK' /\ CacheOK'
  BY <1>1 DEF ProxyFollows, ProxyTypeOK, CacheOK, Upstream
<1>3. ASSUME NEW r \in Requests PROVE ProxyOK(wk[r])'
  <2>1. wk[r] \in WkSet /\ ProxyOK(wk[r])
    BY DEF ProxyFollows, ProxyTypeOK
  <2>2. wk[r].asked <= clock'
    BY <1>1, <2>1, TimesAreNumbers DEF ProxyOK, WkSet
  <2>3. QED
    BY <1>1, <2>1, <2>2 DEF publishedVars, ProxyOK, InTime, IssuersOf, Upstream
<1>4. QED
  BY <1>2, <1>3 DEF ProxyFollows

\* A request that is being served notes what a reload publishes.
LEMMA NoteFollows ==
  ASSUME PublishedInv, ProxyFollows, PublishedNext, NoteReload
  PROVE  ProxyFollows'
<1>1. PublishedInv'
  BY NextPublishedInv
<1>2. UNCHANGED <<cache, clock>>
  BY DEF NoteReload
<1>3. ASSUME NEW r \in Requests PROVE wk'[r] \in WkSet /\ ProxyOK(wk[r])'
  <2>1. wk[r] \in WkSet /\ ProxyOK(wk[r])
    BY DEF ProxyFollows, ProxyTypeOK
  <2>2. /\ oauthState' \in Configs /\ oauthState' <= newest' /\ newest' >= newest
        /\ newest \in Configs /\ newest' \in Configs
    BY <1>1, ContentKept DEF PublishedInv, PublishedTypeOK, Staged
  <2>3. \A c \in wk[r].since \cup {wk[r].snap} : c \in Configs /\ c <= newest /\ content'[c] = content[c]
    BY <2>1, ContentKept DEF WkSet, ProxyOK
  <2>4. /\ wk'[r] \in WkSet
        /\ wk'[r].since = IF wk[r].since = {} THEN {} ELSE wk[r].since \cup {oauthState'}
        /\ wk'[r].pc = wk[r].pc /\ wk'[r].url = wk[r].url /\ wk'[r].doc = wk[r].doc
        /\ wk'[r].own = wk[r].own /\ wk'[r].asked = wk[r].asked /\ wk'[r].snap = wk[r].snap
        /\ wk'[r].fault = wk[r].fault
    BY <2>1, <2>2 DEF NoteReload, WkSet
  <2>5. \A c \in wk'[r].since \cup {wk'[r].snap} : c <= newest'
    BY <2>2, <2>3, <2>4 DEF Configs
  <2>6. wk[r].pc # "absent" => wk[r].since # {} /\ oauthState' \in wk'[r].since
    BY <2>1, <2>4 DEF ProxyOK
  <2>7. \A v \in IssuersOf(wk[r]) : v \in IssuersOf(wk[r])'
    BY <2>3, <2>4 DEF IssuersOf
  <2>8. InTime(wk[r]) => InTime(wk[r])'
    BY <2>4, <2>7 DEF InTime
  <2>9. content'[wk'[r].snap] = content[wk[r].snap]
    BY <2>3, <2>4
  <2>10. QED
    BY <1>2, <2>1, <2>4, <2>5, <2>6, <2>7, <2>8, <2>9 DEF ProxyOK, Upstream
<1>4. QED
  BY <1>2, <1>3 DEF ProxyFollows, ProxyTypeOK, CacheOK, Upstream, NoteReload

-----------------------------------------------------------------------------
(***************************************************************************)
(* The layer.                                                              *)
(***************************************************************************)
\* What leaves a part and what it relates to alone keeps its invariant.
LEMMA QuietParts ==
  ASSUME Inv, UNCHANGED publishedVars
  PROVE  /\ PublishedInv'
         /\ UNCHANGED auth => AuthFollows'
         /\ UNCHANGED wellKnownVars => ProxyFollows'
<1>1. PublishedInv'
  BY DEF Inv, publishedVars, PublishedInv, PublishedTypeOK, Staged, Same
<1>2. UNCHANGED auth => AuthFollows'
  BY DEF Inv, publishedVars, AuthFollows, AuthTypeOK, AuthOK, Fits, Same, Verified
<1>3. UNCHANGED wellKnownVars => ProxyFollows'
  BY DEF Inv, publishedVars, wellKnownVars, ProxyFollows, ProxyTypeOK, CacheOK, ProxyOK, InTime, IssuersOf,
     Upstream
<1>4. QED
  BY <1>1, <1>2, <1>3

LEMMA NextInv ==
  ASSUME Inv, [Next]_vars
  PROVE  Inv'
<1>1. PublishedInv /\ AuthFollows /\ ProxyFollows
  BY DEF Inv
<1>2. ASSUME UNCHANGED publishedVars, AuthFollows', ProxyFollows' PROVE Inv'
  BY <1>2, QuietParts DEF Inv
<1>3. ASSUME NEW r \in Requests, Arrive(r) PROVE Inv'
  BY <1>1, <1>2, <1>3, EnterFollows, QuietParts DEF Arrive
<1>4. ASSUME NEW r \in Requests, Check(r) PROVE Inv'
  BY <1>1, <1>2, <1>4, VerifyFollows, QuietParts DEF Check
<1>5. ASSUME NEW r \in Requests, Proxy(r) PROVE Inv'
  BY <1>1, <1>2, <1>5, ServeFollows, QuietParts DEF Proxy
<1>6. ASSUME NEW r \in Requests, ProxySteps(r) PROVE Inv'
  BY <1>1, <1>2, <1>6, DirectFollows, LookUpFollows, JoinFollows, TakeFollows, OverrideFollows, QuietParts
  DEF ProxySteps
<1>7. ASSUME NEW r \in Requests, Respond(r) PROVE Inv'
  BY <1>1, <1>2, <1>7, LeaveFollows, FinishFollows, QuietParts DEF Respond
<1>8. ASSUME NEW r \in Requests, GoesAway(r) PROVE Inv'
  BY <1>1, <1>2, <1>8, JoinFollows, QuietParts DEF GoesAway
<1>9. ASSUME NEW u \in URLs, Flights(u) PROVE Inv'
  BY <1>1, <1>2, <1>9, FlightFollows, QuietParts DEF Flights
<1>10. CASE Reloads
  BY <1>1, <1>10, NextPublishedInv, ReloadFollows, NoteFollows DEF Reloads, Reload, Inv
<1>11. CASE Time
  BY <1>1, <1>2, <1>11, TickFollows, QuietParts DEF Time
<1>12. CASE UNCHANGED vars
  BY <1>2, <1>12, QuietParts DEF vars
<1>13. QED
  BY <1>3, <1>4, <1>5, <1>6, <1>7, <1>8, <1>9, <1>10, <1>11, <1>12 DEF Next

\* The handler's two stores, the middleware's loads and the proxy's cache keep the
\* invariant, however requests, reloads and upstream answers interleave.
THEOREM Invariance == Spec => []Inv
<1>1. Init => Inv
  <2>1. ASSUME Init PROVE Inv
    <3>1. PublishedInv /\ clock = 0
      BY <2>1, InitPublishedInv DEF Init, WellKnownInit
    <3>2. AuthFollows
      BY <2>1, <3>1, AbsentOK DEF Init, AuthInit, AuthFollows, AuthTypeOK, AuthSet
    <3>3. 0 \in 0..MaxTime
      BY TimesAreNumbers
    <3>4. ProxyTypeOK /\ CacheOK
      BY <2>1, <3>1, <3>3, NotServedOK DEF Init, WellKnownInit, ProxyTypeOK, CacheOK, URLs
    <3>5. ProxyFollows
      BY <2>1, <3>1, <3>4, NotServedOK DEF Init, WellKnownInit, ProxyFollows
    <3>6. QED
      BY <3>1, <3>2, <3>5 DEF Inv
  <2>2. QED
    BY <2>1
<1>2. Inv /\ [Next]_vars => Inv'
  BY NextInv
<1>3. QED
  BY <1>1, <1>2, PTL DEF Spec

\* AuthorizationMiddleware admits to /mcp, under require_oauth, no token that a
\* published provider has not verified, however reloads fall between its two loads.
THEOREM AdmittedVerified == Spec => []NeverAdmittedUnverified
<1>1. Inv => NeverAdmittedUnverified
  BY DEF Inv, AuthFollows, AuthOK, Verified, NeverAdmittedUnverified, Judged
<1>2. QED
  BY <1>1, Invariance, PTL

\* The middleware uses a snapshot older than the configuration it loaded only after
\* a rollback: the order of the handler's two stores is what it rests on.
THEOREM NewFlagsNewProvider == Spec => []OldProviderOnlyAfterRollback
<1>1. Inv => OldProviderOnlyAfterRollback
  BY DEF Inv, AuthFollows, AuthOK, Fits, Same, OldProviderOnlyAfterRollback, Judged
<1>2. QED
  BY <1>1, Invariance, PTL

\* WellKnown serves metadata of an issuer that was published while the request ran,
\* no older than the cache's lifetime when it came.
THEOREM MetadataCurrent == Spec => []MetadataIsCurrent
<1>1. Inv => MetadataIsCurrent
  BY DEF Inv, ProxyFollows, ProxyOK, InTime, IssuersOf, MetadataIsCurrent, IssuerOfItsTime,
     NothingStaleIsServed, Served
<1>2. QED
  BY <1>1, Invariance, PTL

\* What applyConfigOverrides writes for a request is seen by that request alone.
THEOREM OverridesOwn == Spec => []OverridesAreOnesOwn
<1>1. Inv => OverridesAreOnesOwn
  BY DEF Inv, ProxyFollows, ProxyOK, OverridesAreOnesOwn, Served
<1>2. QED
  BY <1>1, Invariance, PTL

\* A request is refused as unavailable only when it met a reload, never as
\* unconfigured, and the proxy fails one only when the upstream failed it.
THEOREM FailsForCause == Spec => []FailsOnlyForCause
<1>1. Inv => FailsOnlyForCause
  BY DEF Inv, AuthFollows, AuthOK, ProxyFollows, ProxyOK, FailsOnlyForCause, UnavailableOnlyInReload,
     FailsOnlyWithUpstream, Judged
<1>2. QED
  BY <1>1, Invariance, PTL
=============================================================================
