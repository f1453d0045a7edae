------------------------------ MODULE WellKnown ------------------------------
(***************************************************************************)
(* The well-known proxy (WellKnown in pkg/http/wellknown.go).  A request   *)
(* for metadata is passed on to the authorization server; what that does   *)
(* not have is generated from its openid-configuration, which is cached    *)
(* and fetched by one request for all that miss it (singleflight).  The    *)
(* OAuth snapshot is loaded up to three times per request: for the URL,    *)
(* again for the openid-configuration, and for the overrides.              *)
(***************************************************************************)
EXTENDS Authorization

CONSTANTS
    NoOverride,     \* no oauth_scopes: the upstream's own are served
    Nil,            \* no document
    TTL,            \* oidcConfigCacheTTL, in ticks
    MaxTime         \* bound on time

ASSUME WellKnownAssumption == TTL \in Nat \ {0} /\ MaxTime \in Nat

URLs   == {t.oauth.url : t \in Contents} \cup {NoURL}
Scopes == {t.oauth.scopes : t \in Contents} \cup {NoOverride}

\* What is generated when the authorization server does not have it
\* (oauth-authorization-server, oauth-protected-resource), and what is not.
Endpoints == {"generatable", "openIDConfiguration"}
Answers   == {"document", "absent", "error"}

VARIABLES
    cache,          \* oidcConfigCache, its URL and its time
    wk,             \* the requests: where they are and what they hold
    clock

wellKnownVars == <<cache, wk, clock>>

\* A document: its issuer, the scopes it names, whether it offers dynamic
\* registration, and when it was fetched.
Documents == [of : URLs, scopes : Scopes, registration : BOOLEAN, at : 0..MaxTime]

WkStates == {"absent", "direct", "lookup", "miss", "waiting", "got",
             "override", "ok", "notFound", "failed"}

\* own tells whether the map the request holds is its own or one that the cache
\* or the other requests of a flight hold as well.  asked, since, snap and
\* fault are history: when the request came, the snapshots published while it
\* ran, the one it took the overrides from and whether an upstream failed it.
NotServed == [pc |-> "absent", ep |-> "openIDConfiguration", url |-> NoURL,
              doc |-> Nil, own |-> FALSE, gone |-> FALSE, asked |-> 0,
              since |-> {}, snap |-> 1, fault |-> FALSE]

WellKnownTypeOK ==
    /\ cache \in [doc : Documents \cup {Nil}, url : URLs, time : 0..MaxTime]
    /\ wk \in [Requests -> [pc : WkStates, ep : Endpoints, url : URLs,
                            doc : Documents \cup {Nil}, own : BOOLEAN,
                            gone : BOOLEAN, asked : 0..MaxTime,
                            since : SUBSET Configs, snap : Configs,
                            fault : BOOLEAN]]
    /\ \A r \in Requests : wk[r].doc # Nil <=> wk[r].pc \in {"got", "override", "ok"}
    /\ clock \in 0..MaxTime

WellKnownInit ==
    /\ cache = [doc |-> Nil, url |-> NoURL, time |-> 0]
    /\ wk = [r \in Requests |-> NotServed]
    /\ clock = 0

-----------------------------------------------------------------------------
authorizationURL == content[oauthState].oauth.url

Fetched(u) == [of |-> u, scopes |-> NoOverride, registration |-> TRUE, at |-> clock]

\* ServeHTTP, up to the request to the authorization server.  Without an
\* authorization_url there is nothing to serve.
Serve(r, ep) ==
    /\ wk[r].pc = "absent"
    /\ wk' = [wk EXCEPT ![r] =
         [NotServed EXCEPT !.pc = IF authorizationURL = NoURL THEN "notFound" ELSE "direct",
                           !.ep = ep, !.url = authorizationURL,
                           !.asked = clock, !.since = {oauthState}]]
    /\ UNCHANGED <<cache, clock>>

\* fetchWellKnownEndpoint and what ServeHTTP does with its result.  The fetch
\* has the request's context: it fails when the client goes away.
FetchDirect(r, a) ==
    /\ wk[r].pc = "direct"
    /\ wk[r].gone => a = "error"
    /\ LET next == [wk[r] EXCEPT !.ep = "openIDConfiguration", !.url = NoURL]
       IN \/ /\ a = "document"
             /\ wk' = [wk EXCEPT ![r] = [next EXCEPT !.pc = "override", !.own = TRUE,
                                                     !.doc = Fetched(wk[r].url)]]
          \/ /\ a = "absent"
             /\ wk' = [wk EXCEPT ![r] = [next EXCEPT
                         !.pc = IF wk[r].ep = "generatable" THEN "lookup" ELSE "notFound"]]
          \/ /\ a = "error"
             /\ wk' = [wk EXCEPT ![r] = [next EXCEPT !.pc = "failed", !.fault = TRUE]]
    /\ UNCHANGED <<cache, clock>>

\* Bug: the cache is good for whatever URL is configured now.
CacheHitAnyURL(u) == cache.doc # Nil /\ clock - cache.time < TTL

CacheHit(u) == cache.doc # Nil /\ cache.url = u /\ clock - cache.time < TTL

\* Bug: the shared map itself is handed out.
Share(r, doc) ==
    wk' = [wk EXCEPT ![r].pc = "override", ![r].doc = doc, ![r].url = NoURL]

\* copyMap, by the request that will change the copy.
CopyMap(r, doc) ==
    wk' = [wk EXCEPT ![r].pc = "override", ![r].doc = doc, ![r].own = TRUE,
                     ![r].url = NoURL]

\* fetchOpenIDConfiguration, up to the end of its read lock: the URL is loaded
\* again.
LookUp(r) ==
    /\ wk[r].pc = "lookup"
    /\ \/ CacheHit(authorizationURL) /\ CopyMap(r, cache.doc)
       \/ /\ ~CacheHit(authorizationURL)
          /\ wk' = [wk EXCEPT ![r].pc = "miss", ![r].url = authorizationURL]
    /\ UNCHANGED <<cache, clock>>

\* oidcConfigFlight.Do: the first to miss fetches, the others wait for it.
Join(r) ==
    /\ wk[r].pc = "miss"
    /\ wk' = [wk EXCEPT ![r].pc = "waiting"]
    /\ UNCHANGED <<cache, clock>>

Flight(u) == {r \in Requests : wk[r].pc = "waiting" /\ wk[r].url = u}

\* Bug: the fetch has the context of a request, and fails when its client goes
\* away.
FlightContextRequest(u) == \A r \in Flight(u) : ~wk[r].gone

\* context.WithoutCancel: the fetch does not depend on who asked for it.
FlightContext(u) == TRUE

\* All who wait for u go on: to pc, with what the fetch returned.
Deliver(u, pc, doc) ==
    wk' = [r \in Requests |->
      IF r \in Flight(u)
      THEN [wk[r] EXCEPT !.pc = pc, !.url = NoURL, !.doc = doc,
                         !.fault = pc = "failed" /\ FlightContext(u)]
      ELSE wk[r]]

\* fetchOpenIDConfiguration returns nil and the request is not found.
AbsentIs == "notFound"

\* The fetch for u ends.  A document is cached first, as a map of its own; an
\* absent one and a failure are not remembered.  Without a URL the fetch cannot
\* be made.
EndFlight(u, a) ==
    /\ Flight(u) # {}
    /\ u = NoURL \/ ~FlightContext(u) => a = "error"
    /\ \/ /\ a = "document"
          /\ Deliver(u, "got", Fetched(u))
          /\ cache' = [doc |-> Fetched(u), url |-> u, time |-> clock]
       \/ /\ a = "absent"
          /\ Deliver(u, AbsentIs, Nil)
          /\ UNCHANGED cache
       \/ /\ a = "error"
          /\ Deliver(u, "failed", Nil)
          /\ UNCHANGED cache
    /\ UNCHANGED clock

\* The value of a flight is shared by all who waited: each copies it.
TakeResult(r) ==
    /\ wk[r].pc = "got"
    /\ CopyMap(r, wk[r].doc)
    /\ UNCHANGED <<cache, clock>>

Overridden(d, s) ==
    [d EXCEPT !.scopes = IF s.scopes = NoOverride THEN @ ELSE s.scopes,
              !.registration = @ /\ ~s.noRegistration]

\* applyConfigOverrides and the answer.  The map is changed in place: when it
\* is not the request's own, for the cache and for the others who hold it too.
Override(r) ==
    /\ wk[r].pc = "override"
    /\ LET d == wk[r].doc
           e == Overridden(d, content[oauthState].oauth)
           same == IF wk[r].own THEN {r}
                   ELSE {r} \cup {q \in Requests : wk[q].doc = d /\ ~wk[q].own}
       IN /\ wk' = [q \in Requests |->
               IF q = r THEN [wk[q] EXCEPT !.pc = "ok", !.doc = e, !.snap = oauthState]
               ELSE IF q \in same THEN [wk[q] EXCEPT !.doc = e]
               ELSE wk[q]]
          /\ cache' = IF ~wk[r].own /\ cache.doc = d THEN [cache EXCEPT !.doc = e]
                      ELSE cache
    /\ UNCHANGED clock

\* The response is written.
Finish(r) ==
    /\ wk[r].pc \in {"ok", "notFound", "failed"}
    /\ wk' = [wk EXCEPT ![r] = NotServed]
    /\ UNCHANGED <<cache, clock>>

ClientGoesAway(r) ==
    /\ wk[r].pc \in {"direct", "waiting"}
    /\ ~wk[r].gone
    /\ wk' = [wk EXCEPT ![r].gone = TRUE]
    /\ UNCHANGED <<cache, clock>>

Tick ==
    /\ clock < MaxTime
    /\ clock' = clock + 1
    /\ UNCHANGED <<cache, wk>>

\* A reload step, noted by the requests that are being served (history).
NoteReload ==
    /\ wk' = [r \in Requests |->
         IF wk[r].since = {} THEN wk[r]
         ELSE [wk[r] EXCEPT !.since = @ \cup {oauthState'}]]
    /\ UNCHANGED <<cache, clock>>

-----------------------------------------------------------------------------
(***************************************************************************)
(* Properties.                                                             *)
(***************************************************************************)
Served == {r \in Requests : wk[r].pc = "ok"}

\* Metadata is never of an issuer that was replaced before the request came:
\* neither the cache nor a fetch begun by another request, for an issuer that
\* a reload has replaced or taken back, answers for the current one.
IssuerOfItsTime ==
    \A r \in Served :
        wk[r].doc.of \in {content[c].oauth.url : c \in wk[r].since} \ {NoURL}

\* The overrides a request writes into a document are seen by nobody else: what
\* is served has the upstream's own scopes and registration endpoint except
\* where the snapshot this request loaded says otherwise, whoever else holds
\* the cached document or the result of the same fetch.
OverridesAreOnesOwn ==
    \A r \in Served :
        LET s == content[wk[r].snap].oauth
        IN /\ wk[r].doc.scopes = s.scopes
           /\ wk[r].doc.registration = ~s.noRegistration

\* What is served was fetched less than the cache's lifetime before the
\* request came, or later.
NothingStaleIsServed ==
    \A r \in Served : wk[r].doc.at + TTL > wk[r].asked

\* What the proxy serves is the metadata of its time: of the issuer and of the age
\* the cache promises.
MetadataIsCurrent == IssuerOfItsTime /\ NothingStaleIsServed

\* A request whose client is still there fails only when the authorization
\* server failed it: not when the client of the request that fetches for
\* everybody goes away.
FailsOnlyWithUpstream ==
    \A r \in Requests : wk[r].pc = "failed" /\ ~wk[r].gone => wk[r].fault
=============================================================================
