---------------------------- MODULE TokenExchange ----------------------------
(***************************************************************************)
(* The token-exchanging provider (pkg/kubernetes/provider_token_exchange.go, *)
(* token_exchange.go) and the exchange itself (pkg/tokenexchange): calls load *)
(* the OAuth snapshot and then the configuration, share one memoized exchange *)
(* configuration with its HTTP client, and send the caller's token to the     *)
(* token endpoint, while both are replaced and the cache is cleared.           *)
(*                                                                         *)
(* A configuration has                                                      *)
(*   exchange, mode  token_exchange is set; cluster_auth_mode                 *)
(*   url             token_url, "" for the endpoint of the OIDC provider       *)
(*   style, client   how the client authenticates; its id and secret, the        *)
(*                   audience, token types, scopes and files                   *)
(*   trust           CA file, TLS version and cipher suites                      *)
(*   requireTLS      require_tls                                               *)
(* Both are stored before the first call, so the returns for a nil one are out. *)
(* No provider in the repository has configurations per target.                 *)
(***************************************************************************)
EXTENDS Integers, Sequences

CONSTANTS
  Callers,
  Configs,
  Endpoints,   \* of the OIDC provider in a snapshot, "" when it has none
  Secure,      \* the URLs with https
  MaxCalls,    \* bound on the calls
  MaxChanges   \* bound on what else happens

Config == [exchange : BOOLEAN, mode : STRING, url : STRING, style : STRING, client : STRING,
           trust : STRING, requireTLS : BOOLEAN]

ASSUME ExchangeAssumption ==
  /\ Configs \subseteq Config /\ Endpoints \subseteq STRING
  /\ MaxCalls \in Nat /\ MaxChanges \in Nat

VARIABLES
  cfg,     \* the published configuration
  snap,    \* the endpoint in the published snapshot
  built,   \* every TargetTokenExchangeConfig there has been
  cache,   \* tokenExchangeConfigCache: [te, key], te 0 when it is empty
  call,    \* the calls of GetDerivedKubernetes
  file,    \* version of the federated token file, 0 when it is empty
  jti,     \* how many assertions were made
  spent,   \* the assertions that were sent
  left     \* how many more calls and changes may come

vars == <<cfg, snap, built, cache, call, file, jti, spent, left>>
shared == <<cfg, snap, file, jti, spent>>

Idle == [pc |-> "idle"]
Empty == [te |-> 0]

Init ==
  /\ cfg \in Configs /\ snap \in Endpoints
  /\ built = <<>> /\ cache = Empty
  /\ call = [c \in Callers |-> Idle]
  /\ file = 0 /\ jti = 0 /\ spent = {}
  /\ left = [calls |-> MaxCalls, changes |-> MaxChanges]

On(c, pc) == call[c].pc = pc
Go(c, pc) == call' = [call EXCEPT ![c].pc = pc]
\* A call ends: the bearer token the cluster's client gets, or an error.
End(c, token) == call' = [call EXCEPT ![c].pc = "ended", ![c].token = token]
Te(c) == built[call[c].te]

-----------------------------------------------------------------------------
(* The memoized configuration. *)

\* GetDerivedKubernetes loads the snapshot first; the configuration is not the
\* call's own before LoadConfig.  What the token file holds by then is noted for
\* the properties.
Start(c) ==
  /\ On(c, "idle")
  /\ left.calls > 0 /\ left' = [left EXCEPT !.calls = @ - 1]
  /\ \E bearer \in BOOLEAN :
       call' = [call EXCEPT ![c] = [pc |-> "config", snap |-> snap, bearer |-> bearer, since |-> file,
                                    cfg |-> cfg, te |-> 0, cred |-> 0, token |-> "none"]]
  /\ UNCHANGED <<cfg, snap, built, cache, file, jti, spent>>

LoadConfig(c) ==
  /\ On(c, "config")
  /\ call' = [call EXCEPT ![c].cfg = cfg, ![c].pc = "get"]
  /\ UNCHANGED <<shared, built, cache, left>>

TokenURL(conf, endpoint) == IF conf.url # "" THEN conf.url ELSE endpoint

\* Mutant: the CA file is not in the key.
newTokenExchangeConfigCacheKeyAnyCA(url, conf) ==
  [url |-> url, style |-> conf.style, client |-> conf.client, requireTLS |-> conf.requireTLS]

\* Mutant: require_tls is not in the key.
newTokenExchangeConfigCacheKeyAnyTLS(url, conf) ==
  [url |-> url, style |-> conf.style, client |-> conf.client, trust |-> conf.trust]

newTokenExchangeConfigCacheKey(url, conf) ==
  [url |-> url, style |-> conf.style, client |-> conf.client, trust |-> conf.trust,
   requireTLS |-> conf.requireTLS]

\* A new TargetTokenExchangeConfig.  idle: its client has idle connections.
Build(url, conf) ==
  [url |-> url, style |-> conf.style, client |-> conf.client, trust |-> conf.trust,
   requireTLS |-> conf.requireTLS, hasClient |-> FALSE, idle |-> FALSE]

\* CloseIdleConnections of the configuration in the cache.
CloseIdleConnections(te) ==
  IF te = 0 THEN built ELSE [built EXCEPT ![te].idle = FALSE]

clear == built' = CloseIdleConnections(cache.te) /\ cache' = Empty

getOrReplace(c, url) ==
  LET key == newTokenExchangeConfigCacheKey(url, call[c].cfg)
      hit == cache.te # 0 /\ cache.key = key
  IN
  /\ built' = IF hit THEN built
              ELSE Append(CloseIdleConnections(cache.te), Build(url, call[c].cfg))
  /\ cache' = IF hit THEN cache ELSE [te |-> Len(built) + 1, key |-> key]
  /\ call' = [call EXCEPT ![c].pc = "exchange", ![c].te = cache'.te]

getOrBuildTokenExchangeConfig(c) ==
  LET url == TokenURL(call[c].cfg, call[c].snap) IN
  /\ On(c, "get")
  /\ IF call[c].cfg.exchange /\ url # "" THEN getOrReplace(c, url)
     ELSE clear /\ Go(c, "exchange")
  /\ UNCHANGED <<shared, left>>

-----------------------------------------------------------------------------
(* The exchange. *)

\* Validate: the style is known and has the files it needs.
Valid(te) == te.style # "invalid"

SetRequireTLS(c) == built' = [built EXCEPT ![call[c].te].requireTLS = call[c].cfg.requireTLS]

\* ExchangeTokenInContext and exchangeToken up to the exchanger.
ExchangeTokenInContext(c) ==
  LET r == call[c]
      passthrough == r.bearer /\ r.cfg.mode = "passthrough"
  IN
  /\ On(c, "exchange")
  /\ CASE ~passthrough -> /\ End(c, IF ~r.bearer \/ r.cfg.mode = "kubeconfig" THEN "none" ELSE "error")
                          /\ UNCHANGED built
       [] passthrough /\ ~r.cfg.exchange -> End(c, "subject") /\ UNCHANGED built
       [] passthrough /\ r.cfg.exchange /\ r.te = 0 -> End(c, "error") /\ UNCHANGED built
       [] OTHER -> IF Valid(Te(c)) THEN SetRequireTLS(c) /\ Go(c, "client")
                   ELSE End(c, "error") /\ UNCHANGED built
  /\ UNCHANGED <<shared, cache, left>>

\* The memoized client, or a new one, for which the CA file is read.
HTTPClient(c) ==
  /\ On(c, "client")
  /\ \/ built' = [built EXCEPT ![call[c].te].hasClient = TRUE] /\ Go(c, "auth")
     \/ ~Te(c).hasClient /\ End(c, "error") /\ UNCHANGED built
  /\ UNCHANGED <<shared, cache, left>>

\* A client without an id does not authenticate.
Style(te) == IF te.client = "" THEN "params" ELSE te.style

\* The credential of a request is an assertion or what the token file holds; the
\* assertion may fail, the file be missing or empty.
WithAuth(c, assertion, token) ==
  /\ On(c, "auth")
  /\ \/ /\ Style(Te(c)) = "assertion" /\ jti' = assertion
        /\ call' = [call EXCEPT ![c].pc = "request", ![c].cred = assertion]
     \/ /\ Style(Te(c)) = "federated" /\ file # 0 /\ UNCHANGED jti
        /\ call' = [call EXCEPT ![c].pc = "request", ![c].cred = token]
     \/ Style(Te(c)) # "params" /\ End(c, "error") /\ UNCHANGED jti
     \/ Style(Te(c)) = "params" /\ Go(c, "request") /\ UNCHANGED jti
  /\ UNCHANGED <<cfg, snap, file, spent, built, cache, left>>

\* Mutant: an assertion is kept while it is valid.
injectClientAuthKept(c) == WithAuth(c, IF jti = 0 THEN 1 ELSE jti, file)

\* BuildAssertion makes an assertion for every exchange, and the file is read.
injectClientAuth(c) == WithAuth(c, jti + 1, file)

\* tlsEnforcingTransport asks for require_tls now, whoever set it last.
RoundTrip(c) ==
  /\ On(c, "request")
  /\ IF Te(c).requireTLS /\ Te(c).url \notin Secure
     THEN End(c, "error") /\ UNCHANGED spent
     ELSE /\ Go(c, "response")
          /\ spent' = IF Style(Te(c)) = "assertion" THEN spent \cup {call[c].cred} ELSE spent
  /\ UNCHANGED <<cfg, snap, file, jti, built, cache, left>>

\* doTokenExchange: the body is read, so the connection is idle again, unless
\* there was none.
Respond(c) ==
  /\ On(c, "response")
  /\ \/ /\ \E token \in {"exchanged", "error"} : End(c, token)
        /\ built' = [built EXCEPT ![call[c].te].idle = TRUE]
     \/ End(c, "error") /\ UNCHANGED built
  /\ UNCHANGED <<shared, cache, left>>

\* The derived client is made with the token; the call is over.
Return(c) ==
  /\ On(c, "ended")
  /\ call' = [call EXCEPT ![c] = Idle]
  /\ UNCHANGED <<shared, built, cache, left>>

-----------------------------------------------------------------------------
(* Reloads. *)

Change == left.changes > 0 /\ left' = [left EXCEPT !.changes = @ - 1]

\* ReloadConfig, PublishKubernetesConfig and Close.  SighupHandler has their
\* order; here each may come at any time.
Clear ==
  /\ Change /\ clear
  /\ UNCHANGED <<shared, call>>

StoreConfig ==
  /\ Change
  /\ \E new \in Configs \ {cfg} : cfg' = new
  /\ UNCHANGED <<snap, built, cache, call, file, jti, spent>>

StoreSnapshot ==
  /\ Change
  /\ \E new \in Endpoints \ {snap} : snap' = new
  /\ UNCHANGED <<cfg, built, cache, call, file, jti, spent>>

\* Another program rotates the token in the file.
RotateFile ==
  /\ Change
  /\ file' = file + 1
  /\ UNCHANGED <<cfg, snap, built, cache, call, jti, spent>>

Next ==
  \/ \E c \in Callers :
       \/ Start(c) \/ LoadConfig(c) \/ getOrBuildTokenExchangeConfig(c)
       \/ ExchangeTokenInContext(c) \/ HTTPClient(c) \/ injectClientAuth(c)
       \/ RoundTrip(c) \/ Respond(c) \/ Return(c)
  \/ Clear \/ StoreConfig \/ StoreSnapshot \/ RotateFile

Spec == Init /\ [][Next]_vars

-----------------------------------------------------------------------------
(* Properties. *)

Sent == {c \in Callers : On(c, "response")}

TypeOK ==
  /\ cfg \in Configs /\ snap \in Endpoints
  /\ cache.te \in 0 .. Len(built) /\ spent \subseteq 1 .. jti
  /\ \A c \in Callers \ {d \in Callers : On(d, "idle")} : call[c].te \in 0 .. Len(built)
  /\ cache.te # 0 => \A f \in {"url", "style", "client"} : built[cache.te][f] = cache.key[f]

\* The configuration a call shares with others is the one it would have built
\* itself from the snapshot and the configuration it loaded, whatever was
\* published since (tokenExchangeConfigCacheKey has all that Build reads).
ExchangesAsConfigured ==
  \A c \in Sent :
    /\ Te(c).url = TokenURL(call[c].cfg, call[c].snap)
    /\ \A f \in {"style", "client", "trust"} : Te(c)[f] = call[c].cfg[f]

\* require_tls: no token goes to a plain-text endpoint for a call whose own
\* configuration requires TLS, although calls share the enforcer and each sets it.
TLSIsItsOwn ==
  \A c \in Sent : call[c].cfg.requireTLS => Te(c).url \in Secure

\* With token_exchange the caller's own token is never passed to the cluster, also
\* when the snapshot is of before a reload and has no endpoint.
SubjectTokenStays ==
  \A c \in Callers : On(c, "ended") /\ call[c].token = "subject" =>
    ~call[c].cfg.exchange /\ call[c].cfg.mode = "passthrough"

\* "OIDC private_key_jwt requires the jti to be single-use" (BuildAssertion): no
\* exchange has an assertion that was sent before or that another one has.
AssertionsAreUsedOnce ==
  \A c \in Callers : On(c, "request") /\ Style(Te(c)) = "assertion" =>
    /\ call[c].cred \notin spent
    /\ \A d \in Callers \ {c} :
         On(d, "request") /\ Style(Te(d)) = "assertion" => call[d].cred # call[c].cred

\* "The file is re-read on each token request to support token rotation": no
\* token is sent that had been replaced when the call came.
FederatedTokenIsCurrent ==
  \A c \in Sent : Style(Te(c)) = "federated" => call[c].cred >= call[c].since

\* A configuration that leaves the cache, by a reload or for another one, leaves
\* it without idle connections ("the old client's connections are released
\* promptly").
DroppedIsReleased ==
  [][cache.te # 0 /\ cache'.te # cache.te => ~built'[cache.te].idle]_vars

\* The caller's token goes neither in plain text to the endpoint, where its
\* configuration forbids it, nor unexchanged to the cluster.
TokenIsGuarded == TLSIsItsOwn /\ SubjectTokenStays

\* What the server authenticates itself with is made or read for the exchange it
\* is sent in.
CredentialsAreFresh == AssertionsAreUsedOnce /\ FederatedTokenIsCurrent
=============================================================================
