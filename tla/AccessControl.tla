---------------------------- MODULE AccessControl ----------------------------
(***************************************************************************)
(* The round tripper every Kubernetes request goes through                  *)
(* (pkg/kubernetes/accesscontrol_round_tripper.go): which resource a URL     *)
(* addresses, whether it exists and is denied, and the validators before it  *)
(* is sent: RBAC review, schema with its shared cache, confirmation, EULA.    *)
(* Requests run concurrently with each other, with reloads, and with a        *)
(* cluster that gets new APIs.                                               *)
(*                                                                         *)
(* A group stands for a group and version.  A path is the sequence of its     *)
(* segments.                                                                *)
(***************************************************************************)
EXTENDS Integers, Sequences

CONSTANTS
  Callers,     \* goroutines that send requests with one client
  CallsOf,     \* what each may send: [Callers -> SUBSET Call]
  Prefix,      \* the path of the API server's URL
  Configs,     \* denied resources, confirmation rules and fallback, validation
  Entries,     \* what discovery may come to list: group, res, sub, kind
  AtFirst,     \* what it lists at first
  Upgrades,    \* sets of entries that are installed together
  Granted,     \* what RBAC grants: <<verb, group, res, sub>>
  MaxSchemas,  \* bound on the schemas that are fetched
  MaxRequests, \* bound on the requests that are sent, reviews aside
  MaxChanges   \* bound on what else happens: reloads, upgrades, resets, expiry

ASSUME AccessAssumption ==
  /\ AtFirst \subseteq Entries /\ AtFirst # {}
  /\ Upgrades \subseteq SUBSET Entries
  /\ MaxSchemas \in Nat \ {0} /\ MaxRequests \in Nat /\ MaxChanges \in Nat

\* A resource has one kind, and an entry of its own besides those of its
\* subresources.
ASSUME EntriesAssumption ==
  /\ \A e, f \in Entries :
       e.group = f.group /\ e.res = f.res /\ {e.sub, f.sub} = {""} /\ "" \notin {e.kind, f.kind}
         => e.kind = f.kind
  /\ \A e \in Entries :
       e.group = "tekton.dev" /\ e.res = "pipelineruns" /\ e.sub = "" => e.kind = "PipelineRun"

\* The program does not tell a subresource of a namespace from a resource in it.
Misread(c) == c.ns = "" /\ c.res = "namespaces" /\ c.sub # ""

\* A request that Kubernetes clients make: a subresource is one of an object, a
\* namespace is in no namespace, no resource has the name of a subresource of
\* namespaces, and only a pipeline run names Windows images.
IsCall(c) ==
  /\ c.method \in {"GET", "POST", "PUT", "PATCH", "DELETE"}
  /\ c.group # "namespaces"
  /\ c.sub # "" => c.name # ""
  /\ c.res = "namespaces" => c.ns = ""
  /\ Misread(c) => \A e \in Entries : e.group = c.group => e.res # c.sub
  /\ c.body = "windows" => /\ c.group = "tekton.dev" /\ c.res = "pipelineruns"
                           /\ c.method \in {"POST", "PUT", "PATCH"}

ASSUME CallsAssumption ==
  /\ Prefix \in Seq(STRING)
  /\ \A x \in Callers : \A c \in CallsOf[x] : IsCall(c)

\* A request of a caller, and the access review its validator may send.
Procs == Callers \X {"call", "review"}
Review(p) == <<p[1], "review">>
NoProc == <<>>

VARIABLES
  proc,     \* the requests
  left,     \* how many more requests and changes may come
  live,     \* the configuration of the client
  valid,    \* validatorsCfg: whose validators are cached; {} at first
  served,   \* what the API server serves
  mapper,   \* what the RESTMapper knows, {} before it has asked
  raw,      \* rawDiscoveryCache.cache
  schema,   \* openAPISchemaCache: [id, expired], id 0 when empty
  flight    \* who fetches the schema, NoProc when nobody does

vars == <<proc, left, live, valid, served, mapper, raw, schema, flight>>

Idle == [pc |-> "idle"]

Init ==
  /\ proc = [p \in Procs |-> Idle] /\ left = [requests |-> MaxRequests, changes |-> MaxChanges]
  /\ live \in Configs /\ valid = {}
  /\ served = AtFirst /\ mapper = {} /\ raw = <<>>
  /\ schema = [id |-> 0, expired |-> FALSE] /\ flight = NoProc

-----------------------------------------------------------------------------
(* URLs. *)

Segment(s) == IF s = "" THEN <<>> ELSE <<s>>

\* The path of a request for a resource, or of another endpoint.
Path(c) ==
  Prefix \o (IF c.res = "" THEN <<"openapi", "v2">>
             ELSE (IF c.group = "" THEN <<"api", "v1">> ELSE <<"apis", c.group, "v1">>)
                  \o (IF c.ns = "" THEN <<>> ELSE <<"namespaces", c.ns>>)
                  \o Segment(c.res) \o Segment(c.name) \o Segment(c.sub))

stripAPIPathPrefix(path) ==
  IF Len(path) >= Len(Prefix) /\ SubSeq(path, 1, Len(Prefix)) = Prefix
  THEN SubSeq(path, Len(Prefix) + 1, Len(path)) ELSE path

\* Mutant: the segment after the version is the resource.
findResourceTypeIndexFlat(p) ==
  CASE Len(p) >= 3 /\ p[1] = "api" -> 3
    [] Len(p) >= 4 /\ p[1] = "apis" -> 4
    [] OTHER -> 0

\* The place of the resource, 0 when the path has none.
findResourceTypeIndex(p) ==
  CASE Len(p) >= 3 /\ p[1] = "api" -> IF p[3] = "namespaces" /\ Len(p) > 4 THEN 5 ELSE 3
    [] Len(p) >= 4 /\ p[1] = "apis" -> IF p[4] = "namespaces" /\ Len(p) > 5 THEN 6 ELSE 4
    [] OTHER -> 0

At(p, i) == IF i <= Len(p) THEN p[i] ELSE ""

parseURLToGVR(p) ==
  [group |-> IF p[1] = "api" THEN "" ELSE p[2], res |-> p[findResourceTypeIndex(p)]]

parseSubresource(p) == At(p, findResourceTypeIndex(p) + 2)

parseURLToNamespaceAndName(p) ==
  LET at == {i \in 1 .. Len(p) - 1 : p[i] = "namespaces"}
  IN [ns |-> IF at = {} THEN "" ELSE p[(CHOOSE i \in at : \A j \in at : i <= j) + 1],
      name |-> At(p, findResourceTypeIndex(p) + 1)]

isCollectionPath(p) == findResourceTypeIndex(p) = Len(p)

httpMethodToVerb(method, p) ==
  CASE method = "GET" -> IF isCollectionPath(p) THEN "list" ELSE "get"
    [] method = "POST" -> "create"
    [] method = "PUT" -> "update"
    [] method = "PATCH" -> "patch"
    [] method = "DELETE" -> IF isCollectionPath(p) THEN "deletecollection" ELSE "delete"

\* What RoundTrip makes of the URL.
Parsed(c) ==
  LET p == stripAPIPathPrefix(Path(c)) IN
  IF findResourceTypeIndex(p) = 0 THEN [ok |-> FALSE]
  ELSE [ok |-> TRUE, group |-> parseURLToGVR(p).group, res |-> parseURLToGVR(p).res,
        ns |-> parseURLToNamespaceAndName(p).ns, name |-> parseURLToNamespaceAndName(p).name,
        sub |-> parseSubresource(p), verb |-> httpMethodToVerb(c.method, p)]

-----------------------------------------------------------------------------
(* The steps of a request. *)

\* The record with some of its fields set, or added.
With(r, fields) ==
  [f \in DOMAIN r \cup DOMAIN fields |-> IF f \in DOMAIN fields THEN fields[f] ELSE r[f]]

On(p, pc) == proc[p].pc = pc
Set(p, fields) == proc' = [proc EXCEPT ![p] = With(@, fields)]
End(p, outcome) == Set(p, [pc |-> "ended", outcome |-> outcome])

\* Discovery has an entry for the resource, or for the subresource.
Lists(entries, u) ==
  \E e \in entries : e.group = u.group /\ e.res = u.res /\ (u.sub # "" => e.sub = u.sub)

\* The group has been listed, as the cache knows or will when Store is done.
Listed(g) ==
  \/ g \in DOMAIN raw /\ raw[g] # {}
  \/ \E p \in Procs : On(p, "store") /\ proc[p].url.group = g /\ proc[p].list # {}

\* A request comes in; what is there by then is noted for the properties.
Request(c) ==
  LET u == Parsed(c) IN
  [pc |-> "resolve", call |-> c, url |-> u, outcome |-> "none",
   kind |-> "", known |-> FALSE, todo |-> <<>>, used |-> 0, list |-> {},
   prompted |-> FALSE, accepted |-> {}, unanswered |-> FALSE,
   discoveryFailed |-> FALSE, schemaFailed |-> FALSE,
   stale |-> IF schema.expired THEN schema.id ELSE 0,
   there |-> u.ok /\ Lists(served, u),
   listed |-> u.ok /\ Listed(u.group)]

Arrive(p) ==
  /\ p[2] = "call" /\ On(p, "idle")
  /\ left.requests > 0 /\ left' = [left EXCEPT !.requests = @ - 1]
  /\ \E c \in CallsOf[p[1]] : proc' = [proc EXCEPT ![p] = Request(c)]
  /\ UNCHANGED <<live, valid, served, mapper, raw, schema, flight>>

\* getGVK: the mapper asks the API server when it knows nothing yet, and not
\* again when it does not know the resource.
Resolve(p) ==
  LET u == proc[p].url
      m == IF mapper = {} THEN served ELSE mapper
      kinds == {e \in m : e.group = u.group /\ e.res = u.res /\ e.sub = "" /\ e.kind # ""}
  IN
  /\ On(p, "resolve")
  /\ \/ ~u.ok /\ End(p, "sent") /\ UNCHANGED mapper
     \/ u.ok /\ mapper = {} /\ End(p, "error") /\ UNCHANGED mapper
     \/ /\ u.ok /\ mapper' = m
        /\ IF kinds = {} THEN Set(p, [pc |-> "discover"])
           ELSE Set(p, [pc |-> "check", known |-> TRUE, kind |-> (CHOOSE e \in kinds : TRUE).kind])
  /\ UNCHANGED <<left, live, valid, served, raw, schema, flight>>

\* resourceExistsInDiscovery: the resource has no kind of its own then.
Found(p, entries) ==
  IF Lists(entries, proc[p].url) THEN Set(p, [pc |-> "check"]) ELSE End(p, "notfound")

\* Mutant: a group that is not there is remembered.
DiscoverRemembering(p) ==
  LET g == proc[p].url.group
      entries == {e \in served : e.group = g}
  IN
  /\ On(p, "discover")
  /\ \/ g \in DOMAIN raw /\ Found(p, raw[g])
     \/ g \notin DOMAIN raw /\ Set(p, [pc |-> "store", list |-> entries])
     \/ /\ g \notin DOMAIN raw /\ entries # {}
        /\ Set(p, [pc |-> "ended", outcome |-> "notfound", discoveryFailed |-> TRUE])
  /\ UNCHANGED <<left, live, valid, served, mapper, raw, schema, flight>>

\* The cached list, or one from the API server, which fails for a group it does
\* not have.
Discover(p) ==
  LET g == proc[p].url.group
      entries == {e \in served : e.group = g}
  IN
  /\ On(p, "discover")
  /\ \/ g \in DOMAIN raw /\ Found(p, raw[g])
     \/ g \notin DOMAIN raw /\ entries # {} /\ Set(p, [pc |-> "store", list |-> entries])
     \/ /\ g \notin DOMAIN raw
        /\ Set(p, [pc |-> "ended", outcome |-> "notfound", discoveryFailed |-> entries # {}])
  /\ UNCHANGED <<left, live, valid, served, mapper, raw, schema, flight>>

Store(p) ==
  /\ On(p, "store")
  /\ raw' = [g \in DOMAIN raw \cup {proc[p].url.group} |->
               IF g = proc[p].url.group THEN proc[p].list ELSE raw[g]]
  /\ Found(p, proc[p].list)
  /\ UNCHANGED <<left, live, valid, served, mapper, schema, flight>>

IsDeniedResource(cfg, group, kind) ==
  \E d \in cfg.denied : d.group = group /\ d.kind \in {"", kind}

IsReview(u) == u.group = "authorization.k8s.io" /\ u.res = "selfsubjectaccessreviews"

\* Mutant: a review is validated like any request.
CheckReviews(p) ==
  LET r == proc[p] IN
  /\ On(p, "check")
  /\ IF IsDeniedResource(live, r.url.group, r.kind)
     THEN Set(p, [pc |-> "ended", outcome |-> "denied", cfg |-> live])
     ELSE Set(p, [pc |-> "validators", cfg |-> live])
  /\ UNCHANGED <<left, live, valid, served, mapper, raw, schema, flight>>

\* The configuration is loaded once; a review is not validated.
Check(p) ==
  LET r == proc[p] IN
  /\ On(p, "check")
  /\ CASE IsDeniedResource(live, r.url.group, r.kind) ->
            Set(p, [pc |-> "ended", outcome |-> "denied", cfg |-> live])
       [] ~IsDeniedResource(live, r.url.group, r.kind) /\ IsReview(r.url) ->
            Set(p, [pc |-> "ended", outcome |-> "sent", cfg |-> live])
       [] OTHER -> Set(p, [pc |-> "validators", cfg |-> live])
  /\ UNCHANGED <<left, live, valid, served, mapper, raw, schema, flight>>

\* createAll has them sorted by name.
validatorsFromConfig(cfg) ==
  (IF cfg.validation THEN <<"rbac", "schema">> ELSE <<>>)
  \o (IF cfg.rules # {} THEN <<"confirm">> ELSE <<>>)
  \o <<"eula">>

\* Mutant: validators that were made are kept.
currentValidatorsKept(p) ==
  /\ On(p, "validators")
  /\ valid' = IF valid = {} THEN {proc[p].cfg} ELSE valid
  /\ \E v \in valid' : Set(p, [pc |-> "validate", cfg |-> proc[p].cfg, by |-> v,
                               todo |-> validatorsFromConfig(v)])
  /\ UNCHANGED <<left, live, served, mapper, raw, schema, flight>>

\* The validators of the configuration that was loaded, made when the cached ones
\* are of another.
currentValidators(p) ==
  /\ On(p, "validators")
  /\ valid' = {proc[p].cfg}
  /\ \E v \in valid' : Set(p, [pc |-> "validate", by |-> v, todo |-> validatorsFromConfig(v)])
  /\ UNCHANGED <<left, live, served, mapper, raw, schema, flight>>

Validating(p, v) == On(p, "validate") /\ proc[p].todo # <<>> /\ Head(proc[p].todo) = v
Passed(p) == [pc |-> "validate", todo |-> Tail(proc[p].todo)]

Send(p) ==
  /\ On(p, "validate") /\ proc[p].todo = <<>>
  /\ End(p, "sent")
  /\ UNCHANGED <<left, live, valid, served, mapper, raw, schema, flight>>

-----------------------------------------------------------------------------
(* RBACValidator. *)

ReviewCall == [method |-> "POST", group |-> "authorization.k8s.io", ns |-> "", name |-> "", sub |-> "",
               res |-> "selfsubjectaccessreviews", body |-> "good"]

\* CanI: the review is a request of the same client.
StartReview(p) ==
  /\ Validating(p, "rbac")
  /\ proc[Review(p)].pc = "idle"
  /\ proc' = [proc EXCEPT ![p].pc = "review", ![Review(p)] = Request(ReviewCall)]
  /\ UNCHANGED <<left, live, valid, served, mapper, raw, schema, flight>>

\* An error of the review is not one of the request.  The review names the
\* resource without its subresource.
EndReview(p) ==
  LET u == proc[p].url
      allowed == <<u.verb, u.group, u.res, "">> \in Granted
  IN
  /\ On(p, "review")
  /\ proc[Review(p)].pc = "ended"
  /\ \E result \in {"error"} \cup (IF proc[Review(p)].outcome = "sent" THEN {"answer"} ELSE {}) :
       proc' = [proc EXCEPT ![Review(p)] = Idle,
                  ![p] = With(@, IF result = "error" \/ allowed THEN Passed(p)
                                 ELSE [pc |-> "ended", outcome |-> "forbidden"])]
  /\ UNCHANGED <<left, live, valid, served, mapper, raw, schema, flight>>

-----------------------------------------------------------------------------
(* SchemaValidator and openAPISchemaCache. *)

fresh == schema.id # 0 /\ ~schema.expired

\* Validate, and the first look at the cache.  Only bodies that are created or
\* updated are validated.
Lookup(p) ==
  LET r == proc[p] IN
  /\ Validating(p, "schema")
  /\ CASE r.call.body = "none" \/ r.url.verb \notin {"create", "update"} -> Set(p, Passed(p))
       [] r.call.body # "none" /\ r.url.verb \in {"create", "update"} /\ fresh ->
            Set(p, [pc |-> "judge", used |-> schema.id])
       [] OTHER -> Set(p, [pc |-> "miss"])
  /\ UNCHANGED <<left, live, valid, served, mapper, raw, schema, flight>>

\* flight.Do: the first to come fetches, the others wait for its result.
Do(p) ==
  /\ On(p, "miss")
  /\ IF flight = NoProc
     THEN Set(p, [pc |-> "lead"]) /\ flight' = p
     ELSE Set(p, [pc |-> "wait"]) /\ UNCHANGED flight
  /\ UNCHANGED <<left, live, valid, served, mapper, raw, schema>>

Waiting(p) == {q \in Procs : q = p \/ On(q, "wait")}

\* The flight ends; everybody who waits has its result.
Land(p, fields) ==
  /\ proc' = [q \in Procs |-> IF q \in Waiting(p) THEN With(proc[q], fields) ELSE proc[q]]
  /\ flight' = NoProc

\* The second look at the cache, by the one that fetches.
Lead(p) ==
  /\ On(p, "lead")
  /\ IF fresh THEN Land(p, [pc |-> "judge", used |-> schema.id])
     ELSE Set(p, [pc |-> "fetch"]) /\ UNCHANGED flight
  /\ UNCHANGED <<left, live, valid, served, mapper, raw, schema>>

\* A schema is stored, an error is not; both go to everybody who waits.  Validate
\* reports the error as an invalid field.
Fetch(p) ==
  /\ On(p, "fetch")
  /\ \/ /\ schema' = [id |-> schema.id + 1, expired |-> FALSE]
        /\ Land(p, [pc |-> "judge", used |-> schema.id + 1])
     \/ UNCHANGED schema /\ Land(p, [pc |-> "ended", outcome |-> "invalid", schemaFailed |-> TRUE])
  /\ UNCHANGED <<left, live, valid, served, mapper, raw>>

Judge(p) ==
  /\ On(p, "judge")
  /\ IF proc[p].call.body = "bad" THEN End(p, "invalid") ELSE Set(p, Passed(p))
  /\ UNCHANGED <<left, live, valid, served, mapper, raw, schema, flight>>

-----------------------------------------------------------------------------
(* ConfirmationValidator and WindowsEULAValidator. *)

\* MatchKubeLevelRules: every field that a rule has is equal.
Matches(rule, fields) == \A f \in DOMAIN rule \cap DOMAIN fields : rule[f] \in {"", fields[f]}

NeedsAnswer(p, v) ==
  LET r == proc[p]
      fields == [verb |-> r.url.verb, kind |-> r.kind, group |-> r.url.group,
                 name |-> r.url.name, ns |-> r.url.ns]
  IN CASE v = "confirm" -> \E rule \in r.by.rules : Matches(rule, fields)
       [] v = "eula" -> /\ r.url.verb \in {"create", "update", "patch"}
                        /\ r.kind = "PipelineRun" /\ r.url.group = "tekton.dev"
                        /\ r.call.body = "windows"

\* Elicit blocks until the user answers.
Ask(p) ==
  /\ \E v \in {"confirm", "eula"} :
       /\ Validating(p, v)
       /\ Set(p, IF NeedsAnswer(p, v) THEN [pc |-> "asking", prompted |-> TRUE] ELSE Passed(p))
  /\ UNCHANGED <<left, live, valid, served, mapper, raw, schema, flight>>

\* The fallback of the rules decides for a client that cannot be asked; for the
\* EULA that is a refusal.
Answer(p) ==
  LET v == Head(proc[p].todo) IN
  /\ On(p, "asking")
  /\ \/ Set(p, With(Passed(p), [accepted |-> proc[p].accepted \cup {v}]))
     \/ End(p, "declined")
     \/ End(p, "error")
     \/ /\ v = "confirm" /\ proc[p].by.fallback = "allow"
        /\ Set(p, With(Passed(p), [unanswered |-> TRUE]))
  /\ UNCHANGED <<left, live, valid, served, mapper, raw, schema, flight>>

-----------------------------------------------------------------------------
(* The system. *)

\* The caller has its response or error.
Return(p) ==
  /\ p[2] = "call" /\ On(p, "ended")
  /\ proc' = [proc EXCEPT ![p] = Idle]
  /\ UNCHANGED <<left, live, valid, served, mapper, raw, schema, flight>>

\* What happens besides the requests.
Change == left.changes > 0 /\ left' = [left EXCEPT !.changes = @ - 1]

\* PublishKubernetesConfig.
Publish ==
  /\ Change
  /\ \E c \in Configs \ {live} : live' = c
  /\ UNCHANGED <<proc, valid, served, mapper, raw, schema, flight>>

Install ==
  /\ Change
  /\ \E u \in Upgrades : ~(u \subseteq served) /\ served' = served \cup u
  /\ UNCHANGED <<proc, live, valid, mapper, raw, schema, flight>>

\* The cluster-state watcher, or resourceFor of another call.
ResetMapper ==
  /\ Change
  /\ mapper # {} /\ mapper' = {}
  /\ UNCHANGED <<proc, live, valid, served, raw, schema, flight>>

\* schemaCacheTTL passes.
Expire ==
  /\ Change
  /\ schema.id \in 1 .. MaxSchemas - 1 /\ ~schema.expired
  /\ schema' = [schema EXCEPT !.expired = TRUE]
  /\ UNCHANGED <<proc, live, valid, served, mapper, raw, flight>>

\* What the program does for a request by itself.
Step(p) ==
  \/ Resolve(p) \/ Discover(p) \/ Store(p) \/ Check(p) \/ currentValidators(p)
  \/ StartReview(p) \/ EndReview(p)
  \/ Lookup(p) \/ Do(p) \/ Lead(p) \/ Fetch(p) \/ Judge(p) \/ Ask(p) \/ Send(p)

Next ==
  \/ \E p \in Procs : Arrive(p) \/ Step(p) \/ Answer(p) \/ Return(p)
  \/ Publish \/ Install \/ ResetMapper \/ Expire

\* Some goroutine that can run does; the user need not answer.
Spec == Init /\ [][Next]_vars /\ WF_vars(\E p \in Procs : Step(p))

-----------------------------------------------------------------------------
(* Properties. *)

Active == {p \in Procs : proc[p].pc # "idle"}
Sent == {p \in Active : proc[p].outcome = "sent" /\ proc[p].call.res # ""}

\* The kind an address has in the API, whatever the mapper knows of it.
KindOf(c) ==
  LET own == {e \in Entries : e.group = c.group /\ e.res = c.res /\ e.sub = "" /\ e.kind # ""}
  IN IF own = {} THEN "" ELSE (CHOOSE e \in own : TRUE).kind

\* The verb the API server authorizes.
VerbOf(c) ==
  CASE c.method = "GET" -> IF c.name = "" THEN "list" ELSE "get"
    [] c.method = "POST" -> "create"
    [] c.method = "PUT" -> "update"
    [] c.method = "PATCH" -> "patch"
    [] c.method = "DELETE" -> IF c.name = "" THEN "deletecollection" ELSE "delete"

NamespaceOf(c) == IF c.res = "namespaces" THEN c.name ELSE c.ns

TypeOK ==
  /\ live \in Configs /\ valid \subseteq Configs
  /\ served \subseteq Entries /\ mapper \subseteq served
  /\ \A g \in DOMAIN raw : raw[g] \subseteq served
  /\ schema.id \in 0 .. MaxSchemas /\ schema.expired \in BOOLEAN
  /\ \A p \in Procs : (flight = p) <=> proc[p].pc \in {"lead", "fetch"}
  /\ \A p \in Active : /\ proc[p].accepted \subseteq {"confirm", "eula"}
                       /\ proc[p].used \in 0 .. schema.id

\* denied_resources: no request for a denied kind is sent, whatever its URL looks
\* like, under the configuration it was checked against; one for a denied group
\* never.  A kind the mapper has not learned is only checked by its group.
DeniedIsNotSent ==
  \A p \in Sent : \A d \in proc[p].cfg.denied :
    d.group = proc[p].call.group =>
      d.kind # "" /\ (proc[p].known => d.kind # KindOf(proc[p].call))

\* Confirmation rules and the EULA, also across a reload: what a rule of the
\* request's configuration matches is sent with the user's consent, or when the
\* fallback allows it because nobody could be asked.
SentWithConsent ==
  \A p \in Sent :
    LET r == proc[p]
        fields == [verb |-> VerbOf(r.call), kind |-> KindOf(r.call), group |-> r.call.group,
                   name |-> r.call.name, ns |-> NamespaceOf(r.call)]
    IN r.known /\ ~IsReview(r.url) =>
         /\ (\E rule \in r.cfg.rules : Matches(rule, fields)) =>
              "confirm" \in r.accepted \/ (r.unanswered /\ r.cfg.fallback = "allow")
         /\ r.call.body = "windows" => "eula" \in r.accepted

\* "Schema/RBAC validators run first so the user isn't prompted for confirmation
\* on an operation that would fail anyway" (validatorsFromAccessControlConfig).
NoPromptForNothing ==
  \A p \in Active : proc[p].outcome \in {"forbidden", "invalid"} => ~proc[p].prompted

\* A resource is reported missing only when it was not there when the request
\* came, discovery failed, or its group was listed without it before
\* (rawDiscoveryCache: "newly installed API groups are discovered on the next
\* request").
NotFoundMeansMissing ==
  \A p \in Active : proc[p].outcome = "notfound" =>
    ~proc[p].there \/ proc[p].discoveryFailed \/ proc[p].listed

\* No manifest is validated with a schema that had expired when its request came,
\* also when the schema is that of another request's fetch (openAPISchemaCache).
ExpiredSchemaIsNotUsed ==
  \A p \in Active : proc[p].used # 0 => proc[p].used > proc[p].stale

\* INVALID_FIELD: "A field in the manifest doesn't exist or has the wrong type"
\* (docs/specs/validation.md:119).  The exception is a schema that could not be
\* fetched: SchemaValidator.Validate reports that error with the same code, for a
\* good manifest too, to everybody who waited for the fetch.
InvalidMeansWrong ==
  \A p \in Active : proc[p].outcome = "invalid" => proc[p].call.body = "bad" \/ proc[p].schemaFailed

Forbidden == {p \in Active : proc[p].outcome = "forbidden"}

\* RBACValidator refuses what RBAC denies.  Subresources are the exception (see
\* PermissionDeniedMeansDenied).
ForbiddenMeansDenied ==
  \A p \in {q \in Forbidden : proc[q].call.sub = ""} :
    LET c == proc[p].call IN <<VerbOf(c), c.group, c.res, c.sub>> \notin Granted

\* The user is asked for what a rule matches, and only for that which is otherwise
\* in order; nothing is sent without the answer.
ConsentIsKept == SentWithConsent /\ NoPromptForNothing

\* A refusal is never owed to what a cache has kept too long.  It is true of the
\* roles, the resources and the manifest, but in the cases the parts name: a
\* subresource that RBAC grants, a discovery that failed or had listed the group
\* before, and a schema that could not be fetched.
RefusedForAReason ==
  ForbiddenMeansDenied /\ NotFoundMeansMissing /\ ExpiredSchemaIsNotUsed /\ InvalidMeansWrong

\* "PERMISSION_DENIED: RBAC denies the requested operation"
\* (docs/specs/validation.md).
PermissionDeniedMeansDenied ==
  \A p \in Forbidden :
    LET c == proc[p].call IN <<VerbOf(c), c.group, c.res, c.sub>> \notin Granted

\* Every request ends, or waits for the user: nobody waits for a fetch that has
\* ended or for a review of a review.  Once the last of them has come, that is
\* how all of them stay.
EveryRequestEnds ==
  <>[](\A c \in Callers : proc[<<c, "call">>].pc \in {"idle", "ended", "asking"})
=============================================================================
