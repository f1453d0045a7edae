---------------------------- MODULE RequestLimits ----------------------------
(***************************************************************************)
(* The two limits a request passes on its way to a handler                 *)
(* (pkg/mcp/middleware.go): max_in_flight, one pool of slots shared by      *)
(* tools/call, prompts/get and resources/read, and the per-session rate     *)
(* limit.  The SDK makes the middleware added last the outermost one, so a  *)
(* request takes its slot first (NewServer adds inFlightMiddleware after    *)
(* rateLimitingMiddleware) and gives it back when it is rate limited.       *)
(*                                                                         *)
(* Both read the live configuration, an atomic pointer a reload replaces    *)
(* at any time: the slot pool while it holds its mutex, the rate limiter    *)
(* before it takes its own.  The steps of a request are cut at those points.*)
(*                                                                         *)
(* golang.org/x/time/rate is external: a limiter is a bucket of at most     *)
(* `burst' tokens that gains `rate' tokens a tick.  The tick is the unit in *)
(* which ReapAge (ten minutes in the code) is counted; rate limits below    *)
(* one token a tick are not represented.  The reaper's ticker is left free: *)
(* it may look at the map at any time.  No tick passes between a request's  *)
(* unlock and its Allow: these are adjacent instructions and a tick is      *)
(* minutes.                                                                 *)
(***************************************************************************)
EXTENDS Integers, FiniteSets

CONSTANTS
  Calls,         \* concurrent requests
  Sessions,      \* session ids
  NoSession,     \* a request without a session id (STDIO)
  Configs,       \* configurations: [cap, rate, burst]; cap or rate 0 disables
  DefaultBurst,  \* config.DefaultRateLimitBurst
  ReapAge,       \* idle ticks after which an entry may be reaped
  MaxReloads,    \* bound on configuration reloads
  None

ASSUME LimitsAssumption ==
  /\ IsFiniteSet(Calls) /\ IsFiniteSet(Sessions)
  /\ None \notin Nat
  /\ NoSession \notin Sessions
  /\ Configs # {} /\ \A c \in Configs : c.cap \in Nat /\ c.rate \in Nat /\ c.burst \in Nat
  /\ DefaultBurst \in Nat \ {0}
  /\ ReapAge \in Nat
  /\ MaxReloads \in Nat

VARIABLES
  configuration, \* s.configuration, the live configuration
  reloads,       \* reloads so far
  pc,            \* where each request is
  method,        \* "limited" (tools/call, prompts/get, resources/read) or "other"
  session,       \* the session of each request
  limit,         \* the cap a request read while holding the pool's mutex
  conf,          \* the <<rate, burst>> a request read
  held,          \* the limiter a request is about to ask
  inFlight,      \* inFlightMiddleware's counter
  current,       \* rateLimitingMiddleware's currentLimit, currentBurst
  limiters,      \* session -> limiter, None when the map has no entry
  age,           \* session -> ticks since the entry's lastSeen, at most ReapAge + 1
  tokens,        \* limiter -> its tokens
  old,           \* history: requests holding or taking a slot at the last reload
  ideal,         \* history: session -> tokens of a bucket nobody ever discards
  crossed        \* history: the rate limit changed under a request, or back

poolVars == <<method, limit, inFlight, old>>
rateVars == <<session, conf, held, current, limiters, age, tokens, ideal, crossed>>
limitsVars == <<configuration, reloads, pc, poolVars, rateVars>>

\* Limiters in use: one per session in the map and one per request holding one.
Limiters == 1 .. Cardinality(Sessions) + Cardinality(Calls)

\* The rate limit and burst configFn returns; an unset burst is the default.
RateConfig(c) == <<c.rate, IF c.burst = 0 THEN DefaultBurst ELSE c.burst>>
RateConfigs == {RateConfig(c) : c \in Configs}
Rate(rc) == rc[1]
Burst(rc) == rc[2]
MinOf(a, b) == IF a < b THEN a ELSE b

\* The requests that hold a slot.
Slots == {c \in Calls : method[c] = "limited" /\ pc[c] \in {"enter", "lock", "ask", "run"}}

\* The requests past the limit read and not yet counted: the mutex holder.
Acquiring == {c \in Calls : pc[c] = "acquire"}

LimitsInit ==
  /\ configuration \in Configs
  /\ reloads = 0
  /\ pc = [c \in Calls |-> "idle"]
  /\ method = [c \in Calls |-> "other"]
  /\ session = [c \in Calls |-> NoSession]
  /\ limit = [c \in Calls |-> 0]
  /\ conf = [c \in Calls |-> <<0, 0>>]
  /\ held = [c \in Calls |-> None]
  /\ inFlight = 0
  /\ current = <<0, 0>>
  /\ limiters = [s \in Sessions |-> None]
  /\ age = [s \in Sessions |-> 0]
  /\ tokens = [l \in Limiters |-> [conf |-> <<0, 0>>, left |-> 0]]
  /\ old = {}
  /\ ideal = [s \in Sessions |-> Burst(RateConfig(configuration))]
  /\ crossed = FALSE

-----------------------------------------------------------------------------
(* The pool of slots. *)

ReachRateLimit(c) == pc' = [pc EXCEPT ![c] = "enter"]

\* A request arrives; methods that are not limited skip the pool.
Arrive(c, s) ==
  /\ pc[c] = "idle"
  /\ \/ method' = [method EXCEPT ![c] = "other"] /\ ReachRateLimit(c)
     \/ method' = [method EXCEPT ![c] = "limited"] /\ pc' = [pc EXCEPT ![c] = "arrived"]
  /\ session' = [session EXCEPT ![c] = s]
  /\ UNCHANGED <<configuration, reloads, limit, inFlight, old,
                 conf, held, current, limiters, age, tokens, ideal, crossed>>

\* Mutant: the limit is read before the mutex is taken.
ReadLimitUnlocked(c) ==
  /\ pc[c] = "arrived"
  /\ limit' = [limit EXCEPT ![c] = configuration.cap]
  /\ pc' = [pc EXCEPT ![c] = "acquire"]
  /\ UNCHANGED <<configuration, reloads, method, inFlight, old, rateVars>>

\* mu.Lock(); limit := limitFn()
ReadLimit(c) ==
  /\ pc[c] = "arrived"
  /\ Acquiring = {}
  /\ limit' = [limit EXCEPT ![c] = configuration.cap]
  /\ pc' = [pc EXCEPT ![c] = "acquire"]
  /\ UNCHANGED <<configuration, reloads, method, inFlight, old, rateVars>>

Full(c) == limit[c] > 0 /\ inFlight >= limit[c]

\* Count the request in, or answer CodeInFlightLimitExceeded; mu.Unlock().
Acquire(c) ==
  /\ pc[c] = "acquire"
  /\ \/ /\ Full(c)
        /\ pc' = [pc EXCEPT ![c] = "idle"]
        /\ session' = [session EXCEPT ![c] = NoSession]
        /\ UNCHANGED inFlight
     \/ ~Full(c) /\ ReachRateLimit(c) /\ inFlight' = inFlight + 1 /\ UNCHANGED session
  /\ limit' = [limit EXCEPT ![c] = 0]
  /\ UNCHANGED <<configuration, reloads, method, old,
                 conf, held, current, limiters, age, tokens, ideal, crossed>>

\* The request leaves both middlewares: the deferred decrement, made with the
\* pool's mutex, and its locals are gone.
Leave(c) ==
  /\ method[c] = "limited" => Acquiring = {}
  /\ pc' = [pc EXCEPT ![c] = "idle"]
  /\ inFlight' = IF method[c] = "limited" THEN inFlight - 1 ELSE inFlight
  /\ session' = [session EXCEPT ![c] = NoSession]
  /\ conf' = [conf EXCEPT ![c] = <<0, 0>>]

-----------------------------------------------------------------------------
(* The per-session rate limit. *)

\* configFn(); a disabled limit or a request without a session passes through.
ReadConfig(c) ==
  /\ pc[c] = "enter"
  /\ conf' = [conf EXCEPT ![c] = RateConfig(configuration)]
  /\ pc' = [pc EXCEPT ![c] = IF configuration.rate = 0 \/ session[c] = NoSession
                             THEN "run" ELSE "lock"]
  /\ UNCHANGED <<configuration, reloads, poolVars, session, held, current, limiters,
                 age, tokens, ideal, crossed>>

\* The map after a request with configuration rc has cleared it if need be.
Kept(rc) == IF rc = current THEN limiters ELSE [s \in Sessions |-> None]

\* A limiter that neither the map m nor a request other than c refers to.
FreshLimiter(c, m) ==
  CHOOSE l \in Limiters :
    (\A s \in Sessions : m[s] # l) /\ (\A d \in Calls \ {c} : held[d] # l)

\* Mutant: the bucket that is found is the one of whichever session came last.
FindAnyLimiter(c) ==
  LET s == session[c]
      m == Kept(conf[c])
      used == {m[t] : t \in Sessions} \ {None}
      l == IF used = {} THEN FreshLimiter(c, m) ELSE CHOOSE u \in used : TRUE
  IN /\ pc[c] = "lock"
     /\ current' = conf[c]
     /\ limiters' = [m EXCEPT ![s] = l]
     /\ tokens' = IF used = {}
                  THEN [tokens EXCEPT ![l] = [conf |-> conf[c], left |-> Burst(conf[c])]]
                  ELSE tokens
     /\ age' = [t \in Sessions |-> IF t = s \/ m[t] = None THEN 0 ELSE age[t]]
     /\ held' = [held EXCEPT ![c] = l]
     /\ pc' = [pc EXCEPT ![c] = "ask"]
     /\ UNCHANGED <<configuration, reloads, poolVars, session, conf, ideal, crossed>>

\* The critical section: discard every limiter if the request's configuration
\* is not the current one, then find or create the session's limiter.
FindLimiter(c) ==
  LET s == session[c]
      m == Kept(conf[c])
      l == IF m[s] = None THEN FreshLimiter(c, m) ELSE m[s]
  IN /\ pc[c] = "lock"
     /\ current' = conf[c]
     /\ limiters' = [m EXCEPT ![s] = l]
     /\ tokens' = IF m[s] = None
                  THEN [tokens EXCEPT ![l] = [conf |-> conf[c], left |-> Burst(conf[c])]]
                  ELSE tokens
     /\ age' = [t \in Sessions |-> IF t = s \/ m[t] = None THEN 0 ELSE age[t]]
     /\ held' = [held EXCEPT ![c] = l]
     /\ pc' = [pc EXCEPT ![c] = "ask"]
     /\ UNCHANGED <<configuration, reloads, poolVars, session, conf, ideal, crossed>>

\* entry.limiter.Allow(), after the unlock: a token is taken and the request
\* goes on, or it is answered CodeRateLimitExceeded and leaves.  Requests that
\* read the live configuration count against the ideal bucket.
Allow(c) ==
  LET l == held[c] IN
  /\ pc[c] = "ask"
  /\ \/ /\ tokens[l].left > 0
        /\ tokens' = [tokens EXCEPT ![l].left = @ - 1]
        /\ ideal' = IF conf[c] = RateConfig(configuration) /\ ~crossed
                    THEN [ideal EXCEPT ![session[c]] = @ - 1] ELSE ideal
        /\ pc' = [pc EXCEPT ![c] = "run"]
        /\ UNCHANGED <<inFlight, session, conf>>
     \/ /\ tokens[l].left = 0
        /\ Leave(c)
        /\ UNCHANGED <<tokens, ideal>>
  /\ held' = [held EXCEPT ![c] = None]
  /\ UNCHANGED <<configuration, reloads, method, limit, old, current, limiters, age, crossed>>

\* The handler returns or panics.
Finish(c) ==
  /\ pc[c] = "run"
  /\ Leave(c)
  /\ UNCHANGED <<configuration, reloads, method, limit, old, held, current,
                 limiters, age, tokens, ideal, crossed>>

\* Mutant: an entry is reaped one tick early.
StaleEarly(s) == age[s] >= ReapAge

Stale(s) == age[s] > ReapAge

\* A round of the reaper.
Reap ==
  /\ limiters' = [s \in Sessions |-> IF Stale(s) THEN None ELSE limiters[s]]
  /\ age' = [s \in Sessions |-> IF Stale(s) THEN 0 ELSE age[s]]
  /\ limiters' # limiters
  /\ UNCHANGED <<configuration, reloads, pc, poolVars, session, conf, held,
                 current, tokens, ideal, crossed>>

-----------------------------------------------------------------------------
(* The environment: time passes and the configuration is reloaded. *)

Refill(left, rc) == MinOf(left + Rate(rc), Burst(rc))

Tick ==
  /\ \A c \in Calls : pc[c] # "ask"
  /\ tokens' = [l \in Limiters |->
                 [tokens[l] EXCEPT !.left = Refill(@, tokens[l].conf)]]
  /\ ideal' = [s \in Sessions |-> IF crossed THEN ideal[s] ELSE Refill(ideal[s], RateConfig(configuration))]
  /\ age' = [s \in Sessions |->
              IF limiters[s] = None THEN 0 ELSE MinOf(age[s] + 1, ReapAge + 1)]
  /\ UNCHANGED <<configuration, reloads, pc, poolVars, session, conf, held,
                 current, limiters, crossed>>

\* A reload commits.  The ideal buckets start over when the rate limit changed.
\* A request that read the previous limit and still has to take the mutex will
\* discard the new limiters, and one between the unlock and Allow holds an old
\* one; a limit that is restored before any request came under the other one
\* finds its limiters where they were.
Reload(cfg) ==
  /\ reloads < MaxReloads
  /\ cfg # configuration
  /\ configuration' = cfg
  /\ reloads' = reloads + 1
  /\ old' = Slots \cup Acquiring
  /\ ideal' = IF RateConfig(cfg) = RateConfig(configuration) THEN ideal
              ELSE [s \in Sessions |-> Burst(RateConfig(cfg))]
  /\ crossed' = IF RateConfig(cfg) = RateConfig(configuration) THEN crossed
                ELSE current = RateConfig(cfg) \/ \E c \in Calls : pc[c] \in {"lock", "ask"}
  /\ UNCHANGED <<pc, method, limit, inFlight, session, conf, held, current,
                 limiters, age, tokens>>

LimitsNext ==
  \/ \E c \in Calls :
       \/ \E s \in Sessions \cup {NoSession} : Arrive(c, s)
       \/ ReadLimit(c) \/ Acquire(c)
       \/ ReadConfig(c) \/ FindLimiter(c) \/ Allow(c) \/ Finish(c)
  \/ Reap
  \/ Tick
  \/ \E cfg \in Configs : Reload(cfg)

LimitsSpec == LimitsInit /\ [][LimitsNext]_limitsVars

-----------------------------------------------------------------------------
(* Properties. *)

LimitsTypeOK ==
  /\ configuration \in Configs
  /\ reloads \in 0 .. MaxReloads
  /\ pc \in [Calls -> {"idle", "arrived", "acquire", "enter", "lock", "ask", "run"}]
  /\ method \in [Calls -> {"limited", "other"}]
  /\ session \in [Calls -> Sessions \cup {NoSession}]
  /\ limit \in [Calls -> Nat]
  /\ conf \in [Calls -> RateConfigs \cup {<<0, 0>>}]
  /\ held \in [Calls -> Limiters \cup {None}]
  /\ inFlight \in Nat
  /\ current \in RateConfigs \cup {<<0, 0>>}
  /\ limiters \in [Sessions -> Limiters \cup {None}]
  /\ age \in [Sessions -> 0 .. ReapAge + 1]
  /\ old \subseteq Calls

\* The counter is the number of requests holding a slot, whichever way each one
\* leaves: its handler returns or panics, or the rate limiter turns it away.
CounterIsSlots == inFlight = Cardinality(Slots)

\* A reload takes effect on the next call: more requests than max_in_flight run
\* only while every one of them held a slot, or was the one about to take one
\* with the mutex held, when the configuration was replaced
\* (docs/configuration.md: new calls are rejected until the number in flight
\* drops below the new cap).
OverCapOnlyBeforeReload ==
  configuration.cap > 0 /\ Cardinality(Slots) > configuration.cap => Slots \subseteq old

\* inFlightMiddleware: no slot is lost or given out twice, and the cap holds.
PoolIsSound == CounterIsSlots /\ OverCapOnlyBeforeReload

\* Discarding and reaping limiters gives no session more than its rate: the
\* requests let through under the live configuration would also have passed a
\* bucket that is kept for ever ("Maximum burst size for rate limiting",
\* docs/configuration.md).  It holds as long as no request had read the limit, and
\* not yet asked, when it changed: such a request discards the limiters of the new one,
\* and the next request discards them again.
BurstRespected == ~crossed => \A s \in Sessions : ideal[s] >= 0

\* A session is turned away only for its own requests: its ideal bucket is
\* empty when the rate limiter rejects a request of the live configuration.
RejectedForOwnRequests ==
  [][\A c \in Calls : pc[c] = "ask" /\ pc'[c] = "idle" /\ conf[c] = RateConfig(configuration) /\ ~crossed =>
       ideal[session[c]] <= 0]_limitsVars
=============================================================================
