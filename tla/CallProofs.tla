----------------------------- MODULE CallProofs -----------------------------
(***************************************************************************)
(* A request on its way to a handler, and the handler.                      *)
(*                                                                         *)
(* First the slot pool and the rate limit of RequestLimits, for any number  *)
(* of requests, sessions and configurations.  The rate limiter moves        *)
(* requests between the four positions that hold a slot and lets them       *)
(* leave; the pool's invariant needs nothing else of it.  The rate limit's  *)
(* own invariant, RateInv, comes after it.                                  *)
(*                                                                         *)
(* Then the handlers of ToolCalls, for any programs that are disciplined    *)
(* and any number of items in a loop.  What is left of a program is a       *)
(* sequence in which every step may follow the ones before it; running a    *)
(* step puts a program in its place that may stand there, and leaving a     *)
(* loop or a section drops a prefix.  CallInv says that, and what the steps  *)
(* that were run have left behind.                                          *)
(***************************************************************************)
EXTENDS RequestLimits, ToolDiscipline, FiniteSetTheorems, WellFoundedInduction, TLAPS

Positions == {"idle", "arrived", "acquire", "enter", "lock", "ask", "run"}

PoolTypeOK ==
  /\ configuration \in Configs
  /\ pc \in [Calls -> Positions]
  /\ method \in [Calls -> {"limited", "other"}]
  /\ limit \in [Calls -> Nat]
  /\ inFlight \in Nat
  /\ old \subseteq Calls

\* Only limited requests meet the pool, and its mutex admits one at a time.
MutexHolder ==
  /\ \A c \in Calls : pc[c] \in {"arrived", "acquire"} => method[c] = "limited"
  /\ \A c, d \in Acquiring : c = d

\* The limit the mutex holder read is the live one, or the holder was there when
\* the configuration was replaced, and then no slot has been given out since.
LimitIsLiveOrOld ==
  \A c \in Acquiring :
    limit[c] = configuration.cap \/ (c \in old /\ Slots \subseteq old)

PoolInv ==
  PoolTypeOK /\ MutexHolder /\ LimitIsLiveOrOld /\ CounterIsSlots /\ OverCapOnlyBeforeReload

\* What a step may do to the pool.
Enters(c) == Slots' = Slots \cup {c} /\ c \notin Slots /\ c \in Calls
Leaves(c) == Slots' = Slots \ {c} /\ c \in Slots /\ c \in Calls

-----------------------------------------------------------------------------
\* The slots are a finite set whose size is a number.
LEMMA SlotsFinite ==
  /\ IsFiniteSet(Slots) /\ Cardinality(Slots) \in Nat
<1>1. Slots \subseteq Calls
  BY DEF Slots
<1> QED
  BY <1>1, LimitsAssumption, FS_Subset, FS_CardinalityType

\* A slot that is taken or given back changes the count by one.
LEMMA OneSlot ==
  ASSUME NEW c
  PROVE  /\ Enters(c) => Cardinality(Slots') = Cardinality(Slots) + 1
         /\ Leaves(c) => Cardinality(Slots') = Cardinality(Slots) - 1
BY SlotsFinite, FS_AddElement, FS_RemoveElement DEF Enters, Leaves

-----------------------------------------------------------------------------
\* Initially nobody holds a slot or the mutex.
LEMMA PoolInit == LimitsInit => PoolInv
<1> SUFFICES ASSUME LimitsInit PROVE PoolInv
  OBVIOUS
<1> USE LimitsAssumption DEF LimitsInit
<1>1. Slots = {} /\ Acquiring = {}
  BY DEF Slots, Acquiring
<1>2. Cardinality(Slots) = 0
  BY <1>1, FS_EmptySet
<1>3. PoolTypeOK
  BY DEF PoolTypeOK, Positions
<1>4. MutexHolder /\ LimitIsLiveOrOld
  BY <1>1 DEF MutexHolder, LimitIsLiveOrOld
<1> QED
  BY <1>1, <1>2, <1>3, <1>4 DEF PoolInv, CounterIsSlots, OverCapOnlyBeforeReload

\* A step that keeps the configuration and the history, takes no slot and leaves
\* the mutex alone, whether or not it gives a slot back.
LEMMA QuietStep ==
  ASSUME PoolInv, UNCHANGED <<configuration, old, limit>>,
         PoolTypeOK', MutexHolder', Acquiring' = Acquiring,
         \/ Slots' = Slots /\ inFlight' = inFlight
         \/ \E c \in Calls : Leaves(c) /\ inFlight' = inFlight - 1
  PROVE  PoolInv'
<1> USE DEF PoolInv, PoolTypeOK
<1>1. Slots' \subseteq Slots
  BY DEF Leaves
<1>2. Cardinality(Slots') = inFlight' /\ Cardinality(Slots') <= Cardinality(Slots)
  <2>1. CASE Slots' = Slots /\ inFlight' = inFlight
    BY <2>1, SlotsFinite DEF CounterIsSlots
  <2>2. CASE \E c \in Calls : Leaves(c) /\ inFlight' = inFlight - 1
    BY <2>2, OneSlot, SlotsFinite DEF CounterIsSlots
  <2> QED
    BY <2>1, <2>2
<1>3. LimitIsLiveOrOld'
  BY <1>1 DEF LimitIsLiveOrOld
<1>4. OverCapOnlyBeforeReload'
  <2>1. configuration.cap \in Nat
    BY LimitsAssumption
  <2>2. Cardinality(Slots') \in Nat
    BY <1>2
  <2> QED
    BY <1>1, <1>2, <2>1, <2>2, SlotsFinite DEF OverCapOnlyBeforeReload
<1> QED
  BY <1>2, <1>3, <1>4 DEF CounterIsSlots

-----------------------------------------------------------------------------
(* One lemma per kind of step. *)

\* An arriving request touches neither the pool nor its mutex.
LEMMA ArriveStep ==
  ASSUME PoolInv, NEW c \in Calls, NEW s \in Sessions \cup {NoSession}, Arrive(c, s)
  PROVE  PoolInv'
<1> USE DEF PoolInv, PoolTypeOK, Positions, Arrive, ReachRateLimit
<1>1. PoolTypeOK'
  OBVIOUS
<1>2. MutexHolder'
  BY DEF MutexHolder, Acquiring
<1>3. Acquiring' = Acquiring
  BY DEF Acquiring
<1>4. Slots' = Slots
  BY DEF Slots
<1>5. UNCHANGED <<configuration, old, limit, inFlight>>
  OBVIOUS
<1> QED
  BY <1>1, <1>2, <1>3, <1>4, <1>5, QuietStep

\* The request that takes the mutex has just read the live cap (limitFn).
LEMMA ReadLimitStep ==
  ASSUME PoolInv, NEW c \in Calls, ReadLimit(c)
  PROVE  PoolInv'
<1> USE DEF PoolInv, PoolTypeOK, Positions, ReadLimit
<1>1. PoolTypeOK'
  BY LimitsAssumption
<1>2. Acquiring' = {c} /\ Slots' = Slots
  BY DEF Acquiring, Slots
<1>3. MutexHolder'
  BY <1>2 DEF MutexHolder
<1>4. LimitIsLiveOrOld'
  BY <1>2 DEF LimitIsLiveOrOld
<1>5. CounterIsSlots' /\ OverCapOnlyBeforeReload'
  BY <1>2 DEF CounterIsSlots, OverCapOnlyBeforeReload
<1> QED
  BY <1>1, <1>3, <1>4, <1>5

\* Counting a request in: with the live cap it stays within it; with an older one
\* the request itself was there before the reload.
LEMMA AcquireStep ==
  ASSUME PoolInv, NEW c \in Calls, Acquire(c)
  PROVE  PoolInv'
<1> USE DEF PoolInv, PoolTypeOK, Positions, Acquire, ReachRateLimit
<1>1. PoolTypeOK'
  OBVIOUS
<1>2. c \in Acquiring /\ Acquiring' = {} /\ c \notin Slots
  BY DEF Acquiring, Slots, MutexHolder
<1>3. MutexHolder' /\ LimitIsLiveOrOld'
  BY <1>2 DEF MutexHolder, LimitIsLiveOrOld
<1>4. CASE Full(c)
  <2>1. Slots' = Slots /\ inFlight' = inFlight
    BY <1>4 DEF Slots
  <2> QED
    BY <1>1, <1>3, <2>1 DEF CounterIsSlots, OverCapOnlyBeforeReload
<1>5. CASE ~Full(c)
  <2>1. Enters(c) /\ inFlight' = inFlight + 1
    BY <1>2, <1>5 DEF Enters, Slots, MutexHolder
  <2>2. Cardinality(Slots') = Cardinality(Slots) + 1
    BY <2>1, OneSlot
  <2>3. CounterIsSlots'
    BY <2>1, <2>2 DEF CounterIsSlots
  <2>4. OverCapOnlyBeforeReload'
    <3>1. CASE limit[c] = configuration.cap
      BY <1>5, <2>2, <3>1, LimitsAssumption, SlotsFinite
      DEF Full, CounterIsSlots, OverCapOnlyBeforeReload
    <3>2. CASE c \in old /\ Slots \subseteq old
      BY <2>1, <3>2 DEF Enters, OverCapOnlyBeforeReload
    <3> QED
      BY <1>2, <3>1, <3>2 DEF LimitIsLiveOrOld
  <2> QED
    BY <1>1, <1>3, <2>3, <2>4
<1> QED
  BY <1>4, <1>5

\* A request that leaves from a position holding its slot, if it is limited.
LEMMA LeaveStep ==
  ASSUME PoolInv, NEW c \in Calls, pc[c] \in {"ask", "run"},
         Leave(c), UNCHANGED <<configuration, method, limit, old>>
  PROVE  PoolInv'
<1> USE DEF PoolInv, PoolTypeOK, Positions, Leave
<1>1. MutexHolder' /\ Acquiring' = Acquiring
  BY DEF MutexHolder, Acquiring
<1>2. CASE method[c] = "limited"
  <2>1. Leaves(c) /\ inFlight' = inFlight - 1
    BY <1>2 DEF Leaves, Slots
  <2>2. inFlight' \in Nat
    <3>1. Cardinality(Slots) # 0
      BY <2>1, SlotsFinite, FS_EmptySet DEF Leaves
    <3> QED
      BY <2>1, <3>1 DEF CounterIsSlots
  <2>3. PoolTypeOK'
    BY <2>2
  <2> QED
    BY <1>1, <2>1, <2>3, QuietStep
<1>3. CASE method[c] = "other"
  <2>1. PoolTypeOK' /\ Slots' = Slots /\ inFlight' = inFlight
    BY <1>3 DEF Slots
  <2> QED
    BY <1>1, <2>1, QuietStep
<1> QED
  BY <1>2, <1>3

\* The rate limiter's steps move a request within the positions that hold a slot.
LEMMA RateLimitStep ==
  ASSUME PoolInv, NEW c \in Calls,
         \/ ReadConfig(c) \/ FindLimiter(c)
         \/ Allow(c) /\ tokens[held[c]].left > 0
  PROVE  PoolInv'
<1> USE DEF PoolInv, PoolTypeOK, Positions
<1>1. /\ pc[c] \in {"enter", "lock", "ask"}
      /\ \E q \in {"lock", "ask", "run"} : pc' = [pc EXCEPT ![c] = q]
      /\ UNCHANGED <<configuration, method, limit, old, inFlight>>
  BY DEF ReadConfig, FindLimiter, Allow, poolVars
<1>2. PoolTypeOK' /\ MutexHolder'
  BY <1>1 DEF MutexHolder, Acquiring
<1>3. Acquiring' = Acquiring /\ Slots' = Slots
  BY <1>1 DEF Acquiring, Slots
<1> QED
  BY <1>1, <1>2, <1>3, QuietStep

\* A reload moves whoever holds a slot or the mutex into the history.
LEMMA ReloadStep ==
  ASSUME PoolInv, NEW cfg \in Configs, Reload(cfg)
  PROVE  PoolInv'
<1> USE DEF PoolInv, PoolTypeOK, Reload
<1>1. Slots' = Slots /\ Acquiring' = Acquiring
  BY DEF Slots, Acquiring
<1>2. PoolTypeOK' /\ MutexHolder'
  BY <1>1 DEF Slots, Acquiring, MutexHolder
<1>3. LimitIsLiveOrOld' /\ OverCapOnlyBeforeReload' /\ CounterIsSlots'
  BY <1>1 DEF LimitIsLiveOrOld, OverCapOnlyBeforeReload, CounterIsSlots
<1> QED
  BY <1>2, <1>3

\* Steps of the reaper, of time and stuttering.
LEMMA PoolUntouched ==
  ASSUME PoolInv, UNCHANGED <<configuration, pc, method, limit, inFlight, old>>
  PROVE  PoolInv'
<1> USE DEF PoolInv, PoolTypeOK
<1>1. Slots' = Slots /\ Acquiring' = Acquiring
  BY DEF Slots, Acquiring
<1> QED
  BY <1>1 DEF MutexHolder, LimitIsLiveOrOld, OverCapOnlyBeforeReload, CounterIsSlots

\* Every step of the specification preserves the pool's invariant.
LEMMA PoolNext == PoolInv /\ [LimitsNext]_limitsVars => PoolInv'
<1> SUFFICES ASSUME PoolInv, [LimitsNext]_limitsVars PROVE PoolInv'
  OBVIOUS
<1>1. CASE \E c \in Calls, s \in Sessions \cup {NoSession} : Arrive(c, s)
  BY <1>1, ArriveStep
<1>2. CASE \E c \in Calls : ReadLimit(c)
  BY <1>2, ReadLimitStep
<1>3. CASE \E c \in Calls : Acquire(c)
  BY <1>3, AcquireStep
<1>4. ASSUME NEW c \in Calls, ReadConfig(c) \/ FindLimiter(c) PROVE PoolInv'
  BY <1>4, RateLimitStep
<1>5. ASSUME NEW c \in Calls, Allow(c) PROVE PoolInv'
  <2>1. CASE tokens[held[c]].left > 0
    BY <1>5, <2>1, RateLimitStep
  <2>2. CASE ~(tokens[held[c]].left > 0)
    <3>1. pc[c] = "ask" /\ Leave(c) /\ UNCHANGED <<configuration, method, limit, old>>
      BY <1>5, <2>2 DEF Allow
    <3> QED
      BY <3>1, LeaveStep
  <2> QED
    BY <2>1, <2>2
<1>6. ASSUME NEW c \in Calls, Finish(c) PROVE PoolInv'
  <2>1. pc[c] = "run" /\ Leave(c) /\ UNCHANGED <<configuration, method, limit, old>>
    BY <1>6 DEF Finish
  <2> QED
    BY <2>1, LeaveStep
<1>7. CASE Reap \/ Tick
  BY <1>7, PoolUntouched DEF Reap, Tick, poolVars
<1>8. CASE \E cfg \in Configs : Reload(cfg)
  BY <1>8, ReloadStep
<1>9. CASE UNCHANGED limitsVars
  BY <1>9, PoolUntouched DEF limitsVars, poolVars
<1> QED
  BY <1>1, <1>2, <1>3, <1>4, <1>5, <1>6, <1>7, <1>8, <1>9 DEF LimitsNext

\* The pool's inductive invariant holds.
LEMMA PoolInvHolds == LimitsSpec => []PoolInv
BY PoolInit, PoolNext, PTL DEF LimitsSpec

\* The counter of inFlightMiddleware is the number of requests holding a slot,
\* for any number of requests, reloads and ways of leaving.
THEOREM NoSlotIsLost == LimitsSpec => []CounterIsSlots
<1>1. PoolInv => CounterIsSlots
  BY DEF PoolInv
<1> QED
  BY <1>1, PoolInvHolds, PTL

\* max_in_flight is exceeded only by requests that were there before the reload
\* that lowered it (inFlightMiddleware).
THEOREM CapTakesEffect == LimitsSpec => []OverCapOnlyBeforeReload
<1>1. PoolInv => OverCapOnlyBeforeReload
  BY DEF PoolInv
<1> QED
  BY <1>1, PoolInvHolds, PTL

\* inFlightMiddleware for every number of requests and reloads: no slot is lost,
\* and only requests from before a reload are over the cap.
THEOREM PoolKeepsItsCap == LimitsSpec => []PoolIsSound
<1>1. PoolInv => PoolIsSound
  BY DEF PoolInv, PoolIsSound
<1> QED
  BY <1>1, PoolInvHolds, PTL

-----------------------------------------------------------------------------
(***************************************************************************)
(* The rate limit.  As long as no reload crossed a request, a session's    *)
(* limiter and the bucket nobody discards hold the same tokens: a limiter  *)
(* that is discarded or reaped was full.  That a reaped one was takes an   *)
(* age and a rate which together make up its burst.                        *)
(***************************************************************************)
Confs == RateConfigs \cup {<<0, 0>>}
live  == RateConfig(configuration)

\* A limiter refills before it is idle for long enough to be reaped.
FullBeforeReaped == \A rc \in RateConfigs : Rate(rc) > 0 => Burst(rc) <= (ReapAge + 1) * Rate(rc)

RateTypeOK ==
  /\ configuration \in Configs
  /\ pc \in [Calls -> Positions]
  /\ session \in [Calls -> Sessions \cup {NoSession}]
  /\ conf \in [Calls -> Confs]
  /\ held \in [Calls -> Limiters \cup {None}]
  /\ current \in Confs
  /\ limiters \in [Sessions -> Limiters \cup {None}]
  /\ age \in [Sessions -> 0 .. ReapAge + 1]
  /\ tokens \in [Limiters -> [conf : Confs, left : Nat]]
  /\ ideal \in [Sessions -> Int]
  /\ crossed \in BOOLEAN

\* A bucket never overflows.
BucketsBounded == \A l \in Limiters : tokens[l].left <= Burst(tokens[l].conf)

\* A request that asks is of a session and under a limit, and holds its limiter
\* within the tick in which it found it.
AskingOK ==
  \A c \in Calls :
    /\ pc[c] \in {"lock", "ask"} => session[c] \in Sessions /\ Rate(conf[c]) > 0
    /\ pc[c] = "ask" =>
         held[c] \in Limiters /\ \A s \in Sessions : limiters[s] = held[c] => age[s] = 0

\* No two sessions share a limiter.
OwnLimiters == \A s, t \in Sessions : limiters[s] = limiters[t] /\ limiters[s] # None => s = t

\* An idle entry has gained its rate for every tick of its age, or is full.
Refilled(s) ==
  LET b == tokens[limiters[s]]
  IN Rate(b.conf) > 0 /\ (age[s] * Rate(b.conf) <= b.left \/ b.left = Burst(b.conf))

EntriesRefilled == \A s \in Sessions : limiters[s] # None => Refilled(s)

\* Between changes of the limit the map and the ideal buckets agree.
AskersAreLive ==
  \A c \in Calls :
    /\ pc[c] \in {"lock", "ask"} => conf[c] = live
    /\ pc[c] = "ask" => current = live /\ held[c] = limiters[session[c]]

TracksIdeal(s) ==
  IF current = live /\ limiters[s] # None
  THEN tokens[limiters[s]].conf = live /\ ideal[s] = tokens[limiters[s]].left
  ELSE ideal[s] = Burst(live)

Tracked == ~crossed => AskersAreLive /\ \A s \in Sessions : TracksIdeal(s)

RateInv ==
  RateTypeOK /\ BucketsBounded /\ AskingOK /\ OwnLimiters /\ EntriesRefilled /\ Tracked

-----------------------------------------------------------------------------
\* Limits are numbers, and the live one is a limit.
LEMMA Limits ==
  /\ \A rc \in Confs : Rate(rc) \in Nat /\ Burst(rc) \in Nat
  /\ configuration \in Configs => live \in RateConfigs /\ live \in Confs
<1>1. \A c \in Configs : /\ RateConfig(c) \in RateConfigs
                         /\ Rate(RateConfig(c)) \in Nat /\ Burst(RateConfig(c)) \in Nat
  BY LimitsAssumption DEF RateConfigs, RateConfig, Rate, Burst
<1>2. Rate(<<0, 0>>) = 0 /\ Burst(<<0, 0>>) = 0
  BY DEF Rate, Burst
<1> QED
  BY <1>1, <1>2 DEF Confs, RateConfigs, live

\* A function's values are at most as many as its arguments.
LEMMA FewValues ==
  ASSUME NEW S, IsFiniteSet(S), NEW f, NEW T, T = {f[x] : x \in S}
  PROVE  IsFiniteSet(T) /\ Cardinality(T) <= Cardinality(S)
<1>1. [x \in S |-> f[x]] \in Surjection(S, T)
  BY DEF Surjection
<1> QED
  BY <1>1, FS_Surjection

\* There is always a limiter to spare for a session that has none.
LEMMA FreshIsFree ==
  ASSUME NEW c \in Calls, NEW s \in Sessions, NEW m, m[s] = None
  PROVE  /\ FreshLimiter(c, m) \in Limiters
         /\ \A t \in Sessions : m[t] # FreshLimiter(c, m)
         /\ \A d \in Calls \ {c} : held[d] # FreshLimiter(c, m)
<1> DEFINE A == {m[t] : t \in Sessions \ {s}}
           B == {held[d] : d \in Calls \ {c}}
<1>1. IsFiniteSet(Sessions) /\ IsFiniteSet(Calls) /\ None \notin Nat
  BY LimitsAssumption
<1>2. /\ Cardinality(Sessions) \in Nat /\ Cardinality(Calls) \in Nat
      /\ IsFiniteSet(Sessions \ {s}) /\ Cardinality(Sessions \ {s}) = Cardinality(Sessions) - 1
      /\ IsFiniteSet(Calls \ {c}) /\ Cardinality(Calls \ {c}) = Cardinality(Calls) - 1
  BY <1>1, FS_CardinalityType, FS_RemoveElement
<1>3. IsFiniteSet(A) /\ Cardinality(A) <= Cardinality(Sessions) - 1
  BY <1>2, FewValues
<1>4. IsFiniteSet(B) /\ Cardinality(B) <= Cardinality(Calls) - 1
  BY <1>2, FewValues
<1>5. IsFiniteSet(A \cup B) /\ Cardinality(A \cup B) <= Cardinality(A) + Cardinality(B)
  <2>1. IsFiniteSet(A \cap B)
    BY <1>3, FS_Subset
  <2>2. Cardinality(A \cap B) \in Nat /\ Cardinality(A) \in Nat /\ Cardinality(B) \in Nat
    BY <1>3, <1>4, <2>1, FS_CardinalityType
  <2>3. /\ IsFiniteSet(A \cup B)
        /\ Cardinality(A \cup B) = Cardinality(A) + Cardinality(B) - Cardinality(A \cap B)
    BY <1>3, <1>4, FS_Union
  <2> QED
    BY <2>2, <2>3
<1>6. Cardinality(Limiters) = Cardinality(Sessions) + Cardinality(Calls)
  <2> DEFINE n == Cardinality(Sessions) + Cardinality(Calls)
  <2>1. n \in Nat
    BY <1>2
  <2> HIDE DEF n
  <2>2. Cardinality(1 .. n) = n
    BY <2>1, FS_Interval
  <2> QED
    BY <2>2 DEF n, Limiters
<1>7. ~(Limiters \subseteq A \cup B)
  <2> SUFFICES ASSUME Limiters \subseteq A \cup B PROVE FALSE
    OBVIOUS
  <2>1. Cardinality(Limiters) <= Cardinality(A \cup B)
    BY <1>5, FS_Subset
  <2>2. Cardinality(A) \in Nat /\ Cardinality(B) \in Nat /\ Cardinality(A \cup B) \in Nat
    BY <1>3, <1>4, <1>5, FS_CardinalityType
  <2> HIDE DEF A, B
  <2> QED
    BY <1>2, <1>3, <1>4, <1>5, <1>6, <2>1, <2>2
<1>8. \E l \in Limiters : (\A t \in Sessions : m[t] # l) /\ (\A d \in Calls \ {c} : held[d] # l)
  <2>1. PICK l \in Limiters : l \notin A \cup B
    BY <1>7
  <2>2. l # None
    BY <1>1, <1>2 DEF Limiters
  <2> QED
    BY <2>1, <2>2
<1> QED
  BY <1>8 DEF FreshLimiter

-----------------------------------------------------------------------------
LEMMA NoneIsNoLimiter == None \notin Limiters
<1>1. Cardinality(Sessions) \in Nat /\ Cardinality(Calls) \in Nat
  BY LimitsAssumption, FS_CardinalityType
<1> QED
  BY <1>1, LimitsAssumption DEF Limiters

LEMMA RateInit == LimitsInit => RateInv
<1> SUFFICES ASSUME LimitsInit PROVE RateInv
  OBVIOUS
<1>1. RateTypeOK
  <2>1. /\ configuration \in Configs /\ <<0, 0>> \in Confs /\ Burst(live) \in Int
        /\ 0 \in 0 .. ReapAge + 1
    BY Limits, LimitsAssumption DEF LimitsInit, Confs
  <2> QED
    BY <2>1 DEF LimitsInit, RateTypeOK, Positions, live
<1>2. BucketsBounded
  BY DEF LimitsInit, BucketsBounded, Burst
<1> QED
  BY <1>1, <1>2 DEF LimitsInit, RateInv, AskingOK, OwnLimiters, EntriesRefilled, Tracked, AskersAreLive,
     TracksIdeal, live

\* The map, the buckets and the limit, as they are between two requests.
mapVars == <<configuration, current, limiters, age, tokens, ideal, crossed>>

\* A request moves, and neither asks nor is about to.
LEMMA MoveStep ==
  ASSUME RateInv, UNCHANGED mapVars, NEW c \in Calls, NEW q \in Positions \ {"lock", "ask"},
         pc' = [pc EXCEPT ![c] = q],
         session' \in [Calls -> Sessions \cup {NoSession}],
         conf' \in [Calls -> Confs],
         held' \in [Calls -> Limiters \cup {None}],
         \A d \in Calls \ {c} : session'[d] = session[d] /\ conf'[d] = conf[d] /\ held'[d] = held[d]
  PROVE  RateInv'
<1> USE DEF RateInv, mapVars
<1>1. /\ pc'[c] = q
      /\ \A d \in Calls \ {c} : pc'[d] = pc[d]
  BY DEF RateTypeOK
<1>2. RateTypeOK'
  BY DEF RateTypeOK
<1>3. AskingOK'
  BY <1>1 DEF AskingOK
<1>4. Tracked'
  BY <1>1 DEF Tracked, AskersAreLive, TracksIdeal, live
<1> QED
  BY <1>2, <1>3, <1>4 DEF BucketsBounded, OwnLimiters, EntriesRefilled, Refilled

\* A request takes the live limit with it, if it is of a session.
LEMMA ReadConfigRate ==
  ASSUME RateInv, NEW c \in Calls, ReadConfig(c)
  PROVE  RateInv'
<1> USE DEF RateInv
<1>1. live \in Confs /\ Rate(live) = configuration.rate /\ configuration.rate \in Nat
  BY Limits, LimitsAssumption DEF RateTypeOK, live, RateConfig, Rate
<1>2. CASE configuration.rate = 0 \/ session[c] = NoSession
  <2>1. pc' = [pc EXCEPT ![c] = "run"] /\ conf' = [conf EXCEPT ![c] = live]
    BY <1>2 DEF ReadConfig, live
  <2>2. conf' \in [Calls -> Confs] /\ \A d \in Calls \ {c} : conf'[d] = conf[d]
    BY <1>1, <2>1 DEF RateTypeOK
  <2> QED
    BY <2>1, <2>2, MoveStep DEF ReadConfig, mapVars, Positions, RateTypeOK
<1>3. CASE configuration.rate # 0 /\ session[c] # NoSession
  <2>1. /\ pc' = [pc EXCEPT ![c] = "lock"] /\ conf' = [conf EXCEPT ![c] = live]
        /\ UNCHANGED <<configuration, session, held, current, limiters, age, tokens, ideal, crossed>>
    BY <1>3 DEF ReadConfig, live
  <2>2. \A d \in Calls : /\ pc'[d] = IF d = c THEN "lock" ELSE pc[d]
                         /\ conf'[d] = IF d = c THEN live ELSE conf[d]
    BY <2>1 DEF RateTypeOK
  <2>3. session[c] \in Sessions /\ Rate(live) > 0
    BY <1>1, <1>3 DEF RateTypeOK
  <2>4. RateTypeOK'
    BY <1>1, <2>1 DEF RateTypeOK, Positions
  <2>5. AskingOK'
    BY <2>1, <2>2, <2>3 DEF AskingOK
  <2>6. Tracked'
    <3>1. live' = live
      BY <2>1 DEF live
    <3> QED
      BY <2>1, <2>2, <3>1 DEF Tracked, AskersAreLive, TracksIdeal
  <2> QED
    BY <2>1, <2>4, <2>5, <2>6 DEF BucketsBounded, OwnLimiters, EntriesRefilled, Refilled
<1> QED
  BY <1>2, <1>3

\* The critical section: a limiter that is made is nobody's, and full like the
\* ideal bucket of a session without one.
LEMMA FindLimiterRate ==
  ASSUME RateInv, NEW c \in Calls, FindLimiter(c)
  PROVE  RateInv'
<1> USE DEF RateInv
<1> DEFINE s == session[c]
           m == Kept(conf[c])
           l == IF m[s] = None THEN FreshLimiter(c, m) ELSE m[s]
<1>1. /\ pc[c] = "lock" /\ current' = conf[c]
      /\ limiters' = [m EXCEPT ![s] = l]
      /\ tokens' = IF m[s] = None
                   THEN [tokens EXCEPT ![l] = [conf |-> conf[c], left |-> Burst(conf[c])]]
                   ELSE tokens
      /\ age' = [t \in Sessions |-> IF t = s \/ m[t] = None THEN 0 ELSE age[t]]
      /\ held' = [held EXCEPT ![c] = l]
      /\ pc' = [pc EXCEPT ![c] = "ask"]
      /\ UNCHANGED <<configuration, session, conf, ideal, crossed>>
  BY DEF FindLimiter
<1>2. s \in Sessions /\ Rate(conf[c]) > 0
  BY <1>1 DEF AskingOK
<1>3. None \notin Limiters
  BY NoneIsNoLimiter
<1>4. /\ m \in [Sessions -> Limiters \cup {None}]
      /\ \A t \in Sessions : m[t] # None => m[t] = limiters[t] /\ conf[c] = current
      /\ conf[c] = current => m = limiters
  BY DEF Kept, RateTypeOK
<1>5. /\ l \in Limiters
      /\ m[s] = None => (\A t \in Sessions : m[t] # l) /\ (\A d \in Calls \ {c} : held[d] # l)
  BY <1>2, <1>4, FreshIsFree
<1> HIDE DEF l, m, s
<1>6. \A t \in Sessions : limiters'[t] = IF t = s THEN l ELSE m[t]
  BY <1>1, <1>4
<1>7. \A d \in Calls : /\ pc'[d] = IF d = c THEN "ask" ELSE pc[d]
                       /\ held'[d] = IF d = c THEN l ELSE held[d]
  BY <1>1 DEF RateTypeOK
<1>8. \A t \in Sessions : age'[t] = IF t = s \/ m[t] = None THEN 0 ELSE age[t]
  BY <1>1
<1>9. /\ m[s] = None => /\ tokens'[l] = [conf |-> conf[c], left |-> Burst(conf[c])]
                        /\ \A k \in Limiters : k # l => tokens'[k] = tokens[k]
      /\ m[s] # None => tokens' = tokens /\ l = m[s] /\ limiters[s] = l
  BY <1>1, <1>2, <1>4, <1>5 DEF RateTypeOK, l
<1>10. conf[c] \in Confs /\ Burst(conf[c]) \in Nat /\ Rate(conf[c]) \in Nat
  BY Limits DEF RateTypeOK
<1>11. RateTypeOK'
  <2>1. limiters' \in [Sessions -> Limiters \cup {None}]
    BY <1>1, <1>4, <1>5
  <2>2. tokens' \in [Limiters -> [conf : Confs, left : Nat]]
    BY <1>1, <1>5, <1>10 DEF RateTypeOK
  <2>3. age' \in [Sessions -> 0 .. ReapAge + 1]
    BY <1>1, LimitsAssumption DEF RateTypeOK
  <2> QED
    BY <1>1, <1>5, <1>10, <2>1, <2>2, <2>3 DEF RateTypeOK, Positions
<1>12. BucketsBounded'
  BY <1>9, <1>10 DEF BucketsBounded, RateTypeOK
<1>13. AskingOK'
  <2>1. ASSUME NEW d \in Calls, pc'[d] = "ask", NEW t \in Sessions, limiters'[t] = held'[d]
        PROVE  age'[t] = 0
    <3>1. CASE t = s
      BY <1>8, <3>1
    <3>2. CASE t # s
      <4>1. limiters'[t] = m[t]
        BY <1>6, <3>2
      <4>2. CASE d = c
        <5>1. m[t] = l
          BY <1>7, <2>1, <4>1, <4>2
        <5>2. m[s] # None /\ limiters[s] = l /\ limiters[t] = l
          BY <1>3, <1>4, <1>5, <1>9, <5>1
        <5> QED
          BY <1>2, <1>3, <1>5, <3>2, <5>2 DEF OwnLimiters
      <4>3. CASE d # c
        <5>1. held'[d] = held[d] /\ pc[d] = "ask" /\ held[d] \in Limiters
          BY <1>7, <2>1, <4>3 DEF AskingOK
        <5>2. m[t] = limiters[t] /\ limiters[t] = held[d]
          BY <1>3, <1>4, <2>1, <4>1, <5>1
        <5> QED
          BY <1>8, <5>1, <5>2 DEF AskingOK
      <4> QED
        BY <4>2, <4>3
    <3> QED
      BY <3>1, <3>2
  <2> QED
    BY <1>1, <1>2, <1>5, <1>7, <2>1 DEF AskingOK
<1>14. OwnLimiters'
  <2> SUFFICES ASSUME NEW t \in Sessions, NEW u \in Sessions, limiters'[t] = limiters'[u],
                      limiters'[t] # None, t # u
               PROVE  FALSE
    BY DEF OwnLimiters
  <2>1. \A v \in Sessions \ {s} : m[v] # l
    BY <1>2, <1>3, <1>4, <1>5, <1>9 DEF OwnLimiters
  <2> QED
    BY <1>4, <1>6, <2>1 DEF OwnLimiters
<1>15. EntriesRefilled'
  <2> SUFFICES ASSUME NEW t \in Sessions, limiters'[t] # None PROVE Refilled(t)'
    BY DEF EntriesRefilled
  <2>1. CASE m[s] = None /\ t = s
    <3>1. limiters'[t] = l /\ tokens'[l] = [conf |-> conf[c], left |-> Burst(conf[c])]
      BY <1>6, <1>9, <2>1
    <3>2. tokens'[limiters'[t]].conf = conf[c] /\ tokens'[limiters'[t]].left = Burst(conf[c])
      BY <3>1
    <3> QED
      BY <1>2, <3>2 DEF Refilled
  <2>2. CASE ~(m[s] = None /\ t = s)
    <3>1. /\ limiters'[t] = limiters[t] /\ limiters[t] # None /\ limiters[t] \in Limiters
          /\ tokens'[limiters[t]] = tokens[limiters[t]]
      BY <1>3, <1>4, <1>5, <1>6, <1>9, <2>2 DEF RateTypeOK
    <3>2. age'[t] = 0 \/ age'[t] = age[t]
      BY <1>8
    <3>3. Refilled(t) /\ tokens[limiters[t]].left \in Nat /\ Rate(tokens[limiters[t]].conf) \in Nat
      BY <3>1, Limits DEF EntriesRefilled, RateTypeOK
    <3>4. 0 * Rate(tokens[limiters[t]].conf) <= tokens[limiters[t]].left
      BY <3>3
    <3> QED
      BY <3>1, <3>2, <3>3, <3>4 DEF Refilled
  <2> QED
    BY <2>1, <2>2
<1>16. Tracked'
  <2> SUFFICES ASSUME ~crossed PROVE AskersAreLive' /\ \A t \in Sessions : TracksIdeal(t)'
    BY <1>1 DEF Tracked
  <2>1. live' = live /\ conf[c] = live /\ current' = live
    BY <1>1 DEF live, Tracked, AskersAreLive
  <2>2. AskersAreLive'
    <3> SUFFICES ASSUME NEW d \in Calls, d # c, pc[d] = "ask" PROVE held[d] = limiters'[session[d]]
      BY <1>1, <1>6, <1>7, <1>2, <2>1 DEF AskersAreLive, Tracked, s
    <3>1. /\ current = live /\ held[d] = limiters[session[d]] /\ session[d] \in Sessions
          /\ held[d] \in Limiters
      BY DEF Tracked, AskersAreLive, AskingOK
    <3>2. m = limiters
      BY <1>4, <2>1, <3>1
    <3> QED
      BY <1>3, <1>6, <1>9, <3>1, <3>2
  <2>3. ASSUME NEW t \in Sessions PROVE TracksIdeal(t)'
    <3>1. TracksIdeal(t)
      BY DEF Tracked
    <3>2. CASE m[s] = None /\ t = s
      <4>1. limiters'[t] = l /\ tokens'[l] = [conf |-> conf[c], left |-> Burst(conf[c])]
        BY <1>6, <1>9, <3>2
      <4>2. ideal[t] = Burst(live)
        BY <1>4, <2>1, <3>1, <3>2 DEF TracksIdeal
      <4> QED
        BY <1>1, <1>3, <1>5, <2>1, <4>1, <4>2 DEF TracksIdeal
    <3>3. CASE ~(m[s] = None /\ t = s) /\ limiters'[t] # None
      <4>1. /\ limiters'[t] = limiters[t] /\ limiters[t] # None /\ current = live
            /\ tokens'[limiters[t]] = tokens[limiters[t]]
        BY <1>3, <1>4, <1>5, <1>6, <1>9, <2>1, <3>3 DEF RateTypeOK
      <4> QED
        BY <1>1, <2>1, <3>1, <4>1 DEF TracksIdeal
    <3>4. CASE limiters'[t] = None
      <4>1. m[t] = None /\ t # s
        BY <1>3, <1>5, <1>6, <3>4
      <4>2. ideal[t] = Burst(live)
        BY <1>4, <2>1, <3>1, <4>1 DEF TracksIdeal
      <4> QED
        BY <1>1, <2>1, <3>4, <4>2 DEF TracksIdeal
    <3> QED
      BY <3>2, <3>3, <3>4
  <2> QED
    BY <2>2, <2>3
<1> QED
  BY <1>11, <1>12, <1>13, <1>14, <1>15, <1>16

\* A token is taken from both buckets; a request is turned away by an empty one.
LEMMA AllowRate ==
  ASSUME RateInv, NEW c \in Calls, Allow(c)
  PROVE  RateInv'
<1> USE DEF RateInv
<1> DEFINE l == held[c]
           s == session[c]
<1>1. /\ pc[c] = "ask" /\ l \in Limiters /\ s \in Sessions
      /\ \A t \in Sessions : limiters[t] = l => age[t] = 0
      /\ held' = [held EXCEPT ![c] = None]
      /\ UNCHANGED <<configuration, current, limiters, age, crossed>>
  BY DEF Allow, AskingOK
<1>2. CASE tokens[l].left = 0
  <2>1. /\ pc' = [pc EXCEPT ![c] = "idle"]
        /\ session' = [session EXCEPT ![c] = NoSession]
        /\ conf' = [conf EXCEPT ![c] = <<0, 0>>]
        /\ UNCHANGED <<tokens, ideal>>
    BY <1>2 DEF Allow, Leave
  <2>2. /\ session' \in [Calls -> Sessions \cup {NoSession}]
        /\ conf' \in [Calls -> Confs]
        /\ held' \in [Calls -> Limiters \cup {None}]
        /\ \A d \in Calls \ {c} : session'[d] = session[d] /\ conf'[d] = conf[d] /\ held'[d] = held[d]
    BY <1>1, <2>1 DEF RateTypeOK, Confs
  <2> QED
    BY <1>1, <2>1, <2>2, MoveStep DEF mapVars, Positions
<1>3. CASE tokens[l].left > 0
  <2>1. /\ tokens' = [tokens EXCEPT ![l].left = @ - 1]
        /\ ideal' = IF conf[c] = live /\ ~crossed THEN [ideal EXCEPT ![s] = @ - 1] ELSE ideal
        /\ pc' = [pc EXCEPT ![c] = "run"]
        /\ UNCHANGED <<session, conf>>
    BY <1>3 DEF Allow, live
  <2>2. \A d \in Calls : pc'[d] = (IF d = c THEN "run" ELSE pc[d]) /\ (d # c => held'[d] = held[d])
    BY <1>1, <2>1 DEF RateTypeOK
  <2>3. \A k \in Limiters : /\ tokens'[k].conf = tokens[k].conf
                            /\ tokens'[k].left = IF k = l THEN tokens[k].left - 1 ELSE tokens[k].left
    BY <1>1, <2>1 DEF RateTypeOK
  <2>4. RateTypeOK'
    <3>1. tokens[l] \in [conf : Confs, left : Nat] /\ tokens[l].left - 1 \in Nat
      BY <1>1, <1>3 DEF RateTypeOK
    <3>2. tokens' \in [Limiters -> [conf : Confs, left : Nat]]
      BY <1>1, <2>1, <3>1 DEF RateTypeOK
    <3>3. ideal' \in [Sessions -> Int]
      BY <1>1, <2>1 DEF RateTypeOK
    <3> QED
      BY <1>1, <2>1, <3>2, <3>3 DEF RateTypeOK, Positions
  <2>5. BucketsBounded'
    <3> SUFFICES ASSUME NEW k \in Limiters PROVE tokens'[k].left <= Burst(tokens'[k].conf)
      BY DEF BucketsBounded
    <3>1. /\ tokens[k].left \in Nat /\ Burst(tokens[k].conf) \in Nat
          /\ tokens[k].left <= Burst(tokens[k].conf)
      BY Limits DEF BucketsBounded, RateTypeOK
    <3> QED
      BY <2>3, <3>1
  <2>6. AskingOK'
    BY <1>1, <2>1, <2>2 DEF AskingOK
  <2>7. EntriesRefilled'
    <3> SUFFICES ASSUME NEW t \in Sessions, limiters[t] # None PROVE Refilled(t)'
      BY <1>1 DEF EntriesRefilled
    <3>1. limiters[t] \in Limiters /\ Refilled(t) /\ UNCHANGED <<limiters, age>>
      BY <1>1 DEF EntriesRefilled, RateTypeOK
    <3>2. CASE limiters[t] # l
      <4>1. tokens'[limiters[t]].conf = tokens[limiters[t]].conf
            /\ tokens'[limiters[t]].left = tokens[limiters[t]].left
        BY <2>3, <3>1, <3>2
      <4> QED
        BY <3>1, <4>1 DEF Refilled
    <3>3. CASE limiters[t] = l
      <4>1. age'[t] = 0 /\ tokens'[limiters'[t]].conf = tokens[l].conf /\ tokens'[limiters'[t]].left \in Nat
        BY <1>1, <2>3, <2>4, <3>1, <3>3 DEF RateTypeOK
      <4>2. Rate(tokens[l].conf) \in Nat /\ Rate(tokens[l].conf) > 0
        BY <1>1, <3>1, <3>3, Limits DEF RateTypeOK, Refilled
      <4>3. 0 * Rate(tokens[l].conf) = 0
        BY <4>2
      <4> QED
        BY <4>1, <4>2, <4>3 DEF Refilled
    <3> QED
      BY <3>2, <3>3
  <2>8. Tracked'
    <3> SUFFICES ASSUME ~crossed PROVE AskersAreLive' /\ \A t \in Sessions : TracksIdeal(t)'
      BY <1>1 DEF Tracked
    <3>1. live' = live /\ conf[c] = live /\ current = live /\ limiters[s] = l
      BY <1>1 DEF live, Tracked, AskersAreLive
    <3>2. AskersAreLive'
      BY <1>1, <2>1, <2>2, <3>1 DEF Tracked, AskersAreLive
    <3>3. ASSUME NEW t \in Sessions PROVE TracksIdeal(t)'
      <4>1. TracksIdeal(t) /\ current' = current /\ limiters' = limiters
        BY <1>1 DEF Tracked
      <4>2. ideal'[t] = IF t = s THEN ideal[t] - 1 ELSE ideal[t]
        BY <1>1, <2>1, <3>1 DEF RateTypeOK
      <4>3. CASE limiters[t] = None
        <5>1. t # s
          BY <1>1, <3>1, <4>3, NoneIsNoLimiter
        <5> QED
          BY <3>1, <4>1, <4>2, <4>3, <5>1 DEF TracksIdeal
      <4>4. CASE limiters[t] # None
        <5>1. limiters[t] \in Limiters /\ (limiters[t] = l <=> t = s)
          BY <1>1, <3>1, <4>4 DEF RateTypeOK, OwnLimiters
        <5> QED
          BY <2>3, <3>1, <4>1, <4>2, <4>4, <5>1 DEF TracksIdeal
      <4> QED
        BY <4>3, <4>4
    <3> QED
      BY <3>2, <3>3
  <2> QED
    BY <1>1, <2>4, <2>5, <2>6, <2>7, <2>8 DEF OwnLimiters
<1> QED
  BY <1>2, <1>3 DEF Allow

\* The steps of a request outside the rate limiter.
LEMMA PassRate ==
  ASSUME RateInv, NEW c \in Calls,
         \/ \E s \in Sessions \cup {NoSession} : Arrive(c, s)
         \/ ReadLimit(c) \/ Acquire(c) \/ Finish(c)
  PROVE  RateInv'
<1>1. /\ UNCHANGED mapVars
      /\ UNCHANGED held
      /\ \E q \in Positions \ {"lock", "ask"} : pc' = [pc EXCEPT ![c] = q]
      /\ session' = session \/ \E s \in Sessions \cup {NoSession} : session' = [session EXCEPT ![c] = s]
      /\ conf' = conf \/ conf' = [conf EXCEPT ![c] = <<0, 0>>]
  BY DEF Arrive, ReadLimit, Acquire, Finish, Leave, ReachRateLimit, mapVars, rateVars, Positions
<1>2. /\ session' \in [Calls -> Sessions \cup {NoSession}]
      /\ conf' \in [Calls -> Confs]
      /\ held' \in [Calls -> Limiters \cup {None}]
      /\ \A d \in Calls \ {c} : session'[d] = session[d] /\ conf'[d] = conf[d] /\ held'[d] = held[d]
  BY <1>1 DEF RateInv, RateTypeOK, Confs
<1> QED
  BY <1>1, <1>2, MoveStep

LEMMA ReapAgeIsNat == ReapAge \in Nat
BY LimitsAssumption

\* Only full limiters are reaped.
LEMMA ReapRate ==
  ASSUME FullBeforeReaped, RateInv, Reap
  PROVE  RateInv'
<1> USE DEF RateInv
<1>1. /\ \A s \in Sessions : /\ Stale(s) => limiters'[s] = None /\ age'[s] = 0
                             /\ ~Stale(s) => limiters'[s] = limiters[s] /\ age'[s] = age[s]
      /\ UNCHANGED <<configuration, pc, session, conf, held, current, tokens, ideal, crossed>>
  BY DEF Reap
<1>2. RateTypeOK'
  BY <1>1, LimitsAssumption DEF Reap, RateTypeOK
<1>3. \A s \in Sessions : limiters'[s] # None => limiters'[s] = limiters[s] /\ age'[s] = age[s]
  BY <1>1
<1>4. None \notin Limiters
  BY NoneIsNoLimiter
<1>5. ASSUME NEW s \in Sessions, limiters[s] # None, Stale(s)
      PROVE  tokens[limiters[s]].left = Burst(tokens[limiters[s]].conf)
  <2> DEFINE b == tokens[limiters[s]]
  <2>1. limiters[s] \in Limiters /\ b.left \in Nat /\ b.conf \in Confs /\ b.left <= Burst(b.conf)
    BY <1>5 DEF RateTypeOK, BucketsBounded
  <2>2. Rate(b.conf) > 0 /\ (age[s] * Rate(b.conf) <= b.left \/ b.left = Burst(b.conf))
    BY <1>5 DEF EntriesRefilled, Refilled
  <2>3. age[s] = ReapAge + 1
    BY <1>5, LimitsAssumption DEF Stale, RateTypeOK
  <2>4. Burst(b.conf) <= (ReapAge + 1) * Rate(b.conf)
    BY <2>1, <2>2 DEF FullBeforeReaped, Confs, Rate
  <2>5. Burst(b.conf) \in Nat /\ (ReapAge + 1) * Rate(b.conf) \in Nat
    BY <2>1, Limits, LimitsAssumption
  <2>6. CASE age[s] * Rate(b.conf) <= b.left
    <3> DEFINE full == (ReapAge + 1) * Rate(b.conf)
    <3>1. full <= b.left
      BY <2>3, <2>6
    <3>2. full \in Nat /\ Burst(b.conf) <= full
      BY <2>4, <2>5
    <3> HIDE DEF full
    <3> QED
      <4>1. b.left \in Nat /\ b.left <= Burst(b.conf) /\ Burst(b.conf) \in Nat
        BY <2>1, <2>5
      <4> QED
        BY <3>1, <3>2, <4>1
  <2> QED
    BY <2>2, <2>6
<1>6. AskingOK'
  BY <1>1, <1>3, <1>4 DEF AskingOK
<1>7. OwnLimiters' /\ BucketsBounded'
  BY <1>1, <1>3 DEF OwnLimiters, BucketsBounded
<1>8. EntriesRefilled'
  BY <1>1, <1>3 DEF EntriesRefilled, Refilled
<1>9. Tracked'
  <2> SUFFICES ASSUME ~crossed PROVE AskersAreLive' /\ \A t \in Sessions : TracksIdeal(t)'
    BY <1>1 DEF Tracked
  <2>1. live' = live
    BY <1>1 DEF live
  <2>2. AskersAreLive'
    <3> SUFFICES ASSUME NEW c \in Calls, pc[c] = "ask" PROVE limiters'[session[c]] = limiters[session[c]]
      BY <1>1, <2>1 DEF Tracked, AskersAreLive
    <3>1. session[c] \in Sessions /\ limiters[session[c]] = held[c]
      BY DEF Tracked, AskersAreLive, AskingOK
    <3>2. age[session[c]] = 0
      BY <3>1 DEF AskingOK
    <3> QED
      BY <1>1, <3>1, <3>2, ReapAgeIsNat DEF Stale
  <2>3. ASSUME NEW t \in Sessions PROVE TracksIdeal(t)'
    <3>1. TracksIdeal(t)
      BY DEF Tracked
    <3> QED
      BY <1>1, <1>5, <2>1, <3>1 DEF TracksIdeal
  <2> QED
    BY <2>2, <2>3
<1> QED
  BY <1>2, <1>6, <1>7, <1>8, <1>9

\* A full bucket stays full, and a bucket gains no more than the rate.
LEMMA RefillFacts ==
  ASSUME NEW rc \in Confs, NEW left \in Int
  PROVE  /\ Refill(left, rc) \in Int /\ Refill(left, rc) <= Burst(rc)
         /\ left \in Nat => Refill(left, rc) \in Nat
         /\ left = Burst(rc) => Refill(left, rc) = Burst(rc)
         /\ Refill(left, rc) = left + Rate(rc) \/ Refill(left, rc) = Burst(rc)
BY Limits DEF Refill, MinOf

\* Time refills the limiters and the ideal buckets alike.
LEMMA TickRate ==
  ASSUME RateInv, Tick
  PROVE  RateInv'
<1> USE DEF RateInv
<1>1. /\ \A c \in Calls : pc[c] # "ask"
      /\ tokens' = [l \in Limiters |-> [tokens[l] EXCEPT !.left = Refill(@, tokens[l].conf)]]
      /\ ideal' = [s \in Sessions |-> IF crossed THEN ideal[s] ELSE Refill(ideal[s], live)]
      /\ age' = [s \in Sessions |->
                   IF limiters[s] = None THEN 0 ELSE MinOf(age[s] + 1, ReapAge + 1)]
      /\ UNCHANGED <<configuration, pc, session, conf, held, current, limiters, crossed>>
  BY DEF Tick, live
<1>2. live \in Confs /\ live' = live
  BY <1>1, Limits DEF RateTypeOK, live
<1>3. \A l \in Limiters :
        /\ tokens'[l].conf = tokens[l].conf
        /\ tokens'[l].left = Refill(tokens[l].left, tokens[l].conf)
        /\ tokens'[l] \in [conf : Confs, left : Nat]
  BY <1>1, RefillFacts DEF RateTypeOK
<1>4. RateTypeOK'
  <2>1. tokens' \in [Limiters -> [conf : Confs, left : Nat]]
    BY <1>1, <1>3
  <2>2. ideal' \in [Sessions -> Int]
    BY <1>1, <1>2, RefillFacts DEF RateTypeOK
  <2>3. age' \in [Sessions -> 0 .. ReapAge + 1]
    BY <1>1, LimitsAssumption DEF RateTypeOK, MinOf
  <2> QED
    BY <1>1, <2>1, <2>2, <2>3 DEF RateTypeOK
<1>5. BucketsBounded'
  BY <1>3, RefillFacts DEF BucketsBounded, RateTypeOK
<1>6. AskingOK'
  BY <1>1 DEF AskingOK
<1>7. EntriesRefilled'
  <2> SUFFICES ASSUME NEW s \in Sessions, limiters[s] # None PROVE Refilled(s)'
    BY <1>1 DEF EntriesRefilled
  <2> DEFINE l == limiters[s]
             r == Rate(tokens[l].conf)
  <2>1. /\ l \in Limiters /\ tokens[l].left \in Nat /\ tokens[l].conf \in Confs
        /\ r \in Nat /\ r > 0 /\ age[s] \in Nat
        /\ age[s] * r <= tokens[l].left \/ tokens[l].left = Burst(tokens[l].conf)
    BY Limits, LimitsAssumption DEF RateTypeOK, EntriesRefilled, Refilled
  <2>2. age'[s] \in {age[s], age[s] + 1}
    <3>1. age[s] \in 0 .. ReapAge + 1 /\ age'[s] = MinOf(age[s] + 1, ReapAge + 1)
      BY <1>1 DEF RateTypeOK
    <3> QED
      BY <3>1, ReapAgeIsNat DEF MinOf
  <2>3. age'[s] * r <= age[s] * r + r
    BY <2>1, <2>2
  <2>4. age'[s] * r \in Int /\ age[s] * r \in Int
    BY <2>1, <2>2
  <2>5. \/ tokens'[l].left = tokens[l].left + r /\ age[s] * r <= tokens[l].left
        \/ tokens'[l].left = Burst(tokens[l].conf)
    BY <1>3, <2>1, RefillFacts
  <2>6. age'[s] * r <= tokens'[l].left \/ tokens'[l].left = Burst(tokens[l].conf)
    BY <2>1, <2>3, <2>4, <2>5
  <2>7. limiters'[s] = l /\ tokens'[l].conf = tokens[l].conf
    BY <1>1, <1>3, <2>1
  <2> QED
    BY <2>1, <2>6, <2>7 DEF Refilled
<1>8. Tracked'
  <2> SUFFICES ASSUME ~crossed PROVE AskersAreLive' /\ \A t \in Sessions : TracksIdeal(t)'
    BY <1>1 DEF Tracked
  <2>1. AskersAreLive'
    BY <1>1, <1>2 DEF Tracked, AskersAreLive
  <2>2. ASSUME NEW t \in Sessions PROVE TracksIdeal(t)'
    <3>1. TracksIdeal(t) /\ ideal'[t] = Refill(ideal[t], live)
      BY <1>1 DEF Tracked
    <3>2. ideal[t] = Burst(live) => ideal'[t] = Burst(live)
      BY <1>2, <3>1, RefillFacts DEF RateTypeOK
    <3> QED
      BY <1>1, <1>2, <1>3, <3>1, <3>2 DEF TracksIdeal, RateTypeOK
  <2> QED
    BY <2>1, <2>2
<1> QED
  BY <1>1, <1>4, <1>5, <1>6, <1>7, <1>8 DEF OwnLimiters

\* A change of the limit that meets no request starts all over.
LEMMA ReloadRate ==
  ASSUME RateInv, NEW cfg \in Configs, Reload(cfg)
  PROVE  RateInv'
<1> USE DEF RateInv
<1>1. /\ configuration' = cfg
      /\ ideal' = IF RateConfig(cfg) = live THEN ideal ELSE [s \in Sessions |-> Burst(RateConfig(cfg))]
      /\ crossed' = IF RateConfig(cfg) = live THEN crossed
                    ELSE current = RateConfig(cfg) \/ \E c \in Calls : pc[c] \in {"lock", "ask"}
      /\ UNCHANGED <<pc, session, conf, held, current, limiters, age, tokens>>
      /\ live' = RateConfig(cfg)
  BY DEF Reload, live
<1>2. RateConfig(cfg) \in Confs /\ Burst(RateConfig(cfg)) \in Int
  BY Limits DEF Confs, RateConfigs
<1>3. RateTypeOK'
  BY <1>1, <1>2 DEF RateTypeOK
<1>4. AskingOK' /\ BucketsBounded' /\ OwnLimiters' /\ EntriesRefilled'
  BY <1>1 DEF AskingOK, BucketsBounded, OwnLimiters, EntriesRefilled, Refilled
<1>5. Tracked'
  <2>1. CASE RateConfig(cfg) = live
    BY <1>1, <2>1 DEF Tracked, AskersAreLive, TracksIdeal
  <2>2. CASE RateConfig(cfg) # live
    BY <1>1, <2>2 DEF Tracked, AskersAreLive, TracksIdeal
  <2> QED
    BY <2>1, <2>2
<1> QED
  BY <1>3, <1>4, <1>5

LEMMA RateUntouched ==
  ASSUME RateInv, UNCHANGED limitsVars
  PROVE  RateInv'
BY DEF limitsVars, rateVars, RateInv, RateTypeOK, BucketsBounded, AskingOK, OwnLimiters, EntriesRefilled,
   Refilled, Tracked, AskersAreLive, TracksIdeal, live

LEMMA RateNext ==
  ASSUME FullBeforeReaped, RateInv, [LimitsNext]_limitsVars
  PROVE  RateInv'
BY PassRate, ReadConfigRate, FindLimiterRate, AllowRate, ReapRate, TickRate, ReloadRate, RateUntouched
DEF LimitsNext

LEMMA RateInvHolds ==
  ASSUME FullBeforeReaped
  PROVE  LimitsSpec => []RateInv
<1>1. RateInv /\ [LimitsNext]_limitsVars => RateInv'
  BY RateNext
<1> QED
  BY <1>1, RateInit, PTL DEF LimitsSpec

\* rateLimitingMiddleware: what reloads and the reaper discard gives no session more
\* than its burst and its rate, for any number of sessions and requests, if a limiter
\* refills before it may be reaped.
THEOREM BurstIsRespected ==
  ASSUME FullBeforeReaped
  PROVE  LimitsSpec => []BurstRespected
<1>1. RateInv => BurstRespected
  <2> SUFFICES ASSUME RateInv, ~crossed, NEW s \in Sessions PROVE ideal[s] >= 0
    BY DEF BurstRespected
  <2>1. TracksIdeal(s) /\ Burst(live) \in Nat
    BY Limits DEF RateInv, RateTypeOK, Tracked
  <2>2. limiters[s] # None => tokens[limiters[s]].left \in Nat
    BY DEF RateInv, RateTypeOK
  <2> QED
    BY <2>1, <2>2 DEF TracksIdeal
<1> QED
  BY <1>1, RateInvHolds, PTL

\* rateLimitingMiddleware: a session is turned away only when its own requests have
\* used up its bucket, whatever the other sessions ask, reap or discard.
THEOREM RejectedForOwn ==
  ASSUME FullBeforeReaped
  PROVE  LimitsSpec => RejectedForOwnRequests
<1> DEFINE Rejected == \A c \in Calls :
             pc[c] = "ask" /\ pc'[c] = "idle" /\ conf[c] = RateConfig(configuration) /\ ~crossed =>
               ideal[session[c]] <= 0
<1>1. RateInv /\ [LimitsNext]_limitsVars => [Rejected]_limitsVars
  <2> SUFFICES ASSUME RateInv, LimitsNext, NEW c \in Calls, pc[c] = "ask", pc'[c] = "idle", ~crossed
               PROVE  ideal[session[c]] <= 0
    OBVIOUS
  <2>1. ASSUME NEW d \in Calls, NEW q, pc' = [pc EXCEPT ![d] = q] PROVE d = c
    BY <2>1 DEF RateInv, RateTypeOK
  <2>2. Allow(c)
    <3>1. CASE Reap \/ Tick \/ \E cfg \in Configs : Reload(cfg)
      BY <3>1 DEF Reap, Tick, Reload
    <3>2. ASSUME NEW d \in Calls, NEW s \in Sessions \cup {NoSession}, Arrive(d, s) PROVE FALSE
      BY <2>1, <3>2 DEF Arrive, ReachRateLimit
    <3>3. ASSUME NEW d \in Calls,
                 ReadLimit(d) \/ Acquire(d) \/ ReadConfig(d) \/ FindLimiter(d) \/ Finish(d)
          PROVE  FALSE
      BY <2>1, <3>3 DEF ReadLimit, Acquire, ReachRateLimit, ReadConfig, FindLimiter, Finish, Leave
    <3>4. ASSUME NEW d \in Calls, Allow(d) PROVE d = c
      BY <2>1, <3>4 DEF Allow, Leave
    <3> QED
      BY <3>1, <3>2, <3>3, <3>4 DEF LimitsNext
  <2>3. tokens[held[c]].left = 0
    BY <2>2 DEF Allow, RateInv, RateTypeOK
  <2>4. /\ session[c] \in Sessions /\ held[c] \in Limiters
        /\ current = live /\ held[c] = limiters[session[c]]
    BY DEF RateInv, AskingOK, Tracked, AskersAreLive
  <2>5. None \notin Limiters
    BY NoneIsNoLimiter
  <2> QED
    BY <2>3, <2>4, <2>5 DEF RateInv, Tracked, TracksIdeal
<1>2. LimitsSpec => []RateInv
  BY RateInvHolds
<1> QED
  BY <1>1, <1>2, PTL DEF LimitsSpec, RejectedForOwnRequests

-----------------------------------------------------------------------------
(* Programs. *)

\* b may come after a.
Follows(e, f) == InOrder(e, f) /\ Guarded(e, f)

LEMMA SequentialIs ==
  ASSUME NEW q
  PROVE  Sequential(q) <=> \A i, j \in 1 .. Len(q) : i < j => Follows(q[i], q[j])
BY DEF Sequential, Follows

LEMMA ElementsOf ==
  ASSUME NEW S, NEW q \in Seq(S)
  PROVE  Elements(q) \subseteq S
BY DEF Elements

LEMMA NoElements == Elements(<<>>) = {}
BY DEF Elements

\* The steps of the handlers.
Reached == UNION {StepsOf(t) : t \in Tools}

\* q can stand where s stood.
Replaces(q, s) ==
  q \in Seq(Steps) /\ Sequential(q) /\ \A e \in Elements(q) : Within[e] \subseteq Within[s]

LEMMA NothingReplaces ==
  ASSUME NEW s
  PROVE  Replaces(<<>>, s)
BY DEF Replaces, Sequential, Elements

LEMMA PutsReplace ==
  ASSUME Tools \subseteq Disciplined, NEW s \in Reached, s \in Steps, NEW q \in Puts(s)
  PROVE  Replaces(q, s)
<1>1. PICK t \in Tools : s \in StepsOf(t)
  BY DEF Reached
<1>2. Sequential(q)
  BY <1>1 DEF Disciplined, IsSequential
<1> QED
  BY <1>2, StepsAssumption DEF Replaces

\* A loop of any number of items, from the two rounds that were looked at.
LEMMA LoopReplaces ==
  ASSUME Tools \subseteq Disciplined, NEW s \in Reached, s \in Steps, s.op = "each", NEW n \in Nat
  PROVE  LET q == [i \in 1 .. n |-> Item(s.body)] \o <<LoopEnd>>
         IN  Replaces(q, s) /\ Elements(q) \subseteq Elements(Rounds(s.body))
<1> DEFINE it == Item(s.body)
           p == [i \in 1 .. n |-> it]
           q == p \o <<LoopEnd>>
           r == <<it, it, LoopEnd>>
<1>1. r \in Puts(s) /\ r = Rounds(s.body)
  BY DEF Puts, Bare, Rounds
<1>2. Replaces(r, s)
  BY <1>1, PutsReplace
<1> HIDE DEF it
<1>3. it \in Elements(r) /\ LoopEnd \in Elements(r)
  <2>1. r[1] = it /\ r[3] = LoopEnd /\ Len(r) = 3
    OBVIOUS
  <2> QED
    BY <2>1 DEF Elements
<1>4. it \in Steps /\ LoopEnd \in Steps
  BY <1>2, <1>3, ElementsOf DEF Replaces
<1>5. Follows(it, it) /\ Follows(it, LoopEnd)
  <2>1. \A i, j \in 1 .. Len(r) : i < j => Follows(r[i], r[j])
    BY <1>2, SequentialIs DEF Replaces
  <2>2. r[1] = it /\ r[2] = it /\ r[3] = LoopEnd /\ Len(r) = 3
    OBVIOUS
  <2> QED
    BY <2>1, <2>2
<1>6. p \in Seq(Steps) /\ Len(p) = n
  BY <1>4
<1>7. q \in Seq(Steps) /\ Len(q) = n + 1 /\ q[n + 1] = LoopEnd /\ \A i \in 1 .. n : q[i] = it
  BY <1>4, <1>6
<1>8. Sequential(q)
  <2>1. SUFFICES ASSUME NEW i \in 1 .. Len(q), NEW j \in 1 .. Len(q), i < j
                 PROVE  Follows(q[i], q[j])
    BY SequentialIs
  <2>2. q[i] = it /\ (q[j] = it \/ q[j] = LoopEnd)
    BY <1>7, <2>1
  <2> QED
    BY <2>2, <1>5
<1>9. Elements(q) \subseteq Elements(r)
  BY <1>3, <1>7 DEF Elements
<1>10. Replaces(q, s)
  BY <1>2, <1>7, <1>8, <1>9 DEF Replaces
<1> QED
  BY <1>1, <1>9, <1>10 DEF it

\* What is left after a step is replaced by a program that can stand for it.
LEMMA GoOn ==
  ASSUME NEW u \in Seq(Steps), u # <<>>, Sequential(u), NEW q, Replaces(q, Head(u))
  PROVE  LET v == q \o Tail(u)
         IN  /\ v \in Seq(Steps) /\ Sequential(v)
             /\ \A e \in Elements(v) :
                  \/ e \in Elements(q)
                  \/ e \in Elements(u) /\ Follows(Head(u), e)
<1> DEFINE v == q \o Tail(u)
           h == Head(u)
<1>1. /\ q \in Seq(Steps) /\ Sequential(q) /\ Len(q) \in Nat /\ Len(u) \in Nat \ {0}
      /\ u[1] = h
      /\ v \in Seq(Steps) /\ Len(v) = Len(q) + Len(u) - 1
      /\ \A i \in 1 .. Len(q) : v[i] = q[i] /\ q[i] \in Elements(q)
      /\ \A i \in 1 .. Len(v) : i > Len(q) => v[i] = u[i - Len(q) + 1]
  BY DEF Replaces, Elements
<1> HIDE DEF v, h
<1>2. \A i, j \in 1 .. Len(u) : i < j => Follows(u[i], u[j])
  BY SequentialIs
<1>3. \A e \in Elements(v) : e \in Elements(q) \/ (e \in Elements(u) /\ Follows(h, e))
  <2>1. SUFFICES ASSUME NEW i \in 1 .. Len(v)
                 PROVE  v[i] \in Elements(q) \/ (v[i] \in Elements(u) /\ Follows(h, v[i]))
    BY DEF Elements
  <2>2. CASE i <= Len(q)
    BY <1>1, <2>2
  <2>3. CASE i > Len(q)
    <3>1. v[i] = u[i - Len(q) + 1] /\ i - Len(q) + 1 \in 1 .. Len(u) /\ 1 < i - Len(q) + 1
      BY <1>1, <2>3
    <3>2. v[i] \in Elements(u)
      BY <3>1 DEF Elements
    <3>3. Follows(u[1], v[i]) /\ u[1] = h
      BY <1>1, <1>2, <3>1
    <3> QED
      BY <3>2, <3>3
  <2> QED
    BY <1>1, <2>2, <2>3
<1>4. Sequential(v)
  <2>1. SUFFICES ASSUME NEW i \in 1 .. Len(v), NEW j \in 1 .. Len(v), i < j
                 PROVE  Follows(v[i], v[j])
    BY SequentialIs
  <2>2. CASE j <= Len(q)
    <3>1. \A k, m \in 1 .. Len(q) : k < m => Follows(q[k], q[m])
      BY <1>1, SequentialIs
    <3> QED
      BY <1>1, <2>1, <2>2, <3>1
  <2>3. CASE i > Len(q)
    <3>1. v[i] = u[i - Len(q) + 1] /\ v[j] = u[j - Len(q) + 1]
      BY <1>1, <2>1, <2>3
    <3>2. /\ i - Len(q) + 1 \in 1 .. Len(u) /\ j - Len(q) + 1 \in 1 .. Len(u)
          /\ i - Len(q) + 1 < j - Len(q) + 1
      BY <1>1, <2>1, <2>3
    <3> QED
      BY <1>2, <3>1, <3>2
  <2>4. CASE i <= Len(q) /\ j > Len(q)
    <3>1. v[i] \in Elements(q) /\ v[j] = u[j - Len(q) + 1]
      BY <1>1, <2>4
    <3>2. 1 \in 1 .. Len(u) /\ j - Len(q) + 1 \in 1 .. Len(u) /\ 1 < j - Len(q) + 1
      BY <1>1, <2>4
    <3>3. Follows(h, v[j])
      BY <1>1, <1>2, <3>1, <3>2
    <3>4. Within[v[i]] \subseteq Within[h]
      BY <3>1 DEF Replaces, h
    <3> QED
      BY <3>3, <3>4 DEF Follows, InOrder, Guarded, Silent
  <2> QED
    BY <1>1, <2>2, <2>3, <2>4
<1> QED
  BY <1>1, <1>3, <1>4 DEF v, h

\* Every nonempty set of natural numbers has a least one.
LEMMA LeastNumber ==
  ASSUME NEW T, T \subseteq Nat, T # {}
  PROVE  \E x \in T : \A y \in T : x <= y
<1> DEFINE R == OpToRel(<, Nat)
<1>1. IsWellFoundedOn(R, Nat)
  BY NatLessThanWellFounded
<1>2. \A x, y \in Nat : x < y => <<x, y>> \in R
  BY DEF OpToRel
<1> HIDE DEF R
<1>3. PICK x \in T : \A y \in T : ~ (<<y, x>> \in R)
  BY <1>1, WFMin
<1>4. \A y \in T : ~ (y < x)
  BY <1>2, <1>3
<1> QED
  BY <1>4

\* What is left behind the innermost marker: later steps of what is left.
LEMMA LeaveBehind ==
  ASSUME todo \in Seq(Steps), Sequential(todo), NEW marker
  PROVE  LET v == After(marker)
         IN  /\ v \in Seq(Steps) /\ Sequential(v)
             /\ \A e \in Elements(v) :
                  /\ e \in Elements(todo)
                  /\ Follows(Head(todo), e)
                  /\ Markers(marker) # {}
                  /\ \E c \in Elements(todo) : c.op = marker /\ Follows(c, e)
<1> DEFINE v == After(marker)
           m == First(marker)
<1>1. CASE Markers(marker) = {}
  <2>1. v = <<>>
    BY <1>1 DEF After
  <2> QED
    BY <2>1 DEF Sequential, Elements
<1>2. CASE Markers(marker) # {}
  <2>1. \E i \in Markers(marker) : \A j \in Markers(marker) : i <= j
    <3>1. Markers(marker) \subseteq Nat
      BY DEF Markers
    <3> QED
      BY <1>2, <3>1, LeastNumber
  <2>2. m \in Markers(marker)
    <3> DEFINE S == Markers(marker)
    <3>1. \E i \in S : \A j \in S : i <= j
      BY <2>1
    <3>2. m = CHOOSE i \in S : \A j \in S : i <= j
      BY DEF First
    <3> HIDE DEF S, m
    <3>3. m \in S
      BY <3>1, <3>2, Zenon
    <3> QED
      BY <3>3 DEF S
  <2>3. Len(todo) \in Nat /\ m \in 1 .. Len(todo) /\ todo[m].op = marker
    BY <2>2 DEF Markers
  <2>4. v = SubSeq(todo, m + 1, Len(todo))
    BY <1>2 DEF After
  <2> HIDE DEF v, m
  <2>5. /\ v \in Seq(Steps) /\ Len(v) = Len(todo) - m
        /\ \A i \in 1 .. Len(v) : v[i] = todo[i + m]
    BY <2>3, <2>4
  <2>6. \A i, j \in 1 .. Len(todo) : i < j => Follows(todo[i], todo[j])
    BY SequentialIs
  <2>7. Sequential(v)
    <3>1. SUFFICES ASSUME NEW i \in 1 .. Len(v), NEW j \in 1 .. Len(v), i < j
                   PROVE  Follows(v[i], v[j])
      BY SequentialIs
    <3>2. v[i] = todo[i + m] /\ v[j] = todo[j + m]
      BY <2>5
    <3>3. i + m \in 1 .. Len(todo) /\ j + m \in 1 .. Len(todo) /\ i + m < j + m
      BY <2>3, <2>5, <3>1
    <3> QED
      BY <2>6, <3>2, <3>3
  <2>8. ASSUME NEW i \in 1 .. Len(v)
        PROVE  /\ v[i] \in Elements(todo)
               /\ Follows(Head(todo), v[i]) /\ Follows(todo[m], v[i])
    <3>1. v[i] = todo[i + m] /\ i + m \in 1 .. Len(todo) /\ m < i + m /\ 1 < i + m
      BY <2>3, <2>5
    <3>2. todo # <<>> /\ Head(todo) = todo[1] /\ 1 \in 1 .. Len(todo)
      BY <2>3
    <3> QED
      BY <2>3, <2>6, <3>1, <3>2 DEF Elements
  <2>9. todo[m] \in Elements(todo)
    BY <2>3 DEF Elements
  <2>10. \A e \in Elements(v) : \E i \in 1 .. Len(v) : e = v[i]
    BY DEF Elements
  <2> QED
    BY <1>2, <2>3, <2>5, <2>7, <2>8, <2>9, <2>10 DEF v
<1> QED
  BY <1>1, <1>2

-----------------------------------------------------------------------------
(* The invariant. *)

Tool == Entries[call]

\* What running the steps that are left may lead to.
Remaining == UNION {Within[e] : e \in Elements(todo)}

\* Nothing is left from the call before.
Idle ==
  call = "" =>
    /\ todo = <<>> /\ text = "empty" /\ result = "none" /\ unseen = {} /\ cutFetch = {}
    /\ asked = {} /\ written = {} /\ failed = {} /\ known = {}

\* The call was let through.
Admitted ==
  call # "" =>
    /\ Offered(mode, Tool.decl)
    /\ (todo # <<>> \/ written # {}) /\ NeedsConfirmation(mode, Tool.decl) => accepted \in Confirmed(mode)

\* What was asked and written, and what is left to run, are the tool's own.
OwnRequests ==
  call # "" =>
    /\ Remaining \subseteq StepsOf(Tool)
    /\ \A w \in written : \E a \in StepsOf(Tool) : Writes(a) /\ w.verb = a.verb /\ w.res = a.res
    /\ \A r \in asked : \E a \in StepsOf(Tool) :
         IsRequest(a) /\ \E v \in Authorized(a.verb) : r = <<v, a.res>>

\* No step that is left is late.
NothingLate ==
  \A b \in Remaining :
    /\ written # {} => b.op # "args"
    /\ IsRequest(b) /\ b.verb \in {"overwrite", "apply"} => b.res \notin known

\* Once the text is cut, nothing that is left fetches before it looks.
CutIsSeen == text = "cut" => \A e \in Elements(todo) : Tame(e)

\* A cut that the text does not show is one of a scratch of the tool.
UnseenIsNamed == unseen \subseteq CutGoesUnseen(call) /\ cutFetch \subseteq CutGoesUnseen(call)

\* A failed write that did not end the call is one whose error is ignored.
FailureEndsCall ==
  result # "error" =>
    \A f \in failed : call = "pods_delete" /\ f \in {<<"delete", "services">>, <<"delete", "routes">>}

TodoOK == todo \in Seq(Steps) /\ Sequential(todo)

CallInv ==
  /\ call \in Names \cup {""}
  /\ TodoOK /\ Idle /\ Admitted /\ OwnRequests /\ NothingLate /\ CutIsSeen /\ UnseenIsNamed
  /\ FailureEndsCall /\ RejectedArgumentsChangeNothing /\ NoLostUpdate

LEMMA ItemsAreCounted == MaxItems \in Nat
BY ToolsAssumption, Zenon

LEMMA ToolOfCall ==
  ASSUME NEW t \in Tools
  PROVE  t.name \in Names /\ t.name # "" /\ Entries[t.name] = t
<1>1. t.name \in Names /\ t.name # ""
  BY ToolsAssumption DEF Names
<1>2. \A s \in Tools : s.name = t.name <=> s = t
  BY ToolsAssumption
<1>3. (CHOOSE s \in Tools : s.name = t.name) = t
  BY <1>2
<1> QED
  BY <1>1, <1>3 DEF Entries

LEMMA CalledTool ==
  ASSUME CallInv, call # ""
  PROVE  Tool \in Tools /\ Tool.name = call
<1>1. PICK t \in Tools : call = t.name
  BY DEF CallInv, Names
<1> QED
  BY <1>1, ToolOfCall DEF Tool

\* The step that runs.
LEMMA HeadStep ==
  ASSUME CallInv, todo # <<>>
  PROVE  /\ Step \in Elements(todo) /\ Step \in Steps /\ Step \in Within[Step] /\ Step \in Exposed[Step]
         /\ Within[Step] \subseteq Remaining /\ Step \in Remaining /\ Step \in Reached
<1>1. Step = todo[1] /\ 1 \in 1 .. Len(todo) /\ Step \in Steps
  <2>1. todo \in Seq(Steps)
    BY DEF CallInv, TodoOK
  <2> QED
    BY <2>1 DEF Step
<1>2. Step \in Elements(todo)
  BY <1>1 DEF Elements
<1>3. /\ Step \in Within[Step] /\ Step \in Exposed[Step]
      /\ Within[Step] \subseteq Remaining /\ Step \in Remaining
  BY <1>1, <1>2, StepsAssumption DEF Remaining
<1>4. call # ""
  BY DEF CallInv, Idle
<1>5. Step \in Reached
  BY <1>3, <1>4, CalledTool DEF CallInv, OwnRequests, Reached
<1> QED
  BY <1>1, <1>2, <1>3, <1>5

\* A part of the invariant at a time: what a step of a handler does to todo and text.
Shrinks == TodoOK' /\ Remaining' \subseteq Remaining

LEMMA GoShrinks ==
  ASSUME CallInv, todo # <<>>, NEW q, Replaces(q, Step), Go(q)
  PROVE  /\ Shrinks
         /\ \A e \in Elements(todo') :
              e \in Elements(q) \/ (e \in Elements(todo) /\ Follows(Step, e))
         /\ result' = result
<1>1. todo' = q \o Tail(todo) /\ result' = result
  BY DEF Go, Rest
<1>2. /\ todo' \in Seq(Steps) /\ Sequential(todo')
      /\ \A e \in Elements(todo') : e \in Elements(q) \/ (e \in Elements(todo) /\ Follows(Step, e))
  BY <1>1, GoOn DEF CallInv, TodoOK, Step
<1>3. ASSUME NEW e \in Elements(todo')
      PROVE  Within[e] \subseteq Remaining
  <2>1. CASE e \in Elements(q)
    BY <2>1, HeadStep DEF Replaces
  <2>2. CASE e \in Elements(todo)
    BY <2>2 DEF Remaining
  <2> QED
    BY <1>2, <2>1, <2>2
<1>4. Remaining' \subseteq Remaining
  BY <1>3 DEF Remaining
<1> QED
  BY <1>1, <1>2, <1>4 DEF Shrinks, TodoOK

LEMMA StopShrinks ==
  ASSUME CallInv, todo' = <<>>
  PROVE  Shrinks /\ Remaining' = {} /\ CutIsSeen'
BY DEF Shrinks, TodoOK, Remaining, Elements, Sequential, CutIsSeen

LEMMA LeaveShrinks ==
  ASSUME CallInv, NEW marker, todo' = After(marker)
  PROVE  /\ Shrinks
         /\ \A e \in Elements(todo') :
              /\ e \in Elements(todo) /\ Follows(Step, e)
              /\ Markers(marker) # {}
              /\ \E c \in Elements(todo) : c.op = marker /\ Follows(c, e)
<1>1. /\ todo' \in Seq(Steps) /\ Sequential(todo')
      /\ \A e \in Elements(todo') :
           /\ e \in Elements(todo) /\ Follows(Step, e)
           /\ Markers(marker) # {}
           /\ \E c \in Elements(todo) : c.op = marker /\ Follows(c, e)
  BY LeaveBehind DEF CallInv, TodoOK, Step
<1> QED
  BY <1>1 DEF Shrinks, TodoOK, Remaining

LEMMA BareTame ==
  ASSUME NEW s \in Steps, NEW q \in Bare(s), Tame(s)
  PROVE  \A e \in Elements(q) : Tame(e)
BY StepsAssumption DEF Tame

\* A text that is cut by the step, or was cut before it, is seen by what follows.
LEMMA GoSeesCut ==
  ASSUME CallInv, todo # <<>>, NEW q, Replaces(q, Step), Go(q),
         text' = "cut" => (text = "cut" \/ ~Silent(Step)) /\ \A e \in Elements(q) : Tame(e)
  PROVE  CutIsSeen'
<1>1. SUFFICES ASSUME text' = "cut", NEW e \in Elements(todo')
               PROVE  Tame(e)
  BY DEF CallInv, CutIsSeen
<1>2. CASE e \in Elements(q)
  BY <1>1, <1>2
<1>3. CASE e \in Elements(todo) /\ Follows(Step, e)
  BY <1>1, <1>3 DEF CallInv, CutIsSeen, Follows, Guarded
<1> QED
  BY <1>2, <1>3, GoShrinks

\* A step that makes no request.
Quiet ==
  /\ call # "" /\ result = "none" /\ UNCHANGED <<mode, call, accepted, requests>>
  /\ unseen' \subseteq CutGoesUnseen(call)
  /\ Shrinks /\ CutIsSeen'
  /\ todo' # <<>> => todo # <<>>
  /\ result' = "rejected" => Running("args")

LEMMA QuietKeeps ==
  ASSUME CallInv, Quiet
  PROVE  CallInv'
<1> USE DEF Quiet, requests
<1>1. call' \in Names \cup {""} /\ TodoOK' /\ Idle' /\ CutIsSeen' /\ Tool' = Tool
  BY DEF CallInv, Idle, Shrinks, Tool
<1>7. UnseenIsNamed'
  BY DEF CallInv, UnseenIsNamed
<1>2. Admitted'
  BY <1>1 DEF CallInv, Admitted
<1>3. OwnRequests'
  BY <1>1 DEF CallInv, OwnRequests, Shrinks
<1>4. NothingLate'
  BY DEF CallInv, NothingLate, Shrinks
<1>5. FailureEndsCall' /\ NoLostUpdate'
  BY DEF CallInv, FailureEndsCall, NoLostUpdate
<1>6. RejectedArgumentsChangeNothing'
  <2>1. CASE result' = "rejected"
    <3>1. Step \in Remaining /\ Step.op = "args"
      BY <2>1, HeadStep DEF Running, Step
    <3> QED
      BY <3>1 DEF CallInv, NothingLate, RejectedArgumentsChangeNothing
  <2> QED
    BY <2>1 DEF RejectedArgumentsChangeNothing
<1> QED
  BY <1>1, <1>2, <1>3, <1>4, <1>5, <1>6, <1>7 DEF CallInv

LEMMA SameUnseen ==
  ASSUME CallInv, UNCHANGED effects
  PROVE  UNCHANGED requests /\ unseen' \subseteq CutGoesUnseen(call)
BY DEF CallInv, UnseenIsNamed, effects

\* The two ways on: with a program in the place of the step, or with nothing.
LEMMA GoIsQuiet ==
  ASSUME CallInv, call # "", result = "none", todo # <<>>, UNCHANGED <<mode, call, accepted, requests>>,
         unseen' \subseteq CutGoesUnseen(call), NEW q, Replaces(q, Step), Go(q),
         text' = "cut" => (text = "cut" \/ ~Silent(Step)) /\ \A e \in Elements(q) : Tame(e)
  PROVE  Quiet
<1>1. Shrinks /\ result' = result
  BY GoShrinks
<1>2. CutIsSeen'
  BY GoSeesCut
<1> QED
  BY <1>1, <1>2 DEF Quiet

LEMMA StopIsQuiet ==
  ASSUME CallInv, call # "", result = "none", UNCHANGED <<mode, call, accepted, effects>>, todo' = <<>>,
         result' = "rejected" => Running("args")
  PROVE  Quiet
<1>1. Shrinks /\ CutIsSeen'
  BY StopShrinks
<1> QED
  BY <1>1, SameUnseen DEF Quiet

\* The program in the place of a step whose text was not cut by it.
LEMMA BareIsQuiet ==
  ASSUME Tools \subseteq Disciplined, CallInv, call # "", result = "none", todo # <<>>,
         UNCHANGED <<mode, call, accepted, text, effects>>, NEW q \in Bare(Step) \cup {<<>>}, Go(q)
  PROVE  Quiet
<1>1. Replaces(q, Step)
  BY NothingReplaces, PutsReplace, HeadStep DEF Puts
<1>2. text = "cut" => \A e \in Elements(q) : Tame(e)
  <2>1. SUFFICES ASSUME text = "cut" PROVE \A e \in Elements(q) : Tame(e)
    OBVIOUS
  <2>2. Tame(Step)
    BY <2>1, HeadStep DEF CallInv, CutIsSeen
  <2>3. CASE q = <<>>
    BY <2>3, NoElements
  <2> QED
    BY <2>2, <2>3, BareTame, HeadStep
<1> QED
  BY <1>1, <1>2, SameUnseen, GoIsQuiet

-----------------------------------------------------------------------------
(* The actions. *)

LEMMA CallInit ==
  ASSUME Init
  PROVE  CallInv
<1>1. todo = <<>> /\ Elements(todo) = {} /\ Remaining = {}
  BY NoElements DEF Init, Remaining
<1>2. TodoOK
  BY <1>1, NothingReplaces DEF TodoOK, Replaces
<1> QED
  BY <1>1, <1>2 DEF Init, CallInv, Idle, Admitted, OwnRequests, NothingLate, CutIsSeen,
                    UnseenIsNamed, CutGoesUnseen, FailureEndsCall,
                    RejectedArgumentsChangeNothing, NoLostUpdate

LEMMA StartKeeps ==
  ASSUME Tools \subseteq Disciplined, CallInv, NEW t \in Tools, Start(t)
  PROVE  CallInv'
<1>1. /\ call = "" /\ todo = <<>> /\ text = "empty" /\ result = "none" /\ unseen = {} /\ cutFetch = {}
      /\ asked = {} /\ written = {} /\ failed = {} /\ known = {}
  BY DEF Start, CallInv, Idle
<1>2. /\ Offered(mode, t.decl) /\ call' = t.name
      /\ mode' = mode /\ text' = text /\ unseen' = unseen /\ cutFetch' = cutFetch
      /\ asked' = asked /\ written' = written /\ failed' = failed /\ known' = known
      /\ \/ /\ todo' = t.handler /\ result' = result
            /\ NeedsConfirmation(mode, t.decl) => accepted' \in Confirmed(mode)
         \/ todo' = <<>> /\ result' = "error"
  BY DEF Start, End, effects, requests
<1>3. call' \in Names /\ call' # "" /\ Tool' = t
  BY <1>2, ToolOfCall DEF Tool
<1>4. TodoOK'
  BY <1>2, StepsAssumption, NothingReplaces DEF TodoOK, Replaces, Disciplined, IsSequential
<1>5. Remaining' \subseteq StepsOf(t)
  BY <1>2, NoElements DEF Remaining, StepsOf
<1>6. Idle' /\ Admitted' /\ OwnRequests'
  BY <1>1, <1>2, <1>3, <1>5 DEF Idle, Admitted, OwnRequests, Offered, NeedsConfirmation, Confirmed
<1>7. NothingLate' /\ CutIsSeen' /\ UnseenIsNamed' /\ FailureEndsCall' /\ RejectedArgumentsChangeNothing' /\ NoLostUpdate'
  BY <1>1, <1>2 DEF NothingLate, CutIsSeen, UnseenIsNamed, FailureEndsCall, RejectedArgumentsChangeNothing, NoLostUpdate
<1> QED
  BY <1>3, <1>4, <1>6, <1>7 DEF CallInv

LEMMA CheckArgsKeeps ==
  ASSUME Tools \subseteq Disciplined, CallInv, CheckArgs
  PROVE  CallInv'
<1>1. CASE Go(<<>>)
  BY <1>1, BareIsQuiet, QuietKeeps DEF CheckArgs, Running
<1>2. CASE End("rejected")
  BY <1>2, StopIsQuiet, QuietKeeps DEF CheckArgs, Running, End
<1> QED
  BY <1>1, <1>2 DEF CheckArgs

LEMMA LocalStepKeeps ==
  ASSUME Tools \subseteq Disciplined, CallInv, LocalStep
  PROVE  CallInv'
<1>1. CASE Running("may fail") /\ Go(<<>>)
  BY <1>1, BareIsQuiet, QuietKeeps DEF LocalStep, Running
<1>2. CASE (Running("may fail") \/ Running("fail")) /\ End("error")
  BY <1>2, StopIsQuiet, QuietKeeps DEF LocalStep, Running, End
<1>3. CASE Running("return") /\ todo' = <<>> /\ UNCHANGED result
  BY <1>3, StopIsQuiet, QuietKeeps DEF LocalStep, Running
<1> QED
  BY <1>1, <1>2, <1>3 DEF LocalStep

LEMMA BranchKeeps ==
  ASSUME Tools \subseteq Disciplined, CallInv, Branch \/ Choice
  PROVE  CallInv'
<1>1. \E q \in Bare(Step) : Go(q)
  <2>1. Step.op \in {"if", "either"} => Bare(Step) = {Step.body, Step.other}
    BY DEF Bare
  <2>2. Step.op \in {"if", "either"} /\ (Go(Step.body) \/ Go(Step.other))
    BY DEF Branch, Choice, Running, Step
  <2> QED
    BY <2>1, <2>2
<1> QED
  BY <1>1, BareIsQuiet, QuietKeeps DEF Branch, Choice, Running

LEMMA LoopKeeps ==
  ASSUME Tools \subseteq Disciplined, CallInv, Loop
  PROVE  CallInv'
<1>1. PICK n \in 0 .. MaxItems : Go([i \in 1 .. n |-> Item(Step.body)] \o <<LoopEnd>>)
  BY DEF Loop
<1> DEFINE q == [i \in 1 .. n |-> Item(Step.body)] \o <<LoopEnd>>
<1>2. Step \in Steps /\ Step \in Reached /\ Step.op = "each" /\ n \in Nat
  <2>1. todo # <<>> /\ Step.op = "each"
    BY DEF Loop, Running, Step
  <2>2. Step \in Steps /\ Step \in Reached
    BY <2>1, HeadStep
  <2>3. n \in Nat
    BY ItemsAreCounted
  <2> QED
    BY <2>1, <2>2, <2>3
<1>3. Replaces(q, Step) /\ Elements(q) \subseteq Elements(Rounds(Step.body))
  BY <1>2, LoopReplaces
<1>4. text = "cut" => \A e \in Elements(Rounds(Step.body)) : Tame(e)
  <2>1. Rounds(Step.body) \in Bare(Step)
    BY <1>2 DEF Bare
  <2>2. text = "cut" => Tame(Step)
    BY HeadStep DEF CallInv, CutIsSeen, Loop, Running
  <2> QED
    BY <1>2, <2>1, <2>2, BareTame
<1> HIDE DEF q
<1>5. /\ Go(q) /\ call # "" /\ result = "none" /\ todo # <<>>
      /\ UNCHANGED <<mode, call, accepted, requests>> /\ unseen' \subseteq CutGoesUnseen(call)
  BY <1>1, SameUnseen DEF q, Loop, Running
<1>6. text' = "cut" => (text = "cut" \/ ~Silent(Step)) /\ \A e \in Elements(q) : Tame(e)
  BY <1>3, <1>4 DEF Loop
<1> QED
  BY <1>3, <1>5, <1>6, GoIsQuiet, QuietKeeps

LEMMA LoopStepKeeps ==
  ASSUME Tools \subseteq Disciplined, CallInv, LoopStep
  PROVE  CallInv'
<1>1. CASE Running("item") /\ Go(Step.body)
  <2>1. Step.body \in Bare(Step)
    BY <1>1 DEF Running, Step, Bare
  <2> QED
    BY <1>1, <2>1, BareIsQuiet, QuietKeeps DEF LoopStep, Running
<1>2. CASE Running("end") /\ Go(<<>>)
  BY <1>2, BareIsQuiet, QuietKeeps DEF LoopStep, Running
<1>3. CASE Running("break") /\ todo' = After("end") /\ UNCHANGED result
  <2>1. Shrinks /\ \A e \in Elements(todo') : e \in Elements(todo)
    BY <1>3, LeaveShrinks
  <2>2. CutIsSeen'
    BY <2>1 DEF CallInv, CutIsSeen, LoopStep
  <2>3. Quiet
    BY <1>3, <2>1, <2>2, SameUnseen DEF Quiet, LoopStep, Running
  <2> QED
    BY <2>3, QuietKeeps
<1> QED
  BY <1>1, <1>2, <1>3 DEF LoopStep

LEMMA PutTextKeeps ==
  ASSUME Tools \subseteq Disciplined, CallInv, PutText
  PROVE  CallInv'
<1>1. /\ Go(<<>>) /\ call # "" /\ result = "none" /\ todo # <<>>
      /\ UNCHANGED <<mode, call, accepted, requests>> /\ unseen' \subseteq CutGoesUnseen(call)
  BY SameUnseen DEF PutText, Running
<1>2. ~Silent(Step)
  BY <1>1, HeadStep DEF PutText, Running, Step, Silent
<1>3. Quiet
  BY <1>1, <1>2, NothingReplaces, NoElements, GoIsQuiet
<1> QED
  BY <1>3, QuietKeeps

LEMMA StartSectionKeeps ==
  ASSUME Tools \subseteq Disciplined, CallInv, StartSection \/ StartUnlessCut
  PROVE  CallInv'
<1>1. /\ call # "" /\ result = "none" /\ todo # <<>>
      /\ UNCHANGED <<mode, call, accepted, requests>> /\ unseen' \subseteq CutGoesUnseen(call)
      /\ Step.op \in {"section", "unless cut"}
  BY SameUnseen DEF StartSection, StartUnlessCut, Running, Step
<1>2. Step \in Steps /\ Step \in Reached /\ Step \in Within[Step] /\ Step.body \in Puts(Step)
  BY <1>1, HeadStep DEF Puts
<1>3. CASE Go(<<>>) /\ (text' = text \/ Step.op = "section")
  <2>1. text' = "cut" => text = "cut" \/ ~Silent(Step)
    BY <1>2, <1>3 DEF Silent
  <2> QED
    BY <1>1, <1>3, <2>1, NothingReplaces, NoElements, GoIsQuiet, QuietKeeps
<1>4. CASE Go(Step.body) /\ text # "cut" /\ text' = text
  <2>1. Replaces(Step.body, Step)
    BY <1>2, PutsReplace
  <2> QED
    BY <1>1, <1>4, <2>1, GoIsQuiet, QuietKeeps
<1> QED
  BY <1>3, <1>4 DEF StartSection, StartUnlessCut, Running, Step

\* The scratches of a tool hide only what the property names.
LEMMA ScratchIsNamed ==
  ASSUME Tools \subseteq Disciplined, CallInv, call # "", todo # <<>>, Step.op \in {"scratch", "commit"}
  PROVE  Unseen(Step.kind) \subseteq CutGoesUnseen(call) /\ unseen \subseteq CutGoesUnseen(call)
<1>1. Step \in StepsOf(Tool) /\ Tool \in Tools /\ Tool.name = call
  BY HeadStep, CalledTool DEF CallInv, OwnRequests
<1>2. Gathers(Tool)
  BY <1>1 DEF Disciplined
<1> QED
  BY <1>1, <1>2 DEF Gathers, CallInv, UnseenIsNamed

LEMMA StartScratchKeeps ==
  ASSUME Tools \subseteq Disciplined, CallInv, StartScratch
  PROVE  CallInv'
<1>1. /\ call # "" /\ result = "none" /\ todo # <<>> /\ UNCHANGED <<mode, call, accepted, requests>>
      /\ Step.op = "scratch"
  BY DEF StartScratch, Running, Step
<1>2. unseen' \subseteq CutGoesUnseen(call)
  <2>1. unseen' \subseteq unseen \cup Unseen(Step.kind)
    BY DEF StartScratch, Unseen
  <2> QED
    BY <1>1, <2>1, ScratchIsNamed
<1>3. CASE text \in {"empty", "some"} /\ Go(Step.body \o <<Committing(Step, text)>>) /\ text' = "empty"
  <2> DEFINE q == Step.body \o <<Committing(Step, text)>>
  <2>1. q \in Puts(Step)
    BY <1>1, <1>3 DEF Puts, Gathered
  <2>2. Replaces(q, Step)
    BY <1>1, <2>1, HeadStep, PutsReplace
  <2> HIDE DEF q
  <2>3. Go(q)
    BY <1>3 DEF q
  <2> QED
    BY <1>1, <1>2, <1>3, <2>2, <2>3, GoIsQuiet, QuietKeeps
<1>4. CASE Go(Step.other) /\ UNCHANGED text
  <2>1. Step \in Steps /\ Step.other \in Bare(Step) /\ Replaces(Step.other, Step)
    BY <1>1, HeadStep, PutsReplace DEF Bare, Puts
  <2>2. text = "cut" => \A e \in Elements(Step.other) : Tame(e)
    BY <1>1, <2>1, HeadStep, BareTame DEF CallInv, CutIsSeen
  <2> QED
    BY <1>1, <1>2, <1>4, <2>1, <2>2, GoIsQuiet, QuietKeeps
<1> QED
  BY <1>3, <1>4 DEF StartScratch

LEMMA CommitKeeps ==
  ASSUME Tools \subseteq Disciplined, CallInv, Commit
  PROVE  CallInv'
<1>1. /\ call # "" /\ result = "none" /\ todo # <<>> /\ UNCHANGED <<mode, call, accepted, requests>>
      /\ Step.op = "commit"
  BY DEF Commit, Running, Step
<1>2. Step \in Steps /\ Step \in Reached /\ ~Silent(Step) /\ Step.other \in Bare(Step) /\ Step.other \in Puts(Step)
  BY <1>1, HeadStep DEF Silent, Bare, Puts
<1>3. unseen' \subseteq CutGoesUnseen(call)
  <2>1. CASE CommitWhole \/ CommitCut
    <3>1. unseen' \subseteq unseen \cup Unseen(Step.kind)
      BY <2>1 DEF CommitWhole, CommitCut, Unseen
    <3> QED
      BY <1>1, <3>1, ScratchIsNamed
  <2>2. CASE Step.kind \notin {"section", "block"} /\ CommitCopy
    <3>1. unseen' \subseteq unseen \cup Unseen(Step.kind)
      BY <2>2 DEF CommitCopy, Unseen
    <3> QED
      BY <1>1, <3>1, ScratchIsNamed
  <2> QED
    BY <2>1, <2>2 DEF Commit
<1>4. CASE text = "cut" /\ Go(Step.other)
  <2>1. Tame(Step)
    BY <1>1, <1>4, HeadStep DEF CallInv, CutIsSeen
  <2>2. \A e \in Elements(Step.other) : Tame(e)
    BY <1>2, <2>1, BareTame
  <2>3. Replaces(Step.other, Step)
    BY <1>2, PutsReplace
  <2> QED
    BY <1>1, <1>2, <1>3, <1>4, <2>2, <2>3, GoIsQuiet, QuietKeeps
<1>5. CASE Go(<<>>)
  BY <1>1, <1>2, <1>3, <1>5, NothingReplaces, NoElements, GoIsQuiet, QuietKeeps
<1> QED
  BY <1>4, <1>5 DEF Commit, CommitWhole, CommitCut, CommitCopy

LEMMA ReturnedKeeps ==
  ASSUME CallInv, Returned
  PROVE  CallInv'
BY StopIsQuiet, QuietKeeps DEF Returned, End

LEMMA OtherWritesKeeps ==
  ASSUME CallInv, OtherWrites
  PROVE  CallInv'
BY DEF OtherWrites, progress, CallInv, TodoOK, Idle, Admitted, OwnRequests, NothingLate, CutIsSeen,
                    UnseenIsNamed, CutGoesUnseen, FailureEndsCall,
       RejectedArgumentsChangeNothing, NoLostUpdate, Remaining, Tool

LEMMA ForgetKeeps ==
  ASSUME Forget
  PROVE  CallInv'
<1>1. todo' = <<>> /\ Elements(todo') = {} /\ Remaining' = {}
  BY NoElements DEF Forget, Remaining
<1>2. TodoOK'
  BY <1>1, NothingReplaces DEF TodoOK, Replaces
<1> QED
  BY <1>1, <1>2 DEF Forget, CallInv, Idle, Admitted, OwnRequests, NothingLate, CutIsSeen,
                    UnseenIsNamed, CutGoesUnseen, FailureEndsCall,
                    RejectedArgumentsChangeNothing, NoLostUpdate

-----------------------------------------------------------------------------
(* Requests. *)

\* The request is the tool's own, and what is left after it is not late.
LEMMA RequestMoves ==
  ASSUME Tools \subseteq Disciplined, CallInv, Running("request"), (Go(<<>>) /\ UNCHANGED text) \/ HandleError
  PROVE  /\ Shrinks
         /\ text' = "cut" => \A e \in Elements(todo') : Tame(e)
         /\ \A b \in Remaining' : ~Late(Step, b)
         /\ result' \in {"none", "error"}
<1>1. todo # <<>> /\ result = "none" /\ Step.op = "request"
  BY DEF Running, Step
<1>2. /\ Step \in Steps /\ Step \in Reached /\ Step \in Within[Step]
      /\ Step.other \in Bare(Step) /\ Step.other \in Puts(Step)
  BY <1>1, HeadStep DEF Bare, Puts
<1>3. \A e : Follows(Step, e) => \A b \in Within[e] : ~Late(Step, b)
  BY <1>2 DEF Follows, InOrder
<1>4. text = "cut" => Tame(Step) /\ \A e \in Elements(todo) : Tame(e)
  BY <1>1, HeadStep DEF CallInv, CutIsSeen
<1>5. CASE todo' = <<>> /\ result' = "error"
  <2>1. Shrinks /\ Remaining' = {} /\ Elements(todo') = {}
    BY <1>5, StopShrinks, NoElements
  <2> QED
    BY <1>5, <2>1
<1>6. ASSUME NEW q, Go(q), UNCHANGED text, q = <<>> \/ (q = Step.other /\ Step.onErr = "recover")
      PROVE  /\ Shrinks /\ result' = "none"
             /\ text' = "cut" => \A e \in Elements(todo') : Tame(e)
             /\ \A b \in Remaining' : ~Late(Step, b)
  <2>1. Replaces(q, Step)
    BY <1>2, <1>6, NothingReplaces, PutsReplace
  <2>2. /\ Shrinks /\ result' = result
        /\ \A e \in Elements(todo') : e \in Elements(q) \/ (e \in Elements(todo) /\ Follows(Step, e))
    BY <1>1, <1>6, <2>1, GoShrinks
  <2>3. \A e \in Elements(q) : \A b \in Within[e] : ~Late(Step, b)
    BY <1>1, <1>2, <1>6, NoElements DEF Reached, Disciplined, IsSequential, IsRequest
  <2>4. text = "cut" => \A e \in Elements(q) : Tame(e)
    BY <1>2, <1>4, <1>6, NoElements, BareTame
  <2>5. \A e \in Elements(todo') : \A b \in Within[e] : ~Late(Step, b)
    BY <1>3, <2>2, <2>3
  <2>6. \A b \in Remaining' : ~Late(Step, b)
    BY <2>5 DEF Remaining
  <2> QED
    BY <1>1, <1>4, <1>6, <2>2, <2>4, <2>6
<1>7. CASE /\ Step.onErr = "abandon"
           /\ todo' = After("commit") /\ UNCHANGED result
           /\ text' = IF Markers("commit") = {} THEN text ELSE todo[First("commit")].parent
  <2>1. /\ Shrinks
        /\ \A e \in Elements(todo') :
             /\ e \in Elements(todo) /\ Follows(Step, e)
             /\ Markers("commit") # {}
             /\ \E c \in Elements(todo) : c.op = "commit" /\ Follows(c, e)
    BY <1>7, LeaveShrinks
  <2>2. ASSUME NEW e \in Elements(todo') PROVE Tame(e)
    <3>1. PICK c \in Elements(todo) : c.op = "commit" /\ Follows(c, e)
      BY <2>1
    <3>2. c \in Steps /\ c \in Within[c]
      BY ElementsOf, StepsAssumption DEF CallInv, TodoOK
    <3> QED
      BY <3>1, <3>2 DEF Follows, Guarded, Silent
  <2>3. \A b \in Remaining' : ~Late(Step, b)
    BY <1>3, <2>1 DEF Remaining
  <2> QED
    BY <1>1, <1>7, <2>1, <2>2, <2>3
<1>8. \/ Go(<<>>) /\ UNCHANGED text
      \/ todo' = <<>> /\ result' = "error"
      \/ Step.onErr = "recover" /\ Go(Step.other) /\ UNCHANGED text
      \/ /\ Step.onErr = "abandon"
         /\ todo' = After("commit") /\ UNCHANGED result
         /\ text' = IF Markers("commit") = {} THEN text ELSE todo[First("commit")].parent
  BY DEF HandleError, End
<1> QED
  BY <1>5, <1>6, <1>7, <1>8

\* What a request may change besides.
Outcome ==
  /\ written' = written \/ (Step.verb \in Writing /\ ~Conflict /\ Effect)
  /\ known' = known \/ (Step.verb = "get" /\ known' = known \cup {Step.res})
  /\ failed' = failed \/ (/\ Step.verb \in Writing /\ HandleError
                         /\ failed' = failed \cup {<<Step.verb, Step.res>>})

LEMMA RequestKeeps ==
  ASSUME Tools \subseteq Disciplined, CallInv, Send, (Go(<<>>) /\ UNCHANGED text) \/ HandleError, Outcome
  PROVE  CallInv'
<1>1. /\ call # "" /\ todo # <<>> /\ result = "none" /\ Step.op = "request" /\ IsRequest(Step)
      /\ mode' = mode /\ call' = call /\ accepted' = accepted /\ Tool' = Tool
  BY DEF Send, Running, Step, IsRequest, Tool
<1>2. /\ Shrinks
      /\ text' = "cut" => \A e \in Elements(todo') : Tame(e)
      /\ \A b \in Remaining' : ~Late(Step, b)
      /\ result' \in {"none", "error"}
  BY RequestMoves DEF Send
<1>3. Step \in Remaining /\ Step \in StepsOf(Tool) /\ Tool \in Tools /\ Tool.name = call
  BY <1>1, HeadStep, CalledTool DEF CallInv, OwnRequests
<1>4. \A w \in written' : w \in written \/ (/\ Step.verb \in Writing /\ ~Conflict
                                          /\ w = [verb |-> Step.verb, res |-> Step.res,
                                                  stale |-> Step.res \in known \ fresh])
  BY DEF Outcome, Effect
<1>5. call' \in Names \cup {""} /\ TodoOK' /\ Idle' /\ RejectedArgumentsChangeNothing'
  BY <1>1, <1>2 DEF CallInv, Shrinks, Idle, RejectedArgumentsChangeNothing
<1>6. Admitted'
  BY <1>1 DEF CallInv, Admitted
<1>7. OwnRequests'
  <2>1. Remaining' \subseteq StepsOf(Tool)
    BY <1>1, <1>2 DEF CallInv, OwnRequests, Shrinks
  <2>2. ASSUME NEW w \in written'
        PROVE  \E a \in StepsOf(Tool) : Writes(a) /\ w.verb = a.verb /\ w.res = a.res
    <3>1. CASE w \in written
      BY <1>1, <3>1 DEF CallInv, OwnRequests
    <3>2. CASE w \notin written
      <4>1. w.verb = Step.verb /\ w.res = Step.res /\ Step.verb \in Writing
        BY <1>4, <3>2
      <4>2. Writes(Step)
        BY <1>1, <4>1 DEF Writes
      <4> QED
        BY <1>3, <4>1, <4>2
    <3> QED
      BY <3>1, <3>2
  <2>3. ASSUME NEW r \in asked'
        PROVE  \E a \in StepsOf(Tool) : IsRequest(a) /\ \E v \in Authorized(a.verb) : r = <<v, a.res>>
    <3>1. \E v \in Authorized(Step.verb) : r = <<v, Step.res>>
      BY <2>3 DEF Send
    <3> QED
      BY <1>1, <1>3, <3>1
  <2> QED
    BY <1>1, <2>1, <2>2, <2>3 DEF OwnRequests
<1>8. NothingLate'
  <2>1. SUFFICES ASSUME NEW b \in Remaining'
                 PROVE  /\ written' # {} => b.op # "args"
                        /\ IsRequest(b) /\ b.verb \in {"overwrite", "apply"} => b.res \notin known'
    BY DEF NothingLate
  <2>2. /\ written # {} => b.op # "args"
        /\ IsRequest(b) /\ b.verb \in {"overwrite", "apply"} => b.res \notin known
        /\ ~Late(Step, b)
    BY <1>2 DEF CallInv, NothingLate, Shrinks
  <2>3. written' # {} => written # {} \/ Writes(Step)
    BY <1>1, <1>4 DEF Writes
  <2> QED
    BY <1>1, <2>2, <2>3 DEF Late, Outcome
<1>9. CutIsSeen'
  BY <1>2 DEF CutIsSeen
<1>12. UnseenIsNamed'
  <2>1. ~(Step.verb \notin Writing /\ text = "cut")
    BY <1>1, HeadStep DEF CallInv, CutIsSeen, Tame, Fetches
  <2>2. cutFetch' \subseteq cutFetch \cup unseen /\ unseen' = unseen
    BY <2>1 DEF Send
  <2> QED
    BY <1>1, <2>2 DEF CallInv, UnseenIsNamed
<1>10. FailureEndsCall'
  <2>1. SUFFICES ASSUME result' # "error", NEW f \in failed'
                 PROVE  call = "pods_delete" /\ f \in {<<"delete", "services">>, <<"delete", "routes">>}
    BY <1>1 DEF FailureEndsCall
  <2>2. CASE f \in failed
    BY <1>1, <2>2 DEF CallInv, FailureEndsCall
  <2>3. CASE f \notin failed
    <3>1. Step.verb \in Writing /\ HandleError /\ f = <<Step.verb, Step.res>>
      BY <2>3 DEF Outcome
    <3>2. Step.onErr # "fail"
      BY <2>1, <3>1 DEF HandleError, End
    <3>3. Ignorable(Tool, Step)
      BY <1>1, <1>3, <3>1, <3>2 DEF Disciplined, ReportsFailures, Writes
    <3> QED
      BY <1>3, <3>1, <3>3 DEF Ignorable
  <2> QED
    BY <2>2, <2>3
<1>11. NoLostUpdate'
  <2>1. SUFFICES ASSUME NEW w \in written', w.verb \in {"update", "overwrite", "apply"}
                 PROVE  ~w.stale
    BY DEF NoLostUpdate
  <2>2. CASE w \in written
    BY <2>1, <2>2 DEF CallInv, NoLostUpdate
  <2>3. CASE w \notin written
    <3>1. /\ ~Conflict /\ w.verb = Step.verb /\ w.stale = (Step.res \in known \ fresh)
      BY <1>4, <2>3
    <3>2. Step.verb \in {"overwrite", "apply"} => Step.res \notin known
      BY <1>1, <1>3 DEF CallInv, NothingLate
    <3> QED
      BY <2>1, <3>1, <3>2 DEF Conflict
  <2> QED
    BY <2>2, <2>3
<1> QED
  BY <1>5, <1>6, <1>7, <1>8, <1>9, <1>10, <1>11, <1>12 DEF CallInv

LEMMA AnsweredKeeps ==
  ASSUME Tools \subseteq Disciplined, CallInv, Answered \/ Refused \/ AnswerLost
  PROVE  CallInv'
<1>1. Send /\ ((Go(<<>>) /\ UNCHANGED text) \/ HandleError)
  BY DEF Answered, Refused, AnswerLost
<1>2. Outcome
  BY DEF Answered, Refused, AnswerLost, Outcome
<1> QED
  BY <1>1, <1>2, RequestKeeps

LEMMA CallNext ==
  ASSUME Tools \subseteq Disciplined, CallInv, [Next]_vars
  PROVE  CallInv'
<1>1. CASE UNCHANGED vars
  BY <1>1 DEF vars, progress, effects, requests, CallInv, TodoOK, Idle, Admitted, OwnRequests, NothingLate,
              CutIsSeen, UnseenIsNamed,
              FailureEndsCall, RejectedArgumentsChangeNothing, NoLostUpdate, Remaining, Tool
<1> QED
  BY <1>1, StartKeeps, CheckArgsKeeps, LocalStepKeeps, BranchKeeps, LoopKeeps, LoopStepKeeps, AnsweredKeeps,
     OtherWritesKeeps, PutTextKeeps, StartSectionKeeps, StartScratchKeeps, CommitKeeps, ReturnedKeeps,
     ForgetKeeps DEF Next

LEMMA CallInvHolds ==
  ASSUME Tools \subseteq Disciplined
  PROVE  Spec => []CallInv
<1>1. Init => CallInv
  BY CallInit
<1>2. CallInv /\ [Next]_vars => CallInv'
  BY CallNext
<1> QED
  BY <1>1, <1>2, PTL DEF Spec

\* The tools do what they declare.
LEMMA OwnRequestsAreDeclared ==
  ASSUME Tools \subseteq Disciplined, CallInv
  PROVE  DeclarationsHold
<1>1. CASE call = ""
  BY <1>1 DEF CallInv, Idle, DeclarationsHold, ReadOnlyModeNeverWrites, NoUnconfirmedDestruction,
              IdempotentToolsRepeatNothing, DeclaredRBACCovers
<1>2. CASE call # ""
  <2>1. Tool \in Tools /\ Tool.name = call /\ Tool.decl = Decl
    BY <1>2, CalledTool DEF Tool, Decl
  <2>2. Declares(Tool)
    BY <2>1 DEF Disciplined
  <2>3. ASSUME NEW w \in written
        PROVE  /\ Decl.kind # "prompt" /\ ~Decl.readOnly
               /\ w.verb \in Replacing => call = "pods_run" \/ (Decl.kind = "tool" /\ Decl.destructive)
               /\ w.verb \in Repeating => call = "vm_clone" \/ ~Decl.idempotent
    <3>1. PICK a \in StepsOf(Tool) : Writes(a) /\ w.verb = a.verb /\ w.res = a.res
      BY <1>2, <2>3 DEF CallInv, OwnRequests
    <3>2. IsRequest(a) /\ a.verb \in Writing
      BY <3>1 DEF Writes
    <3> QED
      BY <2>1, <2>2, <3>1, <3>2 DEF Declares
  <2>4. ASSUME NEW w \in written
        PROVE  Offered(mode, Decl) /\ (NeedsConfirmation(mode, Decl) => accepted \in Confirmed(mode))
    BY <1>2, <2>1, <2>4 DEF CallInv, Admitted
  <2>5. ReadOnlyModeNeverWrites
    BY <2>3, <2>4 DEF ReadOnlyModeNeverWrites, Offered
  <2>6. NoUnconfirmedDestruction
    BY <2>3, <2>4 DEF NoUnconfirmedDestruction, Offered, NeedsConfirmation, Confirmed
  <2>7. IdempotentToolsRepeatNothing
    BY <2>3 DEF IdempotentToolsRepeatNothing
  <2>8. DeclaredRBACCovers
    <3>1. SUFFICES ASSUME call # "vm_create", NEW r \in asked, r[1] # "http"
                   PROVE  \/ Decl.rbac.form \notin {"none", "bounded"}
                          \/ Decl.rbac.form = "bounded" /\ r \in Decl.rbac.allow
      BY DEF DeclaredRBACCovers
    <3>2. PICK a \in StepsOf(Tool) : IsRequest(a) /\ \E v \in Authorized(a.verb) : r = <<v, a.res>>
      BY <1>2 DEF CallInv, OwnRequests
    <3>3. PICK v \in Authorized(a.verb) : r = <<v, a.res>>
      BY <3>2
    <3> QED
      BY <2>1, <2>2, <3>1, <3>2, <3>3 DEF Declares
  <2> QED
    BY <2>5, <2>6, <2>7, <2>8 DEF DeclarationsHold
<1> QED
  BY <1>1, <1>2

-----------------------------------------------------------------------------
(* The theorems. *)

\* A tool keeps what its declaration promises, in every mode, on every path and
\* with any number of items in its loops, when its handler is disciplined.
THEOREM DeclarationsAreKept ==
  ASSUME Tools \subseteq Disciplined
  PROVE  Spec => []DeclarationsHold
<1>1. CallInv => DeclarationsHold
  BY OwnRequestsAreDeclared
<1> QED
  BY <1>1, CallInvHolds, PTL

\* Arguments are refused before anything is written, success means that no
\* write was seen to fail, and nothing another client wrote is overwritten unseen.
THEOREM HandlersWriteHonestly ==
  ASSUME Tools \subseteq Disciplined
  PROVE  Spec => []WritesAreHonest
<1>1. CallInv => WritesAreHonest
  BY DEF CallInv, FailureEndsCall, WritesAreHonest, SuccessMeansWritten
<1> QED
  BY <1>1, CallInvHolds, PTL

\* Nothing is fetched for a builder that is cut, whatever the loops and sections
\* are, and a cut that the builder around the scratch does not show is followed by a
\* fetch only in the three collectors that gather in scratches.
THEOREM CutEndsFetching ==
  ASSUME Tools \subseteq Disciplined
  PROVE  Spec => []NoFetchAfterCut
<1>1. CallInv => NoFetchAfterCut
  BY DEF CallInv, UnseenIsNamed, NoFetchAfterCut
<1> QED
  BY <1>1, CallInvHolds, PTL
=============================================================================
