------------------------- MODULE ClusterStateWatcher -------------------------
(***************************************************************************)
(* The polling watcher (pkg/kubernetes/watcher/cluster.go): a goroutine    *)
(* polls the cluster's API groups every PollInterval, compares them with   *)
(* lastKnownState and (re)arms a debounce timer when they differ; the      *)
(* timer's goroutine re-applies the toolsets and records what it captures  *)
(* afterwards.                                                             *)
(*                                                                         *)
(* Discovery goes through one memory cache that the watcher, the apply and *)
(* the tools of the default manager share: a read fills an empty cache,    *)
(* the poll invalidates it first, and a tool whose kind is unknown resets  *)
(* the RESTMapper, which empties it.                                       *)
(***************************************************************************)
EXTENDS Naturals

CONSTANTS
    PollInterval,   \* in ticks
    DebounceWindow, \* in ticks
    Timers,         \* timer goroutines that may run at the same time
    MaxChanges,     \* bound on changes of the cluster
    MaxReadFailures \* bound on discovery reads and applies that fail

ASSUME WatcherAssumption ==
    /\ PollInterval \in Nat \ {0} /\ DebounceWindow \in Nat \ {0}
    /\ MaxChanges \in Nat /\ MaxReadFailures \in Nat

\* What the cluster serves, after so many changes; a failed capture is empty.
Worlds   == 1..MaxChanges + 1
Nothing  == 0
Captures == Worlds \cup {Nothing}
Off      == DebounceWindow + 1      \* the timer is not armed

VARIABLES
    world,        \* what the cluster serves
    cache,        \* the discovery cache, Nothing when it is empty
    readFailures, \* reads and applies that failed
    applied,      \* what the toolsets in place were collected from
    lastKnown,    \* w.lastKnownState
    loop,         \* the polling goroutine
    current,      \* its capture
    tick,         \* time to the ticker's next tick
    debounce,     \* time to the debounce timer's end, or Off
    callback,     \* each timer goroutine: where it is and what it read
    closing,      \* Close: not called, waiting for the goroutine, returned
    disturbed     \* history: a tool emptied the cache, or a poll met a reload

worldVars == <<world, cache, readFailures>>
stateVars == <<worldVars, applied, lastKnown, loop, current, tick, debounce, callback,
               closing, disturbed>>

Loops     == {"off", "select", "captured", "stopped"}
CbStates  == {"idle", "waiting", "applying", "reloaded", "captured"}
Cb(st, v) == [st |-> st, read |-> v]
IdleCb    == Cb("idle", Nothing)

\* Every variable holds a value of its type.
StateTypeOK ==
    /\ world \in Worlds
    /\ cache \in Captures /\ lastKnown \in Captures /\ applied \in Captures
    /\ current \in Captures
    /\ readFailures \in 0..MaxReadFailures
    /\ loop \in Loops
    /\ tick \in 0..PollInterval
    /\ debounce \in 0..Off
    /\ callback \in [Timers -> [st : CbStates, read : Captures]]
    /\ closing \in {"no", "stopping", "closed"}
    /\ disturbed \in BOOLEAN

\* The toolsets were applied before the watcher is started, and what that
\* apply discovered is in the cache.
StateInit ==
    /\ world = 1
    /\ cache = 1
    /\ readFailures = 0
    /\ applied = 1
    /\ lastKnown = Nothing
    /\ loop = "off"
    /\ current = Nothing
    /\ tick = PollInterval
    /\ debounce = Off
    /\ callback = [c \in Timers |-> IdleCb]
    /\ closing = "no"
    /\ disturbed = FALSE

-----------------------------------------------------------------------------
(***************************************************************************)
(* The cluster, and discovery.                                             *)
(***************************************************************************)
\* An API group, a CRD or a workspace comes or goes.
Change ==
    /\ world <= MaxChanges
    /\ world' = world + 1
    /\ UNCHANGED <<cache, readFailures, applied, lastKnown, loop, current, tick, debounce,
                   callback, closing, disturbed>>

\* A tool call resets the RESTMapper, and with it the cache.
ResetMapper ==
    /\ cache # Nothing
    /\ cache' = Nothing
    /\ disturbed' = TRUE
    /\ UNCHANGED <<world, readFailures, applied, lastKnown, loop, current, tick, debounce,
                   callback, closing>>

Fetch(v) ==
    \/ /\ v = world
       /\ cache' = world
       /\ UNCHANGED <<world, readFailures>>
    \/ /\ readFailures < MaxReadFailures
       /\ v = Nothing
       /\ readFailures' = readFailures + 1
       /\ cache' = Nothing
       /\ UNCHANGED world

\* captureState: v is what a read through the cache returns.
captureState(v) ==
    IF cache = Nothing THEN Fetch(v) ELSE v = cache /\ UNCHANGED worldVars

-----------------------------------------------------------------------------
(***************************************************************************)
(* The polling goroutine.                                                  *)
(***************************************************************************)
\* Watch captures the state and starts the goroutine.
Watch ==
    /\ loop = "off"
    /\ closing = "no"
    /\ \E v \in Captures : captureState(v) /\ lastKnown' = v
    /\ loop' = "select"
    /\ UNCHANGED <<applied, current, tick, debounce, callback, closing, disturbed>>

\* Time passes unless something is due.  The ticker keeps one tick for a loop
\* that is late.
Tick ==
    /\ loop \in {"select", "captured"} \/ debounce # Off
    /\ ~(tick = 0 /\ loop = "select")
    /\ debounce # 0
    /\ tick' = IF tick = 0 THEN 0 ELSE tick - 1
    /\ debounce' = IF debounce = Off THEN Off ELSE debounce - 1
    /\ UNCHANGED <<worldVars, applied, lastKnown, loop, current, callback, closing,
                   disturbed>>

\* A tick: Invalidate, then captureState.
PollState ==
    /\ loop = "select"
    /\ tick = 0
    /\ disturbed' = (disturbed \/ \E c \in Timers : callback[c] # IdleCb)
    /\ tick' = PollInterval
    /\ \E v \in Captures : Fetch(v) /\ current' = v
    /\ loop' = "captured"
    /\ UNCHANGED <<applied, lastKnown, debounce, callback, closing>>

\* Bug: Close waits for the goroutine with mu held.
CompareWhileOpen ==
    /\ loop = "captured"
    /\ closing # "stopping"
    /\ debounce' = IF current # lastKnown THEN DebounceWindow ELSE debounce
    /\ current' = Nothing
    /\ loop' = "select"
    /\ UNCHANGED <<worldVars, applied, lastKnown, tick, callback, closing,
                   disturbed>>

\* The comparison under mu.  A change arms the timer anew.
CompareState ==
    /\ loop = "captured"
    /\ debounce' = IF current # lastKnown THEN DebounceWindow ELSE debounce
    /\ current' = Nothing
    /\ loop' = "select"
    /\ UNCHANGED <<worldVars, applied, lastKnown, tick, callback, closing,
                   disturbed>>

\* select sees stopCh closed, at once or when the poll in progress is done.
StopLoop ==
    /\ loop = "select"
    /\ closing = "stopping"
    /\ loop' = "stopped"
    /\ UNCHANGED <<worldVars, applied, lastKnown, current, tick, debounce, callback,
                   closing, disturbed>>

-----------------------------------------------------------------------------
(***************************************************************************)
(* The timer's goroutine.  onChange takes reloadMu, collects from what it  *)
(* discovers, and commits; an apply that fails leaves lastKnownState as it *)
(* was, so that the next poll tries again.                                 *)
(***************************************************************************)
notCallback == <<lastKnown, loop, current, tick, debounce, closing, disturbed>>

FireDebounce(c) ==
    /\ debounce = 0
    /\ callback[c] = IdleCb
    /\ debounce' = Off
    /\ callback' = [callback EXCEPT ![c] = Cb("waiting", Nothing)]
    /\ UNCHANGED <<worldVars, applied, lastKnown, loop, current, tick, closing,
                   disturbed>>

\* Collecting fails open: tools whose APIs could not be discovered stay.
Collect(c) ==
    /\ callback[c].st = "waiting"
    /\ \A d \in Timers : callback[d].st # "applying"
    /\ \E v \in Captures :
         /\ captureState(v)
         /\ callback' = [callback EXCEPT ![c] = Cb("applying", v)]
    /\ UNCHANGED <<applied, notCallback>>

Commit(c) ==
    /\ callback[c].st = "applying"
    /\ applied' = callback[c].read
    /\ callback' = [callback EXCEPT ![c] = Cb("reloaded", Nothing)]
    /\ UNCHANGED <<worldVars, notCallback>>

ApplyFails(c) ==
    /\ callback[c].st = "applying"
    /\ readFailures < MaxReadFailures
    /\ readFailures' = readFailures + 1
    /\ callback' = [callback EXCEPT ![c] = IdleCb]
    /\ UNCHANGED <<world, cache, applied, notCallback>>

\* Bug: the capture after a reload asks the API server again.
RecaptureFresh(c) ==
    /\ callback[c].st = "reloaded"
    /\ \E v \in Captures :
         /\ Fetch(v)
         /\ callback' = [callback EXCEPT ![c] = Cb("captured", v)]
    /\ UNCHANGED <<applied, notCallback>>

Recapture(c) ==
    /\ callback[c].st = "reloaded"
    /\ \E v \in Captures :
         /\ captureState(v)
         /\ callback' = [callback EXCEPT ![c] = Cb("captured", v)]
    /\ UNCHANGED <<applied, notCallback>>

\* Bug: the new state is not remembered.
RecordNothing(c) ==
    /\ callback[c].st = "captured"
    /\ callback' = [callback EXCEPT ![c] = IdleCb]
    /\ UNCHANGED <<worldVars, applied, notCallback>>

Record(c) ==
    /\ callback[c].st = "captured"
    /\ lastKnown' = callback[c].read
    /\ callback' = [callback EXCEPT ![c] = IdleCb]
    /\ UNCHANGED <<worldVars, applied, loop, current, tick, debounce, closing,
                   disturbed>>

-----------------------------------------------------------------------------
(***************************************************************************)
(* Close stops the timer, tells the goroutine to stop and, with mu         *)
(* released, waits for it.                                                 *)
(***************************************************************************)
CloseWatcher ==
    /\ closing = "no"
    /\ debounce' = Off
    /\ closing' = IF loop = "off" THEN "closed" ELSE "stopping"
    /\ UNCHANGED <<worldVars, applied, lastKnown, loop, current, tick, callback,
                   disturbed>>

CloseReturns ==
    /\ closing = "stopping"
    /\ loop = "stopped"
    /\ closing' = "closed"
    /\ UNCHANGED <<worldVars, applied, lastKnown, loop, current, tick, debounce, callback,
                   disturbed>>

-----------------------------------------------------------------------------
Reload(c) == Collect(c) \/ Commit(c) \/ ApplyFails(c) \/ Recapture(c) \/ Record(c)
Loop      == Watch \/ PollState \/ CompareState \/ StopLoop

StateNext ==
    \/ Change
    \/ ResetMapper
    \/ Tick
    \/ Loop
    \/ \E c \in Timers : FireDebounce(c) \/ Reload(c)
    \/ CloseWatcher
    \/ CloseReturns

\* Time passes, goroutines are scheduled, the API server answers, and select
\* does not prefer the ticker for ever.
StateFairness ==
    /\ WF_stateVars(Tick)
    /\ WF_stateVars(Loop)
    /\ SF_stateVars(StopLoop)
    /\ WF_stateVars(\E c \in Timers : FireDebounce(c))
    /\ \A c \in Timers : WF_stateVars(Reload(c))
    /\ WF_stateVars(CloseReturns)

StateSafeSpec == StateInit /\ [][StateNext]_stateVars
StateSpec     == StateSafeSpec /\ StateFairness

-----------------------------------------------------------------------------
(***************************************************************************)
(* Properties.                                                             *)
(***************************************************************************)
StateWatching == loop = "select" /\ closing = "no"
Pending       == debounce # Off \/ \E c \in Timers : callback[c] # IdleCb

\* The recapture after a reload does not swallow a change: when the watcher
\* has nothing to do and believes to know the cluster, the toolsets in place
\* were collected from that cluster, or from a failed discovery that hides
\* nothing.  This rests on the shared cache, which the collecting fills and the
\* recapture finds: it is lost once a tool has emptied the cache or a poll has
\* refreshed it while a reload was running.
KnownMeansApplied ==
    ~disturbed /\ StateWatching /\ ~Pending /\ lastKnown = world
        => applied \in {world, Nothing}

\* In the end the watcher knows the cluster as it is, whatever changed and
\* whichever reads and reloads failed on the way, unless it was closed.
CatchesUp == <>[](lastKnown = world \/ closing # "no")

\* Close, which waits for the polling goroutine, returns, also when a poll is
\* in progress.
CloseTerminates == closing = "stopping" ~> closing = "closed"

=============================================================================
