---------------------------- MODULE WatcherGroup ----------------------------
(***************************************************************************)
(* The watchers of a cluster provider (pkg/kubernetes/watcher_group.go):   *)
(* a primary watcher that follows the provider's targets and a             *)
(* cluster-state watcher.  The targets are the contexts of a kubeconfig    *)
(* file, watched through file events (watcher/kubeconfig.go), or the       *)
(* workspaces of a kcp server, which are polled (kcp/workspace_watcher.go).*)
(* A change resets the provider, which replaces both watchers by a new     *)
(* pair, numbered here, and watches again.                                 *)
(*                                                                         *)
(* A pair that is neither installed nor running nor referred to gives its  *)
(* number to a later one, except for the first.                            *)
(*                                                                         *)
(* Contents of the file, and trees of workspaces, are numbered as they     *)
(* come; 0 is a list that a failed request has left short.  The watcher    *)
(* polls the workspaces of the first level only, a reset discovers those   *)
(* of every level.                                                         *)
(*                                                                         *)
(* NewServer's first WatchTargets runs without reloadMu, next to the       *)
(* callbacks of the watcher it has already started.                        *)
(***************************************************************************)
EXTENDS Naturals

CONSTANTS
    Callbacks,      \* debounce-timer goroutines of primary watchers
    Boot,           \* the goroutine of NewServer
    NoOne,          \* "reloadMu is free"
    MaxPairs,       \* bound on pairs of watchers at a time
    MaxVersions,    \* bound on contents of the file, or trees of workspaces
    MaxFailures     \* bound on resets, requests and file watches that fail

ASSUME GroupAssumption ==
    /\ Boot \notin Callbacks /\ NoOne \notin Callbacks \cup {Boot}
    /\ MaxPairs \in Nat \ {0} /\ MaxVersions \in Nat \ {0} /\ MaxFailures \in Nat

Pairs    == 1..MaxPairs
Versions == 0..MaxVersions
Procs    == Callbacks \cup {Boot}

VARIABLES
    strategy,   \* "kubeconfig" or "kcp"
    targets,    \* the kubeconfig file, or the workspaces, as they are
    first,      \* the targets when the first level of workspaces last changed
    loaded,     \* the targets the provider has
    failures,   \* resets, requests and file watches that failed so far
    failed,     \* the last reset failed
    closed,     \* g.closed
    pair,       \* g.primary and g.cluster
    primary,    \* pairs whose primary goroutine runs
    deaf,       \* pairs whose primary watches no file
    cluster,    \* pairs whose cluster-state goroutine runs
    event,      \* pairs with a file event not yet taken
    known,      \* lastKnownState of each workspace watcher
    polls,      \* lists that a poll has read and not yet compared
    timer,      \* pairs whose debounce timer runs
    reloadMu,
    pc,         \* where each goroutine is
    snap,       \* the pair it has read in WatchTargets
    read,       \* what its reset has read
    settled     \* the last change made when no reload was running or due

goroutines == <<pc, snap, read>>
watchers   == <<primary, deaf, cluster, event, polls, timer>>
faults     == <<failures, failed>>
vars == <<strategy, targets, first, loaded, faults, closed, pair, watchers, known, reloadMu,
          goroutines, settled>>

\* Every variable holds a value of its type.
TypeOK ==
    /\ strategy \in {"kubeconfig", "kcp"}
    /\ {targets, first, loaded, settled} \subseteq Versions
    /\ failures \in 0..MaxFailures /\ failed \in BOOLEAN
    /\ closed \in BOOLEAN
    /\ pair \in Pairs
    /\ primary \subseteq Pairs /\ deaf \subseteq Pairs /\ cluster \subseteq Pairs
    /\ known \in [Pairs -> Versions]
    /\ polls \subseteq Pairs \X Versions
    /\ event \subseteq Pairs /\ timer \subseteq Pairs
    /\ reloadMu \in Callbacks \cup {NoOne}
    /\ pc \in [Procs -> {"idle", "lock", "reset", "replace", "snapshot",
                         "primary", "cluster", "recheck", "apply"}]
    /\ snap \in [Procs -> Pairs]
    /\ read \in [Procs -> Versions]

\* The provider's constructor has installed the first pair.
Init ==
    /\ strategy \in {"kubeconfig", "kcp"}
    /\ targets = 1 /\ first = 1 /\ loaded = 1 /\ settled = 1
    /\ failures = 0 /\ failed = FALSE
    /\ known = [g \in Pairs |-> 0] /\ polls = {}
    /\ closed = FALSE
    /\ pair = 1
    /\ primary = {} /\ deaf = {} /\ cluster = {} /\ event = {} /\ timer = {}
    /\ reloadMu = NoOne
    /\ pc = [p \in Procs |-> IF p = Boot THEN "snapshot" ELSE "idle"]
    /\ snap = [p \in Procs |-> 1]
    /\ read = [p \in Procs |-> 0]

At(p, s) == pc[p] = s
Goto(p, s) == pc' = [pc EXCEPT ![p] = s]

-----------------------------------------------------------------------------
(***************************************************************************)
(* The targets and the primary watcher's goroutine.                        *)
(***************************************************************************)
Busy == reloadMu # NoOne \/ event # {} \/ timer # {} \/ \E p \in Procs : ~At(p, "idle")

\* A workspace may come or go at the first level, or below it.
Edit ==
    /\ targets < MaxVersions
    /\ targets' = targets + 1
    /\ first' \in IF strategy = "kcp" THEN {first, targets'} ELSE {targets'}
    /\ event' = IF strategy = "kubeconfig" THEN event \cup (primary \ deaf) ELSE event
    /\ settled' = IF Busy THEN settled ELSE targets'
    /\ UNCHANGED <<strategy, loaded, faults, closed, pair, primary, deaf, cluster, polls,
                   timer, known, reloadMu, goroutines>>

\* The event (re)starts the debounce window.
Notice(g) ==
    /\ g \in event
    /\ event' = event \ {g}
    /\ timer' = timer \cup {g}
    /\ UNCHANGED <<strategy, targets, first, loaded, faults, closed, pair, primary, deaf, cluster,
                   polls, known, reloadMu, goroutines, settled>>

Fails == failures < MaxFailures /\ failures' = failures + 1

\* What captureState can return, and whether the request for it failed: it
\* lists the first level only.
CaptureState(list) ==
    \/ list = first /\ UNCHANGED failures
    \/ list = 0 /\ Fails

\* The workspace watcher's ticker: it lists the workspaces.
Poll(g) ==
    /\ strategy = "kcp"
    /\ g \in primary
    /\ ~\E list \in Versions : <<g, list>> \in polls
    /\ \E list \in Versions : CaptureState(list) /\ polls' = polls \cup {<<g, list>>}
    /\ UNCHANGED <<strategy, targets, first, loaded, failed, closed, pair, primary, deaf, cluster,
                   event, timer, known, reloadMu, goroutines, settled>>

Changed(g, list) == <<g, list>> \in polls /\ list # known[g]

\* Another list than the last known one (re)starts the debounce window.
Compare(g, list) ==
    /\ <<g, list>> \in polls
    /\ polls' = polls \ {<<g, list>>}
    /\ timer' = IF Changed(g, list) THEN timer \cup {g} ELSE timer
    /\ UNCHANGED <<strategy, targets, first, loaded, faults, closed, pair, primary, deaf, cluster,
                   event, known, reloadMu, goroutines, settled>>

Fire(g, p) ==
    /\ g \in timer
    /\ At(p, "idle")
    /\ timer' = timer \ {g}
    /\ Goto(p, "lock")
    /\ UNCHANGED <<strategy, targets, first, loaded, faults, closed, pair, primary, deaf, cluster,
                   event, polls, known, reloadMu, snap, read, settled>>

\* Closing a watcher stops its timer and, if it was started, its goroutine; a
\* watcher that was not started can still be started later.  The timer is
\* stopped first: until the goroutine sees stopCh it may take the event, or
\* end the poll, that it is at, and start the timer again.
StopPair(g) ==
    /\ primary' = primary \ {g}
    /\ deaf' = deaf \ {g}
    /\ cluster' = cluster \ {g}
    /\ event' = event \ {g}
    /\ polls' = {q \in polls : q[1] # g}
    /\ \/ timer' = timer \ {g}
       \/ /\ g \in event \/ \E list \in Versions : Changed(g, list)
          /\ timer' = timer \cup {g}

-----------------------------------------------------------------------------
(***************************************************************************)
(* The callback: reset, WatchTargets and ApplyToolsets under reloadMu.     *)
(***************************************************************************)
Lock(p) ==
    /\ At(p, "lock")
    /\ reloadMu = NoOne
    /\ reloadMu' = p
    /\ Goto(p, "reset")
    /\ UNCHANGED <<strategy, targets, first, loaded, faults, closed, pair, watchers, known, snap,
                   read, settled>>

Unlock(p) ==
    /\ reloadMu' = NoOne
    /\ Goto(p, "idle")

inReset == <<strategy, targets, first, loaded, closed, pair, watchers, known, snap, settled>>

\* reset: nothing after Close.
ResetClosed(p) ==
    /\ At(p, "reset")
    /\ closed
    /\ Unlock(p)
    /\ UNCHANGED <<inReset, faults, read>>

\* A kubeconfig that is half-written, or no client for it: the provider keeps
\* its targets and its watchers.
ResetFails(p) ==
    /\ At(p, "reset")
    /\ ~closed
    /\ Fails
    /\ failed' = TRUE
    /\ Unlock(p)
    /\ UNCHANGED <<inReset, read>>

\* The kubeconfig provider: a new manager from the file.
Reset(p) ==
    /\ At(p, "reset")
    /\ ~closed
    /\ strategy = "kubeconfig"
    /\ read' = [read EXCEPT ![p] = targets]
    /\ failed' = FALSE
    /\ Goto(p, "replace")
    /\ UNCHANGED <<inReset, failures, reloadMu>>

\* It lists level after level.  A list that fails is skipped, with what is below
\* it, and is not an error, so the provider is left with the workspaces above
\* and does not fall back to the kubeconfig.
DiscoverAllWorkspaces(list) ==
    \/ list = targets /\ UNCHANGED failures
    \/ list = 0 /\ Fails

\* The kcp provider: a new manager for the default workspace, and the list of
\* the others.
ResetWorkspaces(p) ==
    /\ At(p, "reset")
    /\ ~closed
    /\ strategy = "kcp"
    /\ \E list \in Versions :
         DiscoverAllWorkspaces(list) /\ read' = [read EXCEPT ![p] = list]
    /\ failed' = FALSE
    /\ Goto(p, "replace")
    /\ UNCHANGED <<inReset, reloadMu>>

Referred == {1, pair} \cup primary \cup cluster \cup timer \cup {snap[p] : p \in Procs}

\* Installs a new pair.
NewPair ==
    /\ Referred # Pairs
    /\ pair' = CHOOSE g \in Pairs : g \notin Referred
    /\ known' = [known EXCEPT ![pair] = 0, ![pair'] = 0]

\* Bug: Replace leaves the old cluster-state watcher running.
ReplacePrimary(p) ==
    /\ At(p, "replace")
    /\ loaded' = read[p]
    /\ \/ /\ closed
          /\ Unlock(p)
          /\ UNCHANGED <<pair, known, watchers>>
       \/ /\ ~closed
          /\ primary' = primary \ {pair}
          /\ deaf' = deaf \ {pair}
          /\ event' = event \ {pair}
          /\ timer' = timer \ {pair}
          /\ NewPair
          /\ Goto(p, "snapshot")
          /\ UNCHANGED <<cluster, polls, reloadMu>>
    /\ UNCHANGED <<strategy, targets, first, faults, closed, snap, read, settled>>

\* Replace, the last step of reset.  After Close the new pair, which was never
\* started, is dropped.
Replace(p) ==
    /\ At(p, "replace")
    /\ loaded' = read[p]
    /\ \/ /\ closed
          /\ Unlock(p)
          /\ UNCHANGED <<pair, known, watchers>>
       \/ /\ ~closed
          /\ StopPair(pair)
          /\ NewPair
          /\ Goto(p, "snapshot")
          /\ UNCHANGED reloadMu
    /\ UNCHANGED <<strategy, targets, first, faults, closed, snap, read, settled>>

ApplyToolsets(p) ==
    /\ At(p, "apply")
    /\ Unlock(p)
    /\ snap' = [snap EXCEPT ![p] = 1]
    /\ UNCHANGED <<strategy, targets, first, loaded, faults, closed, pair, watchers, known, read,
                   settled>>

-----------------------------------------------------------------------------
(***************************************************************************)
(* WatchTargets, by the callback or by NewServer.  The pair is read under  *)
(* the group's lock, the watchers are started outside it.                  *)
(***************************************************************************)
Done(p) == IF p = Boot THEN "idle" ELSE "apply"

\* Bug: the reset is not followed by WatchTargets.
SnapshotNothing(p) ==
    /\ At(p, "snapshot")
    /\ Goto(p, IF p # Boot \/ closed THEN Done(p) ELSE "primary")
    /\ snap' = [snap EXCEPT ![p] = pair]
    /\ read' = [read EXCEPT ![p] = 0]
    /\ UNCHANGED <<strategy, targets, first, loaded, faults, closed, pair, watchers, known,
                   reloadMu, settled>>

Snapshot(p) ==
    /\ At(p, "snapshot")
    /\ Goto(p, IF closed THEN Done(p) ELSE "primary")
    /\ snap' = [snap EXCEPT ![p] = pair]
    /\ read' = [read EXCEPT ![p] = 0]
    /\ UNCHANGED <<strategy, targets, first, loaded, faults, closed, pair, watchers, known,
                   reloadMu, settled>>

notWatching == <<strategy, targets, first, loaded, failed, closed, pair, event, polls, timer,
                 reloadMu, snap, read, settled>>

\* Without files or a file watcher nothing is started; a file that cannot be
\* added to the watcher is skipped, and the goroutine hears nothing of it.
WatchPrimary(p) ==
    /\ At(p, "primary")
    /\ strategy = "kubeconfig"
    /\ \/ /\ primary' = primary \cup {snap[p]}
          /\ UNCHANGED <<deaf, failures>>
       \/ /\ primary' \in {primary, primary \cup {snap[p]}}
          /\ deaf' = deaf \cup {snap[p]}
          /\ Fails
    /\ Goto(p, "cluster")
    /\ UNCHANGED <<notWatching, cluster, known>>

\* Bug: the state of the watcher starts out empty.
WatchWorkspacesUnknown(p) ==
    /\ At(p, "primary")
    /\ strategy = "kcp"
    /\ primary' = primary \cup {snap[p]}
    /\ Goto(p, "cluster")
    /\ UNCHANGED <<notWatching, failures, deaf, cluster, known>>

\* The workspace watcher starts from the list as it is now, which need not be
\* the one the reset has read.
WatchWorkspaces(p) ==
    /\ At(p, "primary")
    /\ strategy = "kcp"
    /\ \E list \in Versions :
         CaptureState(list) /\ known' = [known EXCEPT ![snap[p]] = list]
    /\ primary' = primary \cup {snap[p]}
    /\ Goto(p, "cluster")
    /\ UNCHANGED <<notWatching, deaf, cluster>>

\* It asks the API server for the state of the cluster first.
WatchCluster(p) ==
    /\ At(p, "cluster")
    /\ cluster' = cluster \cup {snap[p]}
    /\ Goto(p, "recheck")
    /\ UNCHANGED <<notWatching, failures, primary, deaf, known>>

\* Bug: WatchTargets does not look at closed again.
RecheckNothing(p) ==
    /\ At(p, "recheck")
    /\ Goto(p, Done(p))
    /\ UNCHANGED <<strategy, targets, first, loaded, faults, closed, pair, watchers, known,
                   reloadMu, snap, read, settled>>

\* Close may have run since the snapshot.
Recheck(p) ==
    /\ At(p, "recheck")
    /\ IF closed THEN StopPair(pair) ELSE UNCHANGED watchers
    /\ Goto(p, Done(p))
    /\ UNCHANGED <<strategy, targets, first, loaded, faults, closed, pair, known, reloadMu, snap,
                   read, settled>>

-----------------------------------------------------------------------------
\* Close, once NewServer has returned.
Close ==
    /\ ~closed
    /\ At(Boot, "idle")
    /\ closed' = TRUE
    /\ StopPair(pair)
    /\ UNCHANGED <<strategy, targets, first, loaded, faults, pair, known, reloadMu, goroutines,
                   settled>>

WatchTargets(p) ==
    Snapshot(p) \/ WatchPrimary(p) \/ WatchWorkspaces(p) \/ WatchCluster(p) \/ Recheck(p)
ResetLocked(p)  == ResetClosed(p) \/ ResetFails(p) \/ Reset(p) \/ ResetWorkspaces(p)
Callback(p)     ==
    Lock(p) \/ ResetLocked(p) \/ Replace(p) \/ WatchTargets(p) \/ ApplyToolsets(p)

Next ==
    \/ Edit
    \/ \E g \in Pairs : Notice(g) \/ Poll(g) \/ \E list \in Versions : Compare(g, list)
    \/ \E g \in Pairs, p \in Callbacks : Fire(g, p)
    \/ \E p \in Callbacks : Callback(p)
    \/ WatchTargets(Boot)
    \/ Close

\* Goroutines and timers are scheduled, and the lock is handed out fairly.
\* The poll interval is longer than the debounce window, or a poll that keeps
\* seeing the change would restart it for ever.
Fairness ==
    /\ \A g \in Pairs :
         /\ WF_vars(Notice(g))
         /\ WF_vars(Poll(g))
         /\ WF_vars(\E list \in Versions : Compare(g, list))
         /\ WF_vars(\E p \in Callbacks : Fire(g, p))
    /\ \A p \in Callbacks : WF_vars(Callback(p)) /\ SF_vars(Lock(p))
    /\ WF_vars(WatchTargets(Boot))

SafeSpec == Init /\ [][Next]_vars
Spec     == SafeSpec /\ Fairness

-----------------------------------------------------------------------------
(***************************************************************************)
(* Properties.                                                             *)
(***************************************************************************)
Watching == \E p \in Procs : pc[p] \in {"snapshot", "primary", "cluster", "recheck"}

\* After Close, and once the WatchTargets that it interrupted are over, no
\* watcher of the group's pair runs, although they start them after Close.
ClosedPairIsStopped ==
    closed /\ ~Watching => pair \notin primary \cup cluster

\* Whatever resets there were, only the pair that the group knows, and can
\* stop, runs.  The one exception is the first cluster-state watcher: a reset
\* that comes while NewServer is about to start it closes it before it is
\* started, and then nobody stops it.
OnlyCurrentPairRuns ==
    ~Watching => primary \subseteq {pair} /\ cluster \subseteq {pair, 1}

\* A change of the targets that finds the provider at rest is loaded, and so is
\* the next one: after each reset the new pair is watching.  Two changes are
\* not noticed: one of a file that the pair's watcher could not watch, and one
\* below the first level of workspaces, which is loaded with the next change
\* at the first level (first >= v).  A workspace watcher tries again when the
\* reset fails, because it keeps its last known state; a kubeconfig watcher
\* does not, as the event is gone.  What a reset of the kcp provider cannot
\* list is dropped (loaded = 0), and stays so when the new watcher can list it.
SettledEditIsLoaded ==
    \A v \in Versions :
        settled = v /\ first >= v /\ pair \notin deaf
            ~> \/ loaded >= v \/ closed
               \/ strategy = "kubeconfig" /\ failed
               \/ loaded = 0

\* Once the targets no longer change and requests no longer fail, resets end: a
\* reset replaces the watcher that asked for it by one that knows the targets,
\* which does not ask again.
ResetsEnd == <>[](timer = {} /\ reloadMu = NoOne)
=============================================================================
