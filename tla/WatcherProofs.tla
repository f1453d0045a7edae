--------------------------- MODULE WatcherProofs ---------------------------
(***************************************************************************)
(* Proofs about the watchers: the group, for any number of timers, pairs,  *)
(* contents and failures, and behind it the cluster-state watcher.         *)
(*                                                                         *)
(* A callback holds reloadMu from its reset to the end of its              *)
(* WatchTargets, so the pair it has read stays the group's; NewServer has  *)
(* read the first pair, before there was anything to reset it.  Whoever    *)
(* starts a watcher after Close has yet to look at closed again.           *)
(***************************************************************************)
EXTENDS WatcherGroup, ClusterStateWatcher, TLAPS

Places  == {"idle", "lock", "reset", "replace", "snapshot", "primary", "cluster", "recheck", "apply"}
Holding == {"reset", "replace", "snapshot", "primary", "cluster", "recheck", "apply"}

\* reloadMu is held through the callback, and NewServer never takes it.
MuHeld ==
    /\ \A p \in Callbacks : pc[p] \in Holding <=> reloadMu = p
    /\ pc[Boot] \in {"idle", "snapshot", "primary", "cluster", "recheck"}

\* Until NewServer has started the first primary watcher nothing happens.
Untouched ==
    /\ pair = 1 /\ ~closed
    /\ primary = {} /\ cluster = {} /\ event = {} /\ timer = {} /\ polls = {}
    /\ \A p \in Callbacks : pc[p] = "idle"

NothingBeforeBoot == pc[Boot] \in {"snapshot", "primary"} => Untouched

\* The pair that a WatchTargets has read.
SnapIsPair ==
    /\ snap[Boot] = 1
    /\ \A p \in Callbacks : pc[p] \in {"primary", "cluster"} => snap[p] = pair

\* Only the group's watchers run, or the first cluster-state watcher.
OnlyPairRuns == primary \subseteq {pair} /\ cluster \subseteq {pair, 1}

\* A watcher that runs after Close is about to be stopped.
StoppedOrRechecked ==
    closed /\ pair \in primary \cup cluster => \E p \in Procs : pc[p] \in {"cluster", "recheck"}

Inv ==
    /\ TypeOK
    /\ MuHeld
    /\ NothingBeforeBoot
    /\ SnapIsPair
    /\ OnlyPairRuns
    /\ StoppedOrRechecked

-----------------------------------------------------------------------------
(***************************************************************************)
(* The pieces that the steps share.                                        *)
(***************************************************************************)
LEMMA InvInit == Init => Inv
<1> SUFFICES ASSUME Init PROVE Inv
  OBVIOUS
<1> USE GroupAssumption
<1>1. 1 \in Pairs /\ 0 \in Versions /\ 1 \in Versions /\ Boot \in Procs
  BY DEF Pairs, Versions, Procs
<1>2. TypeOK
  <2>1. pc \in [Procs -> {"idle", "snapshot"}]
    BY DEF Init
  <2>2. known \in [Pairs -> Versions] /\ snap \in [Procs -> Pairs] /\ read \in [Procs -> Versions]
    BY <1>1 DEF Init
  <2>3. failures \in 0 .. MaxFailures /\ reloadMu \in Callbacks \cup {NoOne}
    BY DEF Init
  <2> QED
    BY <1>1, <2>1, <2>2, <2>3 DEF Init, TypeOK
<1>3. MuHeld /\ NothingBeforeBoot
  BY <1>1 DEF Init, MuHeld, NothingBeforeBoot, Untouched, Holding, Procs
<1>4. SnapIsPair /\ OnlyPairRuns /\ StoppedOrRechecked
  BY <1>1 DEF Init, SnapIsPair, OnlyPairRuns, StoppedOrRechecked, Procs
<1> QED
  BY <1>2, <1>3, <1>4 DEF Inv

\* Moving a goroutine changes nobody else's place.
LEMMA Moves ==
  ASSUME TypeOK, NEW p \in Procs, NEW s \in Places, Goto(p, s)
  PROVE  /\ pc' \in [Procs -> Places]
         /\ pc'[p] = s
         /\ \A q \in Procs : q # p => pc'[q] = pc[q]
  BY DEF TypeOK, Goto, Places

\* Closing a pair stops it, and starts nothing.
LEMMA Stops ==
  ASSUME TypeOK, NEW g \in Pairs, StopPair(g)
  PROVE  /\ primary' \subseteq Pairs /\ deaf' \subseteq Pairs /\ cluster' \subseteq Pairs
         /\ event' \subseteq Pairs /\ timer' \subseteq Pairs
         /\ polls' \subseteq Pairs \X Versions
         /\ primary' = primary \ {g} /\ cluster' = cluster \ {g}
  BY DEF TypeOK, StopPair

\* A new pair is one that nothing refers to.
LEMMA Fresh ==
  ASSUME TypeOK, NewPair
  PROVE  /\ pair' \in Pairs
         /\ pair' \notin Referred
         /\ known' \in [Pairs -> Versions]
<1> USE GroupAssumption
<1>1. 1 \in Pairs /\ 0 \in Versions
  BY DEF Pairs, Versions
<1>2. Referred \subseteq Pairs
  BY <1>1 DEF Referred, TypeOK
<1>3. \E g \in Pairs : g \notin Referred
  BY <1>2 DEF NewPair
<1>4. pair' \in Pairs /\ pair' \notin Referred
  BY <1>3 DEF NewPair
<1> QED
  BY <1>1, <1>4 DEF NewPair, TypeOK

\* Failures, of a list of the targets among them, are counted.
LEMMA Counted ==
  ASSUME TypeOK, UNCHANGED failures \/ Fails
  PROVE  failures' \in 0 .. MaxFailures
  BY GroupAssumption DEF TypeOK, Fails

-----------------------------------------------------------------------------
(***************************************************************************)
(* The targets, the watchers' goroutines and Close: no callback moves.     *)
(***************************************************************************)
LEMMA EditKeeps ==
  ASSUME Inv, Edit
  PROVE  Inv'
<1> USE GroupAssumption
<1>1. UNCHANGED <<pc, snap, reloadMu, pair, closed, primary, cluster>>
  BY DEF Edit, goroutines, vars
<1>2. TypeOK'
  BY <1>1 DEF Edit, Inv, TypeOK, Versions, goroutines, faults
<1>3. NothingBeforeBoot'
  BY <1>1 DEF Inv, TypeOK, NothingBeforeBoot, Untouched, Edit
<1>4. MuHeld' /\ SnapIsPair' /\ OnlyPairRuns' /\ StoppedOrRechecked'
  BY <1>1 DEF Inv, MuHeld, SnapIsPair, OnlyPairRuns, StoppedOrRechecked
<1> QED
  BY <1>2, <1>3, <1>4 DEF Inv

LEMMA NoticeKeeps ==
  ASSUME Inv, NEW g \in Pairs, Notice(g)
  PROVE  Inv'
<1> USE GroupAssumption
<1>1. UNCHANGED <<pc, snap, reloadMu, pair, closed, primary, cluster>>
  BY DEF Notice, goroutines, vars
<1>2. TypeOK'
  BY <1>1 DEF Notice, Inv, TypeOK, goroutines, faults
<1>3. NothingBeforeBoot'
  BY <1>1 DEF Inv, TypeOK, NothingBeforeBoot, Untouched, Notice
<1>4. MuHeld' /\ SnapIsPair' /\ OnlyPairRuns' /\ StoppedOrRechecked'
  BY <1>1 DEF Inv, MuHeld, SnapIsPair, OnlyPairRuns, StoppedOrRechecked
<1> QED
  BY <1>2, <1>3, <1>4 DEF Inv

LEMMA PollKeeps ==
  ASSUME Inv, NEW g \in Pairs, Poll(g)
  PROVE  Inv'
<1> USE GroupAssumption
<1>1. UNCHANGED <<pc, snap, reloadMu, pair, closed, primary, cluster>>
  BY DEF Poll, goroutines, vars
<1>2. TypeOK'
  <2>1. PICK list \in Versions : CaptureState(list) /\ polls' = polls \cup {<<g, list>>}
    BY DEF Poll
  <2>2. failures' \in 0 .. MaxFailures
    BY <2>1, Counted DEF Inv, CaptureState, DiscoverAllWorkspaces
  <2> QED
    BY <1>1, <2>1, <2>2 DEF Poll, Inv, TypeOK, goroutines
<1>3. NothingBeforeBoot'
  BY <1>1 DEF Inv, TypeOK, NothingBeforeBoot, Untouched, Poll
<1>4. MuHeld' /\ SnapIsPair' /\ OnlyPairRuns' /\ StoppedOrRechecked'
  BY <1>1 DEF Inv, MuHeld, SnapIsPair, OnlyPairRuns, StoppedOrRechecked
<1> QED
  BY <1>2, <1>3, <1>4 DEF Inv

LEMMA CompareKeeps ==
  ASSUME Inv, NEW g \in Pairs, NEW list \in Versions, Compare(g, list)
  PROVE  Inv'
<1> USE GroupAssumption
<1>1. UNCHANGED <<pc, snap, reloadMu, pair, closed, primary, cluster>>
  BY DEF Compare, goroutines, vars
<1>2. TypeOK'
  BY <1>1 DEF Compare, Inv, TypeOK, goroutines, faults
<1>3. NothingBeforeBoot'
  BY <1>1 DEF Inv, TypeOK, NothingBeforeBoot, Untouched, Compare
<1>4. MuHeld' /\ SnapIsPair' /\ OnlyPairRuns' /\ StoppedOrRechecked'
  BY <1>1 DEF Inv, MuHeld, SnapIsPair, OnlyPairRuns, StoppedOrRechecked
<1> QED
  BY <1>2, <1>3, <1>4 DEF Inv

LEMMA CloseKeeps ==
  ASSUME Inv, Close
  PROVE  Inv'
<1> USE GroupAssumption
<1>1. UNCHANGED <<pc, snap, read, reloadMu, pair>>
  BY DEF Close, goroutines
<1>2. pair \in Pairs /\ Boot \in Procs
  BY DEF Inv, TypeOK, Procs
<1>3. /\ primary' \subseteq Pairs /\ deaf' \subseteq Pairs /\ cluster' \subseteq Pairs
      /\ event' \subseteq Pairs /\ timer' \subseteq Pairs
      /\ polls' \subseteq Pairs \X Versions
      /\ primary' = primary \ {pair} /\ cluster' = cluster \ {pair}
  BY <1>2, Stops DEF Close, Inv
<1>4. TypeOK'
  BY <1>1, <1>3 DEF Close, Inv, TypeOK, faults
<1>5. NothingBeforeBoot'
  BY <1>1 DEF Close, At, NothingBeforeBoot
<1>6. MuHeld' /\ SnapIsPair'
  BY <1>1 DEF Inv, MuHeld, SnapIsPair
<1>7. OnlyPairRuns' /\ StoppedOrRechecked'
  BY <1>1, <1>3 DEF Inv, OnlyPairRuns, StoppedOrRechecked
<1> QED
  BY <1>4, <1>5, <1>6, <1>7 DEF Inv

-----------------------------------------------------------------------------
(***************************************************************************)
(* The callback, up to the new pair.  Before NewServer has started the     *)
(* first watcher there is none.                                            *)
(***************************************************************************)
LEMMA BootIsPast ==
  ASSUME Inv, NEW p \in Callbacks, pc[p] # "idle"
  PROVE  pc[Boot] \notin {"snapshot", "primary"}
  BY DEF Inv, NothingBeforeBoot, Untouched

\* A callback that moves between places where it starts nothing.
LEMMA MoveKeeps ==
  ASSUME Inv, NEW p \in Callbacks, NEW s \in Places, Goto(p, s),
         pc[Boot] \notin {"snapshot", "primary"},
         pc[p] \notin {"cluster", "recheck"}, s \notin {"primary", "cluster"},
         UNCHANGED <<pair, closed, primary, cluster>>,
         snap'[Boot] = snap[Boot],
         \A q \in Callbacks : q # p => snap'[q] = snap[q]
  PROVE  NothingBeforeBoot' /\ SnapIsPair' /\ OnlyPairRuns' /\ StoppedOrRechecked'
<1> USE GroupAssumption
<1>1. p \in Procs /\ Boot \in Procs /\ p # Boot
  BY DEF Procs
<1>2. pc'[p] = s /\ \A q \in Procs : q # p => pc'[q] = pc[q]
  BY <1>1, Moves DEF Inv
<1>3. NothingBeforeBoot'
  BY <1>1, <1>2 DEF NothingBeforeBoot
<1>4. SnapIsPair'
  BY <1>1, <1>2 DEF Inv, SnapIsPair, Procs
<1>5. OnlyPairRuns'
  BY DEF Inv, OnlyPairRuns
<1>6. StoppedOrRechecked'
  BY <1>1, <1>2 DEF Inv, StoppedOrRechecked
<1> QED
  BY <1>3, <1>4, <1>5, <1>6

\* The lock when a callback moves while it has it.
LEMMA HeldKeeps ==
  ASSUME Inv, NEW p \in Callbacks, NEW s \in Places, Goto(p, s), pc[p] \in Holding,
         IF s = "idle" THEN reloadMu' = NoOne ELSE s \in Holding /\ reloadMu' = reloadMu
  PROVE  MuHeld' /\ reloadMu' \in Callbacks \cup {NoOne}
<1> USE GroupAssumption
<1>1. p \in Procs /\ Boot \in Procs /\ p # Boot
  BY DEF Procs
<1>2. pc'[p] = s /\ \A q \in Procs : q # p => pc'[q] = pc[q]
  BY <1>1, Moves DEF Inv
<1>3. reloadMu = p
  BY DEF Inv, MuHeld
<1>4. "idle" \notin Holding
  BY DEF Holding
<1>5. \A q \in Callbacks : pc'[q] \in Holding <=> reloadMu' = q
  <2> TAKE q \in Callbacks
  <2>1. q \in Procs /\ q # NoOne
    BY DEF Procs
  <2>2. CASE q = p
    BY <2>1, <2>2, <1>2, <1>3, <1>4
  <2>3. CASE q # p
    BY <2>1, <2>3, <1>2, <1>3 DEF Inv, MuHeld
  <2> QED
    BY <2>2, <2>3
<1>6. pc'[Boot] = pc[Boot]
  BY <1>1, <1>2
<1> QED
  BY <1>3, <1>5, <1>6 DEF Inv, MuHeld

LEMMA FireKeeps ==
  ASSUME Inv, NEW g \in Pairs, NEW p \in Callbacks, Fire(g, p)
  PROVE  Inv'
<1> USE GroupAssumption
<1>1. p \in Procs /\ Boot \in Procs /\ p # Boot /\ "lock" \in Places
  BY DEF Procs, Places
<1>2. Goto(p, "lock") /\ pc[p] = "idle" /\ g \in timer
  BY DEF Fire, At
<1>3. /\ pc' \in [Procs -> Places]
      /\ pc'[p] = "lock" /\ \A q \in Procs : q # p => pc'[q] = pc[q]
  BY <1>1, <1>2, Moves DEF Inv
<1>4. pc[Boot] \notin {"snapshot", "primary"}
  BY <1>2 DEF Inv, NothingBeforeBoot, Untouched
<1>5. TypeOK'
  BY <1>3 DEF Fire, Inv, TypeOK, Places, faults
<1>6. MuHeld'
  BY <1>1, <1>2, <1>3 DEF Fire, Inv, MuHeld, Holding, Procs
<1>7. NothingBeforeBoot' /\ SnapIsPair' /\ OnlyPairRuns' /\ StoppedOrRechecked'
  <2>1. UNCHANGED <<pair, closed, primary, cluster, snap>>
    BY DEF Fire
  <2> QED
    BY <1>1, <1>2, <1>4, <2>1, MoveKeeps
<1> QED
  BY <1>5, <1>6, <1>7 DEF Inv

LEMMA LockKeeps ==
  ASSUME Inv, NEW p \in Callbacks, Lock(p)
  PROVE  Inv'
<1> USE GroupAssumption
<1>1. p \in Procs /\ Boot \in Procs /\ p # Boot /\ "reset" \in Places
  BY DEF Procs, Places
<1>2. Goto(p, "reset") /\ pc[p] = "lock" /\ reloadMu = NoOne /\ reloadMu' = p
  BY DEF Lock, At
<1>3. /\ pc' \in [Procs -> Places]
      /\ pc'[p] = "reset" /\ \A q \in Procs : q # p => pc'[q] = pc[q]
  BY <1>1, <1>2, Moves DEF Inv
<1>4. TypeOK'
  BY <1>2, <1>3 DEF Lock, Inv, TypeOK, Places, faults, watchers
<1>5. MuHeld'
  BY <1>1, <1>2, <1>3 DEF Inv, MuHeld, Holding, Procs
<1>6. NothingBeforeBoot' /\ SnapIsPair' /\ OnlyPairRuns' /\ StoppedOrRechecked'
  <2>1. UNCHANGED <<pair, closed, primary, cluster, snap>>
    BY DEF Lock, watchers
  <2> QED
    BY <1>1, <1>2, <2>1, BootIsPast, MoveKeeps
<1> QED
  BY <1>4, <1>5, <1>6 DEF Inv

LEMMA ResetClosedKeeps ==
  ASSUME Inv, NEW p \in Callbacks, ResetClosed(p)
  PROVE  Inv'
<1> USE GroupAssumption
<1>1. p \in Procs /\ Boot \in Procs /\ p # Boot /\ "idle" \in Places
  BY DEF Procs, Places
<1>2. Goto(p, "idle") /\ pc[p] = "reset"
  BY DEF ResetClosed, At, Unlock
<1>3. pc' \in [Procs -> Places]
  BY <1>1, <1>2, Moves DEF Inv
<1>4. MuHeld' /\ reloadMu' \in Callbacks \cup {NoOne}
  <2>1. reloadMu' = NoOne
    BY DEF ResetClosed, Unlock
  <2> QED
    BY <1>1, <1>2, <2>1, HeldKeeps DEF Holding
<1>5. TypeOK'
  BY <1>3, <1>4 DEF ResetClosed, Inv, TypeOK, Places, inReset, watchers, faults
<1>6. NothingBeforeBoot' /\ SnapIsPair' /\ OnlyPairRuns' /\ StoppedOrRechecked'
  <2>1. UNCHANGED <<pair, closed, primary, cluster, snap>>
    BY DEF ResetClosed, inReset, watchers
  <2> QED
    BY <1>1, <1>2, <2>1, BootIsPast, MoveKeeps
<1> QED
  BY <1>4, <1>5, <1>6 DEF Inv

LEMMA ResetFailsKeeps ==
  ASSUME Inv, NEW p \in Callbacks, ResetFails(p)
  PROVE  Inv'
<1> USE GroupAssumption
<1>1. p \in Procs /\ Boot \in Procs /\ p # Boot /\ "idle" \in Places
  BY DEF Procs, Places
<1>2. Goto(p, "idle") /\ pc[p] = "reset"
  BY DEF ResetFails, At, Unlock
<1>3. pc' \in [Procs -> Places]
  BY <1>1, <1>2, Moves DEF Inv
<1>4. MuHeld' /\ reloadMu' \in Callbacks \cup {NoOne}
  <2>1. reloadMu' = NoOne
    BY DEF ResetFails, Unlock
  <2> QED
    BY <1>1, <1>2, <2>1, HeldKeeps DEF Holding
<1>5. TypeOK'
  <2>1. failures' \in 0 .. MaxFailures
    BY Counted DEF ResetFails, Inv
  <2> QED
    BY <1>3, <1>4, <2>1 DEF ResetFails, Inv, TypeOK, Places, inReset, watchers
<1>6. NothingBeforeBoot' /\ SnapIsPair' /\ OnlyPairRuns' /\ StoppedOrRechecked'
  <2>1. UNCHANGED <<pair, closed, primary, cluster, snap>>
    BY DEF ResetFails, inReset, watchers
  <2> QED
    BY <1>1, <1>2, <2>1, BootIsPast, MoveKeeps
<1> QED
  BY <1>4, <1>5, <1>6 DEF Inv

LEMMA ResetKeeps ==
  ASSUME Inv, NEW p \in Callbacks, Reset(p)
  PROVE  Inv'
<1> USE GroupAssumption
<1>1. p \in Procs /\ Boot \in Procs /\ p # Boot /\ "replace" \in Places
  BY DEF Procs, Places
<1>2. Goto(p, "replace") /\ pc[p] = "reset"
  BY DEF Reset, At, Unlock
<1>3. pc' \in [Procs -> Places]
  BY <1>1, <1>2, Moves DEF Inv
<1>4. MuHeld' /\ reloadMu' \in Callbacks \cup {NoOne}
  <2>1. reloadMu' = reloadMu
    BY DEF Reset, Unlock
  <2> QED
    BY <1>1, <1>2, <2>1, HeldKeeps DEF Holding
<1>5. TypeOK'
  BY <1>3, <1>4 DEF Reset, Inv, TypeOK, Places, inReset, watchers
<1>6. NothingBeforeBoot' /\ SnapIsPair' /\ OnlyPairRuns' /\ StoppedOrRechecked'
  <2>1. UNCHANGED <<pair, closed, primary, cluster, snap>>
    BY DEF Reset, inReset, watchers
  <2> QED
    BY <1>1, <1>2, <2>1, BootIsPast, MoveKeeps
<1> QED
  BY <1>4, <1>5, <1>6 DEF Inv

LEMMA ResetWorkspacesKeeps ==
  ASSUME Inv, NEW p \in Callbacks, ResetWorkspaces(p)
  PROVE  Inv'
<1> USE GroupAssumption
<1>1. p \in Procs /\ Boot \in Procs /\ p # Boot /\ "replace" \in Places
  BY DEF Procs, Places
<1>2. Goto(p, "replace") /\ pc[p] = "reset"
  BY DEF ResetWorkspaces, At, Unlock
<1>3. pc' \in [Procs -> Places]
  BY <1>1, <1>2, Moves DEF Inv
<1>4. MuHeld' /\ reloadMu' \in Callbacks \cup {NoOne}
  <2>1. reloadMu' = reloadMu
    BY DEF ResetWorkspaces, Unlock
  <2> QED
    BY <1>1, <1>2, <2>1, HeldKeeps DEF Holding
<1>5. TypeOK'
  <2>1. PICK list \in Versions :
          DiscoverAllWorkspaces(list) /\ read' = [read EXCEPT ![p] = list]
    BY DEF ResetWorkspaces
  <2>2. failures' \in 0 .. MaxFailures
    BY <2>1, Counted DEF Inv, CaptureState, DiscoverAllWorkspaces
  <2> QED
    BY <1>3, <1>4, <2>1, <2>2 DEF ResetWorkspaces, Inv, TypeOK, Places, inReset, watchers
<1>6. NothingBeforeBoot' /\ SnapIsPair' /\ OnlyPairRuns' /\ StoppedOrRechecked'
  <2>1. UNCHANGED <<pair, closed, primary, cluster, snap>>
    BY DEF ResetWorkspaces, inReset, watchers
  <2> QED
    BY <1>1, <1>2, <2>1, BootIsPast, MoveKeeps
<1> QED
  BY <1>4, <1>5, <1>6 DEF Inv

LEMMA ApplyToolsetsKeeps ==
  ASSUME Inv, NEW p \in Callbacks, ApplyToolsets(p)
  PROVE  Inv'
<1> USE GroupAssumption
<1>1. p \in Procs /\ Boot \in Procs /\ p # Boot /\ "idle" \in Places
  BY DEF Procs, Places
<1>2. Goto(p, "idle") /\ pc[p] = "apply"
  BY DEF ApplyToolsets, At, Unlock
<1>3. pc' \in [Procs -> Places]
  BY <1>1, <1>2, Moves DEF Inv
<1>4. MuHeld' /\ reloadMu' \in Callbacks \cup {NoOne}
  <2>1. reloadMu' = NoOne
    BY DEF ApplyToolsets, Unlock
  <2> QED
    BY <1>1, <1>2, <2>1, HeldKeeps DEF Holding
<1>5. TypeOK'
  <2>1. 1 \in Pairs
    BY DEF Pairs
  <2> QED
    BY <1>3, <1>4, <2>1 DEF ApplyToolsets, Inv, TypeOK, Places, watchers, faults
<1>6. NothingBeforeBoot' /\ SnapIsPair' /\ OnlyPairRuns' /\ StoppedOrRechecked'
  <2>1. UNCHANGED <<pair, closed, primary, cluster>>
    BY DEF ApplyToolsets, watchers
  <2>2. snap'[Boot] = snap[Boot] /\ \A q \in Callbacks : q # p => snap'[q] = snap[q]
    BY <1>1 DEF ApplyToolsets, Inv, TypeOK, Procs
  <2> QED
    BY <1>1, <1>2, <2>1, <2>2, BootIsPast, MoveKeeps
<1> QED
  BY <1>4, <1>5, <1>6 DEF Inv

LEMMA ReplaceKeeps ==
  ASSUME Inv, NEW p \in Callbacks, Replace(p)
  PROVE  Inv'
<1> USE GroupAssumption
<1>1. p \in Procs /\ Boot \in Procs /\ p # Boot /\ {"idle", "snapshot"} \subseteq Places
  BY DEF Procs, Places
<1>2. pc[p] = "replace" /\ pc[p] \in Holding /\ pc[Boot] \notin {"snapshot", "primary"}
  BY BootIsPast DEF Replace, At, Holding
<1>3. CASE closed
  <2>1. Goto(p, "idle") /\ reloadMu' = NoOne /\ UNCHANGED <<pair, closed, known, watchers, snap>>
    BY <1>3 DEF Replace, Unlock
  <2>2. pc' \in [Procs -> Places]
    BY <1>1, <2>1, Moves DEF Inv
  <2>3. MuHeld' /\ reloadMu' \in Callbacks \cup {NoOne}
    BY <1>1, <1>2, <2>1, HeldKeeps
  <2>4. TypeOK'
    BY <2>1, <2>2, <2>3, <1>1 DEF Replace, Inv, TypeOK, Places, faults, watchers
  <2>5. NothingBeforeBoot' /\ SnapIsPair' /\ OnlyPairRuns' /\ StoppedOrRechecked'
    BY <1>1, <1>2, <2>1, MoveKeeps DEF watchers
  <2> QED
    BY <2>3, <2>4, <2>5 DEF Inv
<1>4. CASE ~closed
  <2>1. /\ Goto(p, "snapshot") /\ StopPair(pair) /\ NewPair
        /\ UNCHANGED <<reloadMu, closed, snap>>
    BY <1>4 DEF Replace
  <2>2. /\ pc' \in [Procs -> Places]
        /\ pc'[p] = "snapshot" /\ \A q \in Procs : q # p => pc'[q] = pc[q]
    BY <1>1, <2>1, Moves DEF Inv
  <2>3. MuHeld' /\ reloadMu' \in Callbacks \cup {NoOne}
    BY <1>1, <1>2, <2>1, HeldKeeps DEF Holding
  <2>4. /\ primary' \subseteq Pairs /\ deaf' \subseteq Pairs /\ cluster' \subseteq Pairs
        /\ event' \subseteq Pairs /\ timer' \subseteq Pairs
        /\ polls' \subseteq Pairs \X Versions
        /\ primary' = primary \ {pair} /\ cluster' = cluster \ {pair}
    BY <2>1, Stops DEF Inv, TypeOK
  <2>5. pair' \in Pairs /\ known' \in [Pairs -> Versions]
    BY <2>1, Fresh DEF Inv
  <2>6. TypeOK'
    BY <2>1, <2>2, <2>3, <2>4, <2>5, <1>1 DEF Replace, Inv, TypeOK, Places, faults
  <2>7. NothingBeforeBoot'
    BY <1>1, <1>2, <2>2 DEF NothingBeforeBoot
  <2>8. SnapIsPair'
    <3>1. ASSUME NEW q \in Callbacks PROVE pc'[q] \notin {"primary", "cluster"}
      BY <3>1, <1>2, <2>2 DEF Inv, MuHeld, Holding, Procs
    <3> QED
      BY <3>1, <2>1 DEF Inv, SnapIsPair
  <2>9. OnlyPairRuns'
    BY <2>4 DEF Inv, OnlyPairRuns
  <2>10. StoppedOrRechecked'
    BY <1>4, <2>1 DEF StoppedOrRechecked
  <2> QED
    BY <2>3, <2>6, <2>7, <2>8, <2>9, <2>10 DEF Inv
<1> QED
  BY <1>3, <1>4

-----------------------------------------------------------------------------
(***************************************************************************)
(* WatchTargets, by a callback or by NewServer.                            *)
(***************************************************************************)
\* The lock in WatchTargets.
LEMMA WatchingKeepsMu ==
  ASSUME Inv, NEW p \in Procs, NEW s \in Places, Goto(p, s), reloadMu' = reloadMu,
         pc[p] \in {"snapshot", "primary", "cluster", "recheck"},
         s \in {"primary", "cluster", "recheck"} \/ s = Done(p)
  PROVE  MuHeld'
<1> USE GroupAssumption
<1>1. CASE p = Boot
  <2>1. pc'[p] = s /\ \A q \in Procs : q # p => pc'[q] = pc[q]
    BY Moves DEF Inv
  <2> QED
    BY <1>1, <2>1 DEF Inv, MuHeld, Done, Procs
<1>2. CASE p # Boot
  <2>1. p \in Callbacks /\ pc[p] \in Holding /\ s \in Holding /\ s # "idle"
    BY <1>2 DEF Procs, Holding, Done
  <2> QED
    BY <2>1, HeldKeeps
<1> QED
  BY <1>1, <1>2

\* The pair that a WatchTargets starts is the group's, or the first.
LEMMA WatchesOwnPair ==
  ASSUME Inv, NEW p \in Procs
  PROVE  /\ pc[p] = "primary" => snap[p] = pair
         /\ pc[p] = "cluster" => snap[p] \in {pair, 1}
  BY DEF Inv, SnapIsPair, NothingBeforeBoot, Untouched, Procs

LEMMA SnapshotKeeps ==
  ASSUME Inv, NEW p \in Procs, Snapshot(p)
  PROVE  Inv'
<1> USE GroupAssumption
<1> DEFINE s == IF closed THEN Done(p) ELSE "primary"
<1>1. s \in Places /\ pc[p] = "snapshot" /\ Goto(p, s) /\ pair \in Pairs /\ 0 \in Versions
  BY DEF Snapshot, Places, Done, At, Inv, TypeOK, Versions
<1>2. UNCHANGED <<reloadMu, pair, closed, watchers>> /\ snap' = [snap EXCEPT ![p] = pair]
  BY DEF Snapshot
<1>3. /\ pc' \in [Procs -> Places]
      /\ pc'[p] = s /\ \A q \in Procs : q # p => pc'[q] = pc[q]
  BY <1>1, Moves DEF Inv
<1>4. /\ snap' \in [Procs -> Pairs] /\ snap'[p] = pair
      /\ \A q \in Procs : q # p => snap'[q] = snap[q]
  BY <1>1, <1>2 DEF Inv, TypeOK
<1>5. TypeOK'
  BY <1>1, <1>2, <1>3, <1>4 DEF Snapshot, Inv, TypeOK, Places, watchers, faults
<1>6. MuHeld'
  BY <1>1, <1>2, WatchingKeepsMu
<1>7. Boot \in Procs
  BY DEF Procs
<1>8. NothingBeforeBoot'
  <2>1. CASE p = Boot
    <3>1. Untouched
      BY <1>1, <2>1 DEF Inv, NothingBeforeBoot
    <3>2. \A q \in Callbacks : pc'[q] = pc[q]
      BY <1>3, <2>1 DEF Procs
    <3> QED
      BY <3>1, <3>2, <1>2 DEF NothingBeforeBoot, Untouched, watchers
  <2>2. CASE p # Boot
    BY <2>2, <1>1, <1>3, <1>7, BootIsPast DEF NothingBeforeBoot, Procs
  <2> QED
    BY <2>1, <2>2
<1>9. SnapIsPair'
  <2>1. p = Boot => pair = 1
    BY <1>1 DEF Inv, NothingBeforeBoot, Untouched
  <2> QED
    BY <1>2, <1>3, <1>4, <1>7, <2>1 DEF Inv, SnapIsPair, Procs
<1>10. OnlyPairRuns'
  BY <1>2 DEF Inv, OnlyPairRuns, watchers
<1>11. StoppedOrRechecked'
  BY <1>1, <1>2, <1>3 DEF Inv, StoppedOrRechecked, watchers
<1> QED
  BY <1>5, <1>6, <1>8, <1>9, <1>10, <1>11 DEF Inv

LEMMA WatchPrimaryKeeps ==
  ASSUME Inv, NEW p \in Procs, WatchPrimary(p)
  PROVE  Inv'
<1> USE GroupAssumption
<1>1. "cluster" \in Places /\ pc[p] = "primary" /\ Goto(p, "cluster") /\ Boot \in Procs
  BY DEF WatchPrimary, Places, At, Procs
<1>2. /\ UNCHANGED <<reloadMu, pair, closed, cluster, snap, event, timer, polls>>
      /\ primary' \in {primary, primary \cup {snap[p]}}
      /\ deaf' \in {deaf, deaf \cup {snap[p]}}
      /\ UNCHANGED failures \/ Fails
  BY DEF WatchPrimary, notWatching
<1>3. /\ pc' \in [Procs -> Places]
      /\ pc'[p] = "cluster" /\ \A q \in Procs : q # p => pc'[q] = pc[q]
  BY <1>1, Moves DEF Inv
<1>4. snap[p] = pair /\ pair \in Pairs
  BY <1>1, WatchesOwnPair DEF Inv, TypeOK
<1>5. TypeOK'
  <2>1. failures' \in 0 .. MaxFailures
    BY <1>2, Counted DEF Inv
  <2> QED
    BY <1>2, <1>3, <1>4, <2>1 DEF WatchPrimary, Inv, TypeOK, Places, notWatching
<1>6. MuHeld'
  BY <1>1, <1>2, WatchingKeepsMu
<1>7. NothingBeforeBoot'
  <2>1. CASE p = Boot
    BY <2>1, <1>3 DEF NothingBeforeBoot
  <2>2. CASE p # Boot
    BY <2>2, <1>1, <1>3, BootIsPast DEF NothingBeforeBoot, Procs
  <2> QED
    BY <2>1, <2>2
<1>8. SnapIsPair'
  BY <1>1, <1>2, <1>3, <1>4 DEF Inv, SnapIsPair, Procs
<1>9. OnlyPairRuns'
  BY <1>2, <1>4 DEF Inv, OnlyPairRuns
<1>10. StoppedOrRechecked'
  BY <1>3 DEF StoppedOrRechecked
<1> QED
  BY <1>5, <1>6, <1>7, <1>8, <1>9, <1>10 DEF Inv

LEMMA WatchWorkspacesKeeps ==
  ASSUME Inv, NEW p \in Procs, WatchWorkspaces(p)
  PROVE  Inv'
<1> USE GroupAssumption
<1>1. "cluster" \in Places /\ pc[p] = "primary" /\ Goto(p, "cluster") /\ Boot \in Procs
  BY DEF WatchWorkspaces, Places, At, Procs
<1>2. /\ UNCHANGED <<reloadMu, pair, closed, cluster, snap, event, timer, polls>>
      /\ primary' = primary \cup {snap[p]}
  BY DEF WatchWorkspaces, notWatching
<1>3. /\ pc' \in [Procs -> Places]
      /\ pc'[p] = "cluster" /\ \A q \in Procs : q # p => pc'[q] = pc[q]
  BY <1>1, Moves DEF Inv
<1>4. snap[p] = pair /\ pair \in Pairs
  BY <1>1, WatchesOwnPair DEF Inv, TypeOK
<1>5. TypeOK'
  <2>1. PICK list \in Versions : CaptureState(list) /\ known' = [known EXCEPT ![snap[p]] = list]
    BY DEF WatchWorkspaces
  <2>2. failures' \in 0 .. MaxFailures
    BY <2>1, Counted DEF Inv, CaptureState, DiscoverAllWorkspaces
  <2> QED
    BY <1>2, <1>3, <1>4, <2>1, <2>2 DEF WatchWorkspaces, Inv, TypeOK, Places, notWatching
<1>6. MuHeld'
  BY <1>1, <1>2, WatchingKeepsMu
<1>7. NothingBeforeBoot'
  <2>1. CASE p = Boot
    BY <2>1, <1>3 DEF NothingBeforeBoot
  <2>2. CASE p # Boot
    BY <2>2, <1>1, <1>3, BootIsPast DEF NothingBeforeBoot, Procs
  <2> QED
    BY <2>1, <2>2
<1>8. SnapIsPair'
  BY <1>1, <1>2, <1>3, <1>4 DEF Inv, SnapIsPair, Procs
<1>9. OnlyPairRuns'
  BY <1>2, <1>4 DEF Inv, OnlyPairRuns
<1>10. StoppedOrRechecked'
  BY <1>3 DEF StoppedOrRechecked
<1> QED
  BY <1>5, <1>6, <1>7, <1>8, <1>9, <1>10 DEF Inv

LEMMA WatchClusterKeeps ==
  ASSUME Inv, NEW p \in Procs, WatchCluster(p)
  PROVE  Inv'
<1> USE GroupAssumption
<1>1. "recheck" \in Places /\ pc[p] = "cluster" /\ Goto(p, "recheck") /\ Boot \in Procs
  BY DEF WatchCluster, Places, At, Procs
<1>2. /\ UNCHANGED <<reloadMu, pair, closed, primary, snap, event, timer, polls>>
      /\ cluster' = cluster \cup {snap[p]}
  BY DEF WatchCluster, notWatching
<1>3. /\ pc' \in [Procs -> Places]
      /\ pc'[p] = "recheck" /\ \A q \in Procs : q # p => pc'[q] = pc[q]
  BY <1>1, Moves DEF Inv
<1>4. snap[p] \in {pair, 1} /\ snap[p] \in Pairs
  BY <1>1, WatchesOwnPair DEF Inv, TypeOK
<1>5. TypeOK'
  BY <1>2, <1>3, <1>4 DEF WatchCluster, Inv, TypeOK, Places, notWatching
<1>6. MuHeld'
  BY <1>1, <1>2, WatchingKeepsMu
<1>7. NothingBeforeBoot'
  <2>1. CASE p = Boot
    BY <2>1, <1>3 DEF NothingBeforeBoot
  <2>2. CASE p # Boot
    BY <2>2, <1>1, <1>3, BootIsPast DEF NothingBeforeBoot, Procs
  <2> QED
    BY <2>1, <2>2
<1>8. SnapIsPair'
  BY <1>1, <1>2, <1>3 DEF Inv, SnapIsPair, Procs
<1>9. OnlyPairRuns'
  BY <1>2, <1>4 DEF Inv, OnlyPairRuns
<1>10. StoppedOrRechecked'
  BY <1>3 DEF StoppedOrRechecked
<1> QED
  BY <1>5, <1>6, <1>7, <1>8, <1>9, <1>10 DEF Inv

LEMMA RecheckKeeps ==
  ASSUME Inv, NEW p \in Procs, Recheck(p)
  PROVE  Inv'
<1> USE GroupAssumption
<1>1. Done(p) \in Places /\ pc[p] = "recheck" /\ Goto(p, Done(p)) /\ Boot \in Procs
  BY DEF Recheck, Places, At, Procs, Done
<1>2. UNCHANGED <<reloadMu, pair, closed, snap>>
  BY DEF Recheck
<1>3. /\ pc' \in [Procs -> Places]
      /\ pc'[p] = Done(p) /\ \A q \in Procs : q # p => pc'[q] = pc[q]
  BY <1>1, Moves DEF Inv
<1>4. /\ primary' \subseteq Pairs /\ deaf' \subseteq Pairs /\ cluster' \subseteq Pairs
      /\ event' \subseteq Pairs /\ timer' \subseteq Pairs
      /\ polls' \subseteq Pairs \X Versions
      /\ primary' \subseteq primary /\ cluster' \subseteq cluster
      /\ closed => pair \notin primary' \cup cluster'
  <2>1. CASE closed
    <3>1. StopPair(pair) /\ pair \in Pairs
      BY <2>1 DEF Recheck, Inv, TypeOK
    <3> QED
      BY <3>1, Stops DEF Inv
  <2>2. CASE ~closed
    BY <2>2 DEF Recheck, watchers, Inv, TypeOK
  <2> QED
    BY <2>1, <2>2
<1>5. TypeOK'
  BY <1>2, <1>3, <1>4 DEF Recheck, Inv, TypeOK, Places, faults
<1>6. MuHeld'
  BY <1>1, <1>2, WatchingKeepsMu
<1>7. NothingBeforeBoot'
  <2>1. CASE p = Boot
    BY <2>1, <1>3 DEF NothingBeforeBoot, Done
  <2>2. CASE p # Boot
    BY <2>2, <1>1, <1>3, BootIsPast DEF NothingBeforeBoot, Procs
  <2> QED
    BY <2>1, <2>2
<1>8. SnapIsPair'
  BY <1>1, <1>2, <1>3 DEF Inv, SnapIsPair, Procs, Done
<1>9. OnlyPairRuns' /\ StoppedOrRechecked'
  BY <1>2, <1>4 DEF Inv, OnlyPairRuns, StoppedOrRechecked
<1> QED
  BY <1>5, <1>6, <1>7, <1>8, <1>9 DEF Inv

-----------------------------------------------------------------------------
(***************************************************************************)
(* The theorems.                                                           *)
(***************************************************************************)
LEMMA WatchTargetsKeeps ==
  ASSUME Inv, NEW p \in Procs, WatchTargets(p)
  PROVE  Inv'
  BY SnapshotKeeps, WatchPrimaryKeeps, WatchWorkspacesKeeps, WatchClusterKeeps, RecheckKeeps
  DEF WatchTargets

LEMMA CallbackKeeps ==
  ASSUME Inv, NEW p \in Callbacks, Callback(p)
  PROVE  Inv'
<1>1. p \in Procs
  BY DEF Procs
<1> QED
  BY <1>1, LockKeeps, ResetClosedKeeps, ResetFailsKeeps, ResetKeeps, ResetWorkspacesKeeps,
     ReplaceKeeps, WatchTargetsKeeps, ApplyToolsetsKeeps
  DEF Callback, ResetLocked

LEMMA InvNext == Inv /\ [Next]_vars => Inv'
<1> SUFFICES ASSUME Inv, [Next]_vars PROVE Inv'
  OBVIOUS
<1>1. CASE Edit
  BY <1>1, EditKeeps
<1>2. ASSUME NEW g \in Pairs, Notice(g) \/ Poll(g) \/ \E list \in Versions : Compare(g, list)
      PROVE  Inv'
  BY <1>2, NoticeKeeps, PollKeeps, CompareKeeps
<1>3. ASSUME NEW g \in Pairs, NEW p \in Callbacks, Fire(g, p)
      PROVE  Inv'
  BY <1>3, FireKeeps
<1>4. ASSUME NEW p \in Callbacks, Callback(p)
      PROVE  Inv'
  BY <1>4, CallbackKeeps
<1>5. CASE WatchTargets(Boot)
  BY <1>5, WatchTargetsKeeps DEF Procs
<1>6. CASE Close
  BY <1>6, CloseKeeps
<1>7. CASE UNCHANGED vars
  BY <1>7 DEF vars, watchers, goroutines, faults, Inv, TypeOK, MuHeld, NothingBeforeBoot,
              Untouched, SnapIsPair, OnlyPairRuns, StoppedOrRechecked
<1> QED
  BY <1>1, <1>2, <1>3, <1>4, <1>5, <1>6, <1>7 DEF Next

\* The group, its callbacks and NewServer keep the invariant, however resets,
\* WatchTargets and Close interleave.
THEOREM Invariance == Spec => []Inv
<1>1. Init => Inv
  BY InvInit
<1>2. Inv /\ [Next]_vars => Inv'
  BY InvNext
<1> QED
  BY <1>1, <1>2, PTL DEF Spec, SafeSpec

\* Every variable holds a value of its type, the pair that Replace installs included.
THEOREM TypeCorrect == Spec => []TypeOK
<1>1. Inv => TypeOK
  BY DEF Inv
<1> QED
  BY <1>1, Invariance, PTL

\* Close stops the watchers of the group, although a WatchTargets that has taken
\* its snapshot before starts them after it: it looks at closed again, and until
\* then it counts as watching.
THEOREM ClosedStops == Spec => []ClosedPairIsStopped
<1>1. Inv => ClosedPairIsStopped
  BY DEF Inv, StoppedOrRechecked, ClosedPairIsStopped, Watching
<1> QED
  BY <1>1, Invariance, PTL

\* Replace leaves no watcher behind: what runs is the pair the group can stop, or
\* the cluster-state watcher NewServer started late.  It holds in the middle of a
\* WatchTargets as well.
THEOREM OnlyCurrentRuns == Spec => []OnlyCurrentPairRuns
<1>1. Inv => OnlyCurrentPairRuns
  BY DEF Inv, OnlyPairRuns, OnlyCurrentPairRuns
<1> QED
  BY <1>1, Invariance, PTL

-----------------------------------------------------------------------------
(***************************************************************************)
(* The cluster-state watcher, for any number of changes, failures, timer   *)
(* goroutines and any two periods.                                         *)
(***************************************************************************)
\* The toolsets in place have been applied and the state is not recorded yet.
Past(c) == callback[c].st \in {"reloaded", "captured"}

\* lastKnownState is the state the toolsets in place were collected from, unless
\* one of the two was read in vain.
Agree == lastKnown \in {applied, Nothing} \/ applied = Nothing

\* What a reload has read is what the cache holds: until every reload is over only
\* an empty cache is filled.
ReadsCache ==
    \A c \in Timers : callback[c].read \in {Nothing, cache}

AppliedFromCache ==
    (\E c \in Timers : Past(c)) => applied \in {Nothing, cache}

\* When Watch captures the state it finds what NewServer's apply has read.
CacheBeforeWatch ==
    loop = "off" => cache # Nothing /\ applied \in {Nothing, cache}

StateInv ==
    /\ world \in Nat \ {0}
    /\ callback \in [Timers -> [st : CbStates, read : {Nothing} \cup (Nat \ {0})]]
    /\ ~disturbed => /\ ReadsCache
                     /\ AppliedFromCache
                     /\ CacheBeforeWatch
                     /\ (\A c \in Timers : ~Past(c)) => Agree

\* A read leaves a full cache alone, and fills an empty one with what it returns.
LEMMA CaptureReads ==
  ASSUME NEW v, captureState(v), world \in Nat \ {0}
  PROVE  /\ world' = world
         /\ v \in {Nothing, cache'}
         /\ cache # Nothing => cache' = cache /\ v = cache
BY DEF captureState, Fetch, worldVars, Nothing

LEMMA StateInvInit == StateInit => StateInv
BY DEF StateInit, StateInv, ReadsCache, AppliedFromCache, CacheBeforeWatch, Agree, Past,
       IdleCb, Cb, Nothing, CbStates

LEMMA StateInvNext == StateInv /\ [StateNext]_stateVars => StateInv'
<1> SUFFICES ASSUME StateInv, [StateNext]_stateVars
             PROVE  StateInv'
  OBVIOUS
<1> USE DEF StateInv, ReadsCache, AppliedFromCache, CacheBeforeWatch, Agree, Past
<1>1. CASE Change
  BY <1>1 DEF Change
<1>2. CASE ResetMapper
  BY <1>2 DEF ResetMapper
<1>3. CASE Tick
  BY <1>3 DEF Tick, worldVars
<1>4. CASE Watch
  <2>1. PICK v \in Captures : captureState(v) /\ lastKnown' = v
    BY <1>4 DEF Watch
  <2> QED
    BY <1>4, <2>1, CaptureReads DEF Watch
<1>5. CASE PollState
  <2>1. ~disturbed' => ~disturbed /\ \A c \in Timers : callback[c] = IdleCb
    BY <1>5, Zenon DEF PollState
  <2>2. /\ world' = world /\ loop' # "off"
        /\ UNCHANGED <<applied, lastKnown, callback>>
    BY <1>5 DEF PollState, Fetch
  <2> QED
    BY <2>1, <2>2 DEF IdleCb, Cb
<1>6. CASE CompareState
  BY <1>6 DEF CompareState, worldVars
<1>7. CASE StopLoop
  BY <1>7 DEF StopLoop, worldVars
<1>8. ASSUME NEW c \in Timers, FireDebounce(c) PROVE StateInv'
  BY <1>8 DEF FireDebounce, worldVars, IdleCb, Cb, Nothing, CbStates
<1>9. ASSUME NEW c \in Timers, Collect(c) PROVE StateInv'
  <2>1. PICK v \in Captures :
          /\ captureState(v)
          /\ callback' = [callback EXCEPT ![c] = Cb("applying", v)]
    BY <1>9 DEF Collect
  <2> QED
    BY <1>9, <2>1, CaptureReads DEF Collect, notCallback, Cb, Captures,
       Worlds, Nothing, CbStates
<1>10. ASSUME NEW c \in Timers, Commit(c) PROVE StateInv'
  BY <1>10 DEF Commit, notCallback, worldVars, Cb, Nothing, CbStates
<1>11. ASSUME NEW c \in Timers, ApplyFails(c) PROVE StateInv'
  BY <1>11 DEF ApplyFails, notCallback, IdleCb, Cb, Nothing, CbStates
<1>12. ASSUME NEW c \in Timers, Recapture(c) PROVE StateInv'
  <2>1. PICK v \in Captures :
          /\ captureState(v)
          /\ callback' = [callback EXCEPT ![c] = Cb("captured", v)]
    BY <1>12 DEF Recapture
  <2> QED
    BY <1>12, <2>1, CaptureReads DEF Recapture, notCallback, Cb, Captures,
       Worlds, Nothing, CbStates
<1>13. ASSUME NEW c \in Timers, Record(c) PROVE StateInv'
  BY <1>13 DEF Record, worldVars, IdleCb, Cb, Nothing, CbStates
<1>14. CASE CloseWatcher
  BY <1>14 DEF CloseWatcher, worldVars
<1>15. CASE CloseReturns
  BY <1>15 DEF CloseReturns, worldVars
<1>16. CASE UNCHANGED stateVars
  BY <1>16 DEF stateVars, worldVars
<1> QED
  BY <1>1, <1>2, <1>3, <1>4, <1>5, <1>6, <1>7, <1>8, <1>9, <1>10, <1>11, <1>12, <1>13, <1>14,
     <1>15, <1>16 DEF StateNext, Loop, Reload

\* A recapture after a reload swallows no change, unless a tool emptied the cache or
\* a poll met the reload: also when two timer goroutines run at once, and when what
\* one of them reads or applies fails.
THEOREM KnownIsApplied == StateSafeSpec => []KnownMeansApplied
<1>1. StateInv => KnownMeansApplied
  BY DEF StateInv, KnownMeansApplied, Pending, IdleCb, Cb, Nothing,
         Agree, Past
<1> QED
  BY <1>1, StateInvInit, StateInvNext, PTL DEF StateSafeSpec
=============================================================================
