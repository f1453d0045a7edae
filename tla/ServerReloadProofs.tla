-------------------------- MODULE ServerReloadProofs --------------------------
(***************************************************************************)
(* Proofs about ServerReload, for every set of contexts, items, surfaces,  *)
(* callbacks and calls and every bound.                                    *)
(*                                                                         *)
(* The safety properties speak of the moments when reloadMu is free, or of *)
(* a call that is running; neither is inductive.  IndInv says what holds   *)
(* at every step of the holder: which goroutine may be in which phase,     *)
(* which configuration p.cfg and the installed managers carry, and how far *)
(* the SDK has been moved from the bookkept surface to the new one.        *)
(***************************************************************************)
EXTENDS ServerReload, TLAPS

CommitPhases == {"remove", "add", "publish", "store", "book"}
ApplyPhases  == {"collect", "convert"} \cup CommitPhases
QuietPhases  == {"free", "provider", "reset", "resetting"}

\* The kinds that commitItems has finished when it works on k.
Done(k) ==
    CASE k = "template" -> {"resource"}
      [] k = "tool"     -> {"resource", "template"}
      [] k = "prompt"   -> {"resource", "template", "tool"}
      [] OTHER          -> {}

\* Kind k of the SDK serves the bookkept items for the live configuration.
Old(k) == \A i \in Items : sdk[k][i] = IF i \in enabled[k] THEN configuration ELSE 0

\* Kind k of the SDK serves the new surface for the candidate.
New(k) == \A i \in Items : sdk[k][i] = IF i \in surface[k] THEN cand ELSE 0

\* Who holds and who waits for reloadMu, and what ReloadConfiguration's
\* caller sees meanwhile.
LockInv ==
    /\ holder = NoProc <=> phase = "free"
    /\ holder \notin waiting
    /\ phase \in {"provider", "rollback"} => holder = Sighup
    /\ phase \in {"reset", "resetting"} => holder \in KubeCallbacks
    /\ reload.st = "running" <=> Sighup \in waiting \cup {holder}

\* The configurations that p.cfg and the candidate hold.
ConfigInv ==
    /\ configuration <= reload.cfg
    /\ phase \in QuietPhases => pcfg = configuration
    /\ phase \in ApplyPhases \cup {"rollback"} => pcfg = cand
    /\ phase = "provider" => cand = reload.cfg
    /\ holder = Sighup /\ phase # "free" => cand = reload.cfg
    /\ phase \in ApplyPhases /\ holder # Sighup => cand = configuration
    /\ phase = "book" => cand = configuration

\* The SDK, at every step of the commit.
SdkInv ==
    /\ phase \notin CommitPhases => \A k \in Kinds : Old(k)
    /\ phase \in {"remove", "add"} =>
          /\ \A k \in Done(kind) : New(k)
          /\ \A k \in Kinds \ (Done(kind) \cup {kind}) : Old(k)
    /\ phase = "remove" => Old(kind)
    /\ phase = "add" =>
          /\ todo \subseteq surface[kind]
          /\ \A i \in Items :
                /\ i \in surface[kind] \ todo => sdk[kind][i] = cand
                /\ i \notin surface[kind] => sdk[kind][i] = 0
    /\ phase \in {"publish", "store", "book"} => \A k \in Kinds : New(k)

\* The manager of name n, if it is installed.
InstalledOK(n) ==
    HasManager(n) =>
        /\ managers[n] <= built
        /\ mgrConfig[managers[n]] >= configuration
        /\ phase \in {"store", "book"} => mgrConfig[managers[n]] = cand

\* The manager that call c uses, installed or not.
CallOK(c) ==
    /\ call[c].pc \in {"derive", "slow", "running"} => call[c].snap <= configuration
    /\ call[c].pc = "running" =>
          /\ call[c].mgr <= built
          /\ mgrConfig[call[c].mgr] >= call[c].snap

ClientInv ==
    /\ \A n \in Names : InstalledOK(n)
    /\ \A c \in Calls : CallOK(c)

IndInv == TypeOK /\ LockInv /\ ConfigInv /\ SdkInv /\ ClientInv

-----------------------------------------------------------------------------
(***************************************************************************)
(* Type correctness.                                                       *)
(***************************************************************************)

\* Init establishes the types.
LEMMA TypeOKInit == Init => TypeOK
  <1> SUFFICES ASSUME Init PROVE TypeOK
    OBVIOUS
  <1> USE ProviderAssumption, ReloadAssumption DEF Configs, Managers, Names
  <1>1. ProviderTypeOK
    <2>1. PICK file \in Files : ProviderInit(file)
      BY DEF Init
    <2>2. defaultContext \in Contexts
      BY <2>1 DEF ProviderInit
    <2>3. managers \in [Names -> Managers \cup {Absent, NilManager}]
      BY <2>1 DEF ProviderInit
    <2>4. mgrConfig \in [Managers -> Configs \cup {0}]
      BY <2>1 DEF ProviderInit
    <2>5. kubeconfig \in Files /\ pcfg \in Configs /\ built \in 0..MaxManagers
      BY <2>1 DEF ProviderInit
    <2>6. closed \in BOOLEAN
      BY <2>1 DEF ProviderInit
    <2> QED
      BY <2>2, <2>3, <2>4, <2>5, <2>6 DEF ProviderTypeOK
  <1>2. LockTypeOK
    BY DEF Init, LockTypeOK, Phases, NoSurface
  <1>3. call \in [Calls -> CallRecords]
    BY DEF Init, IdleCall, CallAt, CallRecords, CallStates
  <1>4. /\ configuration \in Configs
        /\ sdk \in [Kinds -> [Items -> Configs \cup {0}]]
        /\ enabled \in [Kinds -> SUBSET Items]
        /\ reload \in [st : ReloadStates, cfg : Configs]
    BY DEF Init, ReloadStates
  <1> QED
    BY <1>1, <1>2, <1>3, <1>4 DEF TypeOK

\* Every step keeps the types.
LEMMA TypeOKStep == TypeOK /\ [Next]_vars => TypeOK'
  <1> SUFFICES ASSUME TypeOK, [Next]_vars PROVE TypeOK'
    OBVIOUS
  <1> USE ProviderAssumption, ReloadAssumption
  <1> USE DEF TypeOK, ProviderTypeOK, LockTypeOK, Configs, Procs, Managers, Names, Phases,
              ReloadStates, CallStates, CallRecords, CallAt, vars, providerVars, lockVars, locals
  <1>1. CASE \E c \in Configs : ReloadConfiguration(c)
    BY <1>1 DEF ReloadConfiguration
  <1>2. CASE ValidateReload
    BY <1>2 DEF ValidateReload
  <1>3. CASE ReloadReturned
    BY <1>3 DEF ReloadReturned
  <1>4. CASE \E p \in Procs : CallbackFires(p)
    BY <1>4 DEF CallbackFires
  <1>5. CASE \E p \in Procs : Acquire(p)
    BY <1>5 DEF Acquire
  <1>6. CASE ReloadProvider
    BY <1>6 DEF ReloadConfig, ReloadProvider
  <1>7. CASE ResetChecksClosed
    BY <1>7 DEF Release, NoSurface, ResetChecksClosed
  <1>8. CASE ResetProvider
    <2>1. ProviderTypeOK'
      <3>1. CASE ResetManagers
        <4>1. PICK d \in kubeconfig.contexts :
                /\ BuildManager(built + 1, pcfg)
                /\ managers' = [n \in Names |->
                      IF n = d THEN built + 1
                      ELSE IF n \in kubeconfig.contexts THEN NilManager ELSE Absent]
                /\ defaultContext' = d
                /\ UNCHANGED <<kubeconfig, pcfg, closed>>
          BY <3>1 DEF ResetManagers
        <4> QED
          BY <4>1 DEF BuildManager
      <3> QED
        BY <1>8, <3>1 DEF ResetProvider
    <2> QED
      BY <1>8, <2>1 DEF Release, NoSurface, ResetProvider
  <1>9. CASE Collect
    BY <1>9 DEF Collect
  <1>10. CASE Convert
    BY <1>10 DEF Kinds, Release, NextKind, NoSurface, Convert
  <1>11. CASE RollBackProvider
    BY <1>11 DEF ReloadConfig, Release, NoSurface, RollBackProvider
  <1>12. CASE CommitRemove
    BY <1>12 DEF CommitRemove
  <1>13. CASE \E i \in Items : CommitAdd(i)
    BY <1>13 DEF CommitAdd
  <1>14. CASE CommitNextKind
    BY <1>14 DEF Kinds, NextKind, CommitNextKind
  <1>15. CASE Publish
    BY <1>15 DEF PublishKubernetesConfig, Publish
  <1>16. CASE StoreConfiguration
    BY <1>16 DEF StoreConfiguration
  <1>17. CASE Bookkeep
    BY <1>17 DEF Release, NoSurface, Bookkeep
  <1>18. CASE \E name \in Names : ProbeTarget(name)
    BY <1>18 DEF managerForContext, BuildManager, ProbeTarget
  <1>19. CASE \E c \in Calls : CallDispatch(c)
    BY <1>19 DEF Kinds, CallDispatch
  <1>20. CASE \E c \in Calls : CallSnapshot(c)
    <2>1. PICK c \in Calls : CallSnapshot(c)
      BY <1>20
    <2>2. call[c] \in CallRecords
      OBVIOUS
    <2>3. /\ CallAt("derive", configuration, NoName, 1) \in CallRecords
          /\ IdleCall \in CallRecords
      BY <2>2 DEF IdleCall
    <2>4. call' \in [Calls -> CallRecords]
      <3> HIDE DEF CallRecords, CallAt
      <3> QED
        BY <2>1, <2>3 DEF CallSnapshot
    <2> QED
      BY <2>1, <2>4 DEF CallSnapshot
  <1>21. CASE \E c \in Calls, name \in Names : CallDerive(c, name)
    <2>1. PICK c \in Calls, name \in Names : CallDerive(c, name)
      BY <1>21
    <2>2. call[c] \in CallRecords
      OBVIOUS
    <2>3. /\ HasManager(name) => CallAt("running", call[c].snap, name, managers[name]) \in CallRecords
          /\ CallAt("slow", call[c].snap, name, 1) \in CallRecords
          /\ IdleCall \in CallRecords
      BY <2>2 DEF HasManager, IdleCall
    <2>4. call' \in [Calls -> CallRecords]
      <3> HIDE DEF CallRecords, CallAt
      <3> QED
        BY <2>1, <2>3 DEF CallDerive
    <2> QED
      BY <2>1, <2>4 DEF CallDerive
  <1>22. CASE \E c \in Calls : CallDeriveSlow(c)
    <2>1. PICK c \in Calls : CallDeriveSlow(c)
      BY <1>22
    <2>2. call[c] \in CallRecords
      OBVIOUS
    <2>7. ProviderTypeOK'
      <3>1. CASE managerForContext(call[c].target)
        BY <2>2, <3>1 DEF managerForContext, BuildManager
      <3>2. CASE UNCHANGED providerVars
        BY <3>2
      <3> QED
        BY <2>1, <3>1, <3>2 DEF CallDeriveSlow
    <2>3. ASSUME NEW m \in Managers
          PROVE  CallAt("running", call[c].snap, call[c].target, m) \in CallRecords
      BY <2>2
    <2>4. IdleCall \in CallRecords
      BY DEF IdleCall
    <2>5. managerForContext(call[c].target) => built + 1 \in Managers
      BY DEF managerForContext, BuildManager
    <2>6. call' \in [Calls -> CallRecords]
      <3> HIDE DEF CallRecords, CallAt
      <3>1. ASSUME NEW m \in Managers,
                   call' = [call EXCEPT ![c] =
                       CallAt("running", @.snap, call[c].target, m)]
            PROVE  call' \in [Calls -> CallRecords]
        BY <2>3, <3>1
      <3>2. ASSUME call' = [call EXCEPT ![c] = IdleCall]
            PROVE  call' \in [Calls -> CallRecords]
        BY <2>4, <3>2
      <3> QED
        BY <2>1, <2>5, <3>1, <3>2 DEF CallDeriveSlow, HasManager
    <2> QED
      BY <2>1, <2>7, <2>6 DEF CallDeriveSlow
  <1>23. CASE \E c \in Calls : CallReturn(c)
    BY <1>23 DEF IdleCall, CallReturn
  <1>24. CASE Close
    BY <1>24 DEF ProviderClose, Close
  <1>25. CASE FileEdit
    BY <1>25 DEF EditKubeconfig, FileEdit
  <1>26. CASE UNCHANGED vars
    BY <1>26
  <1> QED
    BY <1>1, <1>2, <1>3, <1>4, <1>5, <1>6, <1>7, <1>8, <1>9, <1>10, <1>11, <1>12, <1>13, <1>14, <1>15, <1>16, <1>17, <1>18, <1>19, <1>20, <1>21, <1>22, <1>23, <1>24, <1>25, <1>26
       DEF Next, HolderStep, CallStep

-----------------------------------------------------------------------------
(***************************************************************************)
(* The four parts of the inductive invariant, one step lemma each.         *)
(***************************************************************************)

\* reloadMu has one holder, and each phase belongs to its kind of holder.
LEMMA LockInvStep == TypeOK /\ LockInv /\ [Next]_vars => LockInv'
  <1> SUFFICES ASSUME TypeOK /\ LockInv, [Next]_vars PROVE LockInv'
    OBVIOUS
  <1> USE ReloadAssumption
  <1> USE DEF TypeOK, LockTypeOK, LockInv, Procs, ReloadStates, vars, lockVars, locals
  <1>1. CASE \E c \in Configs : ReloadConfiguration(c)
    BY <1>1 DEF ReloadConfiguration
  <1>2. CASE ValidateReload
    BY <1>2 DEF ValidateReload
  <1>3. CASE ReloadReturned
    BY <1>3 DEF ReloadReturned
  <1>4. CASE \E p \in Procs : CallbackFires(p)
    BY <1>4 DEF CallbackFires
  <1>5. CASE \E p \in Procs : Acquire(p)
    BY <1>5 DEF Acquire
  <1>6. CASE ReloadProvider
    BY <1>6 DEF ReloadConfig, ReloadProvider
  <1>7. CASE ResetChecksClosed
    BY <1>7 DEF Release, ResetChecksClosed
  <1>8. CASE ResetProvider
    BY <1>8 DEF ResetManagers, Release, ResetProvider
  <1>9. CASE Collect
    BY <1>9 DEF Collect
  <1>10. CASE Convert
    BY <1>10 DEF Release, Convert
  <1>11. CASE RollBackProvider
    BY <1>11 DEF ReloadConfig, Release, RollBackProvider
  <1>12. CASE CommitRemove
    BY <1>12 DEF CommitRemove
  <1>13. CASE \E i \in Items : CommitAdd(i)
    BY <1>13 DEF CommitAdd
  <1>14. CASE CommitNextKind
    BY <1>14 DEF CommitNextKind
  <1>15. CASE Publish
    BY <1>15 DEF PublishKubernetesConfig, Publish
  <1>16. CASE StoreConfiguration
    BY <1>16 DEF StoreConfiguration
  <1>17. CASE Bookkeep
    BY <1>17 DEF Release, Bookkeep
  <1>18. CASE \E name \in Names : ProbeTarget(name)
    BY <1>18 DEF managerForContext, ProbeTarget
  <1>19. CASE \E c \in Calls : CallStep(c)
    BY <1>19 DEF CallDispatch, CallSnapshot, CallDerive, CallDeriveSlow, CallReturn, managerForContext, CallStep
  <1>20. CASE Close
    BY <1>20 DEF ProviderClose, Close
  <1>21. CASE FileEdit
    BY <1>21 DEF EditKubeconfig, FileEdit
  <1>22. CASE UNCHANGED vars
    BY <1>22
  <1> QED
    BY <1>1, <1>2, <1>3, <1>4, <1>5, <1>6, <1>7, <1>8, <1>9, <1>10, <1>11, <1>12, <1>13, <1>14, <1>15, <1>16, <1>17, <1>18, <1>19, <1>20, <1>21, <1>22
       DEF Next, HolderStep

\* p.cfg follows the candidate while it is applied and the live configuration otherwise.
LEMMA ConfigInvStep == TypeOK /\ LockInv /\ ConfigInv /\ [Next]_vars => ConfigInv'
  <1> SUFFICES ASSUME TypeOK /\ LockInv /\ ConfigInv, [Next]_vars PROVE ConfigInv'
    OBVIOUS
  <1> USE ReloadAssumption, ProviderAssumption
  <1> USE DEF TypeOK, ProviderTypeOK, LockTypeOK, LockInv, ConfigInv, Procs, Configs, ReloadStates, ApplyPhases,
              CommitPhases, QuietPhases, vars, providerVars, lockVars, locals
  <1>1. CASE \E c \in Configs : ReloadConfiguration(c)
    BY <1>1 DEF ReloadConfiguration
  <1>2. CASE ValidateReload
    BY <1>2 DEF ValidateReload
  <1>3. CASE ReloadReturned
    BY <1>3 DEF ReloadReturned
  <1>4. CASE \E p \in Procs : CallbackFires(p)
    BY <1>4 DEF CallbackFires
  <1>5. CASE \E p \in Procs : Acquire(p)
    BY <1>5 DEF Acquire
  <1>6. CASE ReloadProvider
    BY <1>6 DEF ReloadConfig, ReloadProvider
  <1>7. CASE ResetChecksClosed
    BY <1>7 DEF Release, ResetChecksClosed
  <1>8. CASE ResetProvider
    BY <1>8 DEF ResetManagers, Release, ResetProvider
  <1>9. CASE Collect
    BY <1>9 DEF Collect
  <1>10. CASE Convert
    BY <1>10 DEF Release, Convert
  <1>11. CASE RollBackProvider
    BY <1>11 DEF ReloadConfig, Release, RollBackProvider
  <1>12. CASE CommitRemove
    BY <1>12 DEF CommitRemove
  <1>13. CASE \E i \in Items : CommitAdd(i)
    BY <1>13 DEF CommitAdd
  <1>14. CASE CommitNextKind
    BY <1>14 DEF CommitNextKind
  <1>15. CASE Publish
    BY <1>15 DEF PublishKubernetesConfig, Publish
  <1>16. CASE StoreConfiguration
    BY <1>16 DEF StoreConfiguration
  <1>17. CASE Bookkeep
    BY <1>17 DEF Release, Bookkeep
  <1>18. CASE \E name \in Names : ProbeTarget(name)
    BY <1>18 DEF managerForContext, ProbeTarget
  <1>19. CASE \E c \in Calls : CallStep(c)
    BY <1>19 DEF CallDispatch, CallSnapshot, CallDerive, CallDeriveSlow, CallReturn, managerForContext, CallStep
  <1>20. CASE Close
    BY <1>20 DEF ProviderClose, Close
  <1>21. CASE FileEdit
    BY <1>21 DEF EditKubeconfig, FileEdit
  <1>22. CASE UNCHANGED vars
    BY <1>22
  <1> QED
    BY <1>1, <1>2, <1>3, <1>4, <1>5, <1>6, <1>7, <1>8, <1>9, <1>10, <1>11, <1>12, <1>13, <1>14, <1>15, <1>16, <1>17, <1>18, <1>19, <1>20, <1>21, <1>22
       DEF Next, HolderStep


\* The SDK moves from the bookkept surface to the candidate's, kind by kind.
LEMMA SdkInvStep == TypeOK /\ LockInv /\ ConfigInv /\ SdkInv /\ [Next]_vars => SdkInv'
  <1> SUFFICES ASSUME TypeOK /\ LockInv /\ ConfigInv /\ SdkInv, [Next]_vars PROVE SdkInv'
    OBVIOUS
  <1> USE ReloadAssumption, ProviderAssumption
  <1> USE DEF TypeOK, LockTypeOK, LockInv, SdkInv, Old, New, Phases,
              CommitPhases, vars, lockVars, locals
  <1>1. CASE \E c \in Configs : ReloadConfiguration(c)
    BY <1>1 DEF ReloadConfiguration
  <1>2. CASE ValidateReload
    BY <1>2 DEF ValidateReload
  <1>3. CASE ReloadReturned
    BY <1>3 DEF ReloadReturned
  <1>4. CASE \E p \in Procs : CallbackFires(p)
    BY <1>4 DEF CallbackFires
  <1>5. CASE \E p \in Procs : Acquire(p)
    BY <1>5 DEF Acquire
  <1>6. CASE ReloadProvider
    BY <1>6 DEF ReloadConfig, ReloadProvider
  <1>7. CASE ResetChecksClosed
    BY <1>7 DEF Release, ResetChecksClosed
  <1>8. CASE ResetProvider
    BY <1>8 DEF ResetManagers, Release, ResetProvider
  <1>9. CASE Collect
    BY <1>9 DEF Collect
  <1>10. CASE Convert
    BY <1>10 DEF Convert, Release, NextKind, Done, Kinds
  <1>11. CASE RollBackProvider
    BY <1>11 DEF ReloadConfig, Release, RollBackProvider
  <1>12. CASE CommitRemove
    BY <1>12 DEF CommitRemove, Done, Kinds
  <1>13. CASE \E i \in Items : CommitAdd(i)
    BY <1>13 DEF CommitAdd, Done, Kinds
  <1>14. CASE CommitNextKind
    BY <1>14 DEF CommitNextKind, NextKind, Done, Kinds
  <1>15. CASE Publish
    BY <1>15 DEF PublishKubernetesConfig, Publish
  <1>16. CASE StoreConfiguration
    BY <1>16 DEF StoreConfiguration
  <1>17. CASE Bookkeep
    BY <1>17 DEF Bookkeep, Release, ConfigInv
  <1>18. CASE \E name \in Names : ProbeTarget(name)
    BY <1>18 DEF managerForContext, ProbeTarget
  <1>19. CASE \E c \in Calls : CallStep(c)
    BY <1>19 DEF CallDispatch, CallSnapshot, CallDerive, CallDeriveSlow, CallReturn, managerForContext, CallStep
  <1>20. CASE Close
    BY <1>20 DEF ProviderClose, Close
  <1>21. CASE FileEdit
    BY <1>21 DEF EditKubeconfig, FileEdit
  <1>22. CASE UNCHANGED vars
    BY <1>22
  <1> QED
    BY <1>1, <1>2, <1>3, <1>4, <1>5, <1>6, <1>7, <1>8, <1>9, <1>10, <1>11, <1>12, <1>13, <1>14, <1>15, <1>16, <1>17, <1>18, <1>19, <1>20, <1>21, <1>22
       DEF Next, HolderStep

\* A manager that is built now is not older than the live configuration.
LEMMA PcfgNotOlder ==
  ASSUME TypeOK, LockInv, ConfigInv
  PROVE  pcfg >= configuration /\ (phase \in {"store", "book"} => pcfg = cand)
  BY DEF TypeOK, ProviderTypeOK, LockTypeOK, Phases, Configs, LockInv, ConfigInv,
         ApplyPhases, CommitPhases, QuietPhases

\* Building a manager leaves the existing ones alone and keeps the types that
\* the client invariant speaks of.
LEMMA BuildManagerFacts ==
  ASSUME TypeOK, BuildManager(built + 1, pcfg)
  PROVE  /\ built' = built + 1
         /\ built + 1 \in Managers
         /\ mgrConfig'[built + 1] = pcfg
         /\ \A m \in Managers : m <= built => mgrConfig'[m] = mgrConfig[m]
  BY ProviderAssumption DEF TypeOK, ProviderTypeOK, BuildManager, Managers

\* A step that builds manager built + 1 for the names in N, and touches no
\* call, keeps the client invariant.
LEMMA BuildKeepsClients ==
  ASSUME TypeOK, LockInv, ConfigInv, ClientInv, BuildManager(built + 1, pcfg),
         configuration' = configuration,
         phase' \in {"store", "book"} => phase' = phase /\ cand' = cand,
         \A n \in Names : HasManager(n)' =>
             managers'[n] = built + 1 \/ (managers'[n] = managers[n] /\ HasManager(n))
  PROVE  /\ \A n \in Names : InstalledOK(n)'
         /\ \A c \in Calls : call'[c] = call[c] => CallOK(c)'
  <1>1. built \in Nat /\ pcfg \in Nat /\ configuration \in Nat
    BY DEF TypeOK, ProviderTypeOK, Configs
  <1>2. \A n \in Names : InstalledOK(n)'
    <2> SUFFICES ASSUME NEW n \in Names, HasManager(n)'
                 PROVE  /\ managers'[n] <= built'
                        /\ mgrConfig'[managers'[n]] >= configuration'
                        /\ phase' \in {"store", "book"} => mgrConfig'[managers'[n]] = cand'
      BY DEF InstalledOK
    <2>1. CASE managers'[n] = built + 1
      BY <1>1, <2>1, BuildManagerFacts, PcfgNotOlder
    <2>2. CASE managers'[n] = managers[n] /\ HasManager(n)
      <3>1. managers[n] \in Managers /\ managers[n] <= built /\ managers[n] \in Nat
        BY <2>2 DEF ClientInv, InstalledOK, HasManager, Managers
      <3>2. mgrConfig'[managers[n]] = mgrConfig[managers[n]]
        BY <3>1, BuildManagerFacts
      <3> QED
        BY <1>1, <2>2, <3>1, <3>2, BuildManagerFacts DEF ClientInv, InstalledOK
    <2> QED
      BY <2>1, <2>2
  <1>3. ASSUME NEW c \in Calls, call'[c] = call[c] PROVE CallOK(c)'
    <2>1. call[c].mgr \in Managers /\ call[c].mgr \in Nat
      BY DEF TypeOK, CallRecords, Managers
    <2>2. CallOK(c)
      BY DEF ClientInv
    <2>3. call[c].pc = "running" => mgrConfig'[call[c].mgr] = mgrConfig[call[c].mgr]
      BY <2>1, <2>2, BuildManagerFacts DEF CallOK
    <2> QED
      BY <1>1, <1>3, <2>1, <2>2, <2>3, BuildManagerFacts DEF CallOK
  <1> QED
    BY <1>2, <1>3

\* A step that changes nothing the client invariant reads keeps it.
LEMMA ClientsUnchanged ==
  ASSUME ClientInv, UNCHANGED <<managers, mgrConfig, built, configuration, call>>,
         phase' \in {"store", "book"} => phase' = phase /\ cand' = cand
  PROVE  ClientInv'
  BY DEF ClientInv, InstalledOK, CallOK, HasManager

\* A step of one call that builds no manager keeps the client invariant.
LEMMA CallKeepsClients ==
  ASSUME TypeOK, ClientInv, NEW c \in Calls, CallStep(c), UNCHANGED providerVars
  PROVE  ClientInv'
  <1>1. /\ configuration' = configuration /\ phase' = phase /\ cand' = cand
        /\ \A d \in Calls : d # c => call'[d] = call[d]
    BY DEF CallStep, CallDispatch, CallSnapshot, CallDerive, CallDeriveSlow, CallReturn,
           lockVars, locals, TypeOK
  <1>2. /\ managers' = managers /\ mgrConfig' = mgrConfig /\ built' = built
    BY DEF providerVars
  <1>3. CallOK(c)'
    <2>1. c \in DOMAIN call /\ call[c] \in CallRecords
      BY DEF TypeOK
    <2>2. CallOK(c) /\ configuration \in Nat
      BY DEF ClientInv, TypeOK, Configs
    <2>3. CASE CallDispatch(c)
      BY <2>1, <2>3 DEF CallDispatch, CallAt, CallOK
    <2>4. CASE CallSnapshot(c)
      BY <1>1, <2>1, <2>2, <2>4 DEF CallSnapshot, CallAt, IdleCall, CallOK
    <2>5. ASSUME NEW name \in Names, HasManager(name), call[c].pc \in {"derive", "slow"},
                 call' = [call EXCEPT ![c] = CallAt("running", @.snap, name, managers[name])]
          PROVE  CallOK(c)'
      <3>1. InstalledOK(name)
        BY DEF ClientInv
      <3>2. /\ call'[c].pc = "running"
            /\ call'[c].snap = call[c].snap
            /\ call'[c].mgr = managers[name]
        BY <2>1, <2>5 DEF CallAt
      <3>3. call[c].snap <= configuration /\ call[c].snap \in Nat
        BY <2>1, <2>2, <2>5 DEF CallOK, CallRecords, Configs
      <3>4. mgrConfig[managers[name]] \in Nat
        BY <2>5 DEF TypeOK, ProviderTypeOK, HasManager, Configs
      <3> QED
        BY <1>1, <1>2, <2>2, <2>5, <3>1, <3>2, <3>3, <3>4 DEF CallOK, InstalledOK
    <2>6. CASE \E name \in Names : CallDerive(c, name)
      BY <1>1, <2>1, <2>2, <2>5, <2>6 DEF CallDerive, IdleCall, CallAt, CallOK
    <2>7. CASE CallDeriveSlow(c)
      <3>1. call[c].target \in Names
        BY <2>1 DEF CallRecords
      <3>2. ~managerForContext(call[c].target)
        BY DEF managerForContext, BuildManager, providerVars, TypeOK, ProviderTypeOK
      <3>3. CASE HasManager(call[c].target)
        <4>1. CASE call' = [call EXCEPT ![c] = IdleCall]
          BY <2>1, <4>1 DEF IdleCall, CallAt, CallOK
        <4> QED
          BY <2>5, <2>7, <3>1, <3>2, <3>3, <4>1 DEF CallDeriveSlow
      <3>4. CASE ~HasManager(call[c].target)
        BY <2>1, <2>7, <3>2, <3>4 DEF CallDeriveSlow, IdleCall, CallAt, CallOK
      <3> QED
        BY <3>3, <3>4
    <2>8. CASE CallReturn(c)
      BY <2>1, <2>8 DEF CallReturn, IdleCall, CallAt, CallOK
    <2> QED
      BY <2>3, <2>4, <2>6, <2>7, <2>8 DEF CallStep
  <1>4. \A d \in Calls : CallOK(d)'
    <2> SUFFICES ASSUME NEW d \in Calls, d # c PROVE CallOK(d)'
      BY <1>3
    <2> QED
      BY <1>1, <1>2 DEF ClientInv, CallOK
  <1>5. \A n \in Names : InstalledOK(n)'
    BY <1>1, <1>2 DEF ClientInv, InstalledOK, HasManager
  <1> QED
    BY <1>4, <1>5 DEF ClientInv

\* No installed manager, and no manager a call uses, is older than it may be.
LEMMA ClientInvStep ==
  TypeOK /\ LockInv /\ ConfigInv /\ ClientInv /\ [Next]_vars => ClientInv'
  <1> SUFFICES ASSUME TypeOK, LockInv, ConfigInv, ClientInv, [Next]_vars PROVE ClientInv'
    OBVIOUS
  <1>1. CASE UNCHANGED <<managers, mgrConfig, built, configuration, call>>
             /\ (phase' \in {"store", "book"} => phase' = phase /\ cand' = cand)
    BY <1>1, ClientsUnchanged
  <1>2. CASE ResetProvider
    <2>1. CASE ResetManagers
      <3>1. PICK d \in Names :
              /\ BuildManager(built + 1, pcfg)
              /\ managers' = [n \in Names |->
                    IF n = d THEN built + 1
                    ELSE IF n \in kubeconfig.contexts THEN NilManager ELSE Absent]
        BY <2>1, ProviderAssumption DEF ResetManagers, Names, TypeOK, ProviderTypeOK
      <3>2. call' = call /\ configuration' = configuration /\ phase' \notin {"store", "book"}
        BY <1>2 DEF ResetProvider, Release
      <3>3. \A n \in Names : HasManager(n)' => managers'[n] = built + 1
        BY <3>1, ProviderAssumption DEF HasManager, Managers
      <3> QED
        BY <3>1, <3>2, <3>3, BuildKeepsClients DEF ClientInv
    <2> QED
      BY <1>1, <1>2, <2>1 DEF ResetProvider, Release, providerVars
  <1>3. CASE Publish
    <2>1. /\ configuration' = configuration /\ cand' = cand /\ call' = call
          /\ managers' = managers /\ built' = built
          /\ mgrConfig' = [m \in Managers |-> IF m \in Installed THEN cand ELSE mgrConfig[m]]
      BY <1>3 DEF Publish, PublishKubernetesConfig, locals
    <2>2. cand >= configuration /\ cand \in Nat /\ configuration \in Nat
      BY <1>3, PcfgNotOlder DEF Publish, ConfigInv, ApplyPhases, CommitPhases, TypeOK, LockTypeOK, Configs
    <2>3. \A n \in Names : InstalledOK(n)'
      BY <2>1, <2>2 DEF ClientInv, InstalledOK, HasManager, Installed
    <2>4. ASSUME NEW c \in Calls PROVE CallOK(c)'
      <3>1. call[c].mgr \in Managers /\ call[c].snap \in Nat
        BY DEF TypeOK, CallRecords, Configs
      <3>2. CallOK(c)
        BY DEF ClientInv
      <3>3. mgrConfig'[call[c].mgr] \in {cand, mgrConfig[call[c].mgr]}
        BY <2>1, <3>1
      <3> QED
        BY <2>1, <2>2, <3>1, <3>2, <3>3 DEF CallOK
    <2> QED
      BY <2>3, <2>4 DEF ClientInv
  <1>4. CASE StoreConfiguration
    <2>1. /\ configuration' = cand /\ cand' = cand /\ call' = call /\ phase = "store"
          /\ managers' = managers /\ built' = built /\ mgrConfig' = mgrConfig
      BY <1>4 DEF StoreConfiguration, providerVars
    <2>2. cand >= configuration /\ cand \in Nat /\ configuration \in Nat
      BY <2>1, PcfgNotOlder DEF TypeOK, LockTypeOK, Configs
    <2>3. \A n \in Names : InstalledOK(n)'
      BY <2>1, <2>2 DEF ClientInv, InstalledOK, HasManager
    <2>4. \A c \in Calls : call[c].snap \in Nat
      BY DEF TypeOK, CallRecords, Configs
    <2>5. \A c \in Calls : CallOK(c)'
      BY <2>1, <2>2, <2>4 DEF ClientInv, CallOK
    <2> QED
      BY <2>3, <2>5 DEF ClientInv
  <1>5. CASE \E name \in Names : ProbeTarget(name)
    <2>1. PICK name \in Names : ProbeTarget(name)
      BY <1>5
    <2>2. /\ BuildManager(built + 1, pcfg)
          /\ managers' = [managers EXCEPT ![name] = built + 1]
          /\ call' = call /\ configuration' = configuration /\ phase' = phase /\ cand' = cand
      BY <2>1 DEF ProbeTarget, managerForContext, lockVars, locals
    <2>3. \A n \in Names : managers'[n] = IF n = name THEN built + 1 ELSE managers[n]
      BY <2>2 DEF TypeOK, ProviderTypeOK
    <2> QED
      BY <2>2, <2>3, BuildKeepsClients DEF ClientInv, HasManager
  <1>6. CASE \E c \in Calls : CallStep(c)
    <2>1. PICK c \in Calls : CallStep(c)
      BY <1>6
    <2>2. CASE UNCHANGED providerVars
      BY <2>1, <2>2, CallKeepsClients
    <2>3. CASE managerForContext(call[c].target) /\ CallDeriveSlow(c)
      <3>1. /\ BuildManager(built + 1, pcfg)
            /\ managers' = [managers EXCEPT ![call[c].target] = built + 1]
            /\ ~HasManager(call[c].target)
            /\ configuration' = configuration /\ phase' = phase /\ cand' = cand
        BY <2>3 DEF managerForContext, CallDeriveSlow, lockVars, locals
      <3>2. \A n \in Names :
              managers'[n] = IF n = call[c].target THEN built + 1 ELSE managers[n]
        BY <3>1 DEF TypeOK, ProviderTypeOK
      <3>3. \/ call' = [call EXCEPT ![c] =
                   CallAt("running", @.snap, call[c].target, built + 1)]
            \/ call' = [call EXCEPT ![c] = IdleCall]
        BY <2>3, <3>1 DEF CallDeriveSlow
      <3>4. \A d \in Calls : d # c => call'[d] = call[d]
        BY <3>3 DEF TypeOK
      <3>5. \/ /\ call'[c].pc = "running"
               /\ call'[c].snap = call[c].snap
               /\ call'[c].mgr = built + 1
            \/ call'[c].pc = "idle"
        BY <3>3 DEF CallAt, IdleCall, TypeOK
      <3>6. call[c].pc = "slow" /\ call[c].snap \in Nat /\ CallOK(c)
        BY <2>3 DEF CallDeriveSlow, TypeOK, CallRecords, Configs, ClientInv
      <3>7. CallOK(c)'
        <4>1. pcfg \in Nat /\ configuration \in Nat /\ built \in Nat
          BY DEF TypeOK, ProviderTypeOK, Configs
        <4> QED
          BY <3>1, <3>5, <3>6, <4>1, BuildManagerFacts, PcfgNotOlder DEF CallOK
      <3>8. /\ \A n \in Names : InstalledOK(n)'
            /\ \A d \in Calls : call'[d] = call[d] => CallOK(d)'
        BY <3>1, <3>2, BuildKeepsClients DEF HasManager
      <3> QED
        BY <3>4, <3>7, <3>8 DEF ClientInv
    <2> QED
      BY <2>1, <2>2, <2>3
         DEF CallStep, CallDispatch, CallSnapshot, CallDerive, CallDeriveSlow, CallReturn
  <1> QED
    BY <1>1, <1>2, <1>3, <1>4, <1>5, <1>6
       DEF Next, HolderStep, vars, providerVars, lockVars, locals, ReloadConfiguration,
           ValidateReload, ReloadReturned, CallbackFires, Acquire, Release, ReloadProvider,
           ReloadConfig, ResetChecksClosed, Collect, Convert, RollBackProvider, CommitRemove,
           CommitAdd, CommitNextKind, Bookkeep, Close, ProviderClose, FileEdit, EditKubeconfig

-----------------------------------------------------------------------------
(***************************************************************************)
(* The inductive invariant and what follows from it.                       *)
(***************************************************************************)

\* NewServer's state satisfies the inductive invariant.
LEMMA IndInvInit == Init => IndInv
  <1> SUFFICES ASSUME Init PROVE IndInv
    OBVIOUS
  <1>1. TypeOK
    BY TypeOKInit
  <1>2. LockInv
    BY ReloadAssumption DEF Init, LockInv, Procs
  <1>3. ConfigInv
    BY ReloadAssumption
       DEF Init, ProviderInit, ConfigInv, QuietPhases, ApplyPhases, CommitPhases, Procs
  <1>4. SdkInv
    BY DEF Init, SdkInv, Old, CommitPhases
  <1>5. ClientInv
    <2>1. PICK file \in Files : ProviderInit(file)
      BY DEF Init
    <2>2. \A n \in Names : HasManager(n) => managers[n] = 1
      BY <2>1, ProviderAssumption DEF ProviderInit, HasManager, Managers
    <2>3. mgrConfig[1] = 1 /\ built = 1 /\ configuration = 1 /\ phase = "free"
      BY <2>1, ProviderAssumption DEF ProviderInit, Init, Managers
    <2>4. \A c \in Calls : call[c].pc = "idle"
      BY DEF Init, IdleCall, CallAt
    <2> QED
      BY <2>2, <2>3, <2>4 DEF ClientInv, InstalledOK, CallOK
  <1> QED
    BY <1>1, <1>2, <1>3, <1>4, <1>5 DEF IndInv

\* Every step of the server preserves the inductive invariant.
LEMMA IndInvStep == IndInv /\ [Next]_vars => IndInv'
  BY TypeOKStep, LockInvStep, ConfigInvStep, SdkInvStep, ClientInvStep DEF IndInv

\* The inductive invariant holds in every reachable state.
THEOREM IndInvHolds == SafeSpec => []IndInv
  BY IndInvInit, IndInvStep, PTL DEF SafeSpec

\* Every variable of the server and its provider always has its type.
THEOREM TypeCorrect == SafeSpec => []TypeOK
  <1>1. IndInv => TypeOK
    BY DEF IndInv
  <1> QED
    BY <1>1, IndInvHolds, PTL

\* applyToolsets is transactional: whenever reloadMu is free, the SDK serves
\* exactly the bookkept items, converted for the live configuration.
THEOREM ApplyIsTransactional == SafeSpec => []SurfaceIsLive
  <1>1. IndInv => SurfaceIsLive
    BY DEF IndInv, LockInv, SdkInv, Old, CommitPhases, SurfaceIsLive
  <1> QED
    BY <1>1, IndInvHolds, PTL

\* After every reload, failed or not, p.cfg is the live configuration.
THEOREM FailedReloadRollsBack == SafeSpec => []ProviderFollowsLive
  <1>1. IndInv => ProviderFollowsLive
    BY DEF IndInv, LockInv, ConfigInv, QuietPhases, ProviderFollowsLive
  <1> QED
    BY <1>1, IndInvHolds, PTL

\* No tool call runs under access control older than its own snapshot.
THEOREM CallsSeeCurrentAccessControl == SafeSpec => []AccessControlNotOlderThanSnapshot
  <1>1. IndInv => AccessControlNotOlderThanSnapshot
    BY DEF IndInv, ClientInv, CallOK, AccessControlNotOlderThanSnapshot
  <1> QED
    BY <1>1, IndInvHolds, PTL

\* A configuration becomes live only when every installed manager has it.
THEOREM CommitReachesEveryClient == SafeSpec => CommitCoversClients
  <1>1. ASSUME IndInv, [Next]_vars, configuration' # configuration
        PROVE  \A m \in Installed : mgrConfig[m] = configuration'
    <2>1. StoreConfiguration
      BY <1>1 DEF Next, HolderStep, vars, ReloadConfiguration, ValidateReload, ReloadReturned,
                  CallbackFires, Acquire, ReloadProvider, ResetChecksClosed, ResetProvider,
                  Collect, Convert, RollBackProvider, CommitRemove, CommitAdd, CommitNextKind,
                  Publish, Bookkeep, ProbeTarget, CallStep, CallDispatch, CallSnapshot,
                  CallDerive, CallDeriveSlow, CallReturn, Close, FileEdit
    <2> QED
      BY <1>1, <2>1 DEF StoreConfiguration, IndInv, ClientInv, InstalledOK, HasManager, Installed
  <1>2. IndInv /\ [Next]_vars =>
          [configuration' # configuration =>
              \A m \in Installed : mgrConfig[m] = configuration']_vars
    BY <1>1
  <1> QED
    BY <1>2, IndInvHolds, PTL DEF SafeSpec, CommitCoversClients

\* The SDK has every resource of a surface before it gets the first tool.
THEOREM ResourcesComeFirst == SafeSpec => ResourcesBeforeTools
  <1>1. ASSUME IndInv, [Next]_vars, NEW t \in Items,
               phase = "add", kind = "tool", t \in todo, t \notin todo'
        PROVE  \A r \in surface["resource"] : sdk["resource"][r] # 0
    <2>1. New("resource")
      BY <1>1 DEF IndInv, SdkInv, Done
    <2>2. surface["resource"] \subseteq Items /\ cand # 0
      BY <1>1 DEF IndInv, TypeOK, LockTypeOK, Kinds, Configs
    <2> QED
      BY <2>1, <2>2 DEF New
  <1>2. IndInv /\ [Next]_vars =>
          [\A t \in Items :
              phase = "add" /\ kind = "tool" /\ t \in todo /\ t \notin todo'
              => \A r \in surface["resource"] : sdk["resource"][r] # 0]_vars
    BY <1>1
  <1> QED
    BY <1>2, IndInvHolds, PTL DEF SafeSpec, ResourcesBeforeTools

-----------------------------------------------------------------------------
(***************************************************************************)
(* Refinement: ReloadConfiguration keeps its contract.                     *)
(***************************************************************************)

\* A step of the server is a step of the contract or leaves it alone.
LEMMA ContractStep ==
  ASSUME IndInv, [Next]_vars
  PROVE  [Contract!ContractNext]_(Contract!contractVars)
  <1> USE ReloadAssumption
      DEF IndInv, TypeOK, LockTypeOK, LockInv, Procs, ContractJob, Contract!contractVars
  <1>1. CASE \E c \in Configs : ReloadConfiguration(c)
    <2>1. PICK c \in Configs : ReloadConfiguration(c)
      BY <1>1
    <2>2. Contract!Call(c)
      BY <2>1 DEF ReloadConfiguration, lockVars, Contract!Call, Contract!Idle, Configs
    <2> QED
      BY <2>2 DEF Contract!ContractNext, Configs, Contract!Configs
  <1>2. CASE ValidateReload
    <2>1. CASE reload'.st = "running"
      BY <1>2, <2>1 DEF ValidateReload
    <2>2. CASE reload'.st = "rejected"
      <3>1. Contract!Return("rejected")
        BY <1>2, <2>2 DEF ValidateReload, Contract!Return
      <3> QED
        BY <3>1 DEF Contract!ContractNext, Contract!Results
    <2> QED
      BY <1>2, <2>1, <2>2 DEF ValidateReload
  <1>3. CASE ReloadReturned
    <2>1. Contract!Acknowledge
      BY <1>3 DEF ReloadReturned, lockVars, Contract!Acknowledge, Contract!Results, Contract!Idle
    <2> QED
      BY <2>1 DEF Contract!ContractNext
  <1>4. CASE StoreConfiguration
    <2>1. CASE holder = Sighup
      <3>1. Contract!Commit
        BY <1>4, <2>1 DEF StoreConfiguration, ConfigInv, Contract!Commit
      <3> QED
        BY <3>1 DEF Contract!ContractNext
    <2>2. CASE holder # Sighup
      BY <1>4, <2>2 DEF StoreConfiguration, ConfigInv, ApplyPhases, CommitPhases
    <2> QED
      BY <2>1, <2>2
  <1>5. CASE Bookkeep
    <2>1. CASE holder = Sighup
      <3>1. Contract!Return("ok")
        BY <1>5, <2>1 DEF Bookkeep, Release, Contract!Return
      <3> QED
        BY <3>1 DEF Contract!ContractNext, Contract!Results
    <2>2. CASE holder # Sighup
      BY <1>5, <2>2 DEF Bookkeep, Release
    <2> QED
      BY <2>1, <2>2
  <1>6. CASE RollBackProvider
    <2>1. Contract!Return("failed")
      BY <1>6 DEF RollBackProvider, ReloadConfig, Release, Contract!Return
    <2> QED
      BY <2>1 DEF Contract!ContractNext, Contract!Results
  <1>7. CASE ResetChecksClosed \/ ResetProvider
    BY <1>7 DEF ResetChecksClosed, ResetProvider, Release
  <1>8. CASE Convert
    BY <1>8 DEF Convert, Release
  <1>9. CASE \E p \in Procs : Acquire(p)
    BY <1>9 DEF Acquire
  <1>10. ASSUME UNCHANGED <<holder, reload, configuration>>,
                phase' = phase \/ (phase' # "book" /\ phase # "book")
         PROVE  UNCHANGED Contract!contractVars
    BY <1>10
  <1> HIDE DEF IndInv, TypeOK, LockTypeOK, LockInv, Procs, ContractJob, Contract!contractVars
  <1>11. CASE \/ \E p \in Procs : CallbackFires(p)
              \/ ReloadProvider \/ Collect \/ CommitRemove \/ CommitNextKind \/ Publish
              \/ \E i \in Items : CommitAdd(i)
    BY <1>10, <1>11 DEF CallbackFires, ReloadProvider, Collect, CommitRemove, CommitNextKind,
                        Publish, CommitAdd
  <1>12. CASE \/ \E name \in Names : ProbeTarget(name)
              \/ \E c \in Calls : CallStep(c)
              \/ Close \/ FileEdit \/ UNCHANGED vars
    BY <1>10, <1>12 DEF ProbeTarget, CallStep, CallDispatch, CallSnapshot, CallDerive,
                        CallDeriveSlow, CallReturn, Close, FileEdit, vars, lockVars
  <1> QED
    BY <1>1, <1>2, <1>3, <1>4, <1>5, <1>6, <1>7, <1>8, <1>9, <1>11, <1>12
       DEF Next, HolderStep

\* ReloadConfiguration, run concurrently with callbacks, resets and calls,
\* implements the contract the SIGHUP handler relies on.
THEOREM ReloadImplementsContract == SafeSpec => ReloadMeetsContract
  <1>1. Init => Contract!ContractInit
    BY ReloadAssumption DEF Init, ContractJob, Procs, Contract!ContractInit, Contract!Idle
  <1>2. IndInv /\ [Next]_vars => [Contract!ContractNext]_(Contract!contractVars)
    BY ContractStep
  <1> QED
    BY <1>1, <1>2, IndInvHolds, PTL DEF SafeSpec, ReloadMeetsContract, Contract!ContractSpec
=============================================================================
