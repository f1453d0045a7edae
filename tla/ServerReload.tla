----------------------------- MODULE ServerReload -----------------------------
(***************************************************************************)
(* How the MCP server (pkg/mcp/mcp.go) moves from one configuration, and   *)
(* from one view of the cluster, to the next while tool calls run.         *)
(*                                                                         *)
(* Three kinds of goroutine take reloadMu: the SIGHUP handler inside       *)
(* ReloadConfiguration, the kubeconfig watcher's callback (reset, then     *)
(* re-apply) and the cluster-state watcher's callback (re-apply).  The     *)
(* holder walks through applyToolsetsLocked: collect, convert, commit the  *)
(* four kinds of item to the SDK one at a time, publish the configuration  *)
(* to the Kubernetes clients, store it as the live one, update the         *)
(* bookkeeping.  Tool calls take none of that lock and may run between any *)
(* two of those steps.                                                     *)
(***************************************************************************)
EXTENDS KubeConfigProvider

CONSTANTS
    Sighup,         \* the SIGHUP handler's goroutine
    KubeCallbacks,  \* debounce-timer goroutines of kubeconfig watchers
    StateCallbacks, \* debounce-timer goroutines of cluster-state watchers
    NoProc,         \* "reloadMu is free"
    Calls,          \* concurrent tool calls
    Items,          \* names of tools, prompts, resources and templates
    Surfaces        \* what collecting may find applicable: item names per kind

Procs == {Sighup} \cup KubeCallbacks \cup StateCallbacks
Kinds == {"resource", "template", "tool", "prompt"}

ASSUME ReloadAssumption ==
    /\ NoProc \notin Procs
    /\ Sighup \notin KubeCallbacks \cup StateCallbacks
    /\ KubeCallbacks \cap StateCallbacks = {}
    /\ Surfaces \subseteq [Kinds -> SUBSET Items]
    /\ Surfaces # {}

Phases == {"free", "provider", "reset", "resetting", "collect", "convert",
           "remove", "add", "publish", "store", "book", "rollback"}

VARIABLES
    waiting,        \* goroutines blocked in reloadMu.Lock
    holder,         \* the goroutine that holds reloadMu
    phase,          \* where the holder is
    cand,           \* applyToolsetsLocked's cfg
    surface,        \* the converted items
    kind,           \* the kind that commitItems works on
    todo,           \* items commitItems has still to add
    configuration,  \* s.configuration
    sdk,            \* the SDK's registrations: the configuration an item was
                    \* converted for, 0 when the name is not registered
    enabled,        \* s.enabledTools, enabledPrompts, ...
    reload,         \* the last call of ReloadConfiguration
    call            \* each tool call: where it is, the configuration its tool
                    \* was registered for, its snapshot, target and manager

locals    == <<cand, surface, kind, todo>>
lockVars  == <<waiting, holder, phase, locals>>
vars      == <<providerVars, lockVars, configuration, sdk, enabled, reload, call>>

ReloadStates == {"idle", "validating", "running", "ok", "failed", "rejected"}
CallStates   == {"idle", "handler", "derive", "slow", "running"}
CallRecords  == [pc : CallStates, snap : Configs,
                 target : Names, mgr : Managers]

CallAt(pc, snap, target, mgr) ==
    [pc |-> pc, snap |-> snap, target |-> target, mgr |-> mgr]

IdleCall     == CallAt("idle", 1, NoName, 1)
NoSurface    == [k \in Kinds |-> {}]

LockTypeOK ==
    /\ waiting \subseteq Procs
    /\ holder \in Procs \cup {NoProc}
    /\ phase \in Phases
    /\ cand \in Configs
    /\ surface \in [Kinds -> SUBSET Items]
    /\ kind \in Kinds \cup {"none"}
    /\ phase \in {"remove", "add"} => kind \in Kinds
    /\ todo \subseteq Items

\* Every variable holds a value of its type.
TypeOK ==
    /\ ProviderTypeOK
    /\ LockTypeOK
    /\ configuration \in Configs
    /\ sdk \in [Kinds -> [Items -> Configs \cup {0}]]
    /\ enabled \in [Kinds -> SUBSET Items]
    /\ reload \in [st : ReloadStates, cfg : Configs]
    /\ call \in [Calls -> CallRecords]

-----------------------------------------------------------------------------
(***************************************************************************)
(* The state NewServer leaves: the startup configuration applied once.     *)
(***************************************************************************)
Init ==
    /\ \E file \in Files : ProviderInit(file)
    /\ waiting = {}
    /\ holder = NoProc
    /\ phase = "free"
    /\ cand = 1
    /\ surface = NoSurface
    /\ kind = "none"
    /\ todo = {}
    /\ configuration = 1
    /\ enabled \in Surfaces
    /\ sdk = [k \in Kinds |-> [i \in Items |-> IF i \in enabled[k] THEN 1 ELSE 0]]
    /\ reload = [st |-> "idle", cfg |-> 1]
    /\ call = [c \in Calls |-> IdleCall]

-----------------------------------------------------------------------------
(***************************************************************************)
(* Taking and releasing reloadMu.                                          *)
(***************************************************************************)
\* The SIGHUP handler calls ReloadConfiguration with a configuration it has
\* just read.
ReloadConfiguration(c) ==
    /\ reload.st = "idle"
    /\ c = reload.cfg + 1
    /\ reload' = [st |-> "validating", cfg |-> c]
    /\ UNCHANGED <<providerVars, lockVars, configuration, sdk, enabled, call>>

\* Validate runs before the lock is taken; a failure is ErrReloadRejected.
ValidateReload ==
    /\ reload.st = "validating"
    /\ \/ /\ waiting' = waiting \cup {Sighup}
          /\ reload' = [st |-> "running", cfg |-> reload.cfg]
       \/ /\ reload' = [st |-> "rejected", cfg |-> reload.cfg]
          /\ UNCHANGED waiting
    /\ UNCHANGED <<providerVars, holder, phase, locals,
                   configuration, sdk, enabled, call>>

\* The SIGHUP handler takes the result.
ReloadReturned ==
    /\ reload.st \in {"ok", "failed", "rejected"}
    /\ reload' = [st |-> "idle", cfg |-> reload.cfg]
    /\ UNCHANGED <<providerVars, lockVars, configuration, sdk, enabled, call>>

\* A watcher's debounce timer fires and its callback asks for reloadMu.
CallbackFires(p) ==
    /\ p \in KubeCallbacks \cup StateCallbacks
    /\ p \notin waiting
    /\ holder # p
    /\ waiting' = waiting \cup {p}
    /\ UNCHANGED <<providerVars, holder, phase, locals,
                   configuration, sdk, enabled, reload, call>>

(***************************************************************************)
(* reloadMu is granted.  A nil cfg is replaced by s.configuration only     *)
(* now, inside the critical section.                                       *)
(***************************************************************************)
Acquire(p) ==
    /\ holder = NoProc
    /\ p \in waiting
    /\ waiting' = waiting \ {p}
    /\ holder' = p
    /\ \/ /\ p = Sighup
          /\ phase' = "provider"
          /\ cand' = reload.cfg
       \/ /\ p \in KubeCallbacks
          /\ phase' = "reset"
          /\ UNCHANGED cand
       \/ /\ p \in StateCallbacks
          /\ phase' = "collect"
          /\ cand' = configuration
    /\ UNCHANGED <<providerVars, surface, kind, todo, configuration, sdk,
                   enabled, reload, call>>

\* reloadMu is released and the locals of the critical section are gone.
Release(result) ==
    /\ holder' = NoProc
    /\ phase' = "free"
    /\ cand' = 1
    /\ surface' = NoSurface
    /\ kind' = "none"
    /\ todo' = {}
    /\ reload' = IF holder = Sighup THEN [st |-> result, cfg |-> reload.cfg] ELSE reload
    /\ UNCHANGED waiting

-----------------------------------------------------------------------------
(***************************************************************************)
(* Steps of the holder.                                                    *)
(***************************************************************************)

\* Mutant: the candidate becomes the live configuration before it is applied.
ReloadProviderAndStore ==
    /\ phase = "provider"
    /\ ReloadConfig(cand)
    /\ configuration' = cand
    /\ phase' = "collect"
    /\ UNCHANGED <<waiting, holder, locals, sdk, enabled, reload, call>>

\* s.p.ReloadConfig(newConfig), before anything is collected.
ReloadProvider ==
    /\ phase = "provider"
    /\ ReloadConfig(cand)
    /\ phase' = "collect"
    /\ UNCHANGED <<waiting, holder, locals, configuration, sdk, enabled, reload, call>>

\* reset's ErrClosed test: a provider that is closed ends the callback.
ResetChecksClosed ==
    /\ phase = "reset"
    /\ IF closed
       THEN Release("ok")
       ELSE phase' = "resetting" /\ UNCHANGED <<waiting, holder, locals, reload>>
    /\ UNCHANGED <<providerVars, configuration, sdk, enabled, call>>

\* The rest of reset, then WatchTargets and the re-apply of ApplyToolsets.
\* Replace refuses when Close came in between, after the managers changed.
ResetProvider ==
    /\ phase = "resetting"
    /\ \/ /\ ResetManagers
          /\ IF closed
             THEN Release("ok")
             ELSE /\ phase' = "collect"
                  /\ cand' = configuration
                  /\ UNCHANGED <<waiting, holder, surface, kind, todo, reload>>
       \/ Release("failed") /\ UNCHANGED providerVars
    /\ UNCHANGED <<configuration, sdk, enabled, call>>

\* Collecting probes the targets through the cluster inspector, one goroutine
\* per target, which builds the managers that are still missing.  Results.Any
\* returns at the first match, so a probe may outlive the apply that began it.
ProbeTarget(name) ==
    /\ name \in Contexts \/ managers[name] # Absent
    /\ managerForContext(name)
    /\ UNCHANGED <<lockVars, configuration, sdk, enabled, reload, call>>

\* The four collectApplicable functions return.
Collect ==
    /\ phase = "collect"
    /\ surface' \in Surfaces
    /\ phase' = "convert"
    /\ UNCHANGED <<waiting, holder, providerVars, cand, kind, todo, configuration, sdk, enabled, reload, call>>

\* The order of the four commitItems calls.
NextKind ==
    [none |-> "resource", resource |-> "template", template |-> "tool", tool |-> "prompt"]

\* Phase 1: every item converts, or the first failure (also one of
\* appResources) ends the apply before the SDK is touched.
Convert ==
    /\ phase = "convert"
    /\ \/ /\ phase' = "remove"
          /\ kind' = NextKind["none"]
          /\ UNCHANGED <<waiting, holder, cand, surface, todo, reload>>
       \/ /\ holder = Sighup
          /\ phase' = "rollback"
          /\ UNCHANGED <<waiting, holder, locals, reload>>
       \/ holder # Sighup /\ Release("failed")
    /\ UNCHANGED <<providerVars, configuration, sdk, enabled, call>>

\* Mutant: p.cfg stays at the rejected configuration.
RollBackNothing ==
    /\ phase = "rollback"
    /\ Release("failed")
    /\ UNCHANGED <<providerVars, configuration, sdk, enabled, call>>

\* Mutant: the error path returns without reloadMu.Unlock.
RollBackKeepingLock ==
    /\ phase = "rollback"
    /\ ReloadConfig(configuration)
    /\ phase' = "free"
    /\ reload' = [st |-> "failed", cfg |-> reload.cfg]
    /\ UNCHANGED <<waiting, holder, locals, configuration, sdk, enabled, call>>

\* The apply failed: ReloadConfiguration puts the provider back.
RollBackProvider ==
    /\ phase = "rollback"
    /\ ReloadConfig(configuration)
    /\ Release("failed")
    /\ UNCHANGED <<configuration, sdk, enabled, call>>

\* Mutant: items that are no longer applicable stay registered.
CommitRemoveNothing ==
    /\ phase = "remove"
    /\ todo' = surface[kind]
    /\ phase' = "add"
    /\ UNCHANGED <<waiting, holder, providerVars, cand, surface, kind, configuration, sdk, enabled, reload, call>>

\* commitItems: one SDK call removes what is no longer applicable ...
CommitRemove ==
    /\ phase = "remove"
    /\ sdk' = [sdk EXCEPT ![kind] =
          [i \in Items |-> IF i \in enabled[kind] \ surface[kind] THEN 0 ELSE @[i]]]
    /\ todo' = surface[kind]
    /\ phase' = "add"
    /\ UNCHANGED <<waiting, holder, providerVars, cand, surface, kind, configuration, enabled, reload, call>>

\* ... and one call per item registers the rest, replacing a registration of
\* the same name.
CommitAdd(i) ==
    /\ phase = "add"
    /\ i \in todo
    /\ sdk' = [sdk EXCEPT ![kind][i] = cand]
    /\ todo' = todo \ {i}
    /\ UNCHANGED <<waiting, holder, providerVars, phase, cand, surface, kind, configuration, enabled, reload, call>>

CommitNextKind ==
    /\ phase = "add"
    /\ todo = {}
    /\ IF kind \in DOMAIN NextKind
       THEN phase' = "remove" /\ kind' = NextKind[kind]
       ELSE phase' = "publish" /\ UNCHANGED kind
    /\ UNCHANGED <<waiting, holder, providerVars, cand, surface, todo, configuration, sdk, enabled, reload, call>>

\* Mutant: the managers keep the previous configuration.
PublishNothing ==
    /\ phase = "publish"
    /\ phase' = "store"
    /\ UNCHANGED <<waiting, holder, providerVars, locals, configuration, sdk, enabled, reload, call>>

\* s.p.PublishKubernetesConfig(cfg.Config)
Publish ==
    /\ phase = "publish"
    /\ PublishKubernetesConfig(cand)
    /\ phase' = "store"
    /\ UNCHANGED <<waiting, holder, locals, configuration, sdk, enabled, reload, call>>

\* s.configuration.Store(cfg)
StoreConfiguration ==
    /\ phase = "store"
    /\ configuration' = cand
    /\ phase' = "book"
    /\ UNCHANGED <<waiting, holder, providerVars, cand, surface, kind, todo, sdk, enabled, reload, call>>

\* The enabledX lists under s.mu, then reloadMu is released.
Bookkeep ==
    /\ phase = "book"
    /\ enabled' = surface
    /\ Release("ok")
    /\ UNCHANGED <<providerVars, configuration, sdk, call>>

-----------------------------------------------------------------------------
(***************************************************************************)
(* A tool call: ServerToolToGoSdkTool's handler and newHandlerParams.      *)
(***************************************************************************)

\* The SDK looks the tool up and runs the handler of its registration.
CallDispatch(c) ==
    /\ call[c].pc = "idle"
    /\ \E t \in Items :
          /\ sdk["tool"][t] # 0
          /\ call' = [call EXCEPT ![c] = CallAt("handler", 1, NoName, 1)]
    /\ UNCHANGED <<providerVars, lockVars, configuration, sdk, enabled, reload>>

\* cfg := s.configuration.Load(), once; a confirmation rule may end the call.
CallSnapshot(c) ==
    /\ call[c].pc = "handler"
    /\ \/ call' = [call EXCEPT ![c] = CallAt("derive", configuration, NoName, 1)]
       \/ call' = [call EXCEPT ![c] = IdleCall]
    /\ UNCHANGED <<providerVars, lockVars, configuration, sdk, enabled, reload>>

\* GetDerivedKubernetes, fast path, for the target the arguments name (which
\* may be the empty string) or the default one.  An error of m.Derived ends the
\* call, here and on the slow path.
CallDerive(c, name) ==
    /\ call[c].pc = "derive"
    /\ \/ /\ HasManager(name)
          /\ call' = [call EXCEPT ![c] = CallAt("running", @.snap, name, managers[name])]
       \/ /\ HasManager(name)
          /\ call' = [call EXCEPT ![c] = IdleCall]
       \/ /\ ~HasManager(name)
          /\ call' = [call EXCEPT ![c] = CallAt("slow", @.snap, name, 1)]
    /\ UNCHANGED <<providerVars, lockVars, configuration, sdk, enabled, reload>>

\* The slow path under p.mu: another goroutine's manager, a new one, or an error
\* such as ErrUnknownTarget.
CallDeriveSlow(c) ==
    /\ call[c].pc = "slow"
    /\ LET name == call[c].target IN
         \/ /\ HasManager(name)
            /\ call' = [call EXCEPT ![c] = CallAt("running", @.snap, name, managers[name])]
            /\ UNCHANGED providerVars
         \/ /\ managerForContext(name)
            /\ \/ call' = [call EXCEPT ![c] = CallAt("running", @.snap, name, built + 1)]
               \/ call' = [call EXCEPT ![c] = IdleCall]
         \/ /\ call' = [call EXCEPT ![c] = IdleCall]
            /\ UNCHANGED providerVars
    /\ UNCHANGED <<lockVars, configuration, sdk, enabled, reload>>

\* The handler returns; until then each of its requests reads the
\* configuration of its manager.
CallReturn(c) ==
    /\ call[c].pc = "running"
    /\ call' = [call EXCEPT ![c] = IdleCall]
    /\ UNCHANGED <<providerVars, lockVars, configuration, sdk, enabled, reload>>

\* Server.Close while anything else is going on.
Close ==
    /\ ProviderClose
    /\ UNCHANGED <<lockVars, configuration, sdk, enabled, reload, call>>

FileEdit ==
    /\ \E file \in Files : EditKubeconfig(file)
    /\ UNCHANGED <<lockVars, configuration, sdk, enabled, reload, call>>

-----------------------------------------------------------------------------
HolderStep ==
    \/ ReloadProvider
    \/ ResetChecksClosed
    \/ ResetProvider
    \/ Collect
    \/ Convert
    \/ RollBackProvider
    \/ CommitRemove
    \/ \E i \in Items : CommitAdd(i)
    \/ CommitNextKind
    \/ Publish
    \/ StoreConfiguration
    \/ Bookkeep

CallStep(c) ==
    \/ CallDispatch(c)
    \/ CallSnapshot(c)
    \/ \E name \in Names : CallDerive(c, name)
    \/ CallDeriveSlow(c)
    \/ CallReturn(c)

Next ==
    \/ \E c \in Configs : ReloadConfiguration(c)
    \/ ValidateReload
    \/ ReloadReturned
    \/ \E p \in Procs : CallbackFires(p)
    \/ \E p \in Procs : Acquire(p)
    \/ HolderStep
    \/ \E name \in Names : ProbeTarget(name)
    \/ \E c \in Calls : CallStep(c)
    \/ Close
    \/ FileEdit

(***************************************************************************)
(* The holder keeps running (no step of it waits for another goroutine     *)
(* that could wait for it), and reloadMu is a sync.Mutex, whose starvation *)
(* mode hands the lock to whoever has waited longest.                      *)
(***************************************************************************)
Fairness ==
    /\ WF_vars(HolderStep)
    /\ \A p \in Procs : SF_vars(Acquire(p))

Spec == Init /\ [][Next]_vars /\ Fairness

SafeSpec == Init /\ [][Next]_vars

-----------------------------------------------------------------------------
(***************************************************************************)
(* Properties.                                                             *)
(***************************************************************************)

\* applyToolsets is transactional: whenever reloadMu is free, the SDK serves
\* exactly the bookkept items, each converted for the live configuration.  A
\* rejected candidate, or a re-apply that lost a race, leaves no item behind.
SurfaceIsLive ==
    holder = NoProc =>
        \A k \in Kinds, i \in Items :
            sdk[k][i] = IF i \in enabled[k] THEN configuration ELSE 0

\* Whenever reloadMu is free, the configuration that lazily built managers
\* will get is the live one: a failed reload has rolled p.cfg back.
ProviderFollowsLive == holder = NoProc => pcfg = configuration

\* A tool call never talks to Kubernetes under access control older than the
\* configuration its handler loaded, whatever reloads, re-applies and resets
\* happen while it runs and whether or not its manager is still installed.
AccessControlNotOlderThanSnapshot ==
    \A c \in Calls :
        call[c].pc = "running" => mgrConfig[call[c].mgr] >= call[c].snap

\* When a configuration becomes live, every installed manager already has it,
\* also one that was built between PublishKubernetesConfig and the store.
CommitCoversClients ==
    [][configuration' # configuration =>
          \A m \in Installed : mgrConfig[m] = configuration']_vars

\* "Resources must be available before tools that reference them are
\* announced": when the SDK gets a tool it already has every resource of the
\* same surface.
ResourcesBeforeTools ==
    [][\A t \in Items :
          phase = "add" /\ kind = "tool" /\ t \in todo /\ t \notin todo'
          => \A r \in surface["resource"] : sdk["resource"][r] # 0]_vars

\* ReloadConfiguration implements its contract, and every other step of the
\* server is a stutter of it.
ContractJob ==
    IF holder = Sighup /\ phase = "book"
    THEN [st |-> "committed", cfg |-> reload.cfg]
    ELSE IF reload.st = "validating" THEN [st |-> "running", cfg |-> reload.cfg]
    ELSE reload

Contract == INSTANCE ReloadContract WITH live <- configuration, job <- ContractJob

ReloadMeetsContract == Contract!ContractSpec

\* Whoever waits for reloadMu gets it and gives it back: no reload, reset or
\* re-apply, successful or not, keeps the lock.
EveryWaiterServed ==
    \A p \in Procs : (p \in waiting) ~> (p \notin waiting /\ holder # p)
=============================================================================
