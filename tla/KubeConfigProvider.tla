-------------------------- MODULE KubeConfigProvider --------------------------
(***************************************************************************)
(* The cluster provider of a multi-context kubeconfig                      *)
(* (pkg/kubernetes/provider_kubeconfig.go) and the managers it hands out   *)
(* (pkg/kubernetes/manager.go).                                            *)
(*                                                                         *)
(* A manager owns one atomic pointer to the configuration; every client    *)
(* derived from it reads access control through that pointer on each       *)
(* request.  Managers are numbered in the order they are built, and        *)
(* configurations in the order they are read, so a larger number is a      *)
(* newer *config.Config.  Each method holds p.mu for its whole body, so    *)
(* each is one action here; only GetDerivedKubernetes has two critical     *)
(* sections, which its callers model as two steps.                         *)
(***************************************************************************)
EXTENDS Naturals, FiniteSets

CONSTANTS
    Contexts,       \* context names that may occur in a kubeconfig file
    NoName,         \* the empty context name ""
    Absent,         \* "no entry in the managers map"
    NilManager,     \* an entry whose manager is not built yet
    Files,          \* contents the kubeconfig file may take
    MaxManagers,    \* bound on managers ever built
    MaxConfigs      \* bound on configurations ever read

ASSUME ProviderAssumption ==
    /\ MaxManagers \in Nat \ {0}
    /\ MaxConfigs \in Nat \ {0}
    /\ NoName \notin Contexts
    /\ Absent \notin 1..MaxManagers
    /\ NilManager \notin 1..MaxManagers
    /\ Absent # NilManager
    /\ Files \subseteq [contexts : SUBSET Contexts, current : Contexts \cup {NoName}]

Names    == Contexts \cup {NoName}
Managers == 1..MaxManagers
Configs  == 1..MaxConfigs

VARIABLES
    kubeconfig,     \* the file on disk: its contexts and its current-context
    pcfg,           \* p.cfg
    managers,       \* p.managers
    defaultContext, \* p.defaultContext
    mgrConfig,      \* Manager.config of every manager built so far (0: not built)
    built,          \* number of managers built so far
    closed          \* WatcherGroup.closed

providerVars ==
    <<kubeconfig, pcfg, managers, defaultContext, mgrConfig, built, closed>>

ProviderTypeOK ==
    /\ kubeconfig \in Files
    /\ pcfg \in Configs
    /\ managers \in [Names -> Managers \cup {Absent, NilManager}]
    /\ defaultContext \in Contexts
    /\ mgrConfig \in [Managers -> Configs \cup {0}]
    /\ built \in 0..MaxManagers
    /\ closed \in BOOLEAN

-----------------------------------------------------------------------------
(***************************************************************************)
(* resolveKubeconfigContext: the context names an empty name stands for.   *)
(* It is empty when the code returns one of its descriptive errors.        *)
(***************************************************************************)
Resolutions(file) ==
    IF file.current # NoName
    THEN {file.current}
    ELSE IF Cardinality(file.contexts) = 1 THEN file.contexts ELSE {}

(***************************************************************************)
(* NewKubeconfigManager(p.cfg, name) can succeed: the name, or what an     *)
(* empty name resolves to, is a context of the file as it is on disk now.  *)
(***************************************************************************)
Buildable(name) ==
    IF name = NoName
    THEN Resolutions(kubeconfig) \cap kubeconfig.contexts # {}
    ELSE name \in kubeconfig.contexts

Installed == {managers[n] : n \in {m \in Names : managers[m] \in Managers}}

(***************************************************************************)
(* A new manager with number m that holds configuration c (NewManager      *)
(* stores p.cfg in its pointer).                                           *)
(***************************************************************************)
BuildManager(m, c) ==
    /\ built < MaxManagers
    /\ m = built + 1
    /\ built' = m
    /\ mgrConfig' = [mgrConfig EXCEPT ![m] = c]

(***************************************************************************)
(* resetLocked after its ErrClosed test, on the branch that succeeds: one  *)
(* manager for the default context, a nil entry for every other context.   *)
(* The old managers are closed, which releases connections but changes no  *)
(* pointer that a derived client reads.                                    *)
(***************************************************************************)
ResetManagers ==
    \E d \in Resolutions(kubeconfig) \cap kubeconfig.contexts :
        /\ BuildManager(built + 1, pcfg)
        /\ managers' = [n \in Names |->
              IF n = d THEN built + 1
              ELSE IF n \in kubeconfig.contexts THEN NilManager ELSE Absent]
        /\ defaultContext' = d
        /\ UNCHANGED <<kubeconfig, pcfg, closed>>

(***************************************************************************)
(* The fast path of GetDerivedKubernetes finds a manager, under p.mu's     *)
(* read lock.                                                              *)
(***************************************************************************)
HasManager(name) == managers[name] \in Managers

(***************************************************************************)
(* managerForContext under p.mu: build the manager of a name that has      *)
(* none.  It does not ask whether the name is in the map.                  *)
(***************************************************************************)
managerForContext(name) ==
    /\ ~HasManager(name)
    /\ Buildable(name)
    /\ BuildManager(built + 1, pcfg)
    /\ managers' = [managers EXCEPT ![name] = built + 1]
    /\ UNCHANGED <<kubeconfig, pcfg, defaultContext, closed>>

ReloadConfig(c) ==
    /\ pcfg' = c
    /\ UNCHANGED <<kubeconfig, managers, defaultContext, mgrConfig, built, closed>>

\* Mutant: only the default context's manager gets the configuration.
PublishToDefault(c) ==
    /\ mgrConfig' = [m \in Managers |->
          IF m = managers[defaultContext] THEN c ELSE mgrConfig[m]]
    /\ UNCHANGED <<kubeconfig, pcfg, managers, defaultContext, built, closed>>

(***************************************************************************)
(* PublishKubernetesConfig: SetConfig on every manager in the map.         *)
(***************************************************************************)
PublishKubernetesConfig(c) ==
    /\ mgrConfig' = [m \in Managers |-> IF m \in Installed THEN c ELSE mgrConfig[m]]
    /\ UNCHANGED <<kubeconfig, pcfg, managers, defaultContext, built, closed>>

ProviderClose ==
    /\ ~closed
    /\ closed' = TRUE
    /\ UNCHANGED <<kubeconfig, pcfg, managers, defaultContext, mgrConfig, built>>

(***************************************************************************)
(* Someone edits the kubeconfig file.                                      *)
(***************************************************************************)
EditKubeconfig(file) ==
    /\ file # kubeconfig
    /\ kubeconfig' = file
    /\ UNCHANGED <<pcfg, managers, defaultContext, mgrConfig, built, closed>>

(***************************************************************************)
(* newKubeConfigClusterProvider: the first reset, with the configuration   *)
(* read at startup.                                                        *)
(***************************************************************************)
ProviderInit(file) ==
    /\ kubeconfig = file
    /\ pcfg = 1
    /\ defaultContext \in Resolutions(file) \cap file.contexts
    /\ managers = [n \in Names |->
          IF n = defaultContext THEN 1
          ELSE IF n \in file.contexts THEN NilManager ELSE Absent]
    /\ mgrConfig = [m \in Managers |-> IF m = 1 THEN 1 ELSE 0]
    /\ built = 1
    /\ closed = FALSE
=============================================================================
