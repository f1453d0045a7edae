---------------------------- MODULE SighupHandler ----------------------------
(***************************************************************************)
(* The SIGHUP handler (setupSIGHUPHandler in                               *)
(* pkg/kubernetes-mcp-server/cmd/root.go): it reads the configuration      *)
(* again, rebuilds the OAuth snapshot, publishes both to the lock-free     *)
(* states the HTTP layer and the token exchange load, asks the MCP server  *)
(* to apply the configuration, and takes both back when that fails.  The   *)
(* MCP server is its ReloadContract; the log destination is LogSink.       *)
(*                                                                         *)
(* A configuration is the number of the read that made it, so two reads of *)
(* the same file are two configurations, as they are two pointers in Go.   *)
(***************************************************************************)
EXTENDS ReloadContract, LogSink

CONSTANTS
    Contents,       \* what a configuration file can say: the settings that
                    \* need an OIDC provider, those the well-known endpoints
                    \* serve, and the log destination
    MaxEdits        \* bound on edits of the configuration file

Versions == 0..MaxEdits

ASSUME HandlerAssumption ==
    /\ Contents # {}
    /\ \A t \in Contents : t.log \in LogFiles
    /\ MaxEdits \in Nat

VARIABLES
    file,           \* the configuration file: acceptable, and what it says
    edits,          \* edits of the file so far
    signalled,      \* edits made when SIGHUP was last sent
    signals,        \* SIGHUPs sent so far
    sigHupCh,       \* sigHupCh holds a signal
    seen,           \* edits made when the handler last read the file
    content,        \* what each configuration says
    pc,             \* where the handler is
    newConfig, prev, prevOAuth, nextOAuth,
    cfgState,       \* the published configuration
    oauthState,     \* the published OAuth snapshot
    shutdown        \* "no", "stopping" in stop(), "closed" after logSink.Close

handlerLocals == <<newConfig, prev, prevOAuth, nextOAuth>>
published     == <<cfgState, oauthState>>
signalVars    == <<file, edits, signalled, signals>>
vars == <<contractVars, sinkVars, signalVars, sigHupCh, seen, content, pc,
          handlerLocals, published, shutdown>>

\* A snapshot carries the OAuth settings of the configuration it was made
\* from and the provider and client made for another, maybe earlier, one.
Snapshots == [from : Configs, client : Configs]
Snap(f, c) == [from |-> f, client |-> c]

PCs == {"wait", "discover", "store1", "store2", "reload", "reloading",
        "rollBackOAuth", "logSink", "swapLog", "exited", "done"}

TypeOK ==
    /\ ContractTypeOK
    /\ SinkTypeOK
    /\ file \in [ok : BOOLEAN, says : Contents]
    /\ edits \in Versions /\ signalled \in Versions /\ seen \in Versions
    /\ signals \in 0..MaxConfigs
    /\ sigHupCh \in BOOLEAN
    /\ content \in [Configs -> Contents]
    /\ pc \in PCs
    /\ newConfig \in Configs /\ prev \in Configs /\ cfgState \in Configs
    /\ prevOAuth \in Snapshots /\ nextOAuth \in Snapshots
    /\ oauthState \in Snapshots
    /\ shutdown \in {"no", "stopping", "closed"}

Init ==
    /\ ContractInit
    /\ \E t \in Contents :
         /\ file = [ok |-> TRUE, says |-> t]
         /\ content = [c \in Configs |-> t]
         /\ SinkInit(t.log)
    /\ edits = 0 /\ signalled = 0 /\ seen = 0 /\ signals = 0
    /\ sigHupCh = FALSE
    /\ pc = "wait"
    /\ newConfig = 1 /\ prev = 1 /\ cfgState = 1
    /\ prevOAuth = Snap(1, 1) /\ nextOAuth = Snap(1, 1) /\ oauthState = Snap(1, 1)
    /\ shutdown = "no"

-----------------------------------------------------------------------------
(***************************************************************************)
(* The operator: edits the file, then sends SIGHUP.                        *)
(***************************************************************************)
Edit(ok, t) ==
    /\ edits < MaxEdits
    /\ edits' = edits + 1
    /\ file' = [ok |-> ok, says |-> t]
    /\ UNCHANGED <<contractVars, sinkVars, signalled, signals, sigHupCh, seen,
                   content, pc, handlerLocals, published, shutdown>>

\* Bug: the channel has no buffer, so a busy handler misses the signal.
NotifyUnbuffered == sigHupCh' = (pc = "wait")

\* signal.Notify never blocks: the channel holds one signal, which then stands
\* for those that arrive before the handler takes it.
Notify == sigHupCh' = TRUE

Sighup ==
    /\ shutdown = "no"
    /\ pc # "exited"
    /\ signals < MaxConfigs - 1
    /\ signals' = signals + 1
    /\ signalled' = edits
    /\ Notify
    /\ UNCHANGED <<contractVars, sinkVars, file, edits, seen, content, pc,
                   handlerLocals, published, shutdown>>

-----------------------------------------------------------------------------
(***************************************************************************)
(* The handler, up to the point where it publishes.                        *)
(***************************************************************************)
notPublishing == <<contractVars, sinkVars, signalVars, published, shutdown>>

\* readConfig and validateConfig.  A file that cannot be parsed, that would
\* change an option that is not reloadable or that is not valid ends the
\* process.
ReadConfig ==
    /\ pc = "wait"
    /\ sigHupCh
    /\ sigHupCh' = FALSE
    /\ seen' = edits
    /\ \/ /\ ~file.ok
          /\ pc' = "exited"
          /\ UNCHANGED <<newConfig, content, prev, prevOAuth>>
       \/ /\ file.ok
          /\ pc' = "discover"
          /\ prev' = cfgState
          /\ prevOAuth' = oauthState
          /\ newConfig' = newConfig + 1
          /\ content' = [content EXCEPT ![newConfig'] = file.says]
    /\ UNCHANGED <<notPublishing, nextOAuth>>

ProviderChanged(a, b)  == content[a].provider # content[b].provider
WellKnownChanged(a, b) == ProviderChanged(a, b) \/ content[a].served # content[b].served

\* SnapshotForReload: a new provider is discovered only when a setting it
\* depends on changed.
SnapshotForReload(s, c) == Snap(c, IF ProviderChanged(s.from, c) THEN c ELSE s.client)

Discover ==
    /\ pc = "discover"
    /\ nextOAuth' = SnapshotForReload(prevOAuth, newConfig)
    /\ pc' = "store1"
    /\ UNCHANGED <<notPublishing, sigHupCh, seen, content, newConfig, prev,
                   prevOAuth>>

\* Discovery needs the issuer to answer; when it does not, the handler gives
\* this reload up before anything is published.
DiscoverFails ==
    /\ pc = "discover"
    /\ ProviderChanged(prevOAuth.from, newConfig)
    /\ pc' = "wait"
    /\ UNCHANGED <<notPublishing, sigHupCh, seen, content, handlerLocals>>

-----------------------------------------------------------------------------
(***************************************************************************)
(* Publishing, applying and, when that fails, taking back.  oauthChanged   *)
(* guards the two stores of the snapshot.                                  *)
(***************************************************************************)
notHandler == <<signalVars, sigHupCh, seen, content, shutdown>>

oauthChanged == WellKnownChanged(prevOAuth.from, nextOAuth.from)

\* Bug: the configuration is published before the snapshot.
StoreTurnSwapped(state) == IF state = "config" THEN "store1" ELSE "store2"

\* The snapshot is published first.
StoreTurn(state) == IF state = "oauth" THEN "store1" ELSE "store2"

AfterStore == IF pc = "store1" THEN "store2" ELSE "reload"

StoreOAuth ==
    /\ pc = StoreTurn("oauth")
    /\ oauthState' = IF oauthChanged THEN nextOAuth ELSE oauthState
    /\ pc' = AfterStore
    /\ UNCHANGED <<notHandler, contractVars, sinkVars, handlerLocals, cfgState>>

StoreConfig ==
    /\ pc = StoreTurn("config")
    /\ cfgState' = newConfig
    /\ pc' = AfterStore
    /\ UNCHANGED <<notHandler, contractVars, sinkVars, handlerLocals, oauthState>>

\* The call of ReloadConfiguration, and what the server does inside it.
CallReload ==
    /\ pc = "reload"
    /\ Call(newConfig)
    /\ pc' = "reloading"
    /\ UNCHANGED <<notHandler, sinkVars, handlerLocals, published>>

ServerReloads ==
    /\ Commit \/ \E r \in Results : Return(r)
    /\ UNCHANGED <<notHandler, sinkVars, pc, handlerLocals, published>>

\* Bug: only a rejected configuration counts as a failure.
ReloadedOrNot ==
    /\ pc = "reloading"
    /\ job.st \in {"ok", "failed"}
    /\ Acknowledge
    /\ pc' = "logSink"
    /\ UNCHANGED <<notHandler, sinkVars, handlerLocals, published>>

Reloaded ==
    /\ pc = "reloading"
    /\ job.st = "ok"
    /\ Acknowledge
    /\ pc' = "logSink"
    /\ UNCHANGED <<notHandler, sinkVars, handlerLocals, published>>

RollBackConfig ==
    /\ pc = "reloading"
    /\ job.st \in {"failed", "rejected"}
    /\ cfgState' = prev
    /\ pc' = "rollBackOAuth"
    /\ UNCHANGED <<notHandler, contractVars, sinkVars, handlerLocals, oauthState>>

\* A rejected configuration ends the process, another failure does not.
RollBackOAuth ==
    /\ pc = "rollBackOAuth"
    /\ oauthState' = IF oauthChanged THEN prevOAuth ELSE oauthState
    /\ pc' = (IF job.st = "rejected" THEN "exited" ELSE "wait")
    /\ Acknowledge
    /\ UNCHANGED <<notHandler, sinkVars, handlerLocals, cfgState>>

\* logSink.Reload.  Its failure is logged and the reload still succeeds.
ReloadLog ==
    /\ pc = "logSink"
    /\ LET f == content[newConfig].log
       IN \/ /\ SkipDestination(f) \/ OpenFails(f)
             /\ pc' = "wait"
          \/ /\ OpenDestination(f)
             /\ pc' = "swapLog"
    /\ UNCHANGED <<notHandler, contractVars, handlerLocals, published>>

SwapLog ==
    /\ pc = "swapLog"
    /\ SwapDestination
    /\ pc' = "wait"
    /\ UNCHANGED <<notHandler, contractVars, handlerLocals, published>>

-----------------------------------------------------------------------------
(***************************************************************************)
(* Logging, and the end of the process.                                    *)
(***************************************************************************)
notLogging == <<contractVars, signalVars, sigHupCh, seen, content, handlerLocals,
                published>>

Log(w) ==
    /\ Write(w) \/ Written(w)
    /\ UNCHANGED <<notLogging, pc, shutdown>>

\* stop: signal.Stop and close(sigHupCh).
Stop ==
    /\ shutdown = "no"
    /\ pc # "exited"
    /\ shutdown' = "stopping"
    /\ UNCHANGED <<notLogging, sinkVars, pc>>

\* The handler's loop ends when the closed channel is empty: a signal that was
\* already in it is still handled.
HandlerDone ==
    /\ pc = "wait"
    /\ shutdown = "stopping"
    /\ ~sigHupCh
    /\ pc' = "done"
    /\ UNCHANGED <<notLogging, sinkVars, shutdown>>

\* stop returns once the handler's goroutine is gone; RunE then closes the log.
CloseLog ==
    /\ shutdown = "stopping"
    /\ pc = "done"
    /\ CloseSink
    /\ shutdown' = "closed"
    /\ UNCHANGED <<notLogging, pc>>

-----------------------------------------------------------------------------
Handler ==
    \/ ReadConfig
    \/ Discover
    \/ DiscoverFails
    \/ StoreOAuth
    \/ StoreConfig
    \/ CallReload
    \/ Reloaded
    \/ RollBackConfig
    \/ RollBackOAuth
    \/ ReloadLog
    \/ HandlerDone

Running == pc # "exited"

Environment ==
    \/ \E ok \in BOOLEAN, t \in Contents : Edit(ok, t)
    \/ Sighup
    \/ Stop

Next ==
    /\ Running
    /\ \/ Handler
       \/ SwapLog
       \/ ServerReloads
       \/ CloseLog
       \/ Environment
       \/ \E w \in LogWriters : Log(w)

\* The handler is a goroutine that the runtime schedules, ReloadConfiguration
\* returns, a write to a log file ends, and a waiting exclusive Lock of an
\* RWMutex is served before later readers.
Fairness ==
    /\ WF_vars(Running /\ Handler)
    /\ WF_vars(Running /\ ServerReloads)
    /\ SF_vars(Running /\ SwapLog)
    /\ \A w \in LogWriters : WF_vars(Running /\ writing[w] # Nowhere /\ Log(w))

SafeSpec == Init /\ [][Next]_vars
Spec     == SafeSpec /\ Fairness

-----------------------------------------------------------------------------
(***************************************************************************)
(* Properties.                                                             *)
(***************************************************************************)
SameSettings(s, c) == ~WellKnownChanged(s.from, c)

\* Whenever the handler waits for a signal, the three copies agree: what the
\* HTTP layer loads is what the MCP server runs, and the OAuth snapshot holds
\* that configuration's settings, however the reloads before it ended.
CopiesAgreeAtRest ==
    pc \in {"wait", "done"} =>
        /\ cfgState = live
        /\ SameSettings(oauthState, cfgState)

\* A snapshot's OIDC provider was discovered for the authorization_url in the
\* same snapshot, through any chain of reloads that keep, change, fail or are
\* taken back.
ProviderMatchesItsSnapshot ==
    ~ProviderChanged(oauthState.client, oauthState.from)

\* The handler leaves coherent states behind, however its reloads end.
StatesAreCoherent == CopiesAgreeAtRest /\ ProviderMatchesItsSnapshot

\* stop waits for the handler, which uses the log sink: once the sink is
\* closed no file is open behind it.
ClosedLogStaysClosed == shutdown = "closed" => open = {}

\* The log file is open while something is written to it, and not longer, through
\* rotations, reloads and shutdown.
SinkIsSound == NeverWritesToClosedFile /\ NoDescriptorLeak /\ ClosedLogStaysClosed

\* No SIGHUP is lost: what the file said when it was sent, or something newer,
\* is read, even when the handler was busy or the server had begun to stop;
\* only the end of the process excuses it.
EverySignalIsHandled ==
    \A v \in Versions : signalled = v ~> (seen >= v \/ ~Running)

\* What the HTTP layer relies on: the snapshot is published before the
\* configuration, a failed reload takes back both in the opposite order, and
\* no other step of the handler touches them.
Stage ==
    CASE pc \in {"discover", "store1"}  -> "read"
      [] pc = "store2"                  -> "oauth"
      [] pc \in {"reload", "reloading"} -> "config"
      [] pc = "rollBackOAuth"           -> "back"
      [] OTHER                          -> "rest"

Said(t) == [oauth |-> [provider |-> t.provider, served |-> t.served]]

Published == INSTANCE PublishedStates WITH
    Contents <- {Said(t) : t \in Contents},
    content <- [c \in Configs |-> Said(content[c])],
    newest <- newConfig,
    oauthState <- oauthState.from,
    before <- [cfg |-> prev, oauth |-> prevOAuth.from],
    stage <- Stage

PublishesAsPromised == Published!PublishedSpec
=============================================================================
