------------------------ MODULE SighupHandlerProofs ------------------------
(***************************************************************************)
(* Proofs about SighupHandler, for any files, signals, writers and bounds. *)
(*                                                                         *)
(* The states are coherent whenever the handler rests because of what it   *)
(* keeps while it does not: Coherence says, for each place the handler can *)
(* be, which configuration is live, what is published and which snapshot   *)
(* it would take back.  The log sink's invariant is separate, SinkInv: the *)
(* descriptors the process holds are those of the writer and of the swap,  *)
(* and only the handler swaps.  PublishedStates is implemented because the *)
(* stage it sees is a function of pc, and Coherence tells which states are *)
(* loaded at each stage.                                                   *)
(***************************************************************************)
EXTENDS SighupHandler, TLAPS

\* Configurations are numbered in the order of their reads, each read takes a
\* signal, and every copy is of a configuration already read.
Numbered ==
    /\ signals <= MaxConfigs - 1
    /\ newConfig + (IF sigHupCh THEN 1 ELSE 0) <= signals + 1
    /\ \A c \in {prev, cfgState, live, prevOAuth.from, prevOAuth.client,
                 nextOAuth.from, nextOAuth.client, oauthState.from, oauthState.client} : c <= newConfig

Matches(s) == ~ProviderChanged(s.client, s.from)

\* Where a reload is under way, and where the server has been asked to apply it.
Reloading == {"discover", "store1", "store2", "reload", "reloading", "rollBackOAuth"}
Asked     == {"reloading", "rollBackOAuth"}

\* The snapshot that is published once StoreOAuth has run.
Stored == IF oauthChanged THEN nextOAuth ELSE prevOAuth

\* The call of ReloadConfiguration.
JobFollows ==
    /\ pc \notin Asked \cup {"exited"} => job.st = Idle
    /\ pc = "reloading" => job.st # Idle /\ job.cfg = newConfig
    /\ pc = "rollBackOAuth" => job.st \in {"failed", "rejected"}

\* The configuration the server runs.
LiveFollows ==
    pc \in Reloading =>
        live = IF pc = "reloading" /\ job.st \in {"committed", "ok"} THEN newConfig ELSE prev

\* What a reload would take back is coherent, and so is what it publishes.
ReloadFollows ==
    pc \in Reloading =>
        /\ SameSettings(prevOAuth, prev)
        /\ Matches(prevOAuth)
        /\ pc # "discover" => nextOAuth.from = newConfig /\ Matches(nextOAuth)
        /\ cfgState = IF pc \in {"reload", "reloading"} THEN newConfig ELSE prev
        /\ oauthState = IF pc \in {"discover", "store1"} THEN prevOAuth ELSE Stored

\* Out of a reload the copies agree; they still do while the log is reloaded.
RestFollows ==
    pc \notin Reloading \cup {"exited"} => cfgState = live /\ SameSettings(oauthState, cfgState)

Coherence ==
    /\ Numbered
    /\ JobFollows
    /\ LiveFollows
    /\ ReloadFollows
    /\ RestFollows
    /\ Matches(oauthState)

\* The writer is the sink's file, or a stream when it has none.
WriterIsFile == writer = File(logFile) \/ (logFile = NoFile /\ writer \notin Files)

\* A write in progress goes to the writer, which no swap can change meanwhile.
WritesGoToWriter == \A w \in LogWriters : writing[w] \in {Nowhere, writer}

\* Only the handler has a destination to install, a file newer than the sink's.
SwapIsHandlers ==
    /\ swap # Nowhere => pc = "swapLog"
    /\ logFile <= opened
    /\ \A d \in Descriptors : File(d) = swap => d <= opened /\ d # logFile

ClosedForGood == shutdown = "closed" => pc = "done" /\ logFile = NoFile

SinkInv ==
    /\ WriterIsFile
    /\ WritesGoToWriter
    /\ SwapIsHandlers
    /\ NoDescriptorLeak
    /\ ClosedForGood

IInv == TypeOK /\ Coherence /\ SinkInv

-----------------------------------------------------------------------------
(***************************************************************************)
(* Types.                                                                  *)
(***************************************************************************)
LEMMA OpensAllowed == MaxOpens \in Nat /\ MaxOpens >= 1
<1>1. MaxOpens \in Nat \ {0}
  BY LogSinkAssumption, Zenon
<1>2. QED
  BY <1>1

\* A destination is a file with its descriptor or a stream with none.
LEMMA DestinationKinds ==
  /\ \A d : File(d)[2] = d /\ File(d) # Nowhere
  /\ Nowhere[2] = NoFile /\ Nowhere \notin Destinations
  /\ Stream("errOut") \in Destinations \ Files /\ Stream("errOut")[2] = NoFile
  /\ \A d \in Descriptors : File(d) \in Destinations
  /\ \A dest \in Destinations :
       \/ dest \in Files /\ dest = File(dest[2]) /\ dest[2] \in Descriptors
       \/ dest \notin Files /\ dest[2] = NoFile
<1> USE DEF File, Stream, Nowhere, Files, Destinations, Descriptors, NoFile
<1>1. /\ \A d : File(d)[2] = d /\ File(d) # Nowhere
      /\ Nowhere[2] = NoFile
      /\ Stream("errOut")[2] = NoFile
  OBVIOUS
<1>2. \A s \in {"httpOut", "errOut", "discard"} : \A d : Stream(s) # File(d) /\ Stream(s) # Nowhere
  OBVIOUS
<1>3. \A dest \in Destinations :
        \/ dest \in Files /\ dest = File(dest[2]) /\ dest[2] \in Descriptors
        \/ dest \notin Files /\ dest[2] = NoFile
  <2>1. ASSUME NEW dest \in Files PROVE dest = File(dest[2]) /\ dest[2] \in Descriptors
    BY <1>1
  <2>2. ASSUME NEW s \in {"httpOut", "errOut", "discard"}
        PROVE  Stream(s) \notin Files /\ Stream(s)[2] = NoFile
    BY <1>2
  <2>3. QED
    BY <2>1, <2>2
<1>4. QED
  BY <1>1, <1>2, <1>3

\* What a log_file resolves to.
LEMMA ResolveKinds ==
  ASSUME NEW f \in LogFiles, NEW d \in Nat, f \in LogPaths => d \in Descriptors
  PROVE  /\ Resolve(f, d) \in Destinations
         /\ f \in LogPaths => Resolve(f, d) = File(d)
         /\ f \notin LogPaths => Resolve(f, d) \notin Files /\ Resolve(f, d)[2] = NoFile
<1>1. \A s \in {"httpOut", "errOut", "discard"} :
         Stream(s) \in Destinations /\ Stream(s) \notin Files /\ Stream(s)[2] = NoFile
  BY DEF Stream, Destinations, Files, File, NoFile
<1>2. QED
  BY <1>1, DestinationKinds DEF Resolve

LEMMA InitTypeOK == Init => TypeOK
<1>1. ASSUME Init PROVE TypeOK
  <2>1. PICK t \in Contents : /\ file = [ok |-> TRUE, says |-> t]
                              /\ content = [c \in Configs |-> t]
                              /\ SinkInit(t.log)
    BY <1>1 DEF Init
  <2>2. ContractTypeOK
    BY <1>1, ContractAssumption DEF Init, ContractInit, ContractTypeOK, Configs, Idle
  <2>3. SinkTypeOK
    <3>1. t.log \in LogFiles
      BY HandlerAssumption
    <3>2. opened \in 0..MaxOpens /\ (opened # 0 => opened \in Descriptors)
      BY <2>1, OpensAllowed DEF SinkInit, Descriptors
    <3>3. writer \in Destinations
      BY <2>1, <3>1, <3>2, ResolveKinds DEF SinkInit, Descriptors
    <3>4. QED
      BY <2>1, <3>1, <3>2, <3>3 DEF SinkInit, SinkTypeOK, NoFile
  <2>4. Snap(1, 1) \in Snapshots /\ 1 \in Configs
    BY ContractAssumption DEF Snap, Snapshots, Configs
  <2>5. QED
    <3>1. 0 \in Versions /\ 0 \in 0..MaxConfigs
      BY ContractAssumption, HandlerAssumption DEF Versions
    <3>2. QED
      BY <1>1, <2>1, <2>2, <2>3, <2>4, <3>1 DEF Init, TypeOK, PCs
<1>2. QED
  BY <1>1

\* The server's own steps keep the contract's types.
LEMMA ContractTypes ==
  ASSUME ContractTypeOK,
         \/ \E c \in Configs : Call(c)
         \/ Commit
         \/ \E r \in Results : Return(r)
         \/ Acknowledge
         \/ UNCHANGED contractVars
  PROVE  ContractTypeOK'
BY DEF ContractTypeOK, Call, Commit, Return, Acknowledge, contractVars, Results, Idle

\* So do the sink's.
LEMMA SinkTypes ==
  ASSUME SinkTypeOK,
         \/ \E f \in LogFiles : SkipDestination(f) \/ OpenFails(f) \/ OpenDestination(f)
         \/ SwapDestination
         \/ CloseSink
         \/ \E w \in LogWriters : Write(w) \/ Written(w)
         \/ UNCHANGED sinkVars
  PROVE  SinkTypeOK'
<1> USE OpensAllowed DEF SinkTypeOK
<1>1. CASE \E f \in LogFiles : SkipDestination(f) \/ OpenFails(f)
  BY <1>1 DEF SkipDestination, OpenFails, sinkVars
<1>2. ASSUME NEW f \in LogFiles, OpenDestination(f) PROVE SinkTypeOK'
  <2>1. /\ opened' \in 0..MaxOpens
        /\ f \in LogPaths => opened' \in Descriptors
        /\ open' \subseteq Descriptors
    BY <1>2 DEF OpenDestination, Descriptors
  <2>2. swap' \in Destinations
    BY <1>2, <2>1, ResolveKinds DEF OpenDestination
  <2>3. QED
    BY <1>2, <2>1, <2>2 DEF OpenDestination
<1>3. ASSUME NEW dest \in Destinations, Install(dest) PROVE SinkTypeOK'
  BY <1>3, DestinationKinds DEF Install
<1>4. CASE SwapDestination
  <2>1. swap \in Destinations
    BY <1>4 DEF SwapDestination
  <2>2. QED
    BY <1>3, <1>4, <2>1 DEF SwapDestination
<1>5. CASE CloseSink
  BY <1>3, <1>5, DestinationKinds DEF CloseSink
<1>6. CASE \E w \in LogWriters : Write(w) \/ Written(w)
  BY <1>6 DEF Write, Written
<1>7. CASE UNCHANGED sinkVars
  BY <1>7 DEF sinkVars
<1>8. QED
  BY <1>1, <1>2, <1>4, <1>5, <1>6, <1>7

LEMMA NextTypeOK ==
  ASSUME TypeOK, Numbered, [Next]_vars
  PROVE  TypeOK'
<1> USE ContractAssumption, HandlerAssumption DEF TypeOK, contractVars, sinkVars, signalVars, handlerLocals, published, notPublishing,
        notHandler, notLogging, PCs
<1>1. ASSUME UNCHANGED contractVars PROVE ContractTypeOK'
  BY <1>1, ContractTypes
<1>2. ASSUME UNCHANGED sinkVars PROVE SinkTypeOK'
  BY <1>2, SinkTypes
<1>a. content[newConfig].log \in LogFiles
  OBVIOUS
<1>3. CASE ReadConfig
  <2>1. newConfig + 1 \in Configs \/ ~file.ok
    BY <1>3 DEF ReadConfig, Numbered, Configs
  <2>2. QED
    BY <1>1, <1>2, <1>3, <2>1 DEF ReadConfig
<1>4. CASE Discover
  <2>1. nextOAuth' \in Snapshots
    BY <1>4 DEF Discover, SnapshotForReload, Snapshots, Snap
  <2>2. QED
    BY <1>1, <1>2, <1>4, <2>1 DEF Discover
<1>5. CASE DiscoverFails
  BY <1>1, <1>2, <1>5 DEF DiscoverFails
<1>6. CASE StoreOAuth
  BY <1>1, <1>2, <1>6 DEF StoreOAuth, StoreTurn, AfterStore
<1>7. CASE StoreConfig
  BY <1>1, <1>2, <1>7 DEF StoreConfig, StoreTurn, AfterStore
<1>8. CASE CallReload
  BY <1>2, <1>8, ContractTypes DEF CallReload
<1>9. CASE Reloaded
  BY <1>2, <1>9, ContractTypes DEF Reloaded
<1>10. CASE RollBackConfig
  BY <1>1, <1>2, <1>10 DEF RollBackConfig
<1>11. CASE RollBackOAuth
  BY <1>2, <1>11, ContractTypes DEF RollBackOAuth
<1>12. CASE ReloadLog
  BY <1>1, <1>a, <1>12, SinkTypes DEF ReloadLog
<1>13. CASE HandlerDone
  BY <1>1, <1>2, <1>13 DEF HandlerDone
<1>14. CASE SwapLog
  BY <1>1, <1>14, SinkTypes DEF SwapLog
<1>15. CASE ServerReloads
  BY <1>2, <1>15, ContractTypes DEF ServerReloads
<1>16. CASE CloseLog
  BY <1>1, <1>16, SinkTypes DEF CloseLog
<1>17. CASE \E ok \in BOOLEAN, t \in Contents : Edit(ok, t)
  BY <1>1, <1>2, <1>17 DEF Edit, Versions
<1>18. CASE Sighup
  BY <1>1, <1>2, <1>18 DEF Sighup, Notify
<1>19. CASE Stop
  BY <1>1, <1>2, <1>19 DEF Stop
<1>20. CASE \E w \in LogWriters : Log(w)
  BY <1>1, <1>20, SinkTypes DEF Log
<1>21. CASE UNCHANGED vars
  BY <1>1, <1>2, <1>21 DEF vars
<1>22. QED
  BY <1>3, <1>4, <1>5, <1>6, <1>7, <1>8, <1>9, <1>10, <1>11, <1>12, <1>13, <1>14, <1>15, <1>16,
     <1>17, <1>18, <1>19, <1>20, <1>21 DEF Next, Handler, Environment

-----------------------------------------------------------------------------
(***************************************************************************)
(* Coherence.                                                              *)
(***************************************************************************)
LEMMA InitCoherence == Init => Coherence
<1>1. ASSUME Init PROVE Coherence
  <2>1. \A a, b \in Configs : content[a] = content[b]
    BY <1>1 DEF Init
  <2>2. 1 \in Configs
    BY ContractAssumption DEF Configs
  <2>3. QED
    BY <1>1, <2>1, <2>2, ContractAssumption
    DEF Init, ContractInit, Coherence, Numbered, JobFollows, LiveFollows, ReloadFollows, RestFollows,
        Matches, SameSettings, WellKnownChanged, ProviderChanged, Reloading, Asked, Snap, Idle
<1>2. QED
  BY <1>1

\* The variables Coherence is about, but for the signals.
copies == <<contractVars, content, pc, handlerLocals, published>>

\* What does not touch them keeps it.
LEMMA QuietCoherence ==
  ASSUME Coherence, UNCHANGED copies, Numbered'
  PROVE  Coherence'
BY DEF copies, contractVars, handlerLocals, published, Coherence, JobFollows, LiveFollows,
   ReloadFollows, RestFollows, Matches, SameSettings, WellKnownChanged, ProviderChanged, Stored,
   oauthChanged

\* A read numbers a configuration no copy is of, so what the copies say stays.
LEMMA ReadCoherence ==
  ASSUME TypeOK, TypeOK', Coherence, ReadConfig
  PROVE  Coherence'
<1> USE DEF TypeOK, ContractTypeOK, contractVars, handlerLocals, published, signalVars, notPublishing,
        Snapshots, Configs
<1>1. CASE ~file.ok
  <2>1. /\ pc' = "exited" /\ sigHupCh /\ ~sigHupCh'
        /\ UNCHANGED <<live, job, signals, cfgState, oauthState, newConfig, content, prev, prevOAuth,
                       nextOAuth>>
    BY <1>1 DEF ReadConfig
  <2>2. Numbered'
    BY <2>1 DEF Coherence, Numbered
  <2>3. QED
    BY <2>1, <2>2 DEF Coherence, JobFollows, LiveFollows, ReloadFollows, RestFollows, Matches,
       ProviderChanged, Reloading, Asked
<1>2. CASE file.ok
  <2>1. /\ pc = "wait" /\ pc' = "discover" /\ prev' = cfgState /\ prevOAuth' = oauthState
        /\ newConfig' = newConfig + 1 /\ content' = [content EXCEPT ![newConfig'] = file.says]
        /\ sigHupCh /\ ~sigHupCh' /\ UNCHANGED <<live, job, signals, nextOAuth, cfgState, oauthState>>
    BY <1>2 DEF ReadConfig
  <2>2. \A c \in Configs : c <= newConfig => content'[c] = content[c]
    BY <2>1
  <2>3. Numbered'
    BY <2>1 DEF Coherence, Numbered
  <2>4. /\ cfgState = live /\ SameSettings(oauthState, cfgState) /\ Matches(oauthState)
        /\ job.st = Idle
    BY <2>1 DEF Coherence, RestFollows, Reloading, JobFollows, Asked
  <2>5. /\ content'[cfgState] = content[cfgState]
        /\ content'[oauthState.from] = content[oauthState.from]
        /\ content'[oauthState.client] = content[oauthState.client]
    BY <2>2 DEF Coherence, Numbered
  <2>6. /\ SameSettings(prevOAuth, prev)'
        /\ Matches(prevOAuth)' /\ Matches(oauthState)'
    BY <2>1, <2>4, <2>5 DEF SameSettings, Matches, WellKnownChanged, ProviderChanged
  <2>7. QED
    BY <2>1, <2>3, <2>4, <2>6
    DEF Coherence, JobFollows, LiveFollows, ReloadFollows, RestFollows, Reloading, Asked
<1>3. QED
  BY <1>1, <1>2

\* Discovery makes a snapshot of the new settings with a provider that fits them.
LEMMA DiscoverCoherence ==
  ASSUME TypeOK, TypeOK', Coherence, Discover \/ DiscoverFails
  PROVE  Coherence'
<1> USE DEF TypeOK, contractVars, handlerLocals, published, signalVars, notPublishing, Snapshots
<1>1. CASE Discover
  <2>1. nextOAuth'.from = newConfig /\ Matches(nextOAuth)'
    BY <1>1 DEF Discover, SnapshotForReload, Snap, Coherence, ReloadFollows, Reloading, Matches,
       ProviderChanged
  <2>2. Numbered'
    BY <1>1 DEF Discover, SnapshotForReload, Snap, Coherence, Numbered, Configs
  <2>3. QED
    BY <1>1, <2>1, <2>2 DEF Discover, Coherence, JobFollows, LiveFollows, ReloadFollows, RestFollows,
       Reloading, Asked, SameSettings, WellKnownChanged, ProviderChanged, Matches
<1>2. CASE DiscoverFails
  BY <1>2 DEF DiscoverFails, Coherence, Numbered, JobFollows, LiveFollows, ReloadFollows, RestFollows,
     Reloading, Asked, SameSettings, WellKnownChanged, ProviderChanged, Matches
<1>3. QED
  BY <1>1, <1>2

\* The stores publish what a reload made, and what is taken back is what was there.
LEMMA StoreCoherence ==
  ASSUME TypeOK, TypeOK', Coherence,
         StoreOAuth \/ StoreConfig \/ RollBackConfig \/ RollBackOAuth
  PROVE  Coherence'
<1> USE ContractAssumption
    DEF TypeOK, ContractTypeOK, contractVars, handlerLocals, published, signalVars, notHandler, Snapshots,
        Configs, Coherence, Numbered, JobFollows, LiveFollows, ReloadFollows, RestFollows, Reloading,
        Asked, SameSettings, WellKnownChanged, ProviderChanged, Matches, Stored, oauthChanged
<1>1. CASE StoreOAuth
  <2>1. /\ pc = "store1" /\ pc' = "store2" /\ oauthState = prevOAuth /\ oauthState' = Stored
        /\ UNCHANGED <<live, job, signals, sigHupCh, content, newConfig, prev, prevOAuth, nextOAuth,
                       cfgState>>
    BY <1>1 DEF StoreOAuth, StoreTurn, AfterStore
  <2>2. Numbered'
    BY <2>1
  <2>3. QED
    BY <2>1, <2>2
<1>2. CASE StoreConfig
  BY <1>2 DEF StoreConfig, StoreTurn, AfterStore
<1>3. CASE RollBackConfig
  BY <1>3 DEF RollBackConfig, Idle
<1>4. CASE RollBackOAuth
  BY <1>4 DEF RollBackOAuth, Acknowledge
<1>5. QED
  BY <1>1, <1>2, <1>3, <1>4

\* The server applies the configuration it was called with, or none.
LEMMA CallCoherence ==
  ASSUME TypeOK, TypeOK', Coherence, Running, CallReload \/ ServerReloads \/ Reloaded
  PROVE  Coherence'
<1> USE ContractAssumption
    DEF TypeOK, ContractTypeOK, contractVars, handlerLocals, published, signalVars, notHandler, Snapshots,
        Configs, Coherence, Numbered, JobFollows, LiveFollows, ReloadFollows, RestFollows, Reloading,
        Asked, SameSettings, WellKnownChanged, ProviderChanged, Matches, Stored, oauthChanged, Idle,
        Results
<1>1. CASE CallReload
  BY <1>1 DEF CallReload, Call
<1>2. CASE ServerReloads
  <2>1. pc = "reloading"
    BY <1>2 DEF ServerReloads, Commit, Return, Running
  <2>2. CASE Commit
    BY <1>2, <2>1, <2>2 DEF ServerReloads, Commit
  <2>3. CASE \E r \in Results : Return(r)
    BY <1>2, <2>1, <2>3 DEF ServerReloads, Return
  <2>4. QED
    BY <1>2, <2>2, <2>3 DEF ServerReloads
<1>3. CASE Reloaded
  BY <1>3 DEF Reloaded, Acknowledge
<1>4. QED
  BY <1>1, <1>2, <1>3

LEMMA NextCoherence ==
  ASSUME TypeOK, TypeOK', Coherence, [Next]_vars
  PROVE  Coherence'
<1> USE DEF contractVars, sinkVars, signalVars, handlerLocals, published, notHandler, notLogging
<1>1. ASSUME UNCHANGED <<live, newConfig, prev, prevOAuth, nextOAuth, oauthState, cfgState, signals,
                         sigHupCh>>
      PROVE  Numbered'
  BY <1>1 DEF Coherence, Numbered
<1>2. CASE ReadConfig
  BY <1>2, ReadCoherence
<1>3. CASE Discover \/ DiscoverFails
  BY <1>3, DiscoverCoherence
<1>4. CASE StoreOAuth \/ StoreConfig \/ RollBackConfig \/ RollBackOAuth
  BY <1>4, StoreCoherence
<1>5. CASE Running /\ (CallReload \/ ServerReloads \/ Reloaded)
  BY <1>5, CallCoherence
\* The handler's steps within a rest.
<1>6. CASE ReloadLog \/ SwapLog \/ HandlerDone
  BY <1>1, <1>6 DEF ReloadLog, SwapLog, HandlerDone, Coherence, JobFollows, LiveFollows, ReloadFollows,
     RestFollows, Matches, SameSettings, WellKnownChanged, ProviderChanged, Reloading, Asked
<1>7. CASE Sighup
  <2>1. Numbered'
    BY <1>7, ContractAssumption DEF Sighup, Notify, Coherence, Numbered, TypeOK, ContractTypeOK,
       Configs, Snapshots
  <2>2. QED
    BY <1>7, <2>1, QuietCoherence DEF Sighup, copies
<1>8. CASE (\E ok \in BOOLEAN, t \in Contents : Edit(ok, t)) \/ Stop \/ CloseLog
           \/ (\E w \in LogWriters : Log(w)) \/ UNCHANGED vars
  BY <1>1, <1>8, QuietCoherence DEF Edit, Stop, CloseLog, Log, vars, copies
<1>9. QED
  BY <1>2, <1>3, <1>4, <1>5, <1>6, <1>7, <1>8 DEF Next, Handler, Environment

-----------------------------------------------------------------------------
(***************************************************************************)
(* The log sink.                                                           *)
(***************************************************************************)
LEMMA InitSinkInv == Init => SinkInv
<1>1. ASSUME Init PROVE SinkInv
  <2>1. PICK t \in Contents : SinkInit(t.log)
    BY <1>1 DEF Init
  <2>2. /\ t.log \in LogFiles
        /\ opened = IF t.log \in LogPaths THEN 1 ELSE 0
        /\ open = {opened} \ {NoFile} /\ logFile = opened
        /\ writer = Resolve(t.log, opened) /\ swap = Nowhere
        /\ \A w \in LogWriters : writing[w] = Nowhere
    BY <2>1, HandlerAssumption DEF SinkInit
  <2>3. 1 \in Descriptors /\ 0 \notin Descriptors
    BY OpensAllowed DEF Descriptors
  <2>4. WriterIsFile
    BY <2>2, <2>3, ResolveKinds DEF WriterIsFile, NoFile
  <2>5. SwapIsHandlers
    BY <2>2, DestinationKinds DEF SwapIsHandlers
  <2>6. NoDescriptorLeak
    BY <2>2, <2>3, DestinationKinds DEF NoDescriptorLeak, NoFile
  <2>7. QED
    BY <1>1, <2>2, <2>4, <2>5, <2>6 DEF Init, SinkInv, WritesGoToWriter, ClosedForGood
<1>2. QED
  BY <1>1

\* Installing a destination with nobody writing closes the file that was the
\* sink's and holds on to the one that becomes it.
LEMMA InstallSinkInv ==
  ASSUME TypeOK, SinkInv, MuFree, NEW dest \in Destinations, Install(dest),
         dest = swap \/ (swap = Nowhere /\ dest \notin Files),
         shutdown' = "closed" => pc' = "done" /\ dest \notin Files
  PROVE  SinkInv'
<1> USE DEF TypeOK, SinkTypeOK
<1>1. /\ writer' = dest /\ logFile' = dest[2] /\ open' = open \ {logFile} /\ swap' = Nowhere
      /\ UNCHANGED <<opened, writing>>
  BY DEF Install
<1>2. \/ dest \in Files /\ dest = File(dest[2]) /\ dest[2] \in Descriptors
      \/ dest \notin Files /\ dest[2] = NoFile
  BY DestinationKinds
<1>3. NoFile \notin Descriptors
  BY OpensAllowed DEF NoFile, Descriptors
<1>4. \A d \in Descriptors : File(d) = dest <=> d = dest[2]
  BY <1>2, <1>3, DestinationKinds DEF Files
<1>5. WriterIsFile' /\ WritesGoToWriter'
  BY <1>1, <1>2 DEF WriterIsFile, WritesGoToWriter, MuFree
<1>6. SwapIsHandlers'
  <2>1. dest[2] <= opened
    BY <1>2, <1>4, OpensAllowed DEF SinkInv, SwapIsHandlers, NoFile, Files
  <2>2. QED
    BY <1>1, <2>1, DestinationKinds DEF SwapIsHandlers
<1>7. NoDescriptorLeak'
  <2>1. CASE dest = swap
    BY <1>1, <1>3, <1>4, <2>1, DestinationKinds DEF SinkInv, NoDescriptorLeak, SwapIsHandlers
  <2>2. CASE swap = Nowhere /\ dest \notin Files
    BY <1>1, <1>2, <1>3, <2>2, DestinationKinds DEF SinkInv, NoDescriptorLeak
  <2>3. QED
    BY <2>1, <2>2
<1>8. QED
  BY <1>1, <1>2, <1>5, <1>6, <1>7 DEF SinkInv, ClosedForGood

\* Opening a file adds its descriptor, which is newer than the sink's own.
LEMMA OpenSinkInv ==
  ASSUME TypeOK, TypeOK', SinkInv, NEW f \in LogFiles, OpenDestination(f), swap = Nowhere, pc # "done",
         pc' = "swapLog", UNCHANGED shutdown
  PROVE  SinkInv'
<1> USE DEF TypeOK, SinkTypeOK
<1>1. /\ opened' = IF f \in LogPaths THEN opened + 1 ELSE opened
      /\ open' = IF f \in LogPaths THEN open \cup {opened'} ELSE open
      /\ swap' = Resolve(f, opened')
      /\ UNCHANGED <<writer, logFile, writing>>
      /\ f \in LogPaths => opened < MaxOpens
  BY DEF OpenDestination
<1>2. f \in LogPaths => opened' \in Descriptors
  BY <1>1, OpensAllowed DEF Descriptors
<1>3. f \in LogPaths => swap' = File(opened')
  BY <1>1, <1>2, ResolveKinds
<1>4. f \notin LogPaths => swap' \notin Files
  BY <1>1, <1>2, ResolveKinds
<1>5. \A d \in Descriptors : File(d) = swap' <=> f \in LogPaths /\ d = opened'
  BY <1>3, <1>4, DestinationKinds DEF Files
<1>6. SwapIsHandlers'
  BY <1>1, <1>5, OpensAllowed DEF SinkInv, SwapIsHandlers, Descriptors, NoFile
<1>7. NoDescriptorLeak'
  BY <1>1, <1>2, <1>5, DestinationKinds DEF SinkInv, NoDescriptorLeak
<1>8. QED
  BY <1>1, <1>6, <1>7 DEF SinkInv, WriterIsFile, WritesGoToWriter, ClosedForGood

\* A step that neither touches the sink nor leaves the place that swaps keeps it.
LEMMA QuietSinkInv ==
  ASSUME SinkInv, UNCHANGED sinkVars, pc = "swapLog" => pc' = pc, pc = "done" => pc' = pc,
         shutdown' = "closed" => shutdown = "closed"
  PROVE  SinkInv'
BY DEF sinkVars, SinkInv, WriterIsFile, WritesGoToWriter, SwapIsHandlers, NoDescriptorLeak,
   ClosedForGood

LEMMA NextSinkInv ==
  ASSUME TypeOK, TypeOK', SinkInv, [Next]_vars
  PROVE  SinkInv'
<1> USE DEF contractVars, signalVars, handlerLocals, published, notPublishing, notHandler, notLogging
<1>1. CASE ReadConfig \/ Discover \/ DiscoverFails \/ HandlerDone
  BY <1>1, QuietSinkInv DEF ReadConfig, Discover, DiscoverFails, HandlerDone
<1>2. CASE StoreOAuth \/ StoreConfig \/ RollBackConfig \/ RollBackOAuth
  BY <1>2, QuietSinkInv DEF StoreOAuth, StoreConfig, RollBackConfig, RollBackOAuth, StoreTurn
<1>3. CASE CallReload \/ ServerReloads \/ Reloaded
  BY <1>3, QuietSinkInv DEF CallReload, ServerReloads, Reloaded
<1>4. CASE (\E ok \in BOOLEAN, t \in Contents : Edit(ok, t)) \/ Sighup \/ Stop \/ UNCHANGED vars
  BY <1>4, QuietSinkInv DEF Edit, Sighup, Stop, vars
<1>5. CASE ReloadLog
  <2>1. content[newConfig].log \in LogFiles
    BY HandlerAssumption DEF TypeOK
  <2>2. pc = "logSink" /\ swap = Nowhere /\ UNCHANGED shutdown
    BY <1>5 DEF ReloadLog, SinkInv, SwapIsHandlers
  <2>3. CASE SkipDestination(content[newConfig].log) \/ OpenFails(content[newConfig].log)
    BY <2>2, <2>3, QuietSinkInv DEF SkipDestination, OpenFails
  <2>4. CASE OpenDestination(content[newConfig].log) /\ pc' = "swapLog"
    BY <2>1, <2>2, <2>4, OpenSinkInv
  <2>5. QED
    BY <1>5, <2>3, <2>4 DEF ReloadLog
<1>6. CASE SwapLog
  BY <1>6, InstallSinkInv DEF SwapLog, SwapDestination, TypeOK, SinkTypeOK, SinkInv, ClosedForGood
<1>7. CASE CloseLog
  BY <1>7, InstallSinkInv, DestinationKinds DEF CloseLog, CloseSink, SinkInv, SwapIsHandlers
<1>8. CASE \E w \in LogWriters : Log(w)
  BY <1>8 DEF Log, Write, Written, TypeOK, SinkTypeOK, SinkInv, WriterIsFile, WritesGoToWriter,
     SwapIsHandlers, NoDescriptorLeak, ClosedForGood
<1>9. QED
  BY <1>1, <1>2, <1>3, <1>4, <1>5, <1>6, <1>7, <1>8 DEF Next, Handler, Environment

-----------------------------------------------------------------------------
(***************************************************************************)
(* The invariants.                                                         *)
(***************************************************************************)
\* Each stage of the handler's reload, and each step of the log sink, keeps the
\* invariant, whatever fails and whenever signals and rotations come.
THEOREM Invariance == Spec => []IInv
<1>1. Init => IInv
  BY InitTypeOK, InitCoherence, InitSinkInv DEF IInv
<1>2. IInv /\ [Next]_vars => IInv'
  BY NextTypeOK, NextCoherence, NextSinkInv DEF IInv, Coherence
<1>3. QED
  BY <1>1, <1>2, PTL DEF Spec, SafeSpec

\* Every variable of the handler, of the contract and of the sink keeps its type;
\* in particular no read is numbered past the bound.
THEOREM TypeCorrect == Spec => []TypeOK
<1>1. IInv => TypeOK
  BY DEF IInv
<1>2. QED
  BY <1>1, Invariance, PTL

\* However the reloads before it ended, setupSIGHUPHandler rests with the published
\* configuration live and its settings in the snapshot, whose provider was
\* discovered for them.
THEOREM Coherent == Spec => []StatesAreCoherent
<1>1. IInv => StatesAreCoherent
  BY DEF IInv, TypeOK, Coherence, RestFollows, Reloading, Matches, StatesAreCoherent, CopiesAgreeAtRest,
     ProviderMatchesItsSnapshot
<1>2. QED
  BY <1>1, Invariance, PTL

\* The log sink never writes to a file it has closed, leaks no descriptor over
\* rotations and reloads, and holds none once it is closed.
THEOREM SinkSound == Spec => []SinkIsSound
<1>1. IInv => SinkIsSound
  <2>1. ASSUME IInv PROVE NeverWritesToClosedFile
    <3>1. ASSUME NEW d \in Descriptors,
                 File(d) \in {writer} \cup {writing[w] : w \in LogWriters}
          PROVE  d \in open
      <4>1. File(d) = writer
        BY <2>1, <3>1, DestinationKinds DEF IInv, SinkInv, WritesGoToWriter
      <4>2. d = logFile
        BY <2>1, <4>1, DestinationKinds DEF IInv, SinkInv, WriterIsFile, Files
      <4>3. QED
        BY <2>1, <4>2 DEF IInv, SinkInv, NoDescriptorLeak
    <3>2. QED
      BY <3>1 DEF NeverWritesToClosedFile
  <2>2. ASSUME IInv PROVE ClosedLogStaysClosed
    <3>1. NoFile \notin Descriptors
      BY OpensAllowed DEF NoFile, Descriptors
    <3>2. QED
      BY <2>2, <3>1, DestinationKinds
      DEF IInv, SinkInv, ClosedLogStaysClosed, ClosedForGood, SwapIsHandlers, NoDescriptorLeak
  <2>3. QED
    BY <2>1, <2>2 DEF IInv, SinkInv, SinkIsSound
<1>2. QED
  BY <1>1, Invariance, PTL

-----------------------------------------------------------------------------
(***************************************************************************)
(* The handler implements PublishedStates.                                 *)
(***************************************************************************)
LEMMA InitPublished == Init => Published!PublishedInit
<1>1. ASSUME Init PROVE Published!PublishedInit
  <2>1. PICK t \in Contents : content = [c \in Configs |-> t]
    BY <1>1 DEF Init
  <2>2. [c \in Configs |-> Said(content[c])] = [c \in Published!Configs |-> Said(t)]
    BY <2>1 DEF Configs, Published!Configs
  <2>3. QED
    BY <1>1, <2>2 DEF Init, Snap, Stage, Published!PublishedInit
<1>2. QED
  BY <1>1

\* The snapshot is stored when the settings it serves changed.
LEMMA ChangedIsChanged ==
  ASSUME TypeOK, pc # "discover", pc \in Reloading, ReloadFollows
  PROVE  oauthChanged <=> Published!OAuthChanged
BY DEF TypeOK, Snapshots, ReloadFollows, oauthChanged, WellKnownChanged, ProviderChanged, Said,
   Published!OAuthChanged

\* Steps that keep what is published, and the place, stutter.
LEMMA QuietPublished ==
  ASSUME UNCHANGED <<content, newConfig, prev, prevOAuth, published>>, Stage' = Stage
  PROVE  UNCHANGED Published!publishedVars
BY DEF published, Published!publishedVars

LEMMA NextPublished ==
  ASSUME IInv, IInv', [Next]_vars
  PROVE  [Published!PublishedNext]_Published!publishedVars
<1> USE DEF contractVars, sinkVars, signalVars, handlerLocals, published, notPublishing, notHandler,
        notLogging
<1>1. TypeOK /\ TypeOK' /\ ReloadFollows
  BY DEF IInv, Coherence
<1>2. CASE ReadConfig /\ ~file.ok
  BY <1>2, QuietPublished DEF ReadConfig, Stage
<1>3. CASE ReadConfig /\ file.ok
  <2>1. /\ pc = "wait" /\ pc' = "discover" /\ prev' = cfgState /\ prevOAuth' = oauthState
        /\ newConfig' = newConfig + 1 /\ content' = [content EXCEPT ![newConfig'] = file.says]
        /\ UNCHANGED <<cfgState, oauthState>>
    BY <1>3 DEF ReadConfig
  <2>2. newConfig < MaxConfigs /\ file.says \in Contents
    BY <1>1, <2>1, ContractAssumption DEF TypeOK, Configs
  <2>3. [c \in Configs |-> Said(content'[c])]
          = [[c \in Configs |-> Said(content[c])] EXCEPT ![newConfig'] = Said(file.says)]
    BY <1>1, <2>1 DEF TypeOK
  <2>4. Published!ReadNew(Said(file.says))
    BY <2>1, <2>2, <2>3 DEF Published!ReadNew, Stage
  <2>5. QED
    BY <2>2, <2>4 DEF Published!PublishedNext
<1>4. CASE Discover
  BY <1>4, QuietPublished DEF Discover, Stage
<1>5. CASE DiscoverFails
  <2>1. Published!GiveUp
    BY <1>5 DEF DiscoverFails, Stage, Published!GiveUp
  <2>2. QED
    BY <2>1 DEF Published!PublishedNext
<1>6. CASE StoreOAuth
  <2>1. /\ pc = "store1" /\ pc' = "store2"
        /\ oauthState' = IF oauthChanged THEN nextOAuth ELSE oauthState
        /\ UNCHANGED <<content, newConfig, prev, prevOAuth, cfgState>>
    BY <1>6 DEF StoreOAuth, StoreTurn, AfterStore
  <2>2. nextOAuth.from = newConfig /\ (oauthChanged <=> Published!OAuthChanged)
    BY <1>1, <2>1, ChangedIsChanged DEF ReloadFollows, Reloading
  <2>3. oauthState'.from = IF Published!OAuthChanged THEN newConfig ELSE oauthState.from
    BY <2>1, <2>2
  <2>4. Published!PublishOAuth
    BY <2>1, <2>3 DEF Published!PublishOAuth, Stage
  <2>5. QED
    BY <2>4 DEF Published!PublishedNext
<1>7. CASE StoreConfig
  <2>1. Published!PublishConfig
    BY <1>7 DEF StoreConfig, StoreTurn, AfterStore, Stage, Published!PublishConfig
  <2>2. QED
    BY <2>1 DEF Published!PublishedNext
<1>8. CASE CallReload
  BY <1>8, QuietPublished DEF CallReload, Stage
<1>9. CASE Reloaded
  <2>1. Published!Keep
    BY <1>9 DEF Reloaded, Stage, Published!Keep
  <2>2. QED
    BY <2>1 DEF Published!PublishedNext
<1>10. CASE RollBackConfig
  <2>1. Published!TakeBackConfig
    BY <1>10 DEF RollBackConfig, Stage, Published!TakeBackConfig
  <2>2. QED
    BY <2>1 DEF Published!PublishedNext
<1>11. CASE RollBackOAuth
  <2>1. /\ pc = "rollBackOAuth" /\ pc' \in {"exited", "wait"}
        /\ oauthState' = IF oauthChanged THEN prevOAuth ELSE oauthState
        /\ UNCHANGED <<content, newConfig, prev, prevOAuth, cfgState>>
    BY <1>11 DEF RollBackOAuth
  <2>2. oauthState' = prevOAuth
    BY <1>1, <2>1 DEF ReloadFollows, Reloading, Stored
  <2>3. Published!TakeBackOAuth
    BY <2>1, <2>2 DEF Published!TakeBackOAuth, Stage
  <2>4. QED
    BY <2>3 DEF Published!PublishedNext
<1>12. CASE ReloadLog \/ SwapLog \/ HandlerDone \/ CloseLog
  BY <1>12, QuietPublished DEF ReloadLog, SwapLog, HandlerDone, CloseLog, Stage
<1>13. CASE ServerReloads \/ (\E w \in LogWriters : Log(w))
  BY <1>13, QuietPublished DEF ServerReloads, Log, Stage
<1>14. CASE (\E ok \in BOOLEAN, t \in Contents : Edit(ok, t)) \/ Sighup \/ Stop \/ UNCHANGED vars
  BY <1>14, QuietPublished DEF Edit, Sighup, Stop, vars, Stage
<1>15. QED
  BY <1>2, <1>3, <1>4, <1>5, <1>6, <1>7, <1>8, <1>9, <1>10, <1>11, <1>12, <1>13, <1>14
  DEF Next, Handler, Environment

\* What the HTTP layer loads follows PublishedStates: the snapshot is published
\* before the configuration, a failed reload takes both back in the opposite order,
\* and no other step of the handler touches them.
THEOREM ImplementsPublished == Spec => PublishesAsPromised
<1>1. Init => Published!PublishedInit
  BY InitPublished
<1>2. IInv /\ IInv' /\ [Next]_vars => [Published!PublishedNext]_Published!publishedVars
  BY NextPublished
<1>3. QED
  BY <1>1, <1>2, Invariance, PTL DEF Spec, SafeSpec, PublishesAsPromised, Published!PublishedSpec
=============================================================================
