------------------------------- MODULE LogSink -------------------------------
(***************************************************************************)
(* The reloadable log destination (pkg/logging/sink.go).  klog writes      *)
(* through Sink.Write from any goroutine under the shared lock mu; one     *)
(* goroutine at a time reloads, opening the new file outside mu and then   *)
(* swapping the writer and closing the old file under the exclusive lock.  *)
(* A descriptor is numbered by the open that made it.                      *)
(***************************************************************************)
EXTENDS Naturals

CONSTANTS
    LogPaths,       \* log_file values that name a file on disk
    LogWriters,     \* goroutines that log
    HttpMode,       \* the mode New pinned: HTTP (TRUE) or stdio (FALSE)
    MaxOpens        \* bound on files ever opened

ASSUME LogSinkAssumption ==
    /\ MaxOpens \in Nat \ {0}
    /\ HttpMode \in BOOLEAN
    /\ LogPaths \cap {"", "stderr"} = {}

LogFiles    == {"", "stderr"} \cup LogPaths
Descriptors == 1..MaxOpens
NoFile      == 0

\* A destination is its kind and, for a file, its descriptor.
File(d)      == <<"file", d>>
Stream(s)    == <<s, NoFile>>
Nowhere      == Stream("none")
Files        == {File(d) : d \in Descriptors}
Destinations == Files \cup {Stream(s) : s \in {"httpOut", "errOut", "discard"}}

VARIABLES
    writer,         \* s.writer
    logFile,        \* s.file, NoFile for nil
    lastLogFile,    \* s.lastLogFile
    opened,         \* files opened so far
    open,           \* descriptors the process holds open for the log
    swap,           \* applyDestination's newWriter before mu.Lock,
                    \* Nowhere outside it
    writing         \* where each Write in progress writes, Nowhere outside it

sinkVars == <<writer, logFile, lastLogFile, opened, open, swap, writing>>

SinkTypeOK ==
    /\ writer \in Destinations
    /\ logFile \in Descriptors \cup {NoFile}
    /\ lastLogFile \in LogFiles
    /\ opened \in 0..MaxOpens
    /\ open \subseteq Descriptors
    /\ swap \in Destinations \cup {Nowhere}
    /\ writing \in [LogWriters -> Destinations \cup {Nowhere}]

\* The writer for a log_file whose file, if it names one, is descriptor d.
Resolve(f, d) ==
    IF f \in LogPaths THEN File(d)
    ELSE Stream(IF f = "stderr" THEN "errOut"
                ELSE IF HttpMode THEN "httpOut" ELSE "discard")

\* New applies the startup configuration's log_file.
SinkInit(f) ==
    /\ lastLogFile = f
    /\ opened = IF f \in LogPaths THEN 1 ELSE 0
    /\ open = {opened} \ {NoFile}
    /\ logFile = opened
    /\ writer = Resolve(f, opened)
    /\ swap = Nowhere
    /\ writing = [w \in LogWriters |-> Nowhere]

-----------------------------------------------------------------------------
\* Write holds the shared lock for as long as the underlying write takes.
Write(w) ==
    /\ writing[w] = Nowhere
    /\ writing' = [writing EXCEPT ![w] = writer]
    /\ UNCHANGED <<writer, logFile, lastLogFile, opened, open, swap>>

Written(w) ==
    /\ writing[w] # Nowhere
    /\ writing' = [writing EXCEPT ![w] = Nowhere]
    /\ UNCHANGED <<writer, logFile, lastLogFile, opened, open, swap>>

MuFree == \A w \in LogWriters : writing[w] = Nowhere

-----------------------------------------------------------------------------
(***************************************************************************)
(* applyDestination.  An unchanged standing destination is left alone; a   *)
(* path is always opened again, so that a rotated file is picked up.       *)
(***************************************************************************)
SkipDestination(f) ==
    /\ f = lastLogFile
    /\ f \notin LogPaths
    /\ UNCHANGED sinkVars

OpenFails(f) ==
    /\ f \in LogPaths
    /\ UNCHANGED sinkVars

OpenDestination(f) ==
    /\ f \in LogPaths \/ f # lastLogFile
    /\ f \in LogPaths => opened < MaxOpens
    /\ opened' = IF f \in LogPaths THEN opened + 1 ELSE opened
    /\ open' = IF f \in LogPaths THEN open \cup {opened'} ELSE open
    /\ swap' = Resolve(f, opened')
    /\ lastLogFile' = f
    /\ UNCHANGED <<writer, logFile, writing>>

\* What the swap installs, and what is closed with it.
Install(dest) ==
    /\ writer' = dest
    /\ logFile' = dest[2]
    /\ open' = open \ {logFile}
    /\ swap' = Nowhere
    /\ UNCHANGED <<lastLogFile, opened, writing>>

\* Bug: the swap does not take mu.
SwapUnlocked == swap # Nowhere /\ Install(swap)

\* The swap under the exclusive lock.
SwapDestination ==
    /\ swap # Nowhere
    /\ MuFree
    /\ Install(swap)

\* Close re-routes the writer to errOut and closes the file.
CloseSink ==
    /\ MuFree
    /\ Install(Stream("errOut"))

-----------------------------------------------------------------------------
(***************************************************************************)
(* Properties.                                                             *)
(***************************************************************************)
\* The promise of mu in sink.go, "so a descriptor is never closed mid-write":
\* a Write in progress writes to a standing stream or to a file that is still
\* open, and so will the next one.
NeverWritesToClosedFile ==
    \A d \in Descriptors :
        File(d) \in {writer} \cup {writing[w] : w \in LogWriters} => d \in open

\* The sink holds open the file it writes to and, within applyDestination,
\* the one it is about to install, and no other: rotating the log or leaving
\* it for stderr does not leak descriptors.
NoDescriptorLeak ==
    open = {d \in Descriptors : d = logFile \/ File(d) = swap}
=============================================================================
