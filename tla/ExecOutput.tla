----------------------------- MODULE ExecOutput -----------------------------
(***************************************************************************)
(* The output of one pods_exec (pkg/kubernetes/pods.go, execOutput): the     *)
(* goroutines that copy stdout and stderr write under one mutex and one      *)
(* limit; at the limit the exec is cancelled and what is stored is kept.     *)
(***************************************************************************)
EXTENDS ResponseLimit

CONSTANT MaxOutput   \* bound on what the command writes to a stream

ASSUME ExecAssumption == MaxOutput \in Nat

Streams == {"stdout", "stderr"}

VARIABLES
  execLimit, \* execOutput.limit
  used,      \* execOutput.used
  cutOff,    \* execOutput.truncated
  cancelled, \* the exec context is cancelled
  produced,  \* bytes of each stream that were written
  kept,      \* bytes in each buffer
  noted,     \* the buffers that end in the truncation notice
  execDone   \* "no", "output", "error": what finish returned

execVars == <<execLimit, used, cutOff, cancelled, produced, kept, noted, execDone>>

ExecInit ==
  /\ execLimit \in BackendLimits \cup {0}
  /\ used = 0 /\ cutOff = FALSE /\ cancelled = FALSE /\ noted = {} /\ execDone = "no"
  /\ produced = [s \in Streams |-> 0] /\ kept = [s \in Streams |-> 0]

Keep(s, n) == kept' = [kept EXCEPT ![s] = @ + n]

\* Mutant: each stream is held to the limit by itself.
StreamWriteApart(s, n) ==
  /\ execDone # "output" \/ cutOff
  /\ produced[s] + n <= MaxOutput
  /\ produced' = [produced EXCEPT ![s] = @ + n]
  /\ IF execLimit # 0 /\ n > execLimit - kept[s]
     THEN Keep(s, execLimit - kept[s]) /\ cutOff' = TRUE /\ cancelled' = TRUE
     ELSE Keep(s, n) /\ UNCHANGED <<cutOff, cancelled>>
  /\ UNCHANGED <<execLimit, used, noted, execDone>>

\* execStream.Write of n bytes.  The copying goroutines of a stream that failed
\* or was cancelled may still write when finish has run.
StreamWrite(s, n) ==
  /\ execDone # "output" \/ cutOff
  /\ produced[s] + n <= MaxOutput
  /\ produced' = [produced EXCEPT ![s] = @ + n]
  /\ CASE cutOff -> UNCHANGED <<kept, used, cutOff, cancelled>>
       [] ~cutOff /\ execLimit = 0 -> Keep(s, n) /\ UNCHANGED <<used, cutOff, cancelled>>
       [] ~cutOff /\ execLimit # 0 /\ n > execLimit - used ->
            /\ Keep(s, execLimit - used) /\ used' = execLimit
            /\ cutOff' = TRUE /\ cancelled' = TRUE
       [] OTHER -> Keep(s, n) /\ used' = used + n /\ UNCHANGED <<cutOff, cancelled>>
  /\ UNCHANGED <<execLimit, noted, execDone>>

\* finish: the stream ended, with or without an error.  Once the output was cut,
\* either is the cut.
Finish(err) ==
  /\ execDone = "no"
  /\ execDone' = IF err /\ ~cutOff THEN "error" ELSE "output"
  /\ noted' = IF cutOff THEN {IF kept["stdout"] > 0 THEN "stdout" ELSE "stderr"} ELSE noted
  /\ UNCHANGED <<execLimit, used, cutOff, cancelled, produced, kept>>

-----------------------------------------------------------------------------
(* Properties. *)

ExecTypeOK ==
  /\ execLimit \in Nat /\ used \in Nat
  /\ cutOff \in BOOLEAN /\ cancelled \in BOOLEAN
  /\ produced \in [Streams -> Nat] /\ kept \in [Streams -> Nat]
  /\ noted \subseteq Streams
  /\ execDone \in {"no", "output", "error"}

\* execOutput: both streams together never hold more than the limit.
ExecWithinLimit == execLimit # 0 => kept["stdout"] + kept["stderr"] <= execLimit

\* What pods_exec returns is all the command wrote, or says that it is not;
\* output that just fits is not called cut.  A cut cancels the exec.
ExecOutputIsHonest ==
  /\ execDone = "output" => (noted = {} <=> kept = produced)
  /\ cutOff => cancelled
=============================================================================
