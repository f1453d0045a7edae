----------------------------- MODULE ResultPath -----------------------------
(***************************************************************************)
(* How bytes get from a backend into a result: a collector that fetches,     *)
(* each fetch through the cap on backend responses, and writes what it made  *)
(* of it under the cap on results; or a pods_exec.                           *)
(***************************************************************************)
EXTENDS ExecOutput, ResultBudget

CONSTANT BackendNotice   \* the length of BackendTruncationNotice

ASSUME PathAssumption == BackendNotice \in Nat

Phases == {"text", "fetch", "exec", "done", "rejected"}

VARIABLE phase   \* what the handler is doing, or what became of its result

vars == <<bodyVars, execVars, budgetVars, phase>>

Init ==
  /\ NoBody /\ ExecInit /\ BudgetInit
  /\ phase \in {"text", "exec"}
  /\ phase = "text" => execLimit = 0

\* Sections start a step, and with it a fetch, only when there is room.
StartFetch ==
  /\ phase = "text" /\ ~Spent(builder[depth])
  /\ RoundTrip
  /\ phase' = "fetch"
  /\ UNCHANGED <<execVars, budgetVars>>

Fetch == phase = "fetch" /\ (ReadBody \/ CloseBody) /\ UNCHANGED <<execVars, budgetVars, phase>>

\* ReadCapped turns every error into no text; AcceptTruncated keeps the bytes of a
\* response that was too large.
Text ==
  CASE outcome = "complete" -> 0 .. MaxText
    [] outcome = "oversized" -> {got + BackendNotice}
    [] OTHER -> {}

\* The handler writes what it made of the response, or reports its error: in the
\* text, as the result of the call, or by abandoning the section.  The response
\* is gone then.
UseFetch ==
  /\ phase = "fetch" /\ outcome \notin {"idle", "reading"} /\ closes > 0
  /\ \/ \E n \in Text, short \in Shortfalls, white \in BOOLEAN : Put(n, short, white) /\ phase' = "text"
     \/ outcome # "complete" /\ phase' \in {"text", "done"} /\ UNCHANGED budgetVars
     \/ outcome # "complete" /\ DropSection /\ phase' = "text"
  /\ Body(0, 0, "idle")
  /\ UNCHANGED execVars

Collect ==
  /\ phase = "text"
  /\ \/ \E n \in 0 .. MaxText, short \in Shortfalls, white \in BOOLEAN : Put(n, short, white)
     \/ StopWhenSpent
     \/ \E h, s \in 0 .. MaxWrap, e \in 0 .. Extra : OpenSection(h, s, e)
     \/ \E h \in 0 .. MaxWrap : ~plain /\ OpenSection(h, Notice, 0)
     \/ \E e \in 0 .. Extra, short \in Shortfalls : CloseSection(e, short)
     \/ \E n \in 0 .. MaxWrap, short \in Shortfalls : CopySection(n, short)
  /\ UNCHANGED <<bodyVars, execVars, phase>>

RunExec ==
  /\ phase = "exec"
  /\ (\E s \in Streams, n \in 1 .. MaxOutput : StreamWrite(s, n)) \/ (\E err \in BOOLEAN : Finish(err))
  /\ UNCHANGED <<bodyVars, budgetVars, phase>>

\* The last check, of text alone: structured content and blocks are added to it
\* in the code.
overResultLimit(text) == maxResult # 0 /\ text > maxResult + Notice

Return ==
  /\ phase = "text" /\ depth = 1
  /\ phase' = IF overResultLimit(assistant + builder[1].len) THEN "rejected" ELSE "done"
  /\ UNCHANGED <<bodyVars, execVars, budgetVars>>

Next == StartFetch \/ Fetch \/ UseFetch \/ Collect \/ RunExec \/ Return

Spec == Init /\ [][Next]_vars

-----------------------------------------------------------------------------
(* Properties. *)

TypeOK == BodyTypeOK /\ ExecTypeOK /\ BudgetTypeOK /\ phase \in Phases

\* What the texts down to a depth hold together.
Held[i \in 0 .. MaxDepth] == IF i = 0 THEN 0 ELSE Held[i - 1] + builder[i].len

\* docs/specs/memory-bounds.md, Retention: what the handler holds at any time, all
\* scratches and one response together, is bounded by the two limits, with one
\* notice and the byte that showed the response to be too large.
RetentionIsBounded ==
  maxResult # 0 /\ (cap # 0 \/ phase # "fetch") =>
    Held[depth] <= maxResult + Notice /\ (phase = "fetch" => got <= cap)

\* responselimit.go: what the consumer of a response is told about it is true, and
\* its body is closed once.
ResponseIsHonest == CompleteMeansWhole /\ TooLargeMeansLonger /\ ClosedOnce

\* PodsExec: the two streams share one limit, and the output is whole or says that
\* it is not.
ExecIsHonest == ExecWithinLimit /\ ExecOutputIsHonest

\* resultbudget.go: a text built under the budget is accepted by the last check,
\* whatever its bytes are; when they are plain, it says once that it was cut.
BudgetIsKept == NeverRejected /\ OneNotice
=============================================================================
