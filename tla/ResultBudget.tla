---------------------------- MODULE ResultBudget ----------------------------
(***************************************************************************)
(* api.BuilderWithBudget (pkg/api/resultbudget.go): the text of a result     *)
(* under max_result_bytes.  A section is gathered in a Scratch that may hold *)
(* what its parent still accepts less a header and a suffix, and is then     *)
(* written into the parent; scratches nest.                                 *)
(*                                                                         *)
(* A text is its length, and whether it has anything but white space in it.  *)
(* A call is `plain' when no text of it has more than Rune continuation      *)
(* bytes in a row, as in valid UTF-8, and none brings a notice of its own.   *)
(* Raw pod logs need not be UTF-8, the health check copies a scratch with    *)
(* its notice, and pipeline_troubleshoot writes the notice itself.           *)
(***************************************************************************)
EXTENDS Integers

CONSTANTS
  ResultLimits,  \* what max_result_bytes may be; 0 is no cap
  Notice,        \* the length of ResultTruncationNotice
  MaxDepth,      \* bound on the nesting of scratches
  MaxText,       \* bound on the length of a write, and of a text without a cap
  MaxWrap        \* bound on the length of a header or a suffix

Rune == 3    \* a rune has at most this many continuation bytes
Extra == 1   \* appendTaskBlock reserves one byte for a newline

ASSUME BudgetAssumption ==
  /\ ResultLimits \subseteq Nat
  /\ Notice \in Nat /\ Notice > Rune + Extra
  /\ MaxDepth \in Nat \ {0} /\ MaxText \in Nat /\ MaxWrap \in Nat

VARIABLES
  maxResult,  \* max_result_bytes of this call
  plain,      \* what its texts are like, see above
  assistant,  \* the length of the text a prompt set aside
  builder,    \* the BuilderWithBudget at each depth
  wrap,       \* the header and suffix that are written with it
  spare,      \* what Scratch reserved beyond those
  depth       \* the innermost builder

budgetVars == <<maxResult, plain, assistant, builder, wrap, spare, depth>>

Depths == 1 .. MaxDepth

-----------------------------------------------------------------------------
(* BuilderWithBudget. *)

\* A limit of 0 is no cap.  A builder is cut by a write that does not fit, or has
\* no room from the start; `body' tells white space from text.
Builders == [limit : Nat, len : Nat, state : {"open", "cut", "roomless"},
             body : {"blank", "text"}, notices : Nat]

NewBuilderWithBudget(l) ==
  [limit |-> l, len |-> 0, state |-> "open", body |-> "blank", notices |-> 0]
NoRoom == [NewBuilderWithBudget(0) EXCEPT !.state = "roomless"]

Truncated(b) == b.state # "open"
Capped(b) == b.limit # 0 \/ b.state = "roomless"
Remaining(b) == IF Truncated(b) \/ b.len > b.limit THEN 0 ELSE b.limit - b.len

\* Mutant: a scratch gets the limit of its parent, whatever that holds.
ScratchWhole(b, reserve) ==
  CASE ~Capped(b) -> NewBuilderWithBudget(0)
    [] Capped(b) /\ Remaining(b) > reserve -> NewBuilderWithBudget(b.limit - reserve)
    [] OTHER -> NoRoom

\* Without room the builder is truncated from the start, and has no notice.
Scratch(b, reserve) ==
  CASE ~Capped(b) -> NewBuilderWithBudget(0)
    [] Capped(b) /\ Remaining(b) > reserve -> NewBuilderWithBudget(Remaining(b) - reserve)
    [] OTHER -> NoRoom

Extend(b, n, white) ==
  [b EXCEPT !.len = @ + n, !.body = IF white \/ n = 0 THEN @ ELSE "text"]

CutOff(b, n, white) ==
  [b EXCEPT !.len = @ + n + Notice, !.body = IF white \/ n = 0 THEN @ ELSE "text",
            !.state = "cut", !.notices = @ + 1]

\* How many bytes early a prefix ends: WriteString walks back over every
\* continuation byte it finds.
Shortfalls == IF plain THEN 0 .. Rune ELSE 0 .. MaxText

\* n bytes, or a prefix that ends `short' bytes early, where a rune may start.
WriteString(b, n, short, white) ==
  CASE Truncated(b) -> b
    [] ~Truncated(b) /\ (~Capped(b) \/ n <= Remaining(b)) -> Extend(b, n, white)
    [] OTHER -> CutOff(b, IF short > Remaining(b) THEN 0 ELSE Remaining(b) - short, white)

\* WriteString(ResultTruncationNotice): it may be cut itself.
WriteNotice(b) ==
  IF ~Capped(b) \/ Notice <= Remaining(b)
  THEN [Extend(b, Notice, FALSE) EXCEPT !.notices = @ + 1]
  ELSE CutOff(b, Remaining(b), FALSE)

\* Prefix: the text without its notice.
Prefix(b) == IF b.state = "cut" THEN b.len - Notice ELSE b.len

\* Mutant: the notice of the scratch is written with its text.
WriteCutTwice(b, n, wasCut, short) ==
  IF Truncated(b) \/ n = 0 THEN b
  ELSE LET w == WriteString(b, n, short, FALSE)
       IN IF ~wasCut THEN w ELSE [w EXCEPT !.notices = @ + 1]

\* WriteCut: the text, then the notice when it was cut.
WriteCut(b, n, wasCut, short) ==
  IF Truncated(b) \/ n = 0 THEN b
  ELSE LET w == WriteString(b, n, short, FALSE)
       IN IF Truncated(w) \/ ~wasCut THEN w ELSE WriteNotice(w)

\* writeSummaryAndBlocks: a summary, then the scratch as it is, with its notice.
CopyScratch(b, summary, inner, short) ==
  WriteString(WriteString(b, summary, short, FALSE), inner.len, short, FALSE)

\* CommitScratch: a scratch with nothing in it is dropped, its cut too.
CommitScratch(b, wrapper, inner, short) ==
  IF inner.body = "blank" THEN b
  ELSE WriteCut(b, wrapper + Prefix(inner), Truncated(inner), short)

-----------------------------------------------------------------------------
(* The steps of a collector. *)

\* NewBuilderWithBudget of a tool, NewPromptBudget of a prompt.
BudgetInit ==
  /\ maxResult \in ResultLimits \cup {0}
  /\ plain \in BOOLEAN
  /\ assistant \in 0 .. MaxWrap
  /\ builder = [i \in Depths |->
                  IF i = 1 THEN Scratch(NewBuilderWithBudget(maxResult), assistant)
                  ELSE NewBuilderWithBudget(0)]
  /\ wrap = [i \in Depths |-> 0] /\ spare = [i \in Depths |-> 0]
  /\ depth = 1

Put(n, short, white) ==
  /\ ~Capped(builder[depth]) => builder[depth].len + n <= MaxText
  /\ builder' = [builder EXCEPT ![depth] = WriteString(@, n, short, white)]
  /\ UNCHANGED <<maxResult, plain, assistant, wrap, spare, depth>>

\* spent: a builder that is exactly full gets its notice before the next step.
Spent(b) == Truncated(b) \/ (Capped(b) /\ Remaining(b) = 0)

StopWhenSpent == Spent(builder[depth]) /\ Put(1, 0, TRUE)

\* TrySection, appendTaskBlock: nothing is gathered when there is no room.
OpenSection(header, suffix, extra) ==
  LET b == Scratch(builder[depth], header + suffix + extra) IN
  /\ depth < MaxDepth
  /\ ~Truncated(b)
  /\ builder' = [builder EXCEPT ![depth + 1] = b]
  /\ wrap' = [wrap EXCEPT ![depth + 1] = header + suffix]
  /\ spare' = [spare EXCEPT ![depth + 1] = extra]
  /\ depth' = depth + 1
  /\ UNCHANGED <<maxResult, plain, assistant>>

\* The innermost builder is gone and its parent is b.
BackTo(b) ==
  /\ builder' = [builder EXCEPT ![depth - 1] = b, ![depth] = NewBuilderWithBudget(0)]
  /\ wrap' = [wrap EXCEPT ![depth] = 0] /\ spare' = [spare EXCEPT ![depth] = 0]
  /\ depth' = depth - 1
  /\ UNCHANGED <<maxResult, plain, assistant>>

\* The section is written, with the newline it lacked or without.
CloseSection(newline, short) ==
  /\ depth > 1
  /\ newline \in 0 .. spare[depth]
  /\ ~Capped(builder[depth]) =>
       builder[depth - 1].len + wrap[depth] + newline + builder[depth].len <= MaxText
  /\ BackTo(CommitScratch(builder[depth - 1], wrap[depth] + newline, builder[depth], short))

\* A section that had room for its notice set aside is copied with it.
CopySection(summary, short) ==
  /\ ~plain /\ depth > 1 /\ wrap[depth] >= Notice
  /\ ~Capped(builder[depth]) => builder[depth - 1].len + summary + builder[depth].len <= MaxText
  /\ BackTo(CopyScratch(builder[depth - 1], summary, builder[depth], short))

\* A gather error: nothing is written.
DropSection == depth > 1 /\ BackTo(builder[depth - 1])

-----------------------------------------------------------------------------
(* Properties. *)

BudgetTypeOK ==
  /\ maxResult \in Nat /\ plain \in BOOLEAN /\ assistant \in Nat
  /\ builder \in [Depths -> Builders]
  /\ wrap \in [Depths -> Nat] /\ spare \in [Depths -> 0 .. Extra]
  /\ depth \in Depths

\* Whatever was gathered, nested and cut, and whatever bytes it was made of,
\* overResultLimit accepts the text: it exceeds the limit by the notice at most.
\* A prompt whose own assistant text is over the limit adds nothing to it.
NeverRejected ==
  maxResult # 0 =>
    assistant + builder[1].len <= Notice + (IF assistant > maxResult THEN assistant ELSE maxResult)

\* BuilderWithBudget, in a call whose texts are plain: a text that was cut has one
\* notice and is not written to again; one that was not has none, also when it
\* fills its limit exactly and when it holds sections that were gathered apart.
\* Otherwise the notice of a section may fit into its parent, which is not cut
\* then and may get a second one.
OneNotice ==
  plain => \A i \in 1 .. depth :
             builder[i].notices = (IF builder[i].state = "cut" THEN 1 ELSE 0)

\* In a call whose texts are plain, a section that was cut cuts the text it goes
\* into: no collector goes on as if there were room.  Only one with nothing but
\* white space in it is dropped.
CutReachesParent ==
  [][plain /\ depth' < depth /\ Truncated(builder[depth]) /\ builder'[depth'] # builder[depth']
       => Truncated(builder'[depth'])]_budgetVars
=============================================================================
