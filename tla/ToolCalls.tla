------------------------------ MODULE ToolCalls ------------------------------
(***************************************************************************)
(* A tool call or prompt, from the filter that decides whether it is        *)
(* offered to the result the client gets (pkg/mcp), with the handler's       *)
(* requests to the cluster in between.  The handlers are the programs of     *)
(* the toolset modules; this module runs one program at a time, a step per   *)
(* action, against an API server that may refuse a request, or carry it out  *)
(* and lose the answer, and next to other clients that write the objects a   *)
(* handler has read.                                                        *)
(*                                                                         *)
(* Discovery, and the access review of ResourcesList, are not requests here: *)
(* every authenticated user may make them.                                  *)
(***************************************************************************)
EXTENDS ToolSteps, Integers, FiniteSets

CONSTANTS
  Tools,       \* the entries of the toolsets: name, decl, handler
  Modes,       \* server modes: read_only, disable_destructive, confirm destructive tools
  MaxItems     \* bound on the items a loop sees

ASSUME ToolsAssumption ==
  /\ MaxItems \in Nat
  /\ "" \notin {t.name : t \in Tools}
  /\ \A s, t \in Tools : s.name = t.name => s = t

VARIABLES
  mode,      \* the configuration of this call
  call,      \* the name of what runs, "" when nothing does
  accepted,  \* the user accepted an elicitation of this call
  todo,      \* the steps left
  facts,     \* the conditions looked at so far: a set of <<fact, value>>
  text,      \* the innermost builder: "empty", "some", "full" or "cut"
  unseen,    \* how scratches were cut of which the builder around shows nothing
  cutFetch,  \* what a request was started in spite of: "cut", or a member of unseen
  asked,     \* what the last request needs: a set of <<verb, resource>>
  written,   \* the writes that took effect: a set of [verb, res, stale]
  failed,    \* the writes whose error the handler saw
  fresh,     \* resources read whose copy is still current
  known,     \* resources read
  result     \* "none", "rejected" (arguments), "error" or "ok"

requests == <<asked, written, failed, fresh, known, cutFetch>>
effects == <<requests, unseen>>
progress == <<todo, facts, text, result>>
vars == <<mode, call, accepted, progress, effects>>

Names == {t.name : t \in Tools}
Entries == [n \in Names |-> CHOOSE t \in Tools : t.name = n]
Decl == Entries[call].decl

Replacing == {"update", "overwrite", "patch", "apply", "delete", "exec", "exec post", "http write"}
Repeating == {"create new", "apply new", "exec", "exec post"}
Writing == {"create"} \cup Replacing \cup Repeating

\* The RBAC verbs of a request: server-side apply creates or patches.
Authorized(verb) ==
  CASE verb \in {"create new", "exec post"} -> {"create"}
    [] verb \in {"apply", "apply new"} -> {"create", "patch"}
    [] verb = "overwrite" -> {"update"}
    [] verb = "exec" -> {"get"}
    [] verb = "http write" -> {"http"}
    [] OTHER -> {verb}

Init ==
  /\ mode \in Modes
  /\ call = "" /\ accepted = FALSE
  /\ todo = <<>> /\ facts = {} /\ text = "empty" /\ result = "none"
  /\ asked = {} /\ written = {} /\ failed = {} /\ fresh = {} /\ known = {}
  /\ unseen = {} /\ cutFetch = {}

-----------------------------------------------------------------------------
(* Before the handler. *)

\* Mutant: the error of a handler is returned as the text of a success.
EndInText(r) == result' = (IF r = "error" THEN "ok" ELSE r) /\ todo' = <<>>

\* The call returns r.
End(r) == result' = r /\ todo' = <<>>

\* Mutant: read_only takes away the destructive tools only.
OfferedUnlessDestructive(m, d) ==
  d.kind = "prompt" \/ (m.readOnly \/ m.disableDestructive => ~d.destructive)

\* isToolApplicable; prompts are not filtered by the modes.  The lists of tool
\* names and the compatibility filters only take more tools away.
Offered(m, d) ==
  \/ d.kind = "prompt"
  \/ /\ m.readOnly => d.readOnly
     /\ m.disableDestructive => ~d.destructive

\* A rule `destructive = true' matches the tool (MatchToolLevelRules).
NeedsConfirmation(m, d) == m.confirm # "no" /\ d.kind = "tool" /\ d.destructive

\* CheckConfirmation: the user accepts, or the client cannot ask and the fallback
\* allows the call.
Confirmed(m) == {TRUE} \cup (IF m.confirm = "or allow" THEN {FALSE} ELSE {})

\* The call arrives.  A matched rule asks the user first; a call that is denied
\* ends, and so does one without a client for its target.
Start(t) ==
  /\ call = ""
  /\ Offered(mode, t.decl)
  /\ call' = t.name
  /\ \/ /\ accepted' \in IF NeedsConfirmation(mode, t.decl) THEN Confirmed(mode) ELSE {FALSE}
        /\ todo' = t.handler /\ UNCHANGED result
     \/ accepted' = FALSE /\ End("error")
  /\ UNCHANGED <<mode, facts, text, effects>>

-----------------------------------------------------------------------------
(* The steps of a handler. *)

Running(op) == call # "" /\ result = "none" /\ todo # <<>> /\ Head(todo).op = op
Step == Head(todo)
Rest == Tail(todo)

Go(steps) == todo' = steps \o Rest /\ UNCHANGED result

\* Where the innermost enclosing marker is, and the steps after it.
Markers(marker) == {i \in 1 .. Len(todo) : todo[i].op = marker}
First(marker) == CHOOSE i \in Markers(marker) : \A j \in Markers(marker) : i <= j
After(marker) ==
  IF Markers(marker) = {} THEN <<>> ELSE SubSeq(todo, First(marker) + 1, Len(todo))

CheckArgs ==
  /\ Running("args")
  /\ Go(<<>>) \/ End("rejected")
  /\ UNCHANGED <<mode, call, accepted, facts, text, effects>>

LocalStep ==
  /\ \/ Running("may fail") /\ (Go(<<>>) \/ End("error"))
     \/ Running("fail") /\ End("error")
     \/ Running("return") /\ todo' = <<>> /\ UNCHANGED result
  /\ UNCHANGED <<mode, call, accepted, facts, text, effects>>

\* A condition is decided the first time it is looked at.
Branch ==
  /\ Running("if")
  /\ \E v \in BOOLEAN :
       /\ <<Step.fact, ~v>> \notin facts
       /\ facts' = facts \cup {<<Step.fact, v>>}
       /\ Go(IF v THEN Step.body ELSE Step.other)
  /\ UNCHANGED <<mode, call, accepted, text, effects>>

Choice ==
  /\ Running("either")
  /\ Go(Step.body) \/ Go(Step.other)
  /\ UNCHANGED <<mode, call, accepted, facts, text, effects>>

\* A loop sees up to MaxItems items, one at a time.
Item(body) == [op |-> "item", body |-> body]
LoopEnd == [op |-> "end"]

Loop ==
  /\ Running("each")
  /\ \E n \in 0 .. MaxItems :
       Go([i \in 1 .. n |-> Item(Step.body)] \o <<LoopEnd>>)
  /\ UNCHANGED <<mode, call, accepted, facts, text, effects>>

LoopStep ==
  /\ \/ Running("item") /\ Go(Step.body)
     \/ Running("end") /\ Go(<<>>)
     \/ Running("break") /\ todo' = After("end") /\ UNCHANGED result
  /\ UNCHANGED <<mode, call, accepted, facts, text, effects>>

-----------------------------------------------------------------------------
(* Requests. *)

\* What the handler does with an error: TrySection drops the scratch of a section
\* that is abandoned, and goes on with the builder around it.
HandleError ==
  \/ Step.onErr = "fail" /\ End("error") /\ UNCHANGED text
  \/ Step.onErr = "recover" /\ Go(Step.other) /\ UNCHANGED text
  \/ /\ Step.onErr = "abandon"
     /\ todo' = After("commit")
     /\ text' = IF Markers("commit") = {} THEN text ELSE todo[First("commit")].parent
     /\ UNCHANGED result

Conflict == Step.verb = "update" /\ Step.res \in known \ fresh

Effect ==
  written' = written \cup {[verb |-> Step.verb, res |-> Step.res,
                            stale |-> Step.res \in known \ fresh]}

\* Every request is made before its answer is known.
Send ==
  /\ Running("request")
  /\ asked' = {<<v, Step.res>> : v \in Authorized(Step.verb)}
  /\ cutFetch' = IF Step.verb \in Writing THEN cutFetch
                  ELSE cutFetch \cup unseen \cup ({"cut"} \cap {text})
  /\ UNCHANGED <<mode, call, accepted, facts, unseen>>

\* The request succeeds; an update of an object somebody else has changed since
\* it was read does not.
Answered ==
  /\ Send
  /\ ~Conflict
  /\ Go(<<>>)
  /\ IF Step.verb \in Writing THEN Effect /\ UNCHANGED <<fresh, known>>
     ELSE /\ IF Step.verb = "get"
             THEN fresh' = fresh \cup {Step.res} /\ known' = known \cup {Step.res}
             ELSE UNCHANGED <<fresh, known>>
          /\ UNCHANGED written
  /\ UNCHANGED <<text, failed>>

\* Refused: no such object, forbidden, a conflict, a declined confirmation, or
\* no connection.
Refused ==
  /\ Send
  /\ HandleError
  /\ failed' = IF Step.verb \in Writing THEN failed \cup {<<Step.verb, Step.res>>} ELSE failed
  /\ UNCHANGED <<written, fresh, known>>

\* A write takes effect and its answer is lost.
AnswerLost ==
  /\ Send
  /\ Step.verb \in Writing /\ ~Conflict
  /\ Effect
  /\ HandleError
  /\ failed' = failed \cup {<<Step.verb, Step.res>>}
  /\ UNCHANGED <<fresh, known>>

\* Another client changes an object this call has read.
OtherWrites ==
  /\ call # "" /\ result = "none"
  /\ \E r \in fresh : fresh' = fresh \ {r}
  /\ UNCHANGED <<mode, call, accepted, progress, asked, written, failed, known,
                 unseen, cutFetch>>

-----------------------------------------------------------------------------
(* The result text. *)

\* WriteString: what fits is kept, exactly or with room left; otherwise a
\* prefix and the notice.  A builder that was cut ignores the write.
Written(b) == IF b = "cut" THEN {"cut"} ELSE {"some", "full", "cut"}

PutText ==
  /\ Running("write")
  /\ text' \in Written(text)
  /\ Go(<<>>)
  /\ UNCHANGED <<mode, call, accepted, facts, effects>>

\* Mutant: a section is started without looking at the room that is left.
StartSectionUnchecked ==
  /\ Running("section")
  /\ Go(Step.body)
  /\ UNCHANGED <<mode, call, accepted, facts, text, effects>>

\* spent: a cut builder starts nothing more, and one that is exactly full gets
\* its notice now.
StartSection ==
  /\ Running("section")
  /\ IF text \in {"full", "cut"}
     THEN text' = "cut" /\ Go(<<>>)
     ELSE Go(Step.body) /\ UNCHANGED text
  /\ UNCHANGED <<mode, call, accepted, facts, effects>>

StartUnlessCut ==
  /\ Running("unless cut")
  /\ Go(IF text = "cut" THEN <<>> ELSE Step.body)
  /\ UNCHANGED <<mode, call, accepted, facts, text, effects>>

\* Scratch: a builder of its own until it is committed to its parent.  Its room is
\* what the parent accepts less the header.  With no room the scratch is cut from
\* the start and nothing is gathered; the excerpts of the health check still list
\* first.
Committing(s, parent) == [op |-> "commit", kind |-> s.kind, other |-> s.other, parent |-> parent]

StartScratch ==
  /\ Running("scratch")
  /\ \/ /\ text \in {"empty", "some"}
        /\ Go(Step.body \o <<Committing(Step, text)>>)
        /\ text' = "empty" /\ UNCHANGED unseen
     \/ /\ Go(Step.other)
        /\ unseen' = IF text = "cut" THEN unseen ELSE unseen \cup {"dropped"}
        /\ UNCHANGED text
  /\ UNCHANGED <<mode, call, accepted, facts, requests>>

\* CommitScratch and WriteCut of a scratch that was not cut; an empty or blank one
\* writes nothing.
CommitWhole ==
  /\ text # "cut"
  /\ text' \in {Step.parent} \cup (IF text = "empty" THEN {} ELSE {"some", "full"})
  /\ Go(<<>>)
  /\ UNCHANGED unseen

\* ... and of one that was cut.  It cuts its parent, unless all that is kept of it
\* is blank and is dropped, or it holds log bytes that are no UTF-8: the cut may then
\* be so much shorter than the room that the notice fits behind it, and the caller
\* is not told to stop.
CommitCut ==
  /\ text = "cut"
  /\ \/ text' = "cut" /\ Go(Step.other) /\ UNCHANGED unseen
     \/ text' = Step.parent /\ Go(Step.other) /\ unseen' = unseen \cup {"dropped"}
     \/ /\ Step.kind = "block"
        /\ text' \in {"some", "full"} /\ Go(<<>>) /\ unseen' = unseen \cup {"ragged"}

\* writeSummaryAndBlocks: the summary, then the text of the scratch, with its notice;
\* the room of one that is padded was counted with both.
Copied(parent, padded) == IF padded THEN Written(parent) \ {"cut"} ELSE Written(parent)

CommitCopy ==
  /\ text' \in Copied(Step.parent, Step.kind = "padded")
  /\ unseen' = IF text = "cut" /\ text' # "cut" THEN unseen \cup {"copied"} ELSE unseen
  /\ Go(<<>>)

Commit ==
  /\ Running("commit")
  /\ IF Step.kind \in {"section", "block"} THEN CommitWhole \/ CommitCut ELSE CommitCopy
  /\ UNCHANGED <<mode, call, accepted, facts, requests>>

-----------------------------------------------------------------------------
(* After the handler. *)

\* rejectOversizedToolResult, promptWithinLimit: text that is not built under the
\* budget, or has structured content next to it, may be too much, and the client
\* gets an error instead.
Returned ==
  /\ call # "" /\ result = "none" /\ todo = <<>>
  /\ End("ok") \/ End("error")
  /\ UNCHANGED <<mode, call, accepted, facts, text, effects>>

\* The client has its answer; the next call starts from nothing.
Forget ==
  /\ result # "none"
  /\ call' = "" /\ accepted' = FALSE
  /\ todo' = <<>> /\ facts' = {} /\ text' = "empty" /\ result' = "none"
  /\ asked' = {} /\ written' = {} /\ failed' = {} /\ fresh' = {} /\ known' = {}
  /\ unseen' = {} /\ cutFetch' = {}
  /\ UNCHANGED mode

Next ==
  \/ \E t \in Tools : Start(t)
  \/ CheckArgs \/ LocalStep \/ Branch \/ Choice \/ Loop \/ LoopStep
  \/ Answered \/ Refused \/ AnswerLost \/ OtherWrites
  \/ PutText \/ StartSection \/ StartUnlessCut \/ StartScratch \/ Commit
  \/ Returned \/ Forget

Spec == Init /\ [][Next]_vars

-----------------------------------------------------------------------------
(* Properties. *)

\* Every variable holds a value of its type.
TypeOK ==
  /\ mode \in Modes
  /\ call \in Names \cup {""}
  /\ accepted \in BOOLEAN
  /\ unseen \subseteq {"copied", "dropped", "ragged"} /\ cutFetch \subseteq unseen \cup {"cut"}
  /\ result \in {"none", "rejected", "error", "ok"}
  /\ text \in {"empty", "some", "full", "cut"}
  /\ fresh \subseteq known

\* read_only: no path of any handler that is still offered, prompts included,
\* changes the cluster (isToolApplicable, api.ToolAnnotations.ReadOnlyHint).
ReadOnlyModeNeverWrites == mode.readOnly => written = {}

\* disable_destructive, and a confirmation rule for destructive tools: nothing
\* is replaced, deleted or run in a container by a tool that was neither
\* filtered nor confirmed (fallback "deny").  pods_run is the exception: it is not
\* declared destructive, and overwrites a pod, service or route of the name it is
\* given.
NoUnconfirmedDestruction ==
  mode.disableDestructive \/ (mode.confirm = "or deny" /\ ~accepted) =>
    \A w \in written : w.verb \in Replacing => call = "pods_run"

\* IdempotentHint ("calling the tool repeatedly with the same arguments will have no
\* additional effect", api.ToolAnnotations): a client that lost the answer and calls
\* again adds nothing.  vm_clone is the exception: each call makes another
\* VirtualMachineClone with a generated name.
IdempotentToolsRepeatNothing ==
  call \notin {"", "vm_clone"} => (Decl.idempotent => \A w \in written : w.verb \notin Repeating)

\* RBAC metadata ("every Kubernetes API authorization check that the tool may perform
\* must be covered by the declaration", docs/tool-rbac-metadata.md): every request of
\* a handler, whatever branch, fallback or error path it is on, is declared.  vm_create
\* is the exception: server-side apply of an object that does not exist is authorized
\* as a create too.
DeclaredRBACCovers ==
  call \notin {"", "vm_create"} =>
    \A r \in {x \in asked : x[1] # "http"} :
      CASE Decl.rbac.form = "none" -> FALSE
        [] Decl.rbac.form = "bounded" -> r \in Decl.rbac.allow
        [] OTHER -> TRUE

\* What the tools' declarations promise to the modes, to the confirmation rules, to
\* clients that retry and to whoever writes a role, the handlers keep.
DeclarationsHold ==
  /\ ReadOnlyModeNeverWrites
  /\ NoUnconfirmedDestruction
  /\ IdempotentToolsRepeatNothing
  /\ DeclaredRBACCovers

\* A call that is turned down for its arguments has changed nothing: no handler
\* writes first and reads an argument later.
RejectedArgumentsChangeNothing == result = "rejected" => written = {}

\* A handler that reports success has seen no write fail.  PodsDelete's services
\* and routes are the exception: it ignores their errors.
SuccessMeansWritten ==
  result = "ok" => \A f \in failed :
    call = "pods_delete" /\ f \in {<<"delete", "services">>, <<"delete", "routes">>}

\* What another client wrote since the call read an object is not overwritten:
\* an object is written back with the resourceVersion it was read with.
NoLostUpdate ==
  \A w \in written : w.verb \in {"update", "overwrite", "apply"} => ~w.stale

\* Arguments that are refused changed nothing, a success hides no write that was
\* seen to fail, and nothing is written over that the handler has not seen.  An
\* error may still follow writes that took effect.
WritesAreHonest == RejectedArgumentsChangeNothing /\ SuccessMeansWritten /\ NoLostUpdate

\* How a cut of a scratch of this kind may be unseen in the builder around it.
Unseen(kind) ==
  {"dropped"} \cup (CASE kind = "section" -> {}
                     [] kind = "block" -> {"ragged"}
                     [] OTHER -> {"copied"})

\* Where a fetch may follow a cut that the builder does not show.
CutGoesUnseen(name) ==
  CASE name = "cluster-health-check" -> {"dropped", "copied"}
    [] name \in {"tekton_pipelinerun_logs", "pipeline-troubleshoot"} -> {"dropped", "ragged"}
    [] OTHER -> {}

\* docs/specs/memory-bounds.md:69: a collector "does not start another fetch after
\* Truncated() is set", and pkg/api/resultbudget.go:255: "Callers stop fetching when
\* the scratch is truncated".  No fetch is started on a builder that was cut.  The
\* exceptions are the collectors that gather in scratches, when the scratch was cut
\* and the builder around it was not.  The health check copies its excerpts as they
\* are, notice and all, so that its next section lists again for a result that says
\* it was truncated; a block of pod logs that are not UTF-8 may leave room for its
\* notice, and the next block is fetched; a scratch with no room, or of which only
\* blanks are kept, is dropped, and the next section runs if its header fits.
NoFetchAfterCut == cutFetch \subseteq CutGoesUnseen(call)
=============================================================================
