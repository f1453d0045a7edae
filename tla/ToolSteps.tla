------------------------------ MODULE ToolSteps ------------------------------
(***************************************************************************)
(* The vocabulary in which the toolset modules write down what a tool or    *)
(* prompt handler does (pkg/toolsets).  A handler is a program: a sequence  *)
(* of steps, where a step is a request, a place where the call may fail, a  *)
(* branch, a loop, or an operation on the text that is going to be the      *)
(* result.  ToolCalls runs the programs.                                    *)
(*                                                                         *)
(* A step with an operand that is itself a program holds it in `body' (and  *)
(* `other'); running the step puts that program in front of what is left,   *)
(* so no program needs a jump.                                              *)
(*                                                                         *)
(* What a handler computes and prints is left out: what is kept of it is    *)
(* that the text grows and may reach its limit.                             *)
(***************************************************************************)
EXTENDS Sequences

-----------------------------------------------------------------------------
(* Requests.  `onErr' says what the handler does with an error: it gives up  *)
(* the call (fail), abandons the section being gathered (abandon), or goes   *)
(* on with the program in `other' (recover).                                 *)

Request(verb, res) ==
  <<[op |-> "request", verb |-> verb, res |-> res, onErr |-> "fail", other |-> <<>>]>>

Get(res) == Request("get", res)
List(res) == Request("list", res)
Create(res) == Request("create", res)          \* under a name the caller gave
CreateNew(res) == Request("create new", res)   \* metadata.generateName, or a random name
Update(res) == Request("update", res)          \* PUT of the object read before, with its resourceVersion
Overwrite(res) == Request("overwrite", res)    \* PUT without a resourceVersion
Patch(res) == Request("patch", res)
Apply(res) == Request("apply", res)            \* server-side apply with Force, of a given name
ApplyNew(res) == Request("apply new", res)     \* the same under a random name
Delete(res) == Request("delete", res)
Exec(res) == Request("exec", res)              \* a command in a container, over GET
ExecPost(res) == Request("exec post", res)     \* the same over POST
Ask(backend) == Request("http", backend)       \* a backend that is not the Kubernetes API
AskToWrite(backend) == Request("http write", backend)  \* ... and that changes the cluster

\* The same request when its error does not end the call.
OnError(request, steps) == <<[request[1] EXCEPT !.onErr = "recover", !.other = steps]>>
IgnoreError(request) == OnError(request, <<>>)
AbandonOnError(request) == <<[request[1] EXCEPT !.onErr = "abandon"]>>

-----------------------------------------------------------------------------
(* Control. *)

Args == <<[op |-> "args"]>>           \* arguments are read and may be refused
MayFail == <<[op |-> "may fail"]>>    \* a local step with an error return: discovery, conversion
Fail == <<[op |-> "fail"]>>           \* return an error
Return == <<[op |-> "return"]>>       \* return what there is

\* A condition that is the same each time the call looks at it.
If(fact, yes, no) == <<[op |-> "if", fact |-> fact, body |-> yes, other |-> no]>>
When(fact, yes) == If(fact, yes, <<>>)

\* A condition that may turn out differently the next time.
Either(one, another) == <<[op |-> "either", body |-> one, other |-> another]>>
Maybe(steps) == Either(steps, <<>>)

\* A loop over items of a list; Break leaves the innermost one.
Each(steps) == <<[op |-> "each", body |-> steps]>>
Break == <<[op |-> "break"]>>

-----------------------------------------------------------------------------
(* The result text, api.BuilderWithBudget. *)

Write == <<[op |-> "write"]>>                             \* WriteString
Section(steps) == <<[op |-> "section", body |-> steps]>>  \* one Step of Sections
UnlessCut(steps) == <<[op |-> "unless cut", body |-> steps]>>  \* if b.Truncated() { return }

\* Gather into a Scratch and write it with its header.  TrySection leaves the
\* section out when its header does not fit; a block that finds no room, or was
\* cut, goes on with `full'; an excerpt is copied as it is
\* behind a summary (`padded': room for its notice was set aside).
Scratch(kind, steps, other) == <<[op |-> "scratch", kind |-> kind, body |-> steps, other |-> other]>>
TrySection(steps) == Scratch("section", steps, <<>>)
Block(steps, full) == Scratch("block", steps, full)
Excerpt(padded, steps) == Scratch(IF padded THEN "padded" ELSE "excerpt", steps, <<>>)

-----------------------------------------------------------------------------
(* Declarations: the hints of api.ToolAnnotations and the api.RBACMetadata.  *)

RBACNone == [form |-> "none", allow |-> {}]
RBACUnbounded == [form |-> "unbounded", allow |-> {}]
RBACBounded(requirements) == [form |-> "bounded", allow |-> UNION requirements]
Verbs(verbs, res) == {<<v, res>> : v \in verbs}

\* ptr.Deref of an unset hint is false.
ToolDecl(readOnly, destructive, idempotent, rbac) ==
  [kind |-> "tool", readOnly |-> readOnly, destructive |-> destructive,
   idempotent |-> idempotent, rbac |-> rbac]
ReadOnlyTool(rbac) == ToolDecl(TRUE, FALSE, FALSE, rbac)
PromptDecl(rbac) == [ToolDecl(FALSE, FALSE, FALSE, rbac) EXCEPT !.kind = "prompt"]

Entry(name, decl, handler) == [name |-> name, decl |-> decl, handler |-> handler]
=============================================================================
