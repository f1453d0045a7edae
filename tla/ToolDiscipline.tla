--------------------------- MODULE ToolDiscipline ---------------------------
(***************************************************************************)
(* What can be read off a handler without running it: which requests are in *)
(* it, in which order they may come, and which of them come after a look at *)
(* the room that is left.  The programs are nested, so what is inside a step *)
(* is a parameter.                                                          *)
(***************************************************************************)
EXTENDS ToolCalls

CONSTANTS
  Within,   \* of each step, those that running it may lead to
  Exposed   \* ... without first looking whether the text is cut

Steps == DOMAIN Within

\* What a step puts in front of the steps that are left.  A loop is two rounds
\* of it here: what holds of two items holds of any number.
Rounds(body) == <<Item(body), Item(body), LoopEnd>>
Gathered(s) == {s.body \o <<Committing(s, parent)>> : parent \in {"empty", "some"}}

Bare(s) ==
  CASE s.op \in {"if", "either"} -> {s.body, s.other}
    [] s.op = "item" -> {s.body}
    [] s.op = "each" -> {Rounds(s.body)}
    [] s.op \in {"scratch", "commit", "request"} -> {s.other}
    [] OTHER -> {}

Puts(s) ==
  Bare(s) \cup CASE s.op \in {"section", "unless cut"} -> {s.body}
                 [] s.op = "scratch" -> Gathered(s)
                 [] OTHER -> {}

Elements(q) == {q[i] : i \in 1 .. Len(q)}

ASSUME StepsAssumption ==
  /\ DOMAIN Exposed = Steps
  /\ \A t \in Tools : t.handler \in Seq(Steps)
  /\ \A s \in Steps :
       /\ s \in Within[s] /\ Within[s] \subseteq Steps /\ s \in Exposed[s]
       /\ \A q \in Puts(s) :
            q \in Seq(Steps) /\ \A e \in Elements(q) : Within[e] \subseteq Within[s]
       /\ \A q \in Bare(s) : \A e \in Elements(q) : Exposed[e] \subseteq Exposed[s]

StepsOf(t) == UNION {Within[e] : e \in Elements(t.handler)}

-----------------------------------------------------------------------------
(* Declarations. *)

IsRequest(a) == a.op = "request"
Writes(a) == IsRequest(a) /\ a.verb \in Writing

\* Every request is what the tool's hints and its RBAC metadata say, with the
\* exceptions the properties name.
Declares(t) ==
  \A a \in StepsOf(t) : IsRequest(a) =>
    /\ a.verb \in Writing => t.decl.kind # "prompt" /\ ~t.decl.readOnly
    /\ a.verb \in Replacing => t.name = "pods_run" \/ (t.decl.kind = "tool" /\ t.decl.destructive)
    /\ a.verb \in Repeating => t.name = "vm_clone" \/ ~t.decl.idempotent
    /\ \/ t.name = "vm_create" \/ t.decl.rbac.form \notin {"none", "bounded"}
       \/ \A v \in Authorized(a.verb) \ {"http"} :
            t.decl.rbac.form = "bounded" /\ <<v, a.res>> \in t.decl.rbac.allow

\* A write whose error does not end the call.
Ignorable(t, a) ==
  t.name = "pods_delete" /\ <<a.verb, a.res>> \in {<<"delete", "services">>, <<"delete", "routes">>}
ReportsFailures(t) ==
  \A a \in StepsOf(t) : Writes(a) => a.onErr = "fail" \/ Ignorable(t, a)

-----------------------------------------------------------------------------
(* Order. *)

\* b may not come after a: an argument is read after a write, or an object is
\* written over that was read before.
Late(a, b) ==
  \/ Writes(a) /\ b.op = "args"
  \/ /\ IsRequest(a) /\ a.verb = "get"
     /\ IsRequest(b) /\ b.verb \in {"overwrite", "apply"} /\ b.res = a.res

\* Nothing in s makes something in u late.
InOrder(s, u) == \A a \in Within[s], b \in Within[u] : ~Late(a, b)

-----------------------------------------------------------------------------
(* Looks at the text. *)

Fetches(a) == IsRequest(a) /\ a.verb \notin Writing

\* Running s leaves the text alone; running s on a text that is cut fetches
\* nothing.
Silent(s) == \A a \in Within[s] : a.op \notin {"write", "section", "scratch", "commit"}
Tame(s) == \A a \in Exposed[s] : ~Fetches(a)

Guarded(s, u) == Silent(s) \/ Tame(u)

\* The steps of a program can come one after the other.
Sequential(q) ==
  \A i, j \in 1 .. Len(q) : i < j => InOrder(q[i], q[j]) /\ Guarded(q[i], q[j])

IsSequential(t) ==
  /\ Sequential(t.handler)
  /\ \A s \in StepsOf(t) : \A q \in Puts(s) : Sequential(q)
  /\ \A s \in StepsOf(t) : IsRequest(s) => \A e \in Elements(s.other) : \A b \in Within[e] : ~Late(s, b)

\* Scratches are for the collectors that NoFetchAfterCut names.
Gathers(t) ==
  \A s \in StepsOf(t) : s.op \in {"scratch", "commit"} => Unseen(s.kind) \subseteq CutGoesUnseen(t.name)

Disciplined ==
  {t \in Tools : Declares(t) /\ ReportsFailures(t) /\ IsSequential(t) /\ Gathers(t)}

\* Every handler of the toolsets, read off its text: each request is declared, a write
\* that fails ends the call, arguments are read before the first write, an object is
\* not written over once it was read, and a fetch that follows a write to the text
\* comes after a look at the room that is left, however many items a loop has; three
\* collectors gather in scratches.
HandlersAreDisciplined == call # "" => Entries[call] \in Disciplined
=============================================================================
