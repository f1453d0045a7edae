----------------------------- MODULE MCToolCalls -----------------------------
(* The toolsets, for TLC. *)
EXTENDS ToolDiscipline

Core == INSTANCE CoreTools
Tekton == INSTANCE TektonTools
Kubevirt == INSTANCE KubevirtTools
Platform == INSTANCE PlatformTools
Observability == INSTANCE ObservabilityTools
Mesh == INSTANCE MeshTools

AllTools ==
  UNION {Core!CoreToolset, Tekton!TektonToolset, Kubevirt!KubevirtToolset,
         Platform!PlatformToolset, Observability!ObservabilityToolset, Mesh!MeshToolset}

\* Every server mode that filters tools or asks before one runs.
AllModes ==
  LET Mode(ro, dd, c) == [readOnly |-> ro, disableDestructive |-> dd, confirm |-> c]
  IN {Mode(FALSE, FALSE, "no"), Mode(TRUE, FALSE, "no"), Mode(FALSE, TRUE, "no"),
      Mode(FALSE, FALSE, "or deny"), Mode(FALSE, FALSE, "or allow")}

\* The steps of a program and of the programs in it.
RECURSIVE StepsIn(_), Inside(_), Bared(_)
StepsIn(q) == UNION {{e} \cup UNION {StepsIn(r) : r \in Puts(e)} : e \in Elements(q)}
Inside(s) == {s} \cup UNION {Inside(e) : e \in UNION {Elements(q) : q \in Puts(s)}}
Bared(s) == {s} \cup UNION {Bared(e) : e \in UNION {Elements(q) : q \in Bare(s)}}

AllSteps == UNION {StepsIn(t.handler) : t \in AllTools}
AllWithin == [s \in AllSteps |-> Inside(s)]
AllExposed == [s \in AllSteps |-> Bared(s)]
=============================================================================
