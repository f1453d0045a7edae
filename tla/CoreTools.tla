------------------------------ MODULE CoreTools ------------------------------
(***************************************************************************)
(* The core toolset (pkg/toolsets/core): its declarations and handlers.      *)
(***************************************************************************)
EXTENDS KubernetesCore

-----------------------------------------------------------------------------
(* Pods. *)

podsListDecl == ReadOnlyTool(RBACBounded({Verbs({"list"}, "pods")}))
podsListInAllNamespaces == Args \o ResourcesList("pods")
podsListInNamespaceDecl == ReadOnlyTool(RBACBounded({Verbs({"list"}, "pods")}))
podsListInNamespace == Args \o ResourcesList("pods")
podsGetDecl == ReadOnlyTool(RBACBounded({Verbs({"get"}, "pods")}))
podsGet == Args \o ResourcesGet("pods")

podsDeleteDecl == ToolDecl(FALSE, TRUE, TRUE, RBACBounded({Verbs({"get", "delete"}, "pods"),
  Verbs({"list", "delete"}, "services"), Verbs({"list", "delete"}, "routes")}))
podsDelete == Args \o PodsDelete

podsTopDecl == ToolDecl(TRUE, FALSE, TRUE, RBACBounded({Verbs({"get", "list"}, "metrics pods")}))
podsTop == Args \o PodsTop
podsExecDecl == ToolDecl(FALSE, TRUE, FALSE, RBACBounded({Verbs({"get"}, "pods"),
  Verbs({"get", "create"}, "pods/exec")}))
podsExec == Args \o PodsExec
podsLogDecl == ReadOnlyTool(RBACBounded({Verbs({"get"}, "pods"), Verbs({"get"}, "pods/log")}))
podsLog == Args \o PodsLogLimited
podsRunDecl == ToolDecl(FALSE, FALSE, FALSE, RBACBounded({
  Verbs({"create", "patch"}, r) : r \in {"pods", "services", "routes"}}))
podsRun == Args \o PodsRun

-----------------------------------------------------------------------------
(* Generic resources. *)

resourcesListDecl == ReadOnlyTool(RBACBounded({Verbs({"list"}, "gvk")}))
resourcesList == Args \o ResourcesList("gvk")
resourcesGetDecl == ReadOnlyTool(RBACBounded({Verbs({"get"}, "gvk")}))
resourcesGet == Args \o ResourcesGet("gvk")
resourcesCreateOrUpdateDecl ==
  ToolDecl(FALSE, TRUE, TRUE, RBACBounded({Verbs({"create", "patch"}, "manifest")}))
resourcesCreateOrUpdateTool == Args \o ResourcesCreateOrUpdate
resourcesDeleteDecl == ToolDecl(FALSE, TRUE, TRUE, RBACBounded({Verbs({"delete"}, "gvk")}))
resourcesDelete == Args \o ResourcesDelete("gvk")
resourcesScaleDecl == ToolDecl(FALSE, TRUE, TRUE, RBACBounded({Verbs({"get", "update"}, "gvk/scale")}))
resourcesScale == Args \o ResourcesScale
apiResourcesListDecl == ToolDecl(TRUE, FALSE, TRUE, RBACUnbounded)
apiResourcesList == Args \o APIResourcesList

-----------------------------------------------------------------------------
(* Nodes, namespaces, events. *)

nodesLogDecl == ReadOnlyTool(RBACBounded({Verbs({"get"}, "nodes"), Verbs({"get"}, "nodes/proxy")}))
nodesLog == Args \o NodesLog
nodesStatsSummaryDecl == ReadOnlyTool(RBACBounded({Verbs({"get"}, "nodes"), Verbs({"get"}, "nodes/proxy")}))
nodesStatsSummary == Args \o NodesStatsSummary
nodesTopDecl == ToolDecl(TRUE, FALSE, TRUE,
  RBACBounded({Verbs({"get", "list"}, "metrics nodes"), Verbs({"get", "list"}, "nodes")}))

\* The allocatable resources come from the nodes: one by one for a page of
\* metrics, all of them otherwise.
nodesTop == Args \o NodesTop \o If("paged", Each(Get("nodes")), List("nodes"))

namespacesListDecl == ReadOnlyTool(RBACBounded({Verbs({"list"}, "namespaces")}))
namespacesList == Args \o ResourcesList("namespaces")
projectsListDecl == ReadOnlyTool(RBACBounded({Verbs({"list"}, "projects")}))
projectsList == Args \o ResourcesList("projects")
eventsListDecl == ReadOnlyTool(RBACBounded({Verbs({"list"}, "events")}))
eventsList == Args \o EventsList

-----------------------------------------------------------------------------
(* The cluster-health-check prompt. *)

healthCheckDecl == PromptDecl(RBACBounded({Verbs({"list"}, r) :
    r \in {"nodes", "pods", "deployments", "statefulsets", "daemonsets",
           "persistentvolumeclaims", "clusteroperators", "events"}}
  \cup {Verbs({"get", "list"}, "namespaces")}))

\* One list; its error omits the section.  Issue lines share a scratch, and the
\* totals count the rest of the list once it is full.
gatherDiagnostics(res) ==
  AbandonOnError(List(res)) \o Either(Write, Excerpt(TRUE, Each(UnlessCut(Write))))
gatherNodeDiagnostics == gatherDiagnostics("nodes")
gatherPodDiagnostics == gatherDiagnostics("pods")
gatherWorkloadDiagnostics(res) == gatherDiagnostics(res)
gatherPVCDiagnostics == gatherDiagnostics("persistentvolumeclaims")
gatherClusterOperatorDiagnostics == gatherDiagnostics("clusteroperators")

healthSection(gather) == Section(TrySection(gather))

writeWorkloadSections ==
  Section(healthSection(gatherWorkloadDiagnostics("deployments"))
          \o healthSection(gatherWorkloadDiagnostics("statefulsets"))
          \o healthSection(gatherWorkloadDiagnostics("daemonsets")))

\* Events of one namespace or, when the whole cluster is checked, of some, which
\* are listed again if the first list failed; until enough lines are kept or
\* they are cut.
writeEventBody ==
  Excerpt(FALSE,
    Maybe(IgnoreError(List("namespaces")))
    \o Each(UnlessCut(Either(Break, OnError(List("events"), <<>>) \o Each(UnlessCut(Write))))))

buildHealthCheckPrompt ==
  UnlessCut(IgnoreError(List("namespaces")))
  \o Section(Write)
  \o healthSection(gatherNodeDiagnostics)
  \o healthSection(gatherClusterOperatorDiagnostics)
  \o healthSection(gatherPodDiagnostics)
  \o writeWorkloadSections
  \o healthSection(gatherPVCDiagnostics)
  \o Section(When("check events", TrySection(writeEventBody)))
  \o Section(Write)

\* A namespace that cannot be read is replaced by the whole cluster.
clusterHealthCheckHandler ==
  When("namespace asked", IgnoreError(Get("namespaces"))) \o buildHealthCheckPrompt

-----------------------------------------------------------------------------
CoreToolset == {
  Entry("pods_list", podsListDecl, podsListInAllNamespaces),
  Entry("pods_list_in_namespace", podsListInNamespaceDecl, podsListInNamespace),
  Entry("pods_get", podsGetDecl, podsGet),
  Entry("pods_delete", podsDeleteDecl, podsDelete),
  Entry("pods_top", podsTopDecl, podsTop),
  Entry("pods_exec", podsExecDecl, podsExec),
  Entry("pods_log", podsLogDecl, podsLog),
  Entry("pods_run", podsRunDecl, podsRun),
  Entry("resources_list", resourcesListDecl, resourcesList),
  Entry("resources_get", resourcesGetDecl, resourcesGet),
  Entry("resources_create_or_update", resourcesCreateOrUpdateDecl, resourcesCreateOrUpdateTool),
  Entry("resources_delete", resourcesDeleteDecl, resourcesDelete),
  Entry("resources_scale", resourcesScaleDecl, resourcesScale),
  Entry("api_resources_list", apiResourcesListDecl, apiResourcesList),
  Entry("nodes_log", nodesLogDecl, nodesLog),
  Entry("nodes_stats_summary", nodesStatsSummaryDecl, nodesStatsSummary),
  Entry("nodes_top", nodesTopDecl, nodesTop),
  Entry("namespaces_list", namespacesListDecl, namespacesList),
  Entry("projects_list", projectsListDecl, projectsList),
  Entry("events_list", eventsListDecl, eventsList),
  Entry("cluster-health-check", healthCheckDecl, clusterHealthCheckHandler)
}
=============================================================================
