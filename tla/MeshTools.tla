------------------------------ MODULE MeshTools ------------------------------
(***************************************************************************)
(* The kiali toolset (pkg/toolsets/kiali over pkg/kiali): every tool is one   *)
(* call of Kiali with the caller's token, which Kiali authorizes itself; the  *)
(* prompts gather several calls under one budget.                           *)
(***************************************************************************)
EXTENDS ToolSteps

NewKiali == MayFail

\* The URL, the client, the exchange, the body up to the limit and the status:
\* whichever fails, the caller gets the one error.
ExecuteRequest == Ask("kiali")

-----------------------------------------------------------------------------
(* What Kiali checks for a call. *)

istioKinds == {"istio networking", "istio security", "gateway api", "inferencepools"}
workloadKinds == {"namespaces", "services", "pods", "replicationcontrollers", "apps",
                  "batch", "applications", "deploymentconfigs"}
Reading(resources) == UNION {Verbs({"get", "list"}, r) : r \in resources}

LogsRBAC == RBACBounded({Reading({"pods"}), Verbs({"get"}, "pods/log")})
IstioConfigWriteRBAC == RBACBounded({Verbs({"create", "patch", "delete"}, r) : r \in istioKinds})
IstioConfigReadRBAC == RBACBounded({Reading(istioKinds)})
ResourcesRBAC == RBACBounded({Reading(workloadKinds), Verbs({"get"}, "routes")})
NamespaceAccessRBAC == RBACBounded({Reading({"namespaces"})})
GraphRBAC == RBACBounded({Reading({"namespaces", "services", "pods", "apps", "deploymentconfigs"})})
MergeRBACBounded(metas) == RBACBounded({m.allow : m \in metas})
PromptServiceTroubleshootRBAC ==
  MergeRBACBounded({LogsRBAC, IstioConfigReadRBAC, NamespaceAccessRBAC})

-----------------------------------------------------------------------------
(* denied_resources: a single kind is refused before the call, a list is       *)
(* filtered after it.                                                         *)

enforceIstioConfigDenied == MayFail
filterDeniedIstioConfigList == MayFail
ExecuteManageIstioConfigRead ==
  enforceIstioConfigDenied \o ExecuteRequest \o filterDeniedIstioConfigList
ExecuteManageIstioConfig == enforceIstioConfigDenied \o AskToWrite("kiali")

-----------------------------------------------------------------------------
(* Tools. *)

kialiTool == NewKiali \o ExecuteRequest
workloadLogs == kialiTool
getMeshStatus == kialiTool
getMeshGraph == kialiTool
resourceMetrics == kialiTool
getPodPerformance == kialiTool
tracesDetails == kialiTool
listMeshClusters == kialiTool
listOrGetResources == kialiTool
listTraces == kialiTool
istioConfig == NewKiali \o ExecuteManageIstioConfig
istioConfigRead == NewKiali \o ExecuteManageIstioConfigRead

getLogsDecl == ReadOnlyTool(LogsRBAC)
getMeshStatusDecl == ReadOnlyTool(RBACUnbounded)
getMeshTrafficGraphDecl == ReadOnlyTool(GraphRBAC)
getMetricsDecl == ToolDecl(TRUE, FALSE, TRUE, NamespaceAccessRBAC)
getPodPerformanceDecl == ToolDecl(TRUE, FALSE, TRUE, NamespaceAccessRBAC)
getTracesDetailsDecl == ToolDecl(TRUE, FALSE, TRUE, NamespaceAccessRBAC)
listClustersDecl == ToolDecl(TRUE, FALSE, TRUE, RBACUnbounded)
listOrGetResourcesDecl == ToolDecl(TRUE, FALSE, TRUE, ResourcesRBAC)
listTracesDecl == ToolDecl(TRUE, FALSE, TRUE, NamespaceAccessRBAC)
manageIstioConfigDecl == ToolDecl(FALSE, TRUE, TRUE, IstioConfigWriteRBAC)
manageIstioConfigReadDecl == ToolDecl(TRUE, FALSE, TRUE, IstioConfigReadRBAC)

-----------------------------------------------------------------------------
(* Prompts. *)

\* The answer or a placeholder for it; the call goes on either way.
writeKialiData == IgnoreError(ExecuteRequest) \o Write

\* The namespaces given, or for "all" those Kiali lists.
resolveNamespaces == When("all namespaces", ExecuteRequest \o MayFail)

\* Sections: a text or a request starts only while the budget is not spent.
InOrder(first, second) ==
  Section(Write) \o Section(first) \o Section(Write) \o Section(second) \o Section(Write)

writeServiceTroubleshootPrompt == InOrder(writeKialiData, writeKialiData)
writeTraceAnalysisPrompt == InOrder(writeKialiData, writeKialiData)
writeIstioConfigReviewPrompt == InOrder(writeKialiData, writeKialiData)
writeMeshTopologyPrompt ==
  Section(Write) \o Section(writeKialiData) \o Section(ExecuteRequest \o MayFail) \o
  Section(Write) \o Section(writeKialiData) \o Section(Write)

listResourceHandler == NewKiali \o ExecuteRequest
listApplicationsDecl == PromptDecl(ResourcesRBAC)
listNamespacesDecl == PromptDecl(ResourcesRBAC)
listServicesDecl == PromptDecl(ResourcesRBAC)
listWorkloadsDecl == PromptDecl(ResourcesRBAC)
listIstioConfigDecl == PromptDecl(IstioConfigReadRBAC)
listIstioConfigHandler == NewKiali \o ExecuteManageIstioConfigRead
meshTopologyDecl == PromptDecl(RBACUnbounded)
meshTopologyHandler == NewKiali \o writeMeshTopologyPrompt
meshHealthCheckDecl == PromptDecl(RBACUnbounded)
meshHealthCheckHandler == NewKiali \o ExecuteRequest
trafficTopologyDecl == PromptDecl(GraphRBAC)
trafficTopologyHandler == Args \o NewKiali \o resolveNamespaces \o ExecuteRequest
serviceTroubleshootDecl == PromptDecl(PromptServiceTroubleshootRBAC)
serviceTroubleshootHandler == Args \o NewKiali \o writeServiceTroubleshootPrompt
traceAnalysisDecl == PromptDecl(NamespaceAccessRBAC)
traceAnalysisHandler == Args \o NewKiali \o writeTraceAnalysisPrompt
istioConfigReviewDecl == PromptDecl(MergeRBACBounded({IstioConfigReadRBAC, ResourcesRBAC}))
istioConfigReviewHandler == Args \o NewKiali \o writeIstioConfigReviewPrompt

-----------------------------------------------------------------------------

MeshToolset == {
  Entry("kiali_get_logs", getLogsDecl, workloadLogs),
  Entry("kiali_get_mesh_status", getMeshStatusDecl, getMeshStatus),
  Entry("kiali_get_mesh_traffic_graph", getMeshTrafficGraphDecl, getMeshGraph),
  Entry("kiali_get_metrics", getMetricsDecl, resourceMetrics),
  Entry("kiali_get_pod_performance", getPodPerformanceDecl, getPodPerformance),
  Entry("kiali_get_trace_details", getTracesDetailsDecl, tracesDetails),
  Entry("kiali_list_clusters", listClustersDecl, listMeshClusters),
  Entry("kiali_list_or_get_resources", listOrGetResourcesDecl, listOrGetResources),
  Entry("kiali_list_traces", listTracesDecl, listTraces),
  Entry("kiali_manage_istio_config", manageIstioConfigDecl, istioConfig),
  Entry("kiali_manage_istio_config_read", manageIstioConfigReadDecl, istioConfigRead),
  Entry("mesh-list-applications", listApplicationsDecl, listResourceHandler),
  Entry("mesh-list-namespaces", listNamespacesDecl, listResourceHandler),
  Entry("mesh-list-services", listServicesDecl, listResourceHandler),
  Entry("mesh-list-workloads", listWorkloadsDecl, listResourceHandler),
  Entry("list-istio-config", listIstioConfigDecl, listIstioConfigHandler),
  Entry("mesh-topology", meshTopologyDecl, meshTopologyHandler),
  Entry("mesh-health-check", meshHealthCheckDecl, meshHealthCheckHandler),
  Entry("traffic-topology", trafficTopologyDecl, trafficTopologyHandler),
  Entry("service-troubleshoot", serviceTroubleshootDecl, serviceTroubleshootHandler),
  Entry("trace-analysis", traceAnalysisDecl, traceAnalysisHandler),
  Entry("istio-config-review", istioConfigReviewDecl, istioConfigReviewHandler)}
=============================================================================
