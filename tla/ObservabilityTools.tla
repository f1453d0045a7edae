-------------------------- MODULE ObservabilityTools --------------------------
(***************************************************************************)
(* The toolsets that put questions to a backend other than the Kubernetes    *)
(* API: metrics, logs, traces, otelcol and netobserv (pkg/toolsets, over     *)
(* pkg/obs and pkg/netobserv).  A backend is found through the cluster's     *)
(* own objects where no URL is configured.                                  *)
(***************************************************************************)
EXTENDS ToolSteps

\* A tool with the hints read-only and idempotent.
Lookup(rbac) == ToolDecl(TRUE, FALSE, TRUE, rbac)

-----------------------------------------------------------------------------
(* Clients: the token comes from the request's header, where it may be        *)
(* missing, or from the kubeconfig, where its file may be unreadable.         *)

readTokenFromRestConfig == MayFail
readToken == If("header", <<>>, readTokenFromRestConfig)
createCertPoolFromRESTConfig == MayFail
createRoundTripperWithToken == MayFail \o When("tls", createCertPoolFromRESTConfig) \o MayFail
BuildRoundTripper == MayFail \o readToken \o createRoundTripperWithToken

buildAPIConfig == BuildRoundTripper

\* Guardrails that do not parse are logged and left off.
getPromClient == buildAPIConfig \o MayFail
getAlertmanagerClient == MayFail \o buildAPIConfig \o MayFail

-----------------------------------------------------------------------------
(* Metrics. *)

rbacNoKubernetes == RBACNone

ListMetrics == MayFail \o Ask("prometheus")

\* A query without metric names has nothing to look up.
ExtractMetricNames == MayFail
ValidateMetricsExist == ExtractMetricNames \o When("names", ListMetrics \o MayFail)

ExtractBlanketRegexLabels == MayFail
cardinality == Ask("prometheus") \o MayFail

\* Each rule that needs the TSDB asks for it again; a label limit of 0 refuses
\* a blanket regex without asking.
IsSafeQuery ==
  MayFail \o
  When("max metric", ExtractMetricNames \o When("names", cardinality)) \o
  When("no blanket", ExtractBlanketRegexLabels \o Maybe(Either(Fail, cardinality)))

validateQuery == ValidateMetricsExist \o When("guardrails", IsSafeQuery)
ExecuteRangeQuery == validateQuery \o Ask("prometheus")
ExecuteInstantQuery == validateQuery \o Ask("prometheus")
GetLabelNames == Ask("prometheus")
GetLabelValues == Ask("prometheus")
GetSeries == Ask("prometheus")
GetAlerts == Ask("alertmanager")
GetSilences == Ask("alertmanager")

\* Times and durations are parsed like arguments: before anything is asked.
parseDefaultTimeRange == Args

listMetricsDecl == Lookup(rbacNoKubernetes)
listMetrics == Args \o getPromClient \o ListMetrics
executeInstantQueryDecl == Lookup(rbacNoKubernetes)
executeInstantQuery == Args \o getPromClient \o ExecuteInstantQuery
executeRangeQueryDecl == Lookup(rbacNoKubernetes)
executeRangeQuery == Args \o getPromClient \o ExecuteRangeQuery
showTimeseriesDecl == Lookup(rbacNoKubernetes)
showTimeseries == executeRangeQuery
getLabelNamesDecl == Lookup(rbacNoKubernetes)
getLabelNames == Args \o parseDefaultTimeRange \o getPromClient \o GetLabelNames
getLabelValuesDecl == Lookup(rbacNoKubernetes)
getLabelValues == Args \o parseDefaultTimeRange \o getPromClient \o GetLabelValues
getSeriesDecl == Lookup(rbacNoKubernetes)
getSeries == Args \o parseDefaultTimeRange \o getPromClient \o GetSeries
getAlertsDecl == Lookup(rbacNoKubernetes)
getAlerts == Args \o getAlertmanagerClient \o GetAlerts
getSilencesDecl == Lookup(rbacNoKubernetes)
getSilences == Args \o getAlertmanagerClient \o GetSilences

-----------------------------------------------------------------------------
(* Endpoints of the backends, from the Routes of the cluster. *)

routesRBAC == Verbs({"get", "list"}, "routes")

FindRouteByTargetService == IgnoreError(List("routes"))

\* The two names a LokiStack's route may have; only "not found" leads on to the
\* next one, and a failed list to the service's own name.
ResolveGatewayURL ==
  OnError(Get("routes"), Either(Fail, OnError(Get("routes"),
    Either(Fail, FindRouteByTargetService))))

\* A route that cannot be read, or has no host, leads to the service's name.
tempoBaseURL == When("resolver", IgnoreError(Get("routes")))

-----------------------------------------------------------------------------
(* Logs. *)

rbacLokiDiscovery == RBACBounded({Verbs({"list"}, "lokistacks"), routesRBAC})

ListLokiInstances ==
  MayFail \o List("lokistacks") \o Each(MayFail \o When("resolver", ResolveGatewayURL))

\* A configured URL, or an instance both of whose names are given and which is
\* in the cluster.
resolveLokiURL ==
  If("url", <<>>, If("instance", Args \o ListLokiInstances \o MayFail, Fail))
getLokiClient == resolveLokiURL \o BuildRoundTripper

\* One request: built, sent, read up to the limit, decoded, its status checked.
lokiGetJSON == MayFail \o Ask("loki") \o MayFail
lokiQueryRange == lokiGetJSON \o MayFail

lokiListInstancesDecl == Lookup(rbacLokiDiscovery)
lokiListInstances == ListLokiInstances
lokiLabelNamesDecl == Lookup(rbacLokiDiscovery)
lokiLabelNames == Args \o parseDefaultTimeRange \o getLokiClient \o lokiGetJSON
lokiLabelValuesDecl == Lookup(rbacLokiDiscovery)
lokiLabelValues == Args \o parseDefaultTimeRange \o getLokiClient \o lokiGetJSON
lokiQueryRangeDecl == Lookup(rbacLokiDiscovery)
lokiQueryRangeHandler == Args \o getLokiClient \o lokiQueryRange

-----------------------------------------------------------------------------
(* Traces. *)

rbacTempoDiscovery ==
  RBACBounded({Verbs({"list"}, "tempostacks"), Verbs({"list"}, "tempomonolithics"), routesRBAC})

\* An instance whose object does not parse ends the listing.
listTempoStacks == List("tempostacks") \o Each(MayFail \o tempoBaseURL)
listTempoMonolithics == List("tempomonolithics") \o Each(MayFail \o tempoBaseURL)
ListTempoInstances == listTempoStacks \o listTempoMonolithics

\* The instance has to exist, and a tenant has to be one of its own.
resolveTempoURL == If("url", <<>>, Args \o ListTempoInstances \o MayFail)
getTempoClient == resolveTempoURL \o BuildRoundTripper

\* The limits of a search are checked in the loader, after the discovery.
tempoRequest == MayFail \o Ask("tempo") \o MayFail
tempoLoad == MayFail \o tempoRequest

tracesListInstancesDecl == Lookup(rbacTempoDiscovery)
tracesListInstances == ListTempoInstances
searchTracesDecl == Lookup(rbacTempoDiscovery)
searchTraces == Args \o getTempoClient \o tempoLoad \o MayFail
searchTagsDecl == Lookup(rbacTempoDiscovery)
searchTags == Args \o getTempoClient \o tempoLoad \o MayFail
searchTagValuesDecl == Lookup(rbacTempoDiscovery)
searchTagValues == Args \o getTempoClient \o tempoLoad \o MayFail
getTraceByIDDecl == Lookup(rbacTempoDiscovery)
getTraceByID == Args \o getTempoClient \o tempoLoad \o MayFail

-----------------------------------------------------------------------------
(* OpenTelemetry collector: schemas that come with the program. *)

schemaLoader == MayFail
otelVersion == When("latest", MayFail)

otelcolListComponentsDecl == Lookup(RBACNone)
ListComponentsHandler == Args \o schemaLoader \o otelVersion \o MayFail
otelcolGetComponentSchemaDecl == Lookup(RBACNone)
GetComponentSchemaHandler == Args \o schemaLoader \o Args \o otelVersion \o MayFail
otelcolValidateConfigDecl == Lookup(RBACNone)
ValidateConfigHandler == Args \o schemaLoader \o Args \o otelVersion \o Args \o MayFail
otelcolGetVersionsDecl == Lookup(RBACNone)
GetVersionsHandler == schemaLoader \o MayFail \o MayFail

-----------------------------------------------------------------------------
(* Network observability: one GET to the console plugin, which authorizes the   *)
(* forwarded token itself.                                                     *)

NewNetObserv == MayFail
validateAndGetURL == MayFail
createHTTPClient == MayFail
executeGetAbsolute == MayFail \o createHTTPClient \o Ask("netobserv") \o MayFail
executeGet == validateAndGetURL \o executeGetAbsolute

\* Bounded on OpenShift by what the plugin checks, not by a request of ours.
flowsRBAC == RBACBounded({Verbs({"get"}, "network")})
metricsRBAC == RBACBounded({Verbs({"create"}, "metrics pods")})

listFlowsDecl == Lookup(flowsRBAC)
listFlows == NewNetObserv \o executeGet
exportFlowsDecl == Lookup(flowsRBAC)
exportFlows == NewNetObserv \o executeGet
getFlowMetricsDecl == Lookup(metricsRBAC)
getFlowMetrics == NewNetObserv \o executeGet

-----------------------------------------------------------------------------

MetricsToolset == {
  Entry("list_metrics", listMetricsDecl, listMetrics),
  Entry("execute_instant_query", executeInstantQueryDecl, executeInstantQuery),
  Entry("execute_range_query", executeRangeQueryDecl, executeRangeQuery),
  Entry("show_timeseries", showTimeseriesDecl, showTimeseries),
  Entry("get_label_names", getLabelNamesDecl, getLabelNames),
  Entry("get_label_values", getLabelValuesDecl, getLabelValues),
  Entry("get_series", getSeriesDecl, getSeries),
  Entry("get_alerts", getAlertsDecl, getAlerts),
  Entry("get_silences", getSilencesDecl, getSilences)}

ObservabilityToolset == MetricsToolset \cup {
  Entry("loki_list_instances", lokiListInstancesDecl, lokiListInstances),
  Entry("loki_label_names", lokiLabelNamesDecl, lokiLabelNames),
  Entry("loki_label_values", lokiLabelValuesDecl, lokiLabelValues),
  Entry("loki_query_range", lokiQueryRangeDecl, lokiQueryRangeHandler),
  Entry("tempo_list_instances", tracesListInstancesDecl, tracesListInstances),
  Entry("tempo_search_traces", searchTracesDecl, searchTraces),
  Entry("tempo_search_tags", searchTagsDecl, searchTags),
  Entry("tempo_search_tag_values", searchTagValuesDecl, searchTagValues),
  Entry("tempo_get_trace_by_id", getTraceByIDDecl, getTraceByID),
  Entry("otelcol_list_components", otelcolListComponentsDecl, ListComponentsHandler),
  Entry("otelcol_get_component_schema", otelcolGetComponentSchemaDecl, GetComponentSchemaHandler),
  Entry("otelcol_validate_config", otelcolValidateConfigDecl, ValidateConfigHandler),
  Entry("otelcol_get_versions", otelcolGetVersionsDecl, GetVersionsHandler),
  Entry("netobserv_list_flows", listFlowsDecl, listFlows),
  Entry("netobserv_export_flows", exportFlowsDecl, exportFlows),
  Entry("netobserv_get_flow_metrics", getFlowMetricsDecl, getFlowMetrics)}
=============================================================================
