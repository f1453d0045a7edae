--------------------------- MODULE KubernetesCore ---------------------------
(***************************************************************************)
(* The operations of kubernetes.Core (pkg/kubernetes) that the toolsets      *)
(* share, as steps of a handler.  "gvk" is the resource the arguments name,  *)
(* "manifest" the resources of a manifest.                                   *)
(***************************************************************************)
EXTENDS ToolSteps

-----------------------------------------------------------------------------
(* kubernetes.Core: resources. *)

\* resourceFor: discovery, once more after a reset when the kind is unknown.
resourceFor == MayFail

ResourcesList(res) == resourceFor \o List(res)
ResourcesGet(res) == resourceFor \o Get(res)
ResourcesDelete(res) == resourceFor \o Delete(res)

\* Every object in order; the first error ends the call.
resourcesCreateOrUpdate(objects) == resourceFor \o objects

\* The whole manifest is parsed before the first object is applied.
ResourcesCreateOrUpdate == Args \o Each(resourcesCreateOrUpdate(Apply("manifest")))

\* The scale subresource is read and, with a target, written back.
ResourcesScale == resourceFor \o Get("gvk/scale") \o When("scale given", Update("gvk/scale"))

\* Preferred resources, what discovery could not list as a warning.
APIResourcesList == MayFail

-----------------------------------------------------------------------------
(* kubernetes.Core: pods, nodes, events. *)

\* Services and routes of a pod this server ran go first, as far as they can be
\* listed: the errors of the lists and of the deletions are ignored.  The pod
\* itself goes last.
PodsDelete ==
  Get("pods")
  \o When("managed", IgnoreError(List("services")) \o Each(IgnoreError(Delete("services"))))
  \o When("managed", When("routes supported",
        IgnoreError(List("routes")) \o Each(IgnoreError(Delete("routes")))))
  \o ResourcesDelete("pods")

\* The pod is read only to choose a container.
PodsLogLimited == If("container given", <<>>, Get("pods")) \o Get("pods/log")

\* A pod and, with a port, a service and a route, under the given or a random
\* name.
PodsRun ==
  LET run(res) == resourcesCreateOrUpdate(If("name given", Apply(res), ApplyNew(res)))
  IN run("pods")
     \o When("port given", run("services") \o When("routes supported", run("routes")))

PodsTop == When("metrics unsupported", Fail)
           \o If("pod given", Get("metrics pods"), List("metrics pods"))

\* A completed pod has no container to run in.  WebSocket first; SPDY when the
\* connection was not upgraded, and so nothing has run yet.
PodsExec == Get("pods") \o When("completed", Fail)
            \o If("websocket", Exec("pods/exec"), IgnoreError(Get("pods/exec")) \o ExecPost("pods/exec"))

NodesLog == Get("nodes") \o Get("nodes/proxy")
NodesStatsSummary == Get("nodes") \o Get("nodes/proxy")
NodesTop == When("metrics unsupported", Fail)
            \o If("node given", Get("metrics nodes"), List("metrics nodes"))
EventsList == ResourcesList("events")
=============================================================================
