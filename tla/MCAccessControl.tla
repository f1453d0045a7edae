--------------------------- MODULE MCAccessControl ---------------------------
(* A cluster with pods, namespaces and pipeline runs that gets KubeVirt. *)
EXTENDS AccessControl

TheCallers == {"c1", "c2"}

Entry(g, r, s, k) == [group |-> g, res |-> r, sub |-> s, kind |-> k]
Vms == Entry("kubevirt.io", "virtualmachines", "", "VirtualMachine")
Starts == Entry("subresources.kubevirt.io", "virtualmachines", "start", "")
Pauses == Entry("subresources.kubevirt.io", "virtualmachines", "pause", "")
CoreEntries == {Entry("", "pods", "", "Pod"), Entry("", "pods", "exec", "PodExecOptions"),
                Entry("", "namespaces", "", "Namespace"),
                Entry("tekton.dev", "pipelineruns", "", "PipelineRun"),
                Entry("authorization.k8s.io", "selfsubjectaccessreviews", "", "SelfSubjectAccessReview")}
AllEntries == CoreEntries \cup {Vms, Starts, Pauses}
AllUpgrades == {{Vms, Starts}, {Vms, Starts, Pauses}}

Call(m, g, ns, r, n, s, b) ==
  [method |-> m, group |-> g, ns |-> ns, res |-> r, name |-> n, sub |-> s, body |-> b]
Collections == {Call("GET", "", "ns", "pods", "", "", "none"), Call("DELETE", "", "", "pods", "", "", "none")}
Objects == {Call("DELETE", "", "ns", "pods", "p", "", "none"), Call("GET", "", "", "namespaces", "ns", "", "none")}
Writes == {Call("PUT", "", "ns", "pods", "p", "", "bad"),
           Call("PATCH", "tekton.dev", "ns", "pipelineruns", "r", "", "windows")}
NewApis == {Call("GET", "kubevirt.io", "ns", "virtualmachines", "v", "", "none"),
            Call("PUT", "subresources.kubevirt.io", "ns", "virtualmachines", "v", "pause", "none")}
Others == {Call("POST", "", "ns", "pods", "p", "exec", "none"),
           Call("PUT", "", "", "namespaces", "ns", "scale", "none"), Call("GET", "", "", "", "", "", "none")}
Sends ==
  [c \in TheCallers |->
     IF c = "c1" THEN Collections \cup Objects \cup Writes \cup NewApis \cup Others
     ELSE {Call("POST", "", "ns", "pods", "", "", "good"),
           Call("PUT", "subresources.kubevirt.io", "ns", "virtualmachines", "v", "start", "none")}]

ThePrefix == <<"clusters", "root">>

Rule(v, k, n) == [verb |-> v, kind |-> k, group |-> "", name |-> n, ns |-> ""]
AllConfigs == {
  [denied |-> {[group |-> "", kind |-> "Pod"], [group |-> "kubevirt.io", kind |-> "VirtualMachine"]},
   rules |-> {}, fallback |-> "deny", validation |-> FALSE],
  [denied |-> {[group |-> "subresources.kubevirt.io", kind |-> ""]},
   rules |-> {Rule("delete", "Pod", "p"), Rule("create", "", ""), Rule("get", "Namespace", "ns")},
   fallback |-> "allow", validation |-> TRUE]}

TheGrants == {<<"list", "", "pods", "">>, <<"create", "", "pods", "">>, <<"update", "", "pods", "">>,
              <<"create", "", "pods", "exec">>, <<"get", "", "namespaces", "">>, <<"patch", "tekton.dev", "pipelineruns", "">>,
              <<"delete", "", "pods", "">>}

\* An identity that may run commands in pods and not create any.
ExecGrants == TheGrants \ {<<"create", "", "pods", "">>}
=============================================================================
