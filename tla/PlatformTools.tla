---------------------------- MODULE PlatformTools ----------------------------
(***************************************************************************)
(* The helm, config and kcp toolsets (pkg/toolsets/{helm,config,kcp}) on     *)
(* pkg/helm, pkg/kubernetes/configuration.go and pkg/kcp.                    *)
(***************************************************************************)
EXTENDS ToolSteps

-----------------------------------------------------------------------------
(* Helm. *)

\* External: the release record is stored before the chart's objects are made;
\* the wait for them to be ready may time out.  What Helm does besides is left
\* out: its updates of the record, the deletion of hooks, the adoption of
\* objects that are there already.
runInstall(record) == record \o Each(Create("chart objects")) \o MayFail

\* The chart's registry has to be allowed.
validateChartReference == MayFail
newAction == MayFail

\* Without a name the release gets a generated one.  The action is built before
\* the chart is located and loaded.
Install ==
  validateChartReference \o newAction \o MayFail \o
  runInstall(If("named", Create("releases"), CreateNew("releases"))) \o MayFail

\* The releases are secrets or configmaps, as the storage driver says.
ListReleases == newAction \o If("secrets", List("secrets"), List("configmaps")) \o Maybe(Return) \o MayFail

\* IgnoreNotFound: a release that is gone is a success.
Uninstall ==
  newAction \o Either(Return, Each(Delete("chart objects")) \o Delete("releases"))

newHelmClient == MayFail

helmInstallDecl == ToolDecl(FALSE, FALSE, FALSE, RBACUnbounded)
helmInstall == Args \o newHelmClient \o Install
helmListDecl == ReadOnlyTool(RBACBounded({Verbs({"list"}, "secrets"), Verbs({"list"}, "configmaps")}))
helmPage == Args
helmList == helmPage \o newHelmClient \o ListReleases
helmUninstallDecl == ToolDecl(FALSE, TRUE, TRUE, RBACUnbounded)
helmUninstall == Args \o newHelmClient \o Uninstall

-----------------------------------------------------------------------------
(* Configuration: the kubeconfig on this side, no request. *)

ConfigurationContextsList == MayFail
ConfigurationContextsDefault == MayFail
ConfigurationView == MayFail

contextsListDecl == ToolDecl(TRUE, FALSE, TRUE, RBACNone)
contextsList == ConfigurationContextsList \o Maybe(Return) \o ConfigurationContextsDefault

\* targets_list gets its handler from the provider (WithTargetListTool).
targetsListDecl == ToolDecl(TRUE, FALSE, TRUE, RBACNone)
targetListHandler == MayFail

configurationViewDecl == ReadOnlyTool(RBACNone)
configurationView == Args \o ConfigurationView \o MayFail

-----------------------------------------------------------------------------
(* kcp. *)

\* One level of the tree, then `deeper' for each child that is new; a workspace
\* that cannot be listed is skipped with everything under it.
discoverLevel(deeper) ==
  Either(<<>>, OnError(List("workspaces"), <<>>) \o Each(deeper))

\* Bound: two levels below the first stand for the recursion.
DiscoverWorkspacesRecursive == discoverLevel(discoverLevel(<<>>))
DiscoverAllWorkspaces == DiscoverWorkspacesRecursive

kcpWorkspacesListDecl == ToolDecl(TRUE, FALSE, TRUE, RBACBounded({Verbs({"list"}, "workspaces")}))
workspacesList == DiscoverAllWorkspaces
kcpWorkspaceDescribeDecl == ReadOnlyTool(RBACBounded({Verbs({"get"}, "workspaces")}))
DescribeWorkspace == Get("workspaces")
workspaceDescribe == Args \o DescribeWorkspace \o MayFail

PlatformToolset == {
  Entry("helm_install", helmInstallDecl, helmInstall),
  Entry("helm_list", helmListDecl, helmList),
  Entry("helm_uninstall", helmUninstallDecl, helmUninstall),
  Entry("configuration_contexts_list", contextsListDecl, contextsList),
  Entry("targets_list", targetsListDecl, targetListHandler),
  Entry("configuration_view", configurationViewDecl, configurationView),
  Entry("kcp_workspaces_list", kcpWorkspacesListDecl, workspacesList),
  Entry("kcp_workspace_describe", kcpWorkspaceDescribeDecl, workspaceDescribe)}
=============================================================================
