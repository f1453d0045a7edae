---------------------------- MODULE KubevirtTools ----------------------------
(***************************************************************************)
(* The kubevirt toolset (pkg/toolsets/kubevirt) and the operations on        *)
(* virtual machines it calls (pkg/kubevirt).                                 *)
(***************************************************************************)
EXTENDS KubernetesCore

-----------------------------------------------------------------------------
(* vm_lifecycle. *)

GetVirtualMachine == Get("virtualmachines")
UpdateVirtualMachine == Update("virtualmachines")

\* Nothing to do when the run strategy is the wanted one already.
StartVM == GetVirtualMachine \o MayFail \o If("as wanted", <<>>, UpdateVirtualMachine)
StopVM == GetVirtualMachine \o MayFail \o If("as wanted", <<>>, UpdateVirtualMachine)

\* Halted, then Always, on the object the first update returned.
RestartVM == GetVirtualMachine \o MayFail \o UpdateVirtualMachine \o MayFail \o UpdateVirtualMachine

\* The subresource first, then the machine for the answer.
PauseVM == MayFail \o Update("virtualmachineinstances/pause") \o GetVirtualMachine
UnpauseVM == MayFail \o Update("virtualmachineinstances/unpause") \o GetVirtualMachine

lifecycleDecl == ToolDecl(FALSE, TRUE, FALSE, RBACBounded({Verbs({"get", "update"}, "virtualmachines"),
  Verbs({"update"}, "virtualmachineinstances/pause"), Verbs({"update"}, "virtualmachineinstances/unpause")}))
lifecycle ==
  Args \o Either(Either(StartVM, StopVM), Either(RestartVM, Either(Either(PauseVM, UnpauseVM), Fail)))

-----------------------------------------------------------------------------
(* vm_clone, vm_create, vm_create_from_template. *)

\* metadata.generateName: the server makes up the name of the clone request.
CloneVM == CreateNew("virtualmachineclones")
cloneDecl == ToolDecl(FALSE, TRUE, TRUE, RBACBounded({Verbs({"create"}, "virtualmachineclones")}))
cloneVM == Args \o CloneVM \o MayFail

\* Two well-known namespaces, then the whole cluster; what cannot be listed is
\* left out.
collectDataSources == Each(IgnoreError(List("datasources"))) \o IgnoreError(List("datasources"))
SearchPreferences == IgnoreError(List("virtualmachineclusterpreferences"))
                     \o IgnoreError(List("virtualmachinepreferences"))
SearchInstancetypes == IgnoreError(List("virtualmachineclusterinstancetypes"))
                       \o IgnoreError(List("virtualmachineinstancetypes"))

parseCreateParameters == Args
renderVMYaml == MayFail

createDecl == ToolDecl(FALSE, TRUE, TRUE, RBACBounded({Verbs({"list"}, r) :
    r \in {"datasources", "virtualmachineclusterpreferences", "virtualmachinepreferences",
           "virtualmachineclusterinstancetypes", "virtualmachineinstancetypes"}}
  \cup {Verbs({"patch"}, "virtualmachines")}))
create ==
  parseCreateParameters \o collectDataSources \o SearchPreferences \o SearchInstancetypes
  \o renderVMYaml \o resourcesCreateOrUpdate(Apply("virtualmachines"))

\* A POST to the template's create subresource.
CreateVMFromTemplate == MayFail \o CreateNew("virtualmachinetemplates/create") \o MayFail
createFromTemplateDecl ==
  ToolDecl(FALSE, TRUE, FALSE, RBACBounded({Verbs({"create"}, "virtualmachinetemplates/create")}))
createFromTemplate == Args \o CreateVMFromTemplate

-----------------------------------------------------------------------------
(* vm_console_screenshot, vm_guest_info. *)

getVMI == Get("virtualmachineinstances")
Screenshot == getVMI \o When("no screen", Fail) \o Get("virtualmachineinstances/vnc/screenshot") \o MayFail
screenshotDecl == ToolDecl(TRUE, FALSE, TRUE, RBACBounded({Verbs({"get"}, "virtualmachineinstances"),
  Verbs({"get"}, "virtualmachineinstances/vnc/screenshot")}))
screenshot == Args \o Screenshot

getVMISubresource(sub) == MayFail \o Get(sub)

GuestSubresources == {"virtualmachineinstances/guestosinfo", "virtualmachineinstances/filesystemlist",
                      "virtualmachineinstances/userlist", "virtualmachineinstances/interfacelist"}

\* All four; an error is part of the answer unless every one failed.
GetAllGuestInfo ==
  IgnoreError(Get("virtualmachineinstances/guestosinfo"))
  \o IgnoreError(Get("virtualmachineinstances/filesystemlist"))
  \o IgnoreError(Get("virtualmachineinstances/userlist"))
  \o IgnoreError(Get("virtualmachineinstances/interfacelist"))
  \o MayFail

guestInfoDecl == ToolDecl(TRUE, FALSE, TRUE, RBACBounded({Verbs({"get"}, "virtualmachineinstances")}
  \cup {Verbs({"get"}, s) : s \in GuestSubresources}))

validateVMI == Get("virtualmachineinstances") \o MayFail

\* The kind of information is looked at only after the machine was read.
fetchGuestInfo ==
  Either(GetAllGuestInfo,
    Either(Either(getVMISubresource("virtualmachineinstances/guestosinfo"),
                  getVMISubresource("virtualmachineinstances/filesystemlist")),
           Either(Either(getVMISubresource("virtualmachineinstances/userlist"),
                         getVMISubresource("virtualmachineinstances/interfacelist")), Fail)))
guestInfo == Args \o validateVMI \o fetchGuestInfo

-----------------------------------------------------------------------------
(* vm_troubleshoot, the tool. *)

troubleshootDecl == ToolDecl(TRUE, FALSE, TRUE, RBACBounded(
  {Verbs({"get"}, r) : r \in {"virtualmachines", "virtualmachineinstances", "datavolumes",
                              "persistentvolumeclaims", "pods/log"}}
  \cup {Verbs({"list"}, r) : r \in {"pods", "events", "virtualmachineinstancemigrations"}}
  \cup {Verbs({"get", "list"}, "storageclasses")}))

fetchVMStatus == IgnoreError(Get("virtualmachines"))
fetchVMIStatus == IgnoreError(Get("virtualmachineinstances"))
listVirtLauncherPods == IgnoreError(List("pods"))

\* A class that does not exist is answered with the ones that do.
listAvailableStorageClasses == IgnoreError(List("storageclasses"))
checkStorageClass == Each(OnError(Get("storageclasses"), Maybe(listAvailableStorageClasses)))
checkMigrationStatus == IgnoreError(List("virtualmachineinstancemigrations"))
analyzeIssues == checkStorageClass \o checkMigrationStatus

\* One DataVolume at a time; one that does not exist may have a claim.
fetchDataVolumeStatus ==
  Either(Write, Section(Write) \o Each(Section(
    OnError(Get("datavolumes"),
            Write \o Maybe(Section(OnError(Get("persistentvolumeclaims"), Write))))
    \o Maybe(Write))))

writeCloudInit == Either(Write, Each(Section(Write \o Maybe(Write))))
writeVirtLauncherPods == Either(Write, Section(Write) \o Each(Section(Write)))
fetchVirtLauncherPodLogs ==
  Either(Write, Section(Write) \o Each(Section(OnError(Get("pods/log"), Write) \o Write)))
fetchEvents ==
  Each(Section(OnError(List("events"), Write) \o Maybe(Write \o Section(Write)))) \o Section(Write)

\* The first section gathers what the analysis needs before it writes.
writeVMTroubleshootReport ==
  Section(Write)
  \o Section(fetchVMStatus \o fetchVMIStatus \o listVirtLauncherPods \o analyzeIssues \o Write)
  \o Section(Write) \o Section(Write)
  \o Section(fetchDataVolumeStatus) \o Section(writeCloudInit) \o Section(writeVirtLauncherPods)
  \o Section(fetchVirtLauncherPodLogs) \o Section(fetchEvents)

troubleshoot == Args \o writeVMTroubleshootReport

-----------------------------------------------------------------------------
(* The vm-troubleshoot, hco-status and windows-golden-image prompts. *)

vmTroubleshootDecl == PromptDecl(RBACBounded({Verbs({"get"}, r) :
    r \in {"virtualmachines", "virtualmachineinstances", "pods/log"}}
  \cup {Verbs({"list"}, r) : r \in {"pods", "events"}}))

fetchVirtualMachineStatus == IgnoreError(Get("virtualmachines")) \o Write
fetchVirtualMachineInstanceStatus == IgnoreError(Get("virtualmachineinstances")) \o Write
fetchVirtLauncherPod ==
  IgnoreError(List("pods")) \o Either(Write, Section(Write) \o Each(Section(Write)))

\* Both lists are tried; what went wrong is written after them.
fetchEventsForPrompt ==
  LET matches == IgnoreError(List("events")) \o Each(Section(Maybe(Write) \o Section(Write)))
  IN Section(matches) \o Section(matches) \o Section(Write) \o Section(Each(Section(Write)))

writeVMTroubleshootGuide ==
  Section(Write) \o Section(fetchVirtualMachineStatus)
  \o Section(Write) \o Section(fetchVirtualMachineInstanceStatus)
  \o Section(Write) \o Section(fetchVirtLauncherPod)
  \o Section(Write) \o Section(fetchVirtLauncherPodLogs)
  \o Section(Write) \o Section(fetchEventsForPrompt) \o Section(Write)

vmTroubleshootHandler == Args \o writeVMTroubleshootGuide

hcoStatusDecl == PromptDecl(RBACBounded({Verbs({"list"}, r) :
  r \in {"hyperconvergeds", "kubevirts", "cdis", "networkaddonsconfigs", "events"}}))

\* Without the operator there is nothing to report.
discoverHyperConvergedCR == List("hyperconvergeds") \o MayFail
writeHCOBeforeComponents == Section(Write) \o Section(Write)
fetchComponentCR(res) == IgnoreError(List(res)) \o Write
writeManagedComponentStatus ==
  Section(fetchComponentCR("kubevirts")) \o Section(fetchComponentCR("cdis"))
  \o Section(fetchComponentCR("networkaddonsconfigs"))
writeHCOEvents ==
  OnError(List("events"), Write) \o Maybe(Each(Section(Write \o Section(Write))) \o Section(Write))
writeHCOReport ==
  Section(writeHCOBeforeComponents) \o Section(writeManagedComponentStatus)
  \o Section(Write) \o Section(writeHCOEvents) \o Section(Write)
hcoStatusHandler == discoverHyperConvergedCR \o writeHCOReport

\* The user is asked to accept the licence; nothing is requested from the
\* cluster, whatever the answer.
windowsGoldenImageDecl == PromptDecl(RBACNone)
requestEULAConsent == MayFail
windowsGoldenImageHandler == Args \o requestEULAConsent \o MayFail

-----------------------------------------------------------------------------
KubevirtToolset == {
  Entry("vm_lifecycle", lifecycleDecl, lifecycle),
  Entry("vm_clone", cloneDecl, cloneVM),
  Entry("vm_create", createDecl, create),
  Entry("vm_create_from_template", createFromTemplateDecl, createFromTemplate),
  Entry("vm_console_screenshot", screenshotDecl, screenshot),
  Entry("vm_guest_info", guestInfoDecl, guestInfo),
  Entry("vm_troubleshoot", troubleshootDecl, troubleshoot),
  Entry("vm-troubleshoot", vmTroubleshootDecl, vmTroubleshootHandler),
  Entry("hco-status", hcoStatusDecl, hcoStatusHandler),
  Entry("windows-golden-image", windowsGoldenImageDecl, windowsGoldenImageHandler)
}
=============================================================================
