----------------------------- MODULE TektonTools -----------------------------
(***************************************************************************)
(* The tekton toolset (pkg/toolsets/tekton).                                *)
(***************************************************************************)
EXTENDS ToolSteps

\* params.go: the values of the `params' argument.
parseParams == Args

-----------------------------------------------------------------------------
(* Starting and restarting runs. *)

startPipelineDecl == ToolDecl(FALSE, FALSE, FALSE, RBACBounded({Verbs({"get"}, "pipelines"),
  Verbs({"create"}, "pipelineruns")}))

\* The Pipeline has to exist; the params are parsed after it is read.
startPipeline ==
  Args \o Get("pipelines") \o parseParams \o MayFail \o CreateNew("pipelineruns")

startTaskDecl == ToolDecl(FALSE, FALSE, FALSE, RBACBounded({Verbs({"get"}, "tasks"),
  Verbs({"create"}, "taskruns")}))
startTask == Args \o Get("tasks") \o parseParams \o MayFail \o CreateNew("taskruns")

restartPipelineRun == Get("pipelineruns") \o MayFail \o CreateNew("pipelineruns")

pipelineRunLifecycleDecl == ToolDecl(FALSE, TRUE, FALSE, RBACBounded({
  Verbs({"get", "patch"}, "pipelineruns"), Verbs({"create"}, "pipelineruns")}))

\* restart makes a new run from the old one's spec; cancel patches spec.status.
pipelineRunLifecycle ==
  Args \o If("restart", restartPipelineRun, If("cancel", Patch("pipelineruns"), Fail))

restartTaskRunDecl == ToolDecl(FALSE, FALSE, FALSE, RBACBounded({Verbs({"get"}, "taskruns"),
  Verbs({"create"}, "taskruns")}))
restartTaskRun == Args \o Get("taskruns") \o MayFail \o CreateNew("taskruns")

-----------------------------------------------------------------------------
(* Logs. *)

\* One container's log; an error is a line of the text.
collectContainerLogs == OnError(Get("pods/log"), Write) \o Maybe(Write)

\* Mutant: the containers are read without looking at the budget.
collectTaskRunLogsUnbounded ==
  Either(<<>>, Either(Write, Each(collectContainerLogs)))

\* Steps and sidecars in order, until the text is spent.
collectTaskRunLogsWithClient ==
  Either(<<>>, Either(Write, Each(Section(collectContainerLogs))))

getTaskRunLogsDecl == ToolDecl(TRUE, FALSE, TRUE, RBACBounded({Verbs({"get"}, "taskruns"),
  Verbs({"get"}, "pods/log")}))
getTaskRunLogs == Args \o Get("taskruns") \o MayFail \o collectTaskRunLogsWithClient

pipelineRunTaskRuns == List("taskruns")

\* One task's logs in a scratch; `stop' is what a caller does when it has no
\* room or was cut.
appendTaskBlock(collect, stop) == Block(collect, stop)

getPipelineRunLogsDecl == ToolDecl(TRUE, FALSE, TRUE, RBACBounded({Verbs({"get"}, "pipelineruns"),
  Verbs({"list"}, "taskruns"), Verbs({"get"}, "pods/log")}))

\* The loop ends at the first block that does not fit.
getPipelineRunLogs ==
  Args \o Get("pipelineruns") \o pipelineRunTaskRuns \o MayFail
  \o Each(UnlessCut(appendTaskBlock(collectTaskRunLogsWithClient, Break)))

-----------------------------------------------------------------------------
(* The diagnosis: a structured result whose encoded size is the budget.      *)
(* canFetch is the check before a request, accept the one after an append.   *)

canFetch(steps) == Section(steps)
accept == Write
addPartialError == accept

failedPipelineRunTaskRuns ==
  Each(canFetch(OnError(pipelineRunTaskRuns, addPartialError \o Break) \o Each(UnlessCut(accept))
                \o Maybe(Break)))

readContainerLog == OnError(Get("pods/log"), addPartialError)
diagnoseFailedTaskRuns ==
  Each(UnlessCut(accept \o Each(UnlessCut(accept \o Maybe(canFetch(readContainerLog \o accept))))))

collectWarningEvents ==
  Each(canFetch(OnError(List("events"), addPartialError) \o Each(UnlessCut(accept)) \o Maybe(Break)))

pipelineRunDiagnoseDecl == ToolDecl(TRUE, FALSE, TRUE, RBACBounded({Verbs({"get"}, "pipelineruns"),
  Verbs({"list"}, "taskruns"), Verbs({"get"}, "pods/log"), Verbs({"list"}, "events")}))
diagnosePipelineRun ==
  Args \o Get("pipelineruns") \o MayFail \o accept
  \o failedPipelineRunTaskRuns \o diagnoseFailedTaskRuns \o canFetch(collectWarningEvents)

-----------------------------------------------------------------------------
(* The pipeline-troubleshoot prompt. *)

pipelineTroubleshootDecl == PromptDecl(RBACBounded({Verbs({"get"}, "pipelineruns"),
  Verbs({"get"}, "pipelines"), Verbs({"list"}, "taskruns"), Verbs({"get"}, "pods/log"),
  Verbs({"list"}, "events"), Verbs({"list"}, "repositories"), Verbs({"list"}, "tektonconfigs")}))

fetchPipelineRunForPrompt == IgnoreError(Get("pipelineruns")) \o Write

\* The definition is in the run, or in the Pipeline it names.
fetchPipelineDefinitionForPrompt == Maybe(IgnoreError(Get("pipelines"))) \o Write

fetchPipelineRunTaskRunsForPrompt ==
  OnError(List("taskruns"), Write) \o Each(Section(Write \o Maybe(Section(Write))))

\* A block that finds no room leaves the notice to the guide.
fetchPipelineRunLogsForPrompt ==
  UnlessCut(Either(Write,
    Each(appendTaskBlock(Each(collectTaskRunLogsWithClient), Write \o Break))))

writePipelineRunPACRepositoriesForPrompt == IgnoreError(List("repositories")) \o Write
writeTektonConfigsForPrompt == IgnoreError(List("tektonconfigs")) \o Write

\* One list per target, none once the text is cut.
fetchPipelineRunEventsForPrompt ==
  UnlessCut(Each(UnlessCut(IgnoreError(List("events")) \o Each(UnlessCut(Write \o Write)))) \o Write)

writePipelineTroubleshootGuide ==
  Section(fetchPipelineRunForPrompt) \o Section(Write) \o Section(Write)
  \o Section(fetchPipelineDefinitionForPrompt) \o Section(Write)
  \o Section(fetchPipelineRunTaskRunsForPrompt) \o Section(Write)
  \o Section(fetchPipelineRunLogsForPrompt) \o Section(Write)
  \o Section(writePipelineRunPACRepositoriesForPrompt) \o Section(Write)
  \o Section(writeTektonConfigsForPrompt) \o Section(Write)
  \o Section(fetchPipelineRunEventsForPrompt) \o Section(Write)

pipelineTroubleshootHandler == Args \o writePipelineTroubleshootGuide

-----------------------------------------------------------------------------
TektonToolset == {
  Entry("tekton_pipeline_start", startPipelineDecl, startPipeline),
  Entry("tekton_task_start", startTaskDecl, startTask),
  Entry("tekton_pipelinerun_lifecycle", pipelineRunLifecycleDecl, pipelineRunLifecycle),
  Entry("tekton_taskrun_restart", restartTaskRunDecl, restartTaskRun),
  Entry("tekton_taskrun_logs", getTaskRunLogsDecl, getTaskRunLogs),
  Entry("tekton_pipelinerun_logs", getPipelineRunLogsDecl, getPipelineRunLogs),
  Entry("tekton_pipelinerun_diagnose", pipelineRunDiagnoseDecl, diagnosePipelineRun),
  Entry("pipeline-troubleshoot", pipelineTroubleshootDecl, pipelineTroubleshootHandler)
}
=============================================================================
