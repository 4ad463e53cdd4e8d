--------------------------- MODULE MCWorkflowRuns ---------------------------
(***************************************************************************)
(* Workflow runs for TLC over the definitions registered in                *)
(* domain/workflow/registry.py.  OneToken is the completion_lock_owner     *)
(* setting, the same string in every process.                              *)
(***************************************************************************)
EXTENDS WorkflowRuns

RetryFlow == <<"echo", "flaky">>    \* retry-succeed, terminal-fail, retry-exhaust
ImageFlow == <<"echo", "sync">>     \* generate-image
VideoFlow == <<"async">>            \* generate-video

AllFlows == {RetryFlow, ImageFlow, VideoFlow}
OnlyVideo == {VideoFlow}

\* retry-exhaust allows 2 retries; the command flow of the pipeline tests, 1.
RetriesOf == [k \in StepKind |-> CASE k = "flaky" -> 2 [] k = "sync" -> 1 [] OTHER -> 0]

OneToken == [e \in Engine |-> CHOOSE o \in Owner : TRUE]
=============================================================================
