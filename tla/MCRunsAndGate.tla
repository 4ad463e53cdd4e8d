---------------------------- MODULE MCRunsAndGate ----------------------------
(***************************************************************************)
(* Workflow runs, or the schema they are stored in and the CI gate that    *)
(* migrates it: each behaviour follows one of the two, the other stays as  *)
(* it began.                                                               *)
(***************************************************************************)
EXTENDS MCWorkflowRuns, CiGate

VARIABLE part      \* what is followed

\* The round trip with what precedes it, the destructive stage alone, the validator alone.
SomeSelections == {4..9, {6}, {8}}

\* A table nothing may be deleted from, and one whose rows go with what they refer to.
TwoWitnesses == {"usage_records", "roles_users"}

bothVars == <<part, vars, gateVars>>

\* Beside the runs nothing is migrated: that database stays empty.
NoSchema == /\ version = 0 /\ schema = {} /\ holders = {} /\ flaws = {}
            /\ mig = [m \in Migrator |-> NotRunning] /\ gate = NotStarted

BothInit == /\ Init
            /\ \/ part = "runs" /\ NoSchema
               \/ part = "schema" /\ GateInit

OfRuns(A) == part = "runs" /\ A /\ UNCHANGED <<part, gateVars>>

BothNext == \/ OfRuns(Next)
            \/ part = "schema" /\ GateNext /\ UNCHANGED <<part, vars>>

\* The fairness of WorkflowRuns.
BothFairness ==
  /\ \A p \in Proc : WF_vars(OfRuns(Drive(p)))
  /\ \A c \in Caller : WF_vars(OfRuns(CallerStep(c)))
  /\ \A e \in Engine : WF_vars(OfRuns(EngineStep(e)))
  /\ \A e \in Engine, r \in Run : WF_vars(OfRuns(Poll(e, r)))
  /\ WF_vars(OfRuns(\E e \in Engine, h \in hooks : Webhook(e, h)))
  /\ WF_vars(OfRuns(JobEnds))
  /\ \A r \in Run : WF_vars(OfRuns(LeaseLapses(r)))

BothSpec == BothInit /\ [][BothNext]_bothVars /\ BothFairness
=============================================================================
