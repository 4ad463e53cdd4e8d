---------------------------- MODULE WorkflowRuns ----------------------------
(***************************************************************************)
(* Workflow runs: create, advance, cancel, and the completion of paused    *)
(* runs by webhook or poll (application/use_cases/workflow/).              *)
(*                                                                         *)
(* The database is READ COMMITTED and every use case is one transaction,   *)
(* so db[r] is what other transactions see of a run and its steps, usage   *)
(* rows, checkpoints and outbox events, and txn[r] is the working copy of  *)
(* the transaction that holds the run's row lock.  A transaction takes the *)
(* lock with its first compare-and-set on workflow_runs.status and keeps   *)
(* it to its commit, while it calls providers: what a provider was asked   *)
(* (call) survives a rollback, what the transaction wrote does not.        *)
(***************************************************************************)
EXTENDS Naturals, FiniteSets, Sequences

CONSTANTS
  Run,         \* workflow run ids
  Flow,        \* the registered definitions, each the kinds of its steps
  MaxSteps,    \* steps of the longest of them
  MaxRetries,  \* MaxRetries[k]: StepDefinition.max_retries of steps of kind k
  Caller,      \* HTTP requests that advance or cancel
  Engine,      \* invocations of CompletionEngine.complete
  Owner,       \* fencing tokens of the workflow_run:<id> leases
  Token,       \* Token[e]: the owner string engine e presents
  Nobody,      \* no lease row
  NoProc,      \* no transaction holds the row lock
  Polling,     \* TRUE when something drives poll_once
  MaxCalls,    \* bound on the provider calls recorded per step
  MaxFaults    \* bound on crashes and failing resolve calls

Step == 1..MaxSteps
Proc == Caller \cup Engine
Call == 1..MaxCalls

\* What the registered definitions' steps do (domain/workflow/registry.py):
\* "echo" succeeds; "flaky" may also fail, transiently or for good; "sync" emits
\* a command the provider answers at once (generate-image); "async" one whose
\* job is submitted and finishes later (generate-video).
StepKind == {"echo", "flaky", "sync", "async"}

\* Only a first step is deferred in the registered definitions, so a run pauses
\* at most once and has at most one _paused checkpoint.
ASSUME WorkflowAssumption ==
  /\ Run # {}
  /\ MaxSteps \in Nat \ {0}
  /\ Flow \subseteq Seq(StepKind)
  /\ \A f \in Flow : Len(f) \in Step /\ \A s \in 2..Len(f) : f[s] # "async"
  /\ MaxRetries \in [StepKind -> Nat]
  /\ MaxCalls \in Nat /\ MaxFaults \in Nat
  /\ Token \in [Engine -> Owner]
  /\ Nobody \notin Owner
  /\ Caller \cap Engine = {} /\ NoProc \notin Proc
  /\ Polling \in BOOLEAN

VARIABLES
  db,        \* db[r]: the committed rows of run r
  txn,       \* txn[r]: the uncommitted copy of the transaction holding r
  writer,    \* writer[r]: the process holding the row lock of r, or NoProc
  call,      \* call[r][s][n]: the provider's side of the n-th call for step s of r
  hooks,     \* webhook deliveries the provider still owes
  pc, at,    \* where each process is, and the run it works on
  cause,     \* cause[e]: the delivery engine e answers, or NoHook for a poll
  got,       \* got[e]: the provider result engine e holds
  holder, live,  \* the lease rows (Lease)
  valid,     \* history: e's lease has not lapsed since e acquired it
  faults     \* crashes and failed resolves so far

leaseVars == <<holder, live>>
provVars == <<call, hooks>>
engineVars == <<cause, got>>
vars == <<db, txn, writer, call, hooks, pc, at, cause, got, holder, live, valid, faults>>

Locks == INSTANCE Lease WITH Key <- Run

RunStatus == {"queued", "running", "paused", "succeeded", "failed", "canceled"}
Terminal == {"succeeded", "failed", "canceled"}
Cancelable == {"queued", "running", "paused"}
Advanceable == {"queued", "running"}
StepStatus == {"pending", "running", "retrying", "succeeded", "failed"}
Event == {"Created", "Started", "StepCompleted", "Paused", "Resumed",
          "Succeeded", "Failed", "Canceled"}
TerminalEvent == {"Succeeded", "Failed", "Canceled"}
CallStatus == {"none", "pending", "ok", "failed", "error"}

Location == {"idle", "starting", "canceling", "driving", "acquire", "read", "resolve",
             "resume", "gate", "release", "unwind"}

\* A webhook delivery names a provider job: a call for the deferred step 1.
Hook == [run : Run, job : Call]
NoHook == [run |-> NoProc, job |-> 0]

Row == [status  : RunStatus \cup {"absent"},
        flow    : Flow \cup {<<>>},
        step    : [Step -> StepStatus],
        retries : [Step -> Nat],
        job     : 0..MaxCalls,             \* job of the _paused checkpoint, or 0
        billed  : SUBSET Step,             \* usage rows, unique by request_id
        log     : [Event -> Nat]]          \* how many events of each kind

AbsentRow == [status |-> "absent",
              flow |-> <<>>,
              step |-> [s \in Step |-> "pending"],
              retries |-> [s \in Step |-> 0],
              job |-> 0,
              billed |-> {},
              log |-> [k \in Event |-> 0]]

\* An open transaction: its rows, and how the step loop stands.
Txn == [row : Row, outcome : {"driving", "paused", "failed"}]
Open(row, outcome) == [row |-> row, outcome |-> outcome]
Closed == Open(AbsentRow, "driving")

Emit(row, k) == [row EXCEPT !.log[k] = @ + 1]
-----------------------------------------------------------------------------
Init == /\ db = [r \in Run |-> AbsentRow]
        /\ txn = [r \in Run |-> Closed]
        /\ writer = [r \in Run |-> NoProc]
        /\ call = [r \in Run |-> [s \in Step |-> [n \in Call |-> "none"]]]
        /\ hooks = {}
        /\ pc = [p \in Proc |-> "idle"]
        /\ at = [p \in Proc |-> CHOOSE r \in Run : TRUE]
        /\ cause = [e \in Engine |-> NoHook]
        /\ got = [e \in Engine |-> "none"]
        /\ Locks!Init
        /\ valid = [e \in Engine |-> FALSE]
        /\ faults = 0

Goto(p, l) == pc' = [pc EXCEPT ![p] = l]

\* The WHERE clauses of mark_run_running, resume_run and cancel, re-evaluated on
\* the committed row once its lock is free.  (Mutants: the update is unguarded.)
StartUnguarded(r) == writer[r] = NoProc
MayStart(r) == db[r].status = "queued"

MayResume(r) == db[r].status = "paused"

CancelUnguarded(r) == writer[r] = NoProc
MayCancel(r) == db[r].status \in Cancelable

\* CreateWorkflowRun: the queued run of some registered definition, its pending
\* steps and its event.
Create(r, f) ==
  /\ db[r].status = "absent"
  /\ db' = [db EXCEPT ![r] = Emit([@ EXCEPT !.status = "queued", !.flow = f], "Created")]
  /\ UNCHANGED <<txn, writer, provVars, pc, at, engineVars, leaseVars, valid, faults>>
-----------------------------------------------------------------------------
(***************************************************************************)
(* AdvanceWorkflowRun.execute and CancelWorkflowRun.execute.  The status   *)
(* read and the compare-and-set are two statements of one transaction: in  *)
(* between, another transaction may commit.                                *)
(***************************************************************************)
\* (execute would drive a run it reads running without a compare-and-set, but
\* RunningNeverCommitted says that no committed run is.)
AdvanceRead(c, r) ==
  /\ pc[c] = "idle"
  /\ db[r].status \in Advanceable
  /\ Goto(c, "starting")
  /\ at' = [at EXCEPT ![c] = r]
  /\ UNCHANGED <<db, txn, writer, provVars, engineVars, leaseVars, valid, faults>>

\* mark_run_running waits for the row lock.
AdvanceStart(c) ==
  LET r == at[c] IN
  /\ pc[c] = "starting"
  /\ writer[r] = NoProc
  /\ IF MayStart(r)
       THEN /\ writer' = [writer EXCEPT ![r] = c]
            /\ txn' = [txn EXCEPT ![r] =
                         Open(Emit([db[r] EXCEPT !.status = "running"], "Started"), "driving")]
            /\ Goto(c, "driving")
       ELSE /\ Goto(c, "idle")                       \* 409
            /\ UNCHANGED <<writer, txn>>
  /\ UNCHANGED <<db, provVars, at, engineVars, leaseVars, valid, faults>>

CancelRead(c, r) ==
  /\ pc[c] = "idle"
  /\ db[r].status \in Cancelable
  /\ Goto(c, "canceling")
  /\ at' = [at EXCEPT ![c] = r]
  /\ UNCHANGED <<db, txn, writer, provVars, engineVars, leaseVars, valid, faults>>

CancelWrite(c) ==
  LET r == at[c] IN
  /\ pc[c] = "canceling"
  /\ writer[r] = NoProc
  /\ db' = IF MayCancel(r)
             THEN [db EXCEPT ![r] = Emit([@ EXCEPT !.status = "canceled"], "Canceled")]
             ELSE db                                 \* lost: 200 no-op or 409
  /\ Goto(c, "idle")
  /\ UNCHANGED <<txn, writer, provVars, at, engineVars, leaseVars, valid, faults>>
-----------------------------------------------------------------------------
(***************************************************************************)
(* The step loop, _run_steps: p drives the run whose row lock it holds.    *)
(* Every write goes to the working copy.                                   *)
(***************************************************************************)
Driving(p) == pc[p] = "driving" /\ txn[at[p]].outcome = "driving"

\* The loop skips the steps that have succeeded and starts the first other one.
Steps(row) == 1..Len(row.flow)
Current(row, s) ==
  /\ s \in Steps(row)
  /\ row.step[s] \in {"pending", "retrying"}
  /\ \A t \in 1..(s - 1) : row.step[t] = "succeeded"

\* mark_step_succeeded and WorkflowStepCompleted, with the usage recorded for it.
StepSucceeds(row, s, bills) ==
  Open(Emit([row EXCEPT !.step[s] = "succeeded", !.billed = @ \cup bills], "StepCompleted"),
       "driving")

StepFails(row, s, bills) ==
  Open([row EXCEPT !.step[s] = "failed", !.billed = @ \cup bills], "failed")

\* A transient failure is retried within the definition's bound, then fatal.
StepRetries(row, s) ==
  IF row.retries[s] < MaxRetries[row.flow[s]]
    THEN Open([row EXCEPT !.step[s] = "retrying", !.retries[s] = @ + 1], "driving")
    ELSE StepFails(row, s, {})

\* The step stays running, with the job in its _paused checkpoint; no usage yet.
StepPauses(row, s, n) ==
  Open([row EXCEPT !.step[s] = "running", !.job = n], "paused")

Writes(r, t) == txn' = [txn EXCEPT ![r] = t]

\* A step that ends without a provider call: its handler is pure, or it emits a
\* malformed command (no model_id), which fails it before dispatch.
RunHandler(p) ==
  LET r == at[p]
      row == txn[r].row IN
  /\ Driving(p)
  /\ \E s \in Step :
       /\ Current(row, s)
       /\ \/ row.flow[s] \in {"echo", "flaky"} /\ Writes(r, StepSucceeds(row, s, {}))
          \/ row.flow[s] = "flaky" /\ Writes(r, StepRetries(row, s))
          \/ row.flow[s] # "echo" /\ Writes(r, StepFails(row, s, {}))
  /\ UNCHANGED <<db, writer, provVars, pc, at, engineVars, leaseVars, valid, faults>>

\* The n-th call the provider sees under request_id run:step:command.
NextCall(r, s, n) == \A m \in Call : (call[r][s][m] = "none") <=> (m >= n)

\* _execute_commands: dispatch inside the open transaction, then act on the
\* answer.  A terminal answer records usage, a raised ProviderError does not.
Dispatch(p) ==
  LET r == at[p]
      row == txn[r].row IN
  /\ Driving(p)
  /\ \E s \in Step, n \in Call, answer \in CallStatus \ {"none"} :
       /\ Current(row, s) /\ NextCall(r, s, n)
       /\ call' = [call EXCEPT ![r][s][n] = answer]
       /\ \/ row.flow[s] = "sync" /\ answer = "ok" /\ Writes(r, StepSucceeds(row, s, {s}))
          \/ row.flow[s] = "sync" /\ answer = "failed" /\ Writes(r, StepFails(row, s, {s}))
          \/ row.flow[s] = "async" /\ answer = "pending" /\ Writes(r, StepPauses(row, s, n))
          \/ /\ row.flow[s] \in {"sync", "async"} /\ answer = "error"
             /\ Writes(r, StepRetries(row, s)) \/ Writes(r, StepFails(row, s, {}))
  /\ UNCHANGED <<db, writer, hooks, pc, at, engineVars, leaseVars, valid, faults>>

\* _drive_and_settle and the commit of the caller's transaction.
Settled(row, outcome) ==
  CASE outcome = "paused"  -> Emit([row EXCEPT !.status = "paused"], "Paused")
    [] outcome = "failed"  -> Emit([row EXCEPT !.status = "failed"], "Failed")
    [] outcome = "driving" -> Emit([row EXCEPT !.status = "succeeded"], "Succeeded")

Commit(p) ==
  LET r == at[p]
      row == txn[r].row
      outcome == txn[r].outcome IN
  /\ pc[p] = "driving"
  /\ outcome = "driving" => \A s \in Steps(row) : row.step[s] = "succeeded"
  /\ db' = [db EXCEPT ![r] = Settled(row, outcome)]
  /\ writer' = [writer EXCEPT ![r] = NoProc]
  /\ txn' = [txn EXCEPT ![r] = Closed]
  /\ Goto(p, IF p \in Engine THEN "release" ELSE "idle")
  /\ UNCHANGED <<provVars, at, engineVars, leaseVars, valid, faults>>
-----------------------------------------------------------------------------
(***************************************************************************)
(* The two ingresses of the completion engine.                             *)
(***************************************************************************)
\* The provider finishes a job and owes a webhook for it.
Finish(r, n, result) ==
  /\ call[r][1][n] = "pending"
  /\ call' = [call EXCEPT ![r][1][n] = result]
  /\ hooks' = hooks \cup {[run |-> r, job |-> n]}
  /\ UNCHANGED <<db, txn, writer, pc, at, engineVars, leaseVars, valid, faults>>

\* find_paused_by_provider_job_id: a paused run whose checkpoint names the job.
Finds(h) == db[h.run].status = "paused" /\ db[h.run].job = h.job

\* ReceiveProviderWebhook: no paused run matches is acknowledged (200), and the
\* provider stops retrying; otherwise complete() is called.
Webhook(e, h) ==
  /\ pc[e] = "idle"
  /\ h \in hooks
  /\ IF Finds(h)
       THEN /\ Goto(e, "acquire")
            /\ at' = [at EXCEPT ![e] = h.run]
            /\ cause' = [cause EXCEPT ![e] = h]
            /\ UNCHANGED hooks
       ELSE /\ hooks' = hooks \ {h}
            /\ UNCHANGED <<pc, at, cause>>
  /\ UNCHANGED <<db, txn, writer, call, got, leaseVars, valid, faults>>

\* poll_once: complete() for a run listed as paused.
Poll(e, r) ==
  /\ Polling
  /\ pc[e] = "idle"
  /\ db[r].status = "paused"
  /\ Goto(e, "acquire")
  /\ at' = [at EXCEPT ![e] = r]
  /\ cause' = [cause EXCEPT ![e] = NoHook]
  /\ UNCHANGED <<db, txn, writer, provVars, got, leaseVars, valid, faults>>
-----------------------------------------------------------------------------
(***************************************************************************)
(* CompletionEngine.complete, one transaction or provider call per step.   *)
(***************************************************************************)
Acquire(e) ==
  LET r == at[e] IN
  /\ pc[e] = "acquire"
  /\ \/ /\ Locks!Take(r, Token[e])
        /\ valid' = [valid EXCEPT ![e] = TRUE]
        /\ Goto(e, "read")
        /\ UNCHANGED hooks
     \/ /\ ~Locks!Free(r)                            \* "locked", answered 200
        /\ Goto(e, "idle")
        /\ hooks' = hooks \ {cause[e]}
        /\ UNCHANGED <<leaseVars, valid>>
  /\ UNCHANGED <<db, txn, writer, call, at, engineVars, faults>>

\* _read_resolve_input: nothing to do unless the run is paused.  (Its checkpoint
\* does not change once it has paused, so the job is not copied here.)
ReadHandoff(e) ==
  /\ pc[e] = "read"
  /\ Goto(e, IF db[at[e]].status = "paused" THEN "resolve" ELSE "release")
  /\ UNCHANGED <<db, txn, writer, provVars, at, engineVars, leaseVars, valid, faults>>

\* resolve_job: the provider's answer, outside any transaction.
\* (Mutant: looked up by request_id, which a rolled-back attempt shares.)
AnswerByRequest(r) == call[r][1][1]
Answer(r) == call[r][1][db[r].job]

Resolve(e) ==
  LET answer == Answer(at[e]) IN
  /\ pc[e] = "resolve"
  /\ IF answer = "pending"
       THEN Goto(e, "release") /\ UNCHANGED got
       ELSE Goto(e, "resume") /\ got' = [got EXCEPT ![e] = answer]
  /\ UNCHANGED <<db, txn, writer, provVars, at, cause, leaseVars, valid, faults>>

\* ResumeWorkflowRun.execute reads the run afresh: no longer paused is a no-op ...
ResumeRead(e) ==
  /\ pc[e] = "resume"
  /\ Goto(e, IF db[at[e]].status = "paused" THEN "gate" ELSE "release")
  /\ UNCHANGED <<db, txn, writer, provVars, at, engineVars, leaseVars, valid, faults>>

\* ... and passes the exactly-once gate resume_run (paused -> running), records
\* the deferred usage and settles the paused step, all in one transaction that
\* the runner continues.
\* (Mutant: the deferred usage is not recorded.)
ResumedUnbilled(row, answer) ==
  Emit([row EXCEPT !.status = "running",
                   !.step[1] = IF answer = "ok" THEN "succeeded" ELSE "failed"], "Resumed")

\* (Mutant: the step that paused is run again instead of settled.)
ResumedAfresh(row, answer) ==
  Emit([row EXCEPT !.status = "running",
                   !.step[1] = IF answer = "ok" THEN "pending" ELSE "failed"], "Resumed")

Resumed(row, answer) ==
  Emit([row EXCEPT !.status = "running",
                   !.billed = @ \cup {1},
                   !.step[1] = IF answer = "ok" THEN "succeeded" ELSE "failed"], "Resumed")

ResumeGate(e) ==
  LET r == at[e] IN
  /\ pc[e] = "gate"
  /\ writer[r] = NoProc
  /\ IF MayResume(r)
       THEN /\ writer' = [writer EXCEPT ![r] = e]
            /\ txn' = [txn EXCEPT ![r] =
                 Open(Resumed(db[r], got[e]), IF got[e] = "ok" THEN "driving" ELSE "failed")]
            /\ Goto(e, "driving")
       ELSE /\ Goto(e, "release")                    \* lost the gate: no writes
            /\ UNCHANGED <<writer, txn>>
  /\ UNCHANGED <<db, provVars, at, engineVars, leaseVars, valid, faults>>

\* The finally block.  After a normal return the webhook is answered 200; while
\* an exception unwinds it is not, and the provider will deliver it again.
Release(e) ==
  /\ pc[e] \in {"release", "unwind"}
  /\ Locks!Drop(at[e], Token[e])
  /\ hooks' = IF pc[e] = "release" THEN hooks \ {cause[e]} ELSE hooks
  /\ valid' = [valid EXCEPT ![e] = FALSE]
  /\ Goto(e, "idle")
  /\ UNCHANGED <<db, txn, writer, call, at, engineVars, faults>>
-----------------------------------------------------------------------------
(***************************************************************************)
(* Faults, each counted against MaxFaults.                                 *)
(***************************************************************************)
Fault == faults < MaxFaults /\ faults' = faults + 1

\* The resolve call raises: the exception unwinds through the finally block.
ResolveError(e) ==
  /\ pc[e] = "resolve"
  /\ Fault
  /\ Goto(e, "unwind")
  /\ UNCHANGED <<db, txn, writer, provVars, at, engineVars, leaseVars, valid>>

\* A process dies.  Its transaction rolls back and frees the row lock; the
\* calls it made stand, and so does its lease row until it lapses.
Crash(p) ==
  /\ pc[p] # "idle"
  /\ Fault
  /\ Goto(p, "idle")
  /\ IF writer[at[p]] = p
       THEN /\ writer' = [writer EXCEPT ![at[p]] = NoProc]
            /\ txn' = [txn EXCEPT ![at[p]] = Closed]
       ELSE UNCHANGED <<writer, txn>>
  /\ valid' = [e \in Engine |-> valid[e] /\ e # p]
  /\ UNCHANGED <<db, provVars, at, engineVars, leaseVars>>

\* The lease (60 s, never renewed) runs out under whoever holds it.
LeaseLapses(r) ==
  /\ live[r]
  /\ Locks!Lapse({r})
  /\ valid' = [e \in Engine |-> valid[e] /\ at[e] # r]
  /\ UNCHANGED <<db, txn, writer, provVars, pc, at, engineVars, faults>>
-----------------------------------------------------------------------------
Drive(p) == RunHandler(p) \/ Dispatch(p) \/ Commit(p)

EngineStep(e) == \/ Acquire(e) \/ ReadHandoff(e) \/ Resolve(e)
                 \/ ResumeRead(e) \/ ResumeGate(e) \/ Release(e)

CallerStep(c) == AdvanceStart(c) \/ CancelWrite(c)

JobEnds == \E r \in Run, n \in Call, result \in {"ok", "failed"} : Finish(r, n, result)

Next == \/ \E r \in Run, f \in Flow : Create(r, f)
        \/ \E r \in Run : LeaseLapses(r)
        \/ \E c \in Caller, r \in Run : AdvanceRead(c, r) \/ CancelRead(c, r)
        \/ \E c \in Caller : CallerStep(c)
        \/ \E e \in Engine, r \in Run : Poll(e, r)
        \/ \E e \in Engine, h \in hooks : Webhook(e, h)
        \/ \E e \in Engine : EngineStep(e) \/ ResolveError(e)
        \/ \E p \in Proc : Drive(p) \/ Crash(p)
        \/ JobEnds

Spec == Init /\ [][Next]_vars

\* Requests under way run on, providers finish their jobs and keep delivering a
\* webhook until it is acknowledged, time passes, and, with Polling, poll_once
\* is driven again and again.  Users need not advance or cancel anything, and
\* nothing has to crash.
Fairness == /\ \A p \in Proc : WF_vars(Drive(p))
            /\ \A c \in Caller : WF_vars(CallerStep(c))
            /\ \A e \in Engine : WF_vars(EngineStep(e))
            /\ \A e \in Engine, r \in Run : WF_vars(Poll(e, r))
            /\ WF_vars(\E e \in Engine, h \in hooks : Webhook(e, h))
            /\ WF_vars(JobEnds)
            /\ \A r \in Run : WF_vars(LeaseLapses(r))

FairSpec == Spec /\ Fairness
-----------------------------------------------------------------------------
(***************************************************************************)
(* Properties                                                              *)
(***************************************************************************)
\* Every variable has its type.
TypeOK ==
  /\ db \in [Run -> Row]
  /\ txn \in [Run -> Txn]
  /\ writer \in [Run -> Proc \cup {NoProc}]
  /\ call \in [Run -> [Step -> [Call -> CallStatus]]]
  /\ hooks \subseteq Hook
  /\ pc \in [Proc -> Location]
  /\ at \in [Proc -> Run]
  /\ cause \in [Engine -> Hook \cup {NoHook}]
  /\ got \in [Engine -> CallStatus]
  /\ holder \in [Run -> Owner \cup {Nobody}]
  /\ live \in [Run -> BOOLEAN]
  /\ valid \in [Engine -> BOOLEAN]
  /\ faults \in 0..MaxFaults

\* A process that holds a row lock is driving that run, from a state it could
\* start or resume from; its uncommitted copy adds to the published story only
\* the opening event and completed steps, and until it commits nobody else moves
\* the run.
Opening(r) == IF db[r].status = "queued" THEN "Started" ELSE "Resumed"

WriterDrives ==
  \A r \in Run, p \in Proc : writer[r] = p <=> pc[p] = "driving" /\ at[p] = r

WorkingCopy ==
  \A r \in Run : writer[r] # NoProc =>
    /\ db[r].status \in {"queued", "paused"}
    /\ txn[r].row.status = "running"
    /\ \A k \in Event \ {"StepCompleted"} :
         txn[r].row.log[k] = db[r].log[k] + (IF k = Opening(r) THEN 1 ELSE 0)
    /\ txn[r].row.log["StepCompleted"] >= db[r].log["StepCompleted"]

TransactionsIsolate == WriterDrives /\ WorkingCopy

\* "A crash cannot strand a running run" (resume_workflow_run.py): the states
\* between start or resume and settlement live only in an open transaction, so
\* whatever crashes, no committed run is running.
RunningNeverCommitted == \A r \in Run : db[r].status # "running"

\* The published events tell the run's story, whatever was rolled back or raced:
\* it has one terminal event exactly when it has a terminal status, and that
\* event names it; pauses and resumes pair up but for the one it is in or was
\* canceled in; and there is a completion event for each step the runner, not a
\* resume, completed.
TerminalStatus == [Succeeded |-> "succeeded", Failed |-> "failed", Canceled |-> "canceled"]

LogTellsStory ==
  \A r \in Run :
    LET row == db[r]
        done == {s \in Steps(row) : row.flow[s] # "async" /\ row.step[s] = "succeeded"} IN
    /\ \A k \in TerminalEvent :
         row.log[k] = IF row.status = TerminalStatus[k] THEN 1 ELSE 0
    /\ row.log["Paused"] \in
         CASE row.status = "paused" -> {row.log["Resumed"] + 1}
           [] row.status = "canceled" -> {row.log["Resumed"], row.log["Resumed"] + 1}
           [] OTHER -> {row.log["Resumed"]}
    /\ row.log["StepCompleted"] = Cardinality(done)

\* No media without accounting (ADR-0042 G5): a run that succeeded has a usage row
\* for each of its provider-backed steps, deferred ones included; and no step is
\* billed unless the provider came to a terminal answer for some call of it.
UsageMatchesCalls ==
  \A r \in Run :
    /\ db[r].status = "succeeded" =>
         {s \in Steps(db[r]) : db[r].flow[s] \in {"sync", "async"}} \subseteq db[r].billed
    /\ \A s \in db[r].billed : \E n \in Call : call[r][s][n] \in {"ok", "failed"}

\* A deferred step ends as the job in its own checkpoint ended, not as a job of a
\* rolled-back attempt did, though both were submitted under one request_id.
DeferredResultIsOwn ==
  \A r \in Run :
    (db[r].job # 0 /\ db[r].step[1] \in {"succeeded", "failed"}) =>
      call[r][1][db[r].job] = IF db[r].step[1] = "succeeded" THEN "ok" ELSE "failed"

\* A run that has ended is never touched again: no late webhook, poll, advance,
\* cancel or rolled-back transaction changes its rows or publishes an event.
TerminalIsFinal ==
  [][\A r \in Run : db[r].status \in Terminal => db'[r] = db[r]]_vars

\* The run as clients see it moves only as RunLifecycle lets it.
Lifecycle == INSTANCE RunLifecycle WITH status <- [r \in Run |-> db[r].status],
                                        log <- [r \in Run |-> db[r].log]
ImplementsLifecycle == Lifecycle!Spec

\* "Two ingresses never resolve the same job concurrently" (completion_engine.py):
\* two engines never both work on a run under a lease that has not lapsed.
LeaseExclusive ==
  \A e, f \in Engine : (valid[e] /\ valid[f] /\ at[e] = at[f]) => e = f

\* "Each StepCommand is dispatched exactly once; resume/completion never re-dispatches
\* provider work" (ADR-0042), but for a process that dies between the call and its
\* commit: calls of a step that the provider took are one, and one more for each crash.
DispatchedOnce ==
  \A r \in Run, s \in Step :
    Cardinality({n \in Call : call[r][s][n] \notin {"none", "error"}}) <= 1 + faults

\* "Crash recovery self-heals" (ADR-0042): a paused run comes to an end, whatever
\* webhook was lost and whatever engine crashed over it.
PausedRunIsCompleted ==
  \A r \in Run : db[r].status = "paused" ~> db[r].status \in Terminal
=============================================================================
