------------------------- MODULE WorkflowRunsProofs -------------------------
(***************************************************************************)
(* Theorems about workflow runs, for every set of runs, requests, engines, *)
(* definitions, lease tokens and bounds: in particular for engines that    *)
(* share one token, and whatever leases lapse under them.                  *)
(***************************************************************************)
EXTENDS WorkflowRuns, FiniteSetTheorems, TLAPS

\* What the engine relies on when it looks the provider job up: a paused run has
\* one, an open transaction keeps it, and so does the run an engine resolves.
JobKnown ==
  /\ \A r \in Run : db[r].status = "paused" => db[r].job \in Call
  /\ \A r \in Run : writer[r] # NoProc =>
       /\ db[r].job \in Call => txn[r].row.job \in Call
       /\ txn[r].outcome = "paused" => txn[r].row.job \in Call
  /\ \A e \in Engine : pc[e] = "resolve" => db[at[e]].job \in Call

\* With the types, the inductive invariant.
Safe == TransactionsIsolate /\ RunningNeverCommitted /\ JobKnown

\* A step's write t leaves the run running, keeps its job, and adds nothing to
\* the log but step completions.
Carries(row, t) ==
  /\ t.row.status = row.status
  /\ row.job \in Call => t.row.job \in Call
  /\ t.outcome = "paused" => t.row.job \in Call
  /\ \A k \in Event \ {"StepCompleted"} : t.row.log[k] = row.log[k]
  /\ t.row.log["StepCompleted"] >= row.log["StepCompleted"]
-----------------------------------------------------------------------------
\* Publishing an event changes the log of a row, by one, and nothing else.
LEMMA EmitLogs ==
  ASSUME NEW row \in Row, NEW k \in Event
  PROVE  /\ Emit(row, k) \in Row
         /\ Emit(row, k).status = row.status
         /\ Emit(row, k).job = row.job
         /\ \A j \in Event : Emit(row, k).log[j] = row.log[j] + (IF j = k THEN 1 ELSE 0)
<1>1. Emit(row, k) = [row EXCEPT !.log = [row.log EXCEPT ![k] = row.log[k] + 1]]
  BY DEF Emit, Row
<1>2. row.log \in [Event -> Nat]
  BY DEF Row
<1>3. [row.log EXCEPT ![k] = row.log[k] + 1] \in [Event -> Nat]
  BY <1>2
<1>4. Emit(row, k) \in Row
  BY <1>1, <1>3 DEF Row
<1>5. \A j \in Event : [row.log EXCEPT ![k] = row.log[k] + 1][j] = row.log[j] + (IF j = k THEN 1 ELSE 0)
  BY <1>2
<1>6. Emit(row, k).log = [row.log EXCEPT ![k] = row.log[k] + 1]
  BY <1>1 DEF Row
<1>7. Emit(row, k).status = row.status /\ Emit(row, k).job = row.job
  BY <1>1 DEF Row
<1>8. QED
  BY <1>4, <1>5, <1>6, <1>7

\* A write that keeps a row's status, job and log carries the run on.
LEMMA QuietWrite ==
  ASSUME NEW row \in Row, NEW next \in Row, NEW o \in {"driving", "paused", "failed"},
         next.status = row.status, next.log = row.log,
         row.job \in Call => next.job \in Call,
         o = "paused" => next.job \in Call
  PROVE  Open(next, o) \in Txn /\ Carries(row, Open(next, o))
<1>1. row.log \in [Event -> Nat] /\ "StepCompleted" \in Event
  BY DEF Row, Event
<1>2. row.log["StepCompleted"] >= row.log["StepCompleted"]
  BY <1>1
<1>3. QED
  BY <1>2 DEF Open, Txn, Carries

\* A step that succeeds, fails or is retried writes well-typed rows and carries
\* the run on.
LEMMA StepWritesCarry ==
  ASSUME NEW row \in Row, NEW s \in Step, NEW bills \in SUBSET Step
  PROVE  /\ StepSucceeds(row, s, bills) \in Txn /\ Carries(row, StepSucceeds(row, s, bills))
         /\ StepFails(row, s, bills) \in Txn /\ Carries(row, StepFails(row, s, bills))
         /\ StepRetries(row, s) \in Txn /\ Carries(row, StepRetries(row, s))
<1>1. ASSUME NEW b \in SUBSET Step
      PROVE  StepFails(row, s, b) \in Txn /\ Carries(row, StepFails(row, s, b))
  <2> DEFINE next == [row EXCEPT !.step[s] = "failed", !.billed = @ \cup b]
  <2>1. next \in Row /\ next.status = row.status /\ next.job = row.job /\ next.log = row.log
    BY DEF Row, StepStatus
  <2>2. StepFails(row, s, b) = Open(next, "failed")
    BY DEF StepFails
  <2> HIDE DEF next
  <2>3. QED
    BY <2>1, <2>2, QuietWrite
<1>2. StepRetries(row, s) \in Txn /\ Carries(row, StepRetries(row, s))
  <2> DEFINE next == [row EXCEPT !.step[s] = "retrying", !.retries[s] = @ + 1]
             steps == [row.step EXCEPT ![s] = "retrying"]
             counts == [row.retries EXCEPT ![s] = row.retries[s] + 1]
  <2>0. steps \in [Step -> StepStatus] /\ counts \in [Step -> Nat]
    <3>1. row.retries \in [Step -> Nat] /\ row.step \in [Step -> StepStatus]
      BY DEF Row
    <3>2. "retrying" \in StepStatus
      BY DEF StepStatus
    <3>3. QED
      BY <3>1, <3>2
  <2>1. next \in Row /\ next.status = row.status /\ next.job = row.job /\ next.log = row.log
    <3>1. next = [row EXCEPT !.step = steps, !.retries = counts]
      BY DEF Row
    <3> HIDE DEF steps, counts, next
    <3>2. QED
      BY <2>0, <3>1 DEF Row
  <2>2. StepRetries(row, s) \in {Open(next, "driving"), StepFails(row, s, {})}
    BY DEF StepRetries
  <2>3. Open(next, "driving") \in Txn /\ Carries(row, Open(next, "driving"))
    <3> HIDE DEF next
    <3> QED
      BY <2>1, QuietWrite
  <2> HIDE DEF next
  <2>4. QED
    BY <1>1, <2>2, <2>3
<1>3. StepSucceeds(row, s, bills) \in Txn /\ Carries(row, StepSucceeds(row, s, bills))
  <2> DEFINE next == [row EXCEPT !.step[s] = "succeeded", !.billed = @ \cup bills]
             done == Emit(next, "StepCompleted")
  <2>1. next \in Row /\ next.status = row.status /\ next.job = row.job /\ next.log = row.log
    BY DEF Row, StepStatus
  <2>2. "StepCompleted" \in Event /\ row.log \in [Event -> Nat]
    BY DEF Event, Row
  <2>3. StepSucceeds(row, s, bills) = Open(done, "driving")
    BY DEF StepSucceeds
  <2> HIDE DEF next
  <2>4. /\ done \in Row /\ done.status = row.status /\ done.job = row.job
        /\ \A j \in Event : done.log[j] = row.log[j] + (IF j = "StepCompleted" THEN 1 ELSE 0)
    BY <2>1, <2>2, EmitLogs
  <2> HIDE DEF done
  <2>5. /\ \A k \in Event \ {"StepCompleted"} : done.log[k] = row.log[k]
        /\ done.log["StepCompleted"] >= row.log["StepCompleted"]
    BY <2>2, <2>4
  <2>6. QED
    BY <2>3, <2>4, <2>5 DEF Open, Txn, Carries
<1>4. QED
  BY <1>1, <1>2, <1>3

\* So does a step that pauses, which is where the job of a paused run comes from.
LEMMA PausesCarry ==
  ASSUME NEW row \in Row, NEW s \in Step, NEW n \in Call
  PROVE  StepPauses(row, s, n) \in Txn /\ Carries(row, StepPauses(row, s, n))
<1> DEFINE next == [row EXCEPT !.step[s] = "running", !.job = n]
<1>1. n \in 0..MaxCalls
  BY WorkflowAssumption DEF Call
<1>2. next \in Row /\ next.status = row.status /\ next.job = n /\ next.log = row.log
  BY <1>1 DEF Row, StepStatus
<1>3. StepPauses(row, s, n) = Open(next, "paused")
  BY DEF StepPauses
<1> HIDE DEF next
<1>4. QED
  BY <1>2, <1>3, QuietWrite
-----------------------------------------------------------------------------
\* A step that writes no run and in which only p, which drives none, moves.
LEMMA Bystander ==
  ASSUME TypeOK, Safe, NEW p \in Proc,
         UNCHANGED <<db, txn, writer>>,
         pc[p] # "driving", pc'[p] # "driving",
         \A q \in Proc \ {p} : pc'[q] = pc[q] /\ at'[q] = at[q],
         p \in Engine /\ pc'[p] = "resolve" => db[at'[p]].job \in Call
  PROVE  Safe'
<1>1. TransactionsIsolate'
  <2>1. WriterDrives'
    BY DEF Safe, TransactionsIsolate, WriterDrives
  <2>2. WorkingCopy'
    BY DEF Safe, TransactionsIsolate, WorkingCopy, Opening
  <2>3. QED
    BY <2>1, <2>2 DEF TransactionsIsolate
<1>2. RunningNeverCommitted'
  BY DEF Safe, RunningNeverCommitted
<1>3. JobKnown'
  BY DEF Safe, JobKnown, Proc
<1>4. QED
  BY <1>1, <1>2, <1>3 DEF Safe

\* A step that neither writes a run nor moves a process.
LEMMA Offstage ==
  ASSUME Safe, UNCHANGED <<db, txn, writer, pc, at>>
  PROVE  Safe'
BY DEF Safe, TransactionsIsolate, WriterDrives, WorkingCopy, Opening, RunningNeverCommitted,
       JobKnown

\* A created run has no transaction and no engine yet.
LEMMA CreateSafe ==
  ASSUME TypeOK, Safe, NEW r \in Run, NEW f \in Flow, Create(r, f)
  PROVE  TypeOK' /\ Safe'
<1> DEFINE new == [db[r] EXCEPT !.status = "queued", !.flow = f]
<1>1. db[r] \in Row /\ "Created" \in Event
  BY DEF TypeOK, Event
<1>2. new \in Row /\ new.status = "queued"
  BY <1>1 DEF Row, RunStatus
<1>3. db' = [db EXCEPT ![r] = Emit(new, "Created")]
  BY DEF Create
<1> HIDE DEF new
<1>4. Emit(new, "Created") \in Row /\ Emit(new, "Created").status = "queued"
  BY <1>1, <1>2, EmitLogs
<1>5. db' \in [Run -> Row] /\ db'[r].status = "queued" /\ \A q \in Run \ {r} : db'[q] = db[q]
  BY <1>3, <1>4 DEF TypeOK
<1>6. TypeOK'
  BY <1>5 DEF TypeOK, Create, provVars, engineVars, leaseVars
<1>7. writer[r] = NoProc
  BY DEF Create, Safe, TransactionsIsolate, WorkingCopy
<1>8. UNCHANGED <<txn, writer, pc, at>>
  BY DEF Create
<1>9. \A e \in Engine : pc[e] = "resolve" => db'[at[e]].job = db[at[e]].job
  <2>1. new.job = db[r].job
    BY <1>1 DEF Row, new
  <2>2. Emit(new, "Created").job = db[r].job
    BY <1>1, <1>2, <2>1, EmitLogs
  <2>3. \A q \in Run : db'[q].job = db[q].job
    BY <1>3, <1>5, <2>2 DEF TypeOK
  <2>4. QED
    BY <2>3 DEF TypeOK, Proc
<1>10. QED
  BY <1>5, <1>6, <1>7, <1>8, <1>9
     DEF Safe, TransactionsIsolate, WriterDrives, WorkingCopy, Opening, RunningNeverCommitted, JobKnown

\* A process takes the row lock of a run that rests, and opens its transaction.
LEMMA LockTaken ==
  ASSUME TypeOK, Safe, NEW p \in Proc, NEW t \in Txn, writer[at[p]] = NoProc,
         pc[p] # "driving", Goto(p, "driving"),
         db[at[p]].status \in {"queued", "paused"},
         writer' = [writer EXCEPT ![at[p]] = p],
         txn' = [txn EXCEPT ![at[p]] = t],
         UNCHANGED <<db, at>>,
         t.row.status = "running",
         t.outcome # "paused",
         db[at[p]].job \in Call => t.row.job \in Call,
         \A k \in Event : t.row.log[k] = db[at[p]].log[k] + (IF k = Opening(at[p]) THEN 1 ELSE 0)
  PROVE  Safe'
<1> DEFINE r == at[p]
<1>1. r \in Run /\ NoProc \notin Proc /\ p # NoProc
  BY WorkflowAssumption DEF TypeOK
<1>2. writer'[r] = p /\ txn'[r] = t /\ pc'[p] = "driving"
  BY <1>1 DEF TypeOK, Goto
<1>3. \A q \in Run \ {r} : writer'[q] = writer[q] /\ txn'[q] = txn[q]
  BY DEF TypeOK
<1>4. \A q \in Proc \ {p} : pc'[q] = pc[q]
  BY DEF TypeOK, Goto
<1>5. WriterDrives'
  BY <1>1, <1>2, <1>3, <1>4 DEF Safe, TransactionsIsolate, WriterDrives
<1>6. WorkingCopy'
  <2>1. db[r].log \in [Event -> Nat] /\ "StepCompleted" \in Event
    BY <1>1 DEF TypeOK, Row, Event
  <2>2. Opening(r) # "StepCompleted"
    BY DEF Opening
  <2>3. t.row.log["StepCompleted"] >= db[r].log["StepCompleted"]
    BY <2>1, <2>2
  <2>4. \A q \in Run : Opening(q)' = Opening(q)
    BY DEF Opening
  <2>5. QED
    BY <1>1, <1>2, <1>3, <2>3, <2>4 DEF Safe, TransactionsIsolate, WorkingCopy
<1>7. JobKnown'
  BY <1>1, <1>2, <1>3, <1>4 DEF Safe, JobKnown, Proc
<1>8. QED
  BY <1>5, <1>6, <1>7 DEF Safe, TransactionsIsolate, RunningNeverCommitted

\* The holder of a row lock writes its uncommitted copy.
LEMMA CopyWritten ==
  ASSUME TypeOK, Safe, NEW p \in Proc, NEW t \in Txn, pc[p] = "driving",
         Writes(at[p], t), Carries(txn[at[p]].row, t),
         UNCHANGED <<db, writer, pc, at>>
  PROVE  Safe'
<1> DEFINE r == at[p]
<1>1. r \in Run /\ writer[r] = p /\ writer[r] # NoProc
  BY WorkflowAssumption DEF TypeOK, Safe, TransactionsIsolate, WriterDrives
<1>2. txn'[r] = t /\ \A q \in Run \ {r} : txn'[q] = txn[q]
  BY <1>1 DEF TypeOK, Writes
<1>3. WorkingCopy'
  <2>1. \A q \in Run : Opening(q)' = Opening(q)
    BY DEF Opening
  <2>2. /\ db[r].status \in {"queued", "paused"}
        /\ t.row.status = "running"
        /\ \A k \in Event \ {"StepCompleted"} :
             t.row.log[k] = db[r].log[k] + (IF k = Opening(r) THEN 1 ELSE 0)
    BY <1>1 DEF Safe, TransactionsIsolate, WorkingCopy, Carries
  <2>3. t.row.log["StepCompleted"] >= db[r].log["StepCompleted"]
    <3>1. /\ t.row.log["StepCompleted"] \in Nat
          /\ txn[r].row.log["StepCompleted"] \in Nat
          /\ db[r].log["StepCompleted"] \in Nat
      <4>1. "StepCompleted" \in Event
        BY DEF Event
      <4>2. t.row \in Row /\ txn[r].row \in Row /\ db[r] \in Row
        BY <1>1 DEF TypeOK, Txn
      <4>3. QED
        BY <4>1, <4>2 DEF Row
    <3>2. /\ t.row.log["StepCompleted"] >= txn[r].row.log["StepCompleted"]
          /\ txn[r].row.log["StepCompleted"] >= db[r].log["StepCompleted"]
      BY <1>1 DEF Safe, TransactionsIsolate, WorkingCopy, Carries
    <3>3. QED
      BY <3>1, <3>2
  <2>4. QED
    BY <1>2, <2>1, <2>2, <2>3 DEF Safe, TransactionsIsolate, WorkingCopy
<1>4. JobKnown'
  BY <1>1, <1>2 DEF Safe, JobKnown, Carries
<1>5. QED
  BY <1>3, <1>4 DEF Safe, TransactionsIsolate, WriterDrives, RunningNeverCommitted

\* A process ends, with or without a row lock to give up, and publishes a row in
\* its stead only if it held the lock.
LEMMA LockReleased ==
  ASSUME TypeOK, Safe, NEW p \in Proc, NEW l \in Location \ {"driving", "resolve"},
         NEW new \in Row, Goto(p, l), UNCHANGED at,
         writer' = [writer EXCEPT ![at[p]] = NoProc],
         txn' = [txn EXCEPT ![at[p]] = Closed],
         db' = [db EXCEPT ![at[p]] = new],
         writer[at[p]] = p,
         new.status # "running",
         new.status = "paused" \/ db[at[p]].job \in Call => new.job \in Call
  PROVE  Safe'
<1> DEFINE r == at[p]
<1>1. r \in Run /\ NoProc \notin Proc
  BY WorkflowAssumption DEF TypeOK
<1>2. writer'[r] = NoProc /\ db'[r] = new /\ pc'[p] = l
  BY <1>1 DEF TypeOK, Goto
<1>3. \A q \in Run \ {r} : writer'[q] = writer[q] /\ txn'[q] = txn[q] /\ db'[q] = db[q]
  BY DEF TypeOK
<1>4. \A q \in Proc \ {p} : pc'[q] = pc[q]
  BY DEF TypeOK, Goto
<1>5. WriterDrives'
  BY <1>1, <1>2, <1>3, <1>4 DEF Safe, TransactionsIsolate, WriterDrives
<1>6. WorkingCopy'
  <2>1. \A q \in Run \ {r} : Opening(q)' = Opening(q)
    BY <1>3 DEF Opening
  <2>2. QED
    BY <1>2, <1>3, <2>1 DEF Safe, TransactionsIsolate, WorkingCopy
<1>7. JobKnown'
  BY <1>1, <1>2, <1>3, <1>4 DEF Safe, JobKnown, TypeOK, Proc
<1>8. RunningNeverCommitted'
  BY <1>2, <1>3 DEF Safe, RunningNeverCommitted
<1>9. QED
  BY <1>5, <1>6, <1>7, <1>8 DEF Safe, TransactionsIsolate
-----------------------------------------------------------------------------
\* Moving a process keeps the types.
LEMMA MovesTyped ==
  ASSUME TypeOK, NEW p \in Proc, NEW l \in Location, Goto(p, l)
  PROVE  /\ pc' \in [Proc -> Location]
         /\ pc'[p] = l
         /\ \A q \in Proc \ {p} : pc'[q] = pc[q]
BY DEF TypeOK, Goto

\* The placeholder for no open transaction is well typed.
LEMMA ClosedTyped == Closed \in Txn
BY WorkflowAssumption
   DEF Closed, Open, Txn, AbsentRow, Row, StepStatus, Step, Event, Call

\* The status reads that advance and cancel begin with only move the caller.
LEMMA AdvanceSafe ==
  ASSUME TypeOK, Safe, NEW c \in Caller, NEW r \in Run, AdvanceRead(c, r) \/ CancelRead(c, r)
  PROVE  TypeOK' /\ Safe'
<1>1. PICK l \in {"starting", "canceling"} : Goto(c, l)
  BY DEF AdvanceRead, CancelRead
<1>2. /\ c \in Proc /\ c \notin Engine /\ pc[c] = "idle"
      /\ at' = [at EXCEPT ![c] = r]
      /\ UNCHANGED <<db, txn, writer, call, hooks, cause, got, holder, live, valid, faults>>
  BY WorkflowAssumption DEF AdvanceRead, CancelRead, Proc, provVars, engineVars, leaseVars
<1>3. l \in Location
  BY DEF Location
<1>4. pc' \in [Proc -> Location] /\ pc'[c] = l /\ \A q \in Proc \ {c} : pc'[q] = pc[q]
  BY <1>1, <1>2, <1>3, MovesTyped
<1>5. at' \in [Proc -> Run] /\ \A q \in Proc \ {c} : at'[q] = at[q]
  BY <1>2 DEF TypeOK
<1>6. TypeOK'
  BY <1>2, <1>4, <1>5 DEF TypeOK
<1>7. Safe'
  BY <1>2, <1>4, <1>5, Bystander
<1>8. QED
  BY <1>6, <1>7

\* mark_run_running takes the row lock, or the caller is refused.
LEMMA StartSafe ==
  ASSUME TypeOK, Safe, NEW c \in Caller, AdvanceStart(c)
  PROVE  TypeOK' /\ Safe'
<1> DEFINE r == at[c]
           new == [db[r] EXCEPT !.status = "running"]
<1>1. /\ c \in Proc /\ c \notin Engine /\ r \in Run /\ pc[c] = "starting" /\ writer[r] = NoProc
      /\ UNCHANGED <<db, call, hooks, at, cause, got, holder, live, valid, faults>>
  BY WorkflowAssumption DEF TypeOK, AdvanceStart, Proc, provVars, engineVars, leaseVars
<1>2. CASE MayStart(r)
  <2>1. /\ writer' = [writer EXCEPT ![r] = c]
        /\ txn' = [txn EXCEPT ![r] = Open(Emit(new, "Started"), "driving")]
        /\ Goto(c, "driving") /\ db[r].status = "queued"
    BY <1>2 DEF AdvanceStart, MayStart
  <2>2. db[r] \in Row /\ "Started" \in Event /\ "driving" \in Location
    BY <1>1 DEF TypeOK, Event, Location
  <2>3. new \in Row /\ new.status = "running" /\ new.job = db[r].job /\ new.log = db[r].log
    BY <2>2 DEF Row, RunStatus
  <2> DEFINE t == Open(Emit(new, "Started"), "driving")
  <2> HIDE DEF new
  <2>4. /\ Emit(new, "Started") \in Row
        /\ Emit(new, "Started").status = "running"
        /\ Emit(new, "Started").job = db[r].job
        /\ \A k \in Event : Emit(new, "Started").log[k]
                              = db[r].log[k] + (IF k = "Started" THEN 1 ELSE 0)
    BY <2>2, <2>3, EmitLogs
  <2>5. /\ t \in Txn /\ t.row.status = "running" /\ t.outcome # "paused"
        /\ t.row.job = db[r].job
        /\ \A k \in Event : t.row.log[k] = db[r].log[k] + (IF k = Opening(r) THEN 1 ELSE 0)
    BY <2>1, <2>4 DEF Open, Txn, Opening
  <2> HIDE DEF t
  <2>6. Safe'
    BY <1>1, <2>1, <2>5, LockTaken DEF t
  <2>7. pc' \in [Proc -> Location]
    BY <1>1, <2>1, <2>2, MovesTyped
  <2>8. txn' \in [Run -> Txn] /\ writer' \in [Run -> Proc \cup {NoProc}]
    BY <1>1, <2>1, <2>5 DEF TypeOK, t
  <2>9. QED
    BY <1>1, <2>6, <2>7, <2>8 DEF TypeOK
<1>3. CASE ~MayStart(r)
  <2>1. Goto(c, "idle") /\ UNCHANGED <<writer, txn>> /\ "idle" \in Location
    BY <1>3 DEF AdvanceStart, Location
  <2>2. pc' \in [Proc -> Location] /\ pc'[c] = "idle" /\ \A q \in Proc \ {c} : pc'[q] = pc[q]
    BY <1>1, <2>1, MovesTyped
  <2>3. TypeOK'
    BY <1>1, <2>1, <2>2 DEF TypeOK
  <2>4. Safe'
    BY <1>1, <2>1, <2>2, Bystander
  <2>5. QED
    BY <2>3, <2>4
<1>4. QED
  BY <1>2, <1>3

\* Cancelling writes a run nobody holds, or nothing.
LEMMA CancelSafe ==
  ASSUME TypeOK, Safe, NEW c \in Caller, CancelWrite(c)
  PROVE  TypeOK' /\ Safe'
<1> DEFINE r == at[c]
           new == [db[r] EXCEPT !.status = "canceled"]
<1>1. /\ c \in Proc /\ c \notin Engine /\ r \in Run /\ pc[c] = "canceling" /\ writer[r] = NoProc
      /\ Goto(c, "idle") /\ "idle" \in Location
      /\ UNCHANGED <<txn, writer, call, hooks, at, cause, got, holder, live, valid, faults>>
  BY WorkflowAssumption DEF TypeOK, CancelWrite, Proc, Location, provVars, engineVars, leaseVars
<1>2. pc' \in [Proc -> Location] /\ pc'[c] = "idle" /\ \A q \in Proc \ {c} : pc'[q] = pc[q]
  BY <1>1, MovesTyped
<1>3. CASE MayCancel(r)
  <2>1. db' = [db EXCEPT ![r] = Emit(new, "Canceled")]
    BY <1>3 DEF CancelWrite
  <2>2. db[r] \in Row /\ "Canceled" \in Event
    BY <1>1 DEF TypeOK, Event
  <2>3. new \in Row /\ new.status = "canceled" /\ new.job = db[r].job
    BY <2>2 DEF Row, RunStatus
  <2> HIDE DEF new
  <2>4. /\ Emit(new, "Canceled") \in Row
        /\ Emit(new, "Canceled").status = "canceled"
        /\ Emit(new, "Canceled").job = db[r].job
    BY <2>2, <2>3, EmitLogs
  <2>5. db' \in [Run -> Row] /\ db'[r].status = "canceled" /\ db'[r].job = db[r].job
    BY <1>1, <2>1, <2>4 DEF TypeOK
  <2>6. \A q \in Run \ {r} : db'[q] = db[q]
    BY <2>1 DEF TypeOK
  <2>7. TypeOK'
    BY <1>1, <1>2, <2>5 DEF TypeOK
  <2>8. WriterDrives' /\ WorkingCopy'
    BY <1>1, <1>2, <2>6 DEF Safe, TransactionsIsolate, WriterDrives, WorkingCopy, Opening
  <2>9. RunningNeverCommitted'
    BY <2>5, <2>6 DEF Safe, RunningNeverCommitted
  <2>10. JobKnown'
    BY <1>1, <1>2, <2>5, <2>6 DEF Safe, JobKnown, TypeOK, Proc
  <2>11. QED
    BY <2>7, <2>8, <2>9, <2>10 DEF Safe, TransactionsIsolate
<1>4. CASE ~MayCancel(r)
  <2>1. db' = db
    BY <1>4 DEF CancelWrite
  <2>2. TypeOK'
    BY <1>1, <1>2, <2>1 DEF TypeOK
  <2>3. Safe'
    BY <1>1, <1>2, <2>1, Bystander
  <2>4. QED
    BY <2>2, <2>3
<1>5. QED
  BY <1>3, <1>4

\* Whatever the step loop does in one step is a write that carries the run on.
LEMMA DriveWrites ==
  ASSUME TypeOK, NEW p \in Proc, RunHandler(p) \/ Dispatch(p)
  PROVE  /\ pc[p] = "driving"
         /\ \E t \in Txn : Writes(at[p], t) /\ Carries(txn[at[p]].row, t)
         /\ call' \in [Run -> [Step -> [Call -> CallStatus]]]
         /\ UNCHANGED <<db, writer, hooks, pc, at, cause, got, holder, live, valid, faults>>
<1> DEFINE r == at[p]
           row == txn[r].row
<1>1. r \in Run /\ row \in Row
  BY DEF TypeOK, Txn
<1> HIDE DEF r, row
<1>2. CASE RunHandler(p)
  <2>1. PICK s \in Step :
          \/ Writes(r, StepSucceeds(row, s, {}))
          \/ Writes(r, StepRetries(row, s))
          \/ Writes(r, StepFails(row, s, {}))
    BY <1>2 DEF RunHandler, r, row
  <2>2. {} \in SUBSET Step
    OBVIOUS
  <2>4. /\ StepSucceeds(row, s, {}) \in Txn /\ Carries(row, StepSucceeds(row, s, {}))
        /\ StepFails(row, s, {}) \in Txn /\ Carries(row, StepFails(row, s, {}))
        /\ StepRetries(row, s) \in Txn /\ Carries(row, StepRetries(row, s))
    BY <1>1, <2>2, StepWritesCarry
  <2>5. \E t \in Txn : Writes(r, t) /\ Carries(row, t)
    BY <2>1, <2>4
  <2>6. QED
    BY <1>2, <2>5 DEF RunHandler, Driving, r, row, provVars, engineVars, leaseVars, TypeOK
<1>3. CASE Dispatch(p)
  <2>1. PICK s \in Step, n \in Call, answer \in CallStatus \ {"none"} :
          /\ call' = [call EXCEPT ![r][s][n] = answer]
          /\ \/ Writes(r, StepSucceeds(row, s, {s}))
             \/ Writes(r, StepFails(row, s, {s}))
             \/ Writes(r, StepPauses(row, s, n))
             \/ Writes(r, StepRetries(row, s))
             \/ Writes(r, StepFails(row, s, {}))
    BY <1>3 DEF Dispatch, r, row
  <2>2. {s} \in SUBSET Step /\ {} \in SUBSET Step
    OBVIOUS
  <2>3. /\ StepSucceeds(row, s, {s}) \in Txn /\ Carries(row, StepSucceeds(row, s, {s}))
        /\ StepFails(row, s, {s}) \in Txn /\ Carries(row, StepFails(row, s, {s}))
        /\ StepFails(row, s, {}) \in Txn /\ Carries(row, StepFails(row, s, {}))
        /\ StepRetries(row, s) \in Txn /\ Carries(row, StepRetries(row, s))
        /\ StepPauses(row, s, n) \in Txn /\ Carries(row, StepPauses(row, s, n))
    BY <1>1, <2>2, StepWritesCarry, PausesCarry
  <2>4. \E t \in Txn : Writes(r, t) /\ Carries(row, t)
    BY <2>1, <2>3
  <2>5. call' \in [Run -> [Step -> [Call -> CallStatus]]]
    BY <1>1, <2>1 DEF TypeOK
  <2>6. QED
    BY <1>3, <2>4, <2>5 DEF Dispatch, Driving, r, row, engineVars, leaseVars
<1>4. QED
  BY <1>2, <1>3

\* A step of the step loop.
LEMMA DriveSafe ==
  ASSUME TypeOK, Safe, NEW p \in Proc, RunHandler(p) \/ Dispatch(p)
  PROVE  TypeOK' /\ Safe'
<1>1. PICK t \in Txn : Writes(at[p], t) /\ Carries(txn[at[p]].row, t)
  BY DriveWrites
<1>2. /\ pc[p] = "driving"
      /\ call' \in [Run -> [Step -> [Call -> CallStatus]]]
      /\ UNCHANGED <<db, writer, hooks, pc, at, cause, got, holder, live, valid, faults>>
  BY DriveWrites
<1>3. Safe'
  BY <1>1, <1>2, CopyWritten
<1>4. TypeOK'
  BY <1>1, <1>2 DEF TypeOK, Writes
<1>5. QED
  BY <1>3, <1>4

\* Settling a run gives it a place of rest, announced by one more event.
LEMMA SettledRests ==
  ASSUME NEW row \in Row, NEW o \in {"driving", "paused", "failed"}
  PROVE  LET next == IF o = "driving" THEN "succeeded" ELSE o IN
         /\ Settled(row, o) \in Row
         /\ Settled(row, o).status = next
         /\ Settled(row, o).job = row.job
         /\ \A k \in Event : Settled(row, o).log[k]
                              = row.log[k] + (IF k = Lifecycle!Announces[next] THEN 1 ELSE 0)
<1> DEFINE next == IF o = "driving" THEN "succeeded" ELSE o
           new == [row EXCEPT !.status = next]
           k0 == Lifecycle!Announces[next]
<1>1. new \in Row /\ new.status = next /\ new.job = row.job /\ new.log = row.log
  BY DEF Row, RunStatus
<1>2. k0 \in Event
  BY DEF Lifecycle!Announces, Event
<1>3. Settled(row, o) = Emit(new, k0)
  BY DEF Settled, Lifecycle!Announces
<1> HIDE DEF new, k0
<1>4. QED
  BY <1>1, <1>2, <1>3, EmitLogs DEF k0
-----------------------------------------------------------------------------
\* The commit publishes the settled run and frees the row lock.
LEMMA CommitSafe ==
  ASSUME TypeOK, Safe, NEW p \in Proc, Commit(p)
  PROVE  TypeOK' /\ Safe'
<1> DEFINE r == at[p]
           l == IF p \in Engine THEN "release" ELSE "idle"
           new == Settled(txn[r].row, txn[r].outcome)
<1>1. /\ r \in Run /\ pc[p] = "driving" /\ writer[r] = p /\ writer[r] # NoProc
      /\ UNCHANGED <<call, hooks, at, cause, got, holder, live, valid, faults>>
  BY WorkflowAssumption
     DEF TypeOK, Commit, Safe, TransactionsIsolate, WriterDrives, provVars, engineVars, leaseVars
<1>2. txn[r].row \in Row /\ txn[r].outcome \in {"driving", "paused", "failed"}
  BY <1>1 DEF TypeOK, Txn
<1>3. /\ new \in Row /\ new.job = txn[r].row.job
      /\ new.status = IF txn[r].outcome = "driving" THEN "succeeded" ELSE txn[r].outcome
  BY <1>2, SettledRests
<1>4. /\ l \in Location \ {"driving", "resolve"}
      /\ Goto(p, l)
      /\ writer' = [writer EXCEPT ![r] = NoProc]
      /\ txn' = [txn EXCEPT ![r] = Closed]
      /\ db' = [db EXCEPT ![r] = new]
  BY DEF Commit, Location
<1> HIDE DEF new, l
<1>5. new.status # "running"
  BY <1>2, <1>3
<1>6. new.status = "paused" \/ db[r].job \in Call => new.job \in Call
  BY <1>1, <1>2, <1>3 DEF Safe, JobKnown
<1>7. Safe'
  BY <1>1, <1>3, <1>4, <1>5, <1>6, LockReleased
<1>8. pc' \in [Proc -> Location]
  BY <1>4, MovesTyped
<1>9. Closed \in Txn
  BY ClosedTyped
<1>10. TypeOK'
  BY <1>1, <1>3, <1>4, <1>8, <1>9 DEF TypeOK
<1>11. QED
  BY <1>7, <1>10

\* A dying process leaves the committed rows as they were and frees its lock.
LEMMA CrashSafe ==
  ASSUME TypeOK, Safe, NEW p \in Proc, Crash(p)
  PROVE  TypeOK' /\ Safe'
<1>1. /\ Goto(p, "idle") /\ "idle" \in Location \ {"driving", "resolve"}
      /\ faults' \in 0..MaxFaults
      /\ UNCHANGED <<db, call, hooks, at, cause, got, holder, live>>
      /\ valid' \in [Engine -> BOOLEAN]
      /\ at[p] \in Run
  BY WorkflowAssumption DEF TypeOK, Crash, Fault, Location, provVars, engineVars, leaseVars
<1>2. pc' \in [Proc -> Location] /\ pc'[p] = "idle" /\ \A q \in Proc \ {p} : pc'[q] = pc[q]
  BY <1>1, MovesTyped
<1>3. CASE writer[at[p]] = p
  <2>1. /\ writer' = [writer EXCEPT ![at[p]] = NoProc]
        /\ txn' = [txn EXCEPT ![at[p]] = Closed]
    BY <1>3 DEF Crash
  <2>2. db' = [db EXCEPT ![at[p]] = db[at[p]]] /\ db[at[p]] \in Row
    BY <1>1 DEF TypeOK
  <2>3. /\ db[at[p]].status # "running"
        /\ db[at[p]].status = "paused" \/ db[at[p]].job \in Call => db[at[p]].job \in Call
    BY <1>1 DEF Safe, RunningNeverCommitted, JobKnown
  <2>4. Safe'
    BY <1>1, <1>3, <2>1, <2>2, <2>3, LockReleased
  <2>5. TypeOK'
    BY <1>1, <1>2, <2>1, ClosedTyped DEF TypeOK
  <2>6. QED
    BY <2>4, <2>5
<1>4. CASE writer[at[p]] # p
  <2>1. UNCHANGED <<writer, txn>>
    BY <1>4 DEF Crash
  <2>2. pc[p] # "driving"
    BY <1>1, <1>4 DEF Safe, TransactionsIsolate, WriterDrives
  <2>3. Safe'
    BY <1>1, <1>2, <2>1, <2>2, Bystander
  <2>4. TypeOK'
    BY <1>1, <1>2, <2>1 DEF TypeOK
  <2>5. QED
    BY <2>3, <2>4
<1>5. QED
  BY <1>3, <1>4
-----------------------------------------------------------------------------
\* An engine that moves on without driving a run: it may take or give up a lease,
\* acknowledge a webhook, or keep an answer.
LEMMA EngineMoves ==
  ASSUME TypeOK, Safe, NEW e \in Engine, NEW l \in Location \ {"driving"},
         pc[e] # "driving", Goto(e, l), UNCHANGED <<db, txn, writer, call>>,
         hooks' \subseteq Hook,
         at' \in [Proc -> Run], \A q \in Proc \ {e} : at'[q] = at[q],
         cause' \in [Engine -> Hook \cup {NoHook}],
         got' \in [Engine -> CallStatus],
         holder' \in [Run -> Owner \cup {Nobody}], live' \in [Run -> BOOLEAN],
         valid' \in [Engine -> BOOLEAN], faults' \in 0..MaxFaults,
         l = "resolve" => db[at'[e]].job \in Call
  PROVE  TypeOK' /\ Safe'
<1>1. e \in Proc
  BY DEF Proc
<1>2. pc' \in [Proc -> Location] /\ pc'[e] = l /\ \A q \in Proc \ {e} : pc'[q] = pc[q]
  BY <1>1, MovesTyped
<1>3. TypeOK'
  BY <1>2 DEF TypeOK
<1>4. Safe'
  BY <1>1, <1>2, Bystander
<1>5. QED
  BY <1>3, <1>4

\* poll_once hands an engine a paused run.
LEMMA PollSafe ==
  ASSUME TypeOK, Safe, NEW e \in Engine, NEW r \in Run, Poll(e, r)
  PROVE  TypeOK' /\ Safe'
<1>1. /\ Goto(e, "acquire") /\ "acquire" \in Location \ {"driving"} /\ pc[e] # "driving"
      /\ UNCHANGED <<db, txn, writer, call, hooks, got, holder, live, valid, faults>>
      /\ at' \in [Proc -> Run] /\ \A q \in Proc \ {e} : at'[q] = at[q]
      /\ cause' \in [Engine -> Hook \cup {NoHook}]
  BY DEF TypeOK, Poll, Location, provVars, leaseVars
<1>2. QED
  BY <1>1, EngineMoves DEF TypeOK

\* A webhook hands an engine the run it matches, or is acknowledged.
LEMMA WebhookSafe ==
  ASSUME TypeOK, Safe, NEW e \in Engine, NEW h \in hooks, Webhook(e, h)
  PROVE  TypeOK' /\ Safe'
<1>1. h \in Hook /\ h.run \in Run
  BY DEF TypeOK, Hook
<1>2. UNCHANGED <<db, txn, writer, call, got, holder, live, valid, faults>> /\ pc[e] = "idle"
  BY DEF Webhook, leaseVars
<1>3. CASE Finds(h)
  <2>1. /\ Goto(e, "acquire") /\ "acquire" \in Location \ {"driving"}
        /\ UNCHANGED hooks
        /\ at' \in [Proc -> Run] /\ \A q \in Proc \ {e} : at'[q] = at[q]
        /\ cause' \in [Engine -> Hook \cup {NoHook}]
    BY <1>1, <1>3 DEF TypeOK, Webhook, Location
  <2>2. QED
    BY <1>2, <2>1, EngineMoves DEF TypeOK
<1>4. CASE ~Finds(h)
  <2>1. hooks' \subseteq Hook /\ UNCHANGED <<pc, at, cause>>
    BY <1>4 DEF TypeOK, Webhook
  <2>2. Safe'
    BY <1>2, <2>1, Offstage
  <2>3. TypeOK'
    BY <1>2, <2>1 DEF TypeOK
  <2>4. QED
    BY <2>2, <2>3
<1>5. QED
  BY <1>3, <1>4

\* The provider ends a job and owes a webhook for it.
LEMMA FinishSafe ==
  ASSUME TypeOK, Safe, NEW r \in Run, NEW n \in Call, NEW result \in {"ok", "failed"},
         Finish(r, n, result)
  PROVE  TypeOK' /\ Safe'
<1>1. UNCHANGED <<db, txn, writer, pc, at, cause, got, holder, live, valid, faults>>
  BY DEF Finish, engineVars, leaseVars
<1>2. 1 \in Step
  BY WorkflowAssumption DEF Step
<1>3. call' \in [Run -> [Step -> [Call -> CallStatus]]] /\ hooks' \subseteq Hook
  BY <1>2 DEF TypeOK, Finish, CallStatus, Hook
<1>4. Safe'
  BY <1>1, Offstage
<1>5. QED
  BY <1>1, <1>3, <1>4 DEF TypeOK

\* Time passes: only the lease rows and who may rely on them change.
LEMMA LeaseLapsesSafe ==
  ASSUME TypeOK, Safe, NEW r \in Run, LeaseLapses(r)
  PROVE  TypeOK' /\ Safe'
<1>1. UNCHANGED <<db, txn, writer, call, hooks, pc, at, cause, got, holder, faults>>
  BY DEF LeaseLapses, provVars, engineVars, Locks!Lapse
<1>2. live' \in [Run -> BOOLEAN] /\ valid' \in [Engine -> BOOLEAN]
  BY DEF TypeOK, LeaseLapses, Locks!Lapse
<1>3. Safe'
  BY <1>1, Offstage
<1>4. QED
  BY <1>1, <1>2, <1>3 DEF TypeOK

\* Taking the lease, or finding it taken.
LEMMA AcquireSafe ==
  ASSUME TypeOK, Safe, NEW e \in Engine, Acquire(e)
  PROVE  TypeOK' /\ Safe'
<1>1. PICK l \in {"read", "idle"} : Goto(e, l)
  BY DEF Acquire
<1>2. /\ l \in Location \ {"driving"} /\ pc[e] # "driving"
      /\ UNCHANGED <<db, txn, writer, call, at, cause, got, faults>>
  BY DEF Acquire, Location, engineVars
<1>3. /\ at[e] \in Run /\ Token[e] \in Owner
  BY WorkflowAssumption DEF TypeOK, Proc
<1>4. /\ holder' \in [Run -> Owner \cup {Nobody}] /\ live' \in [Run -> BOOLEAN]
      /\ valid' \in [Engine -> BOOLEAN] /\ hooks' \subseteq Hook
  BY <1>3 DEF TypeOK, Acquire, Locks!Take, leaseVars
<1>5. QED
  BY <1>1, <1>2, <1>4, EngineMoves DEF TypeOK

\* An engine goes on to the provider only with a paused run, which has a job.
LEMMA ReadHandoffSafe ==
  ASSUME TypeOK, Safe, NEW e \in Engine, ReadHandoff(e)
  PROVE  TypeOK' /\ Safe'
<1> DEFINE l == IF db[at[e]].status = "paused" THEN "resolve" ELSE "release"
<1>1. /\ Goto(e, l) /\ l \in Location \ {"driving"} /\ pc[e] # "driving"
      /\ UNCHANGED <<db, txn, writer, call, hooks, at, cause, got, holder, live, valid, faults>>
  BY DEF ReadHandoff, Location, provVars, engineVars, leaseVars
<1>2. at[e] \in Run
  BY DEF TypeOK, Proc
<1>3. l = "resolve" => db[at'[e]].job \in Call
  BY <1>1, <1>2 DEF Safe, JobKnown
<1> HIDE DEF l
<1>4. QED
  BY <1>1, <1>3, EngineMoves DEF TypeOK

\* The answer is that of a job in range: no run loses its job once it has one.
LEMMA ResolveSafe ==
  ASSUME TypeOK, Safe, NEW e \in Engine, Resolve(e)
  PROVE  TypeOK' /\ Safe'
<1>1. PICK l \in {"release", "resume"} : Goto(e, l)
  BY DEF Resolve
<1>2. /\ l \in Location \ {"driving"} /\ pc[e] = "resolve"
      /\ UNCHANGED <<db, txn, writer, call, hooks, at, cause, holder, live, valid, faults>>
  BY DEF Resolve, Location, provVars, leaseVars
<1>3. at[e] \in Run /\ db[at[e]].job \in Call /\ 1 \in Step
  BY <1>2, WorkflowAssumption DEF TypeOK, Proc, Safe, JobKnown, Step
<1>4. Answer(at[e]) \in CallStatus
  BY <1>3 DEF TypeOK, Answer
<1>5. got' \in [Engine -> CallStatus]
  BY <1>4 DEF TypeOK, Resolve
<1>6. QED
  BY <1>1, <1>2, <1>5, EngineMoves DEF TypeOK

\* The second read of the status only moves the engine.
LEMMA ResumeReadSafe ==
  ASSUME TypeOK, Safe, NEW e \in Engine, ResumeRead(e)
  PROVE  TypeOK' /\ Safe'
<1>1. PICK l \in {"gate", "release"} : Goto(e, l)
  BY DEF ResumeRead
<1>2. /\ l \in Location \ {"driving"} /\ pc[e] # "driving"
      /\ UNCHANGED <<db, txn, writer, call, hooks, at, cause, got, holder, live, valid, faults>>
  BY DEF ResumeRead, Location, provVars, engineVars, leaseVars
<1>3. QED
  BY <1>1, <1>2, EngineMoves DEF TypeOK

\* The row resume_run opens a transaction with.
LEMMA ResumedRow ==
  ASSUME NEW row \in Row, NEW answer
  PROVE  /\ Resumed(row, answer) \in Row
         /\ Resumed(row, answer).status = "running"
         /\ Resumed(row, answer).job = row.job
         /\ \A k \in Event : Resumed(row, answer).log[k]
                              = row.log[k] + (IF k = "Resumed" THEN 1 ELSE 0)
<1> DEFINE result == IF answer = "ok" THEN "succeeded" ELSE "failed"
           new == [row EXCEPT !.status = "running", !.billed = @ \cup {1}, !.step[1] = result]
<1>1. 1 \in Step /\ result \in StepStatus
  BY WorkflowAssumption DEF Step, StepStatus
<1> HIDE DEF result
<1>2. new \in Row /\ new.status = "running" /\ new.job = row.job /\ new.log = row.log
  <2> DEFINE steps == [row.step EXCEPT ![1] = result]
             bills == row.billed \cup {1}
  <2>1. steps \in [Step -> StepStatus] /\ bills \in SUBSET Step
    BY <1>1 DEF Row
  <2>2. new = [row EXCEPT !.status = "running", !.billed = bills, !.step = steps]
    BY DEF Row
  <2> HIDE DEF steps, bills, new
  <2>3. QED
    BY <2>1, <2>2 DEF Row, RunStatus
<1>3. Resumed(row, answer) = Emit(new, "Resumed") /\ "Resumed" \in Event
  BY DEF Resumed, result, Event
<1> HIDE DEF new
<1>4. QED
  BY <1>2, <1>3, EmitLogs

\* resume_run takes the row lock of a paused run, or the engine backs out.
LEMMA ResumeGateSafe ==
  ASSUME TypeOK, Safe, NEW e \in Engine, ResumeGate(e)
  PROVE  TypeOK' /\ Safe'
<1> DEFINE r == at[e]
<1>1. /\ e \in Proc /\ r \in Run /\ pc[e] = "gate" /\ writer[r] = NoProc
      /\ UNCHANGED <<db, call, hooks, at, cause, got, holder, live, valid, faults>>
  BY DEF TypeOK, ResumeGate, Proc, provVars, engineVars, leaseVars
<1>2. CASE MayResume(r)
  <2> DEFINE o == IF got[e] = "ok" THEN "driving" ELSE "failed"
             t == Open(Resumed(db[r], got[e]), o)
  <2>1. /\ writer' = [writer EXCEPT ![r] = e]
        /\ txn' = [txn EXCEPT ![r] = t]
        /\ Goto(e, "driving") /\ db[r].status = "paused"
    BY <1>2 DEF ResumeGate, MayResume
  <2>2. db[r] \in Row /\ "driving" \in Location /\ o \in {"driving", "failed"}
    BY <1>1 DEF TypeOK, Location
  <2> HIDE DEF o
  <2>3. /\ t \in Txn /\ t.row.status = "running" /\ t.outcome # "paused"
        /\ t.row.job = db[r].job
        /\ \A k \in Event : t.row.log[k] = db[r].log[k] + (IF k = Opening(r) THEN 1 ELSE 0)
    BY <2>1, <2>2, ResumedRow DEF Open, Txn, Opening
  <2> HIDE DEF t
  <2>4. Safe'
    BY <1>1, <2>1, <2>3, LockTaken
  <2>5. pc' \in [Proc -> Location]
    BY <1>1, <2>1, <2>2, MovesTyped
  <2>6. txn' \in [Run -> Txn] /\ writer' \in [Run -> Proc \cup {NoProc}]
    BY <1>1, <2>1, <2>3 DEF TypeOK
  <2>7. QED
    BY <1>1, <2>4, <2>5, <2>6 DEF TypeOK
<1>3. CASE ~MayResume(r)
  <2>1. Goto(e, "release") /\ UNCHANGED <<writer, txn>> /\ "release" \in Location \ {"driving"}
    BY <1>3 DEF ResumeGate, Location
  <2>2. QED
    BY <1>1, <2>1, EngineMoves DEF TypeOK
<1>4. QED
  BY <1>2, <1>3

\* The finally block gives up the lease and answers the webhook.
LEMMA ReleaseSafe ==
  ASSUME TypeOK, Safe, NEW e \in Engine, Release(e)
  PROVE  TypeOK' /\ Safe'
<1>1. /\ Goto(e, "idle") /\ "idle" \in Location \ {"driving"} /\ pc[e] # "driving"
      /\ UNCHANGED <<db, txn, writer, call, at, cause, got, faults>>
      /\ at[e] \in Run
  BY DEF TypeOK, Release, Location, engineVars, Proc
<1>2. /\ holder' \in [Run -> Owner \cup {Nobody}] /\ live' \in [Run -> BOOLEAN]
      /\ valid' \in [Engine -> BOOLEAN] /\ hooks' \subseteq Hook
  BY <1>1 DEF TypeOK, Release, Locks!Drop, Locks!leaseVars
<1>3. QED
  BY <1>1, <1>2, EngineMoves DEF TypeOK

\* A failing resolve call only moves the engine to its finally block.
LEMMA ResolveErrorSafe ==
  ASSUME TypeOK, Safe, NEW e \in Engine, ResolveError(e)
  PROVE  TypeOK' /\ Safe'
<1>1. /\ Goto(e, "unwind") /\ "unwind" \in Location \ {"driving"} /\ pc[e] # "driving"
      /\ UNCHANGED <<db, txn, writer, call, hooks, at, cause, got, holder, live, valid>>
      /\ faults' \in 0..MaxFaults
  BY WorkflowAssumption DEF TypeOK, ResolveError, Fault, Location, provVars, engineVars, leaseVars
<1>2. QED
  BY <1>1, EngineMoves DEF TypeOK
-----------------------------------------------------------------------------
\* The empty system is safe.
LEMMA InitSafe == Init => TypeOK /\ Safe
<1> SUFFICES ASSUME Init
             PROVE  TypeOK /\ Safe
  OBVIOUS
<1>1. AbsentRow \in Row /\ AbsentRow.status = "absent"
  BY WorkflowAssumption DEF AbsentRow, Row, StepStatus, Step, Event, Call
<1>2. TypeOK
  <2>1. Closed \in Txn
    BY ClosedTyped
  <2>2. (CHOOSE r \in Run : TRUE) \in Run
    BY WorkflowAssumption
  <2>3. call \in [Run -> [Step -> [Call -> CallStatus]]]
    BY DEF Init, CallStatus
  <2>4. holder \in [Run -> Owner \cup {Nobody}] /\ live \in [Run -> BOOLEAN]
    BY DEF Init, Locks!Init
  <2>5. 0 \in 0..MaxFaults
    BY WorkflowAssumption
  <2>6. QED
    BY <1>1, <2>1, <2>2, <2>3, <2>4, <2>5 DEF Init, TypeOK, CallStatus, Location
<1>3. Safe
  BY <1>1, WorkflowAssumption
     DEF Init, Safe, TransactionsIsolate, WriterDrives, WorkingCopy, RunningNeverCommitted,
         JobKnown, Proc
<1>4. QED
  BY <1>2, <1>3

\* Every step of the system, by action.
LEMMA StepSafe == TypeOK /\ Safe /\ [Next]_vars => TypeOK' /\ Safe'
<1> SUFFICES ASSUME TypeOK, Safe, [Next]_vars
             PROVE  TypeOK' /\ Safe'
  OBVIOUS
<1>1. ASSUME NEW r \in Run, NEW f \in Flow, Create(r, f) PROVE TypeOK' /\ Safe'
  BY <1>1, CreateSafe
<1>2. ASSUME NEW r \in Run, LeaseLapses(r) PROVE TypeOK' /\ Safe'
  BY <1>2, LeaseLapsesSafe
<1>3. ASSUME NEW c \in Caller, NEW r \in Run, AdvanceRead(c, r) \/ CancelRead(c, r)
      PROVE TypeOK' /\ Safe'
  BY <1>3, AdvanceSafe
<1>4. ASSUME NEW c \in Caller, CallerStep(c) PROVE TypeOK' /\ Safe'
  BY <1>4, StartSafe, CancelSafe DEF CallerStep
<1>5. ASSUME NEW e \in Engine, NEW r \in Run, Poll(e, r) PROVE TypeOK' /\ Safe'
  BY <1>5, PollSafe
<1>6. ASSUME NEW e \in Engine, NEW h \in hooks, Webhook(e, h) PROVE TypeOK' /\ Safe'
  BY <1>6, WebhookSafe
<1>7. ASSUME NEW e \in Engine, EngineStep(e) \/ ResolveError(e) PROVE TypeOK' /\ Safe'
  BY <1>7, AcquireSafe, ReadHandoffSafe, ResolveSafe, ResumeReadSafe, ResumeGateSafe, ReleaseSafe,
     ResolveErrorSafe DEF EngineStep
<1>8. ASSUME NEW p \in Proc, Drive(p) \/ Crash(p) PROVE TypeOK' /\ Safe'
  BY <1>8, DriveSafe, CommitSafe, CrashSafe DEF Drive
<1>9. CASE JobEnds
  BY <1>9, FinishSafe DEF JobEnds
<1>10. CASE UNCHANGED vars
  <2>1. Safe'
    BY <1>10, Offstage DEF vars
  <2>2. TypeOK'
    BY <1>10 DEF vars, TypeOK
  <2>3. QED
    BY <2>1, <2>2
<1>11. QED
  BY <1>1, <1>2, <1>3, <1>4, <1>5, <1>6, <1>7, <1>8, <1>9, <1>10 DEF Next

\* The inductive invariant holds in every reachable state.
LEMMA Invariance == Spec => [](TypeOK /\ Safe)
BY InitSafe, StepSafe, PTL DEF Spec

\* Every reachable state is well typed: among other things a resolve call is only
\* ever made for a job the provider knows.
THEOREM TypeCorrect == Spec => []TypeOK
BY Invariance, PTL

\* Whatever interleaving, crash or lapsed lease, the row lock and the status
\* compare-and-sets keep each open transaction alone with its run.
THEOREM Isolation == Spec => []TransactionsIsolate
<1>1. Safe => TransactionsIsolate
  BY DEF Safe
<1>2. QED
  BY <1>1, Invariance, PTL

\* "A crash cannot strand a running run": none is ever committed.
THEOREM NoStrandedRun == Spec => []RunningNeverCommitted
<1>1. Safe => RunningNeverCommitted
  BY DEF Safe
<1>2. QED
  BY <1>1, Invariance, PTL
-----------------------------------------------------------------------------
\* Who may touch a run: every other step leaves the committed rows, the working
\* copies and the row locks alone.
Touches == \/ \E r \in Run, f \in Flow : Create(r, f)
           \/ \E c \in Caller : AdvanceStart(c) \/ CancelWrite(c)
           \/ \E e \in Engine : ResumeGate(e)
           \/ \E p \in Proc : RunHandler(p) \/ Dispatch(p) \/ Commit(p) \/ Crash(p)

\* Of all the steps, by action.
LEMMA OnlyTheseTouch == [Next]_vars => Touches \/ UNCHANGED <<db, txn, writer>>
<1> SUFFICES ASSUME [Next]_vars
             PROVE  Touches \/ UNCHANGED <<db, txn, writer>>
  OBVIOUS
<1>1. ASSUME NEW e \in Engine, EngineStep(e) \/ ResolveError(e)
      PROVE  ResumeGate(e) \/ UNCHANGED <<db, txn, writer>>
  BY <1>1 DEF EngineStep, ResolveError, Acquire, ReadHandoff, Resolve, ResumeRead, Release
<1>2. ASSUME NEW e \in Engine, NEW r \in Run, Poll(e, r)
      PROVE  UNCHANGED <<db, txn, writer>>
  BY <1>2 DEF Poll
<1>3. ASSUME NEW e \in Engine, NEW h \in hooks, Webhook(e, h)
      PROVE  UNCHANGED <<db, txn, writer>>
  BY <1>3 DEF Webhook
<1>4. ASSUME NEW c \in Caller, NEW r \in Run, AdvanceRead(c, r) \/ CancelRead(c, r)
      PROVE  UNCHANGED <<db, txn, writer>>
  BY <1>4 DEF AdvanceRead, CancelRead
<1>5. ASSUME NEW r \in Run, LeaseLapses(r)
      PROVE  UNCHANGED <<db, txn, writer>>
  BY <1>5 DEF LeaseLapses
<1>6. CASE JobEnds
  BY <1>6 DEF JobEnds, Finish
<1>7. CASE UNCHANGED vars
  BY <1>7 DEF vars
<1>8. QED
  BY <1>1, <1>2, <1>3, <1>4, <1>5, <1>6, <1>7 DEF Next, Touches, CallerStep, Drive

\* The committed row of a run changes in one of three ways.
LEMMA RowChanges ==
  ASSUME TypeOK, Safe, [Next]_vars
  PROVE  \/ UNCHANGED db
         \/ \E r \in Run, f \in Flow : Create(r, f)
         \/ \E c \in Caller : CancelWrite(c) /\ MayCancel(at[c])
         \/ \E p \in Proc : Commit(p)
<1>1. ASSUME NEW c \in Caller, AdvanceStart(c) PROVE UNCHANGED db
  BY <1>1 DEF AdvanceStart
<1>2. ASSUME NEW c \in Caller, CancelWrite(c), ~MayCancel(at[c]) PROVE UNCHANGED db
  BY <1>2 DEF CancelWrite
<1>3. ASSUME NEW e \in Engine, ResumeGate(e) PROVE UNCHANGED db
  BY <1>3 DEF ResumeGate
<1>4. ASSUME NEW p \in Proc, RunHandler(p) \/ Dispatch(p) \/ Crash(p) PROVE UNCHANGED db
  BY <1>4 DEF RunHandler, Dispatch, Crash
<1>5. QED
  BY <1>1, <1>2, <1>3, <1>4, OnlyTheseTouch DEF Touches

\* A transaction commits over a run that rests and has not ended.
LEMMA CommitOverRest ==
  ASSUME TypeOK, Safe, NEW p \in Proc, Commit(p)
  PROVE  /\ at[p] \in Run /\ writer[at[p]] # NoProc
         /\ db[at[p]].status \in {"queued", "paused"}
         /\ txn[at[p]].row \in Row
         /\ txn[at[p]].outcome \in {"driving", "paused", "failed"}
         /\ db' = [db EXCEPT ![at[p]] = Settled(txn[at[p]].row, txn[at[p]].outcome)]
<1>1. at[p] \in Run /\ writer[at[p]] = p /\ p # NoProc
  BY WorkflowAssumption DEF TypeOK, Commit, Safe, TransactionsIsolate, WriterDrives
<1>2. txn[at[p]] \in Txn
  BY <1>1 DEF TypeOK
<1>3. QED
  BY <1>1, <1>2 DEF Txn, Commit, Safe, TransactionsIsolate, WorkingCopy

\* A run that has ended is never touched again, by anyone.
THEOREM TerminalFinal == Spec => TerminalIsFinal
<1> DEFINE Final == \A r \in Run : db[r].status \in Terminal => db'[r] = db[r]
<1>1. TypeOK /\ Safe /\ [Next]_vars => Final
  <2> SUFFICES ASSUME TypeOK, Safe, [Next]_vars, NEW q \in Run, db[q].status \in Terminal
               PROVE  db'[q] = db[q]
    OBVIOUS
  <2>1. ASSUME NEW r \in Run, NEW f \in Flow, Create(r, f) PROVE db'[q] = db[q]
    BY <2>1 DEF TypeOK, Create, Terminal
  <2>2. ASSUME NEW c \in Caller, CancelWrite(c), MayCancel(at[c]) PROVE db'[q] = db[q]
    BY <2>2 DEF TypeOK, CancelWrite, MayCancel, Terminal, Cancelable
  <2>3. ASSUME NEW p \in Proc, Commit(p) PROVE db'[q] = db[q]
    BY <2>3, CommitOverRest DEF TypeOK, Terminal
  <2>4. QED
    BY <2>1, <2>2, <2>3, RowChanges
<1>2. QED
  BY <1>1, Invariance, PTL DEF Spec, TerminalIsFinal
-----------------------------------------------------------------------------
(***************************************************************************)
(* The lifecycle.  That a completion never pauses the run again needs one  *)
(* more fact: only the first step is deferred, and a resumed transaction   *)
(* has that step behind it.                                                *)
(***************************************************************************)
PausesOnce ==
  \A r \in Run : writer[r] # NoProc /\ db[r].status = "paused" =>
    /\ txn[r].row.step[1] \in {"succeeded", "failed"}
    /\ txn[r].outcome # "paused"

\* In a definition only the first step is deferred.
LEMMA DeferredIsFirst ==
  ASSUME NEW row \in Row, NEW s \in Step, Current(row, s), row.flow[s] = "async"
  PROVE  s = 1
<1>1. row.flow \in Flow \cup {<<>>} /\ s \in 1..Len(row.flow)
  BY DEF Row, Current, Steps
<1>2. row.flow # <<>>
  BY <1>1
<1>3. Len(row.flow) \in Nat
  BY <1>1, <1>2, WorkflowAssumption DEF Step
<1>4. QED
  BY <1>1, <1>2, <1>3, WorkflowAssumption

\* Behind a settled first step the loop neither touches it nor pauses.
LEMMA LoopPassesFirst ==
  ASSUME TypeOK, Safe, NEW p \in Proc, RunHandler(p) \/ Dispatch(p),
         txn[at[p]].row.step[1] \in {"succeeded", "failed"}
  PROVE  /\ txn'[at[p]].row.step[1] \in {"succeeded", "failed"}
         /\ txn'[at[p]].outcome # "paused"
<1> DEFINE r == at[p]
           row == txn[r].row
<1>1. r \in Run /\ row \in Row /\ row.step \in [Step -> StepStatus]
  BY DEF TypeOK, Txn, Row
<1> HIDE DEF r, row
<1>2. PICK s \in Step : /\ Current(row, s)
                        /\ \/ \E bills \in SUBSET Step :
                                Writes(r, StepSucceeds(row, s, bills)) \/ Writes(r, StepFails(row, s, bills))
                           \/ Writes(r, StepRetries(row, s))
                           \/ row.flow[s] = "async" /\ \E n \in Call : Writes(r, StepPauses(row, s, n))
  <2>1. CASE RunHandler(p)
    BY <2>1 DEF RunHandler, r, row
  <2>2. CASE Dispatch(p)
    BY <2>2 DEF Dispatch, r, row
  <2>3. QED
    BY <2>1, <2>2
<1>3. row.step[s] \in {"pending", "retrying"}
  BY <1>2 DEF Current
<1>4. row.step[1] \in {"succeeded", "failed"}
  BY DEF r, row
<1>5. s # 1 /\ row.flow[s] # "async"
  BY <1>1, <1>2, <1>3, <1>4, DeferredIsFirst
<1>6. 1 \in Step
  BY WorkflowAssumption DEF Step
<1>7. ASSUME NEW t, Writes(r, t) PROVE txn'[r] = t
  BY <1>1, <1>7 DEF Writes, TypeOK
<1>8. ASSUME NEW bills
      PROVE  /\ StepSucceeds(row, s, bills).row.step[1] = row.step[1]
             /\ StepSucceeds(row, s, bills).outcome # "paused"
             /\ StepFails(row, s, bills).row.step[1] = row.step[1]
             /\ StepFails(row, s, bills).outcome # "paused"
  BY <1>1, <1>5, <1>6 DEF StepSucceeds, StepFails, Open, Emit, Row
<1>9. /\ StepRetries(row, s).row.step[1] = row.step[1]
      /\ StepRetries(row, s).outcome # "paused"
  BY <1>1, <1>5, <1>6, <1>8 DEF StepRetries, Open, Row
<1>10. txn'[r].row.step[1] = row.step[1] /\ txn'[r].outcome # "paused"
  BY <1>2, <1>5, <1>7, <1>8, <1>9
<1>11. QED
  BY <1>4, <1>10 DEF r

\* No step makes a resumed transaction pause.
LEMMA PausesOnceStep ==
  ASSUME TypeOK, Safe, PausesOnce, [Next]_vars
  PROVE  PausesOnce'
<1>1. ASSUME NEW r \in Run, NEW f \in Flow, Create(r, f) PROVE PausesOnce'
  <2>1. writer[r] = NoProc
    BY <1>1 DEF Create, Safe, TransactionsIsolate, WorkingCopy
  <2>2. \A q \in Run \ {r} : db'[q] = db[q]
    BY <1>1 DEF TypeOK, Create
  <2>3. QED
    BY <1>1, <2>1, <2>2 DEF PausesOnce, Create
<1>2. ASSUME NEW c \in Caller, AdvanceStart(c) PROVE PausesOnce'
  <2>1. at[c] \in Run
    BY DEF TypeOK, Proc
  <2>2. CASE MayStart(at[c])
    <3>1. db[at[c]].status = "queued" /\ db' = db
      BY <1>2, <2>2 DEF AdvanceStart, MayStart
    <3>2. \A q \in Run \ {at[c]} : txn'[q] = txn[q] /\ writer'[q] = writer[q]
      BY <1>2, <2>1, <2>2 DEF TypeOK, AdvanceStart
    <3>3. QED
      BY <3>1, <3>2 DEF PausesOnce
  <2>3. CASE ~MayStart(at[c])
    BY <1>2, <2>3 DEF AdvanceStart, PausesOnce
  <2>4. QED
    BY <2>2, <2>3
<1>3. ASSUME NEW c \in Caller, CancelWrite(c) PROVE PausesOnce'
  <2>1. at[c] \in Run /\ writer[at[c]] = NoProc /\ UNCHANGED <<txn, writer>>
    BY <1>3 DEF TypeOK, CancelWrite, Proc
  <2>2. \A q \in Run \ {at[c]} : db'[q] = db[q]
    BY <1>3 DEF TypeOK, CancelWrite
  <2>3. QED
    BY <2>1, <2>2 DEF PausesOnce
<1>4. ASSUME NEW e \in Engine, ResumeGate(e) PROVE PausesOnce'
  <2> DEFINE r == at[e]
  <2>1. r \in Run /\ db' = db /\ db[r] \in Row
    BY <1>4 DEF TypeOK, ResumeGate, Proc
  <2>2. CASE MayResume(r)
    <3>1. txn'[r] = Open(Resumed(db[r], got[e]), IF got[e] = "ok" THEN "driving" ELSE "failed")
      BY <1>4, <2>1, <2>2 DEF TypeOK, ResumeGate
    <3>2. 1 \in Step
      BY WorkflowAssumption DEF Step
    <3>3. Resumed(db[r], got[e]).step[1] \in {"succeeded", "failed"}
      BY <2>1, <3>2 DEF Resumed, Emit, Row
    <3>4. \A q \in Run \ {r} : txn'[q] = txn[q] /\ writer'[q] = writer[q]
      BY <1>4, <2>1, <2>2 DEF TypeOK, ResumeGate
    <3>5. txn'[r].row.step[1] \in {"succeeded", "failed"} /\ txn'[r].outcome # "paused"
      BY <3>1, <3>3 DEF Open
    <3> HIDE DEF r
    <3>6. QED
      BY <2>1, <3>4, <3>5 DEF PausesOnce
  <2>3. CASE ~MayResume(r)
    BY <1>4, <2>1, <2>3 DEF ResumeGate, PausesOnce
  <2>4. QED
    BY <2>2, <2>3
<1>5. ASSUME NEW p \in Proc, RunHandler(p) \/ Dispatch(p) PROVE PausesOnce'
  <2>1. /\ at[p] \in Run /\ db' = db /\ writer' = writer
        /\ \E t \in Txn : Writes(at[p], t)
    BY <1>5, DriveWrites DEF TypeOK
  <2>2. \A q \in Run \ {at[p]} : txn'[q] = txn[q]
    BY <2>1 DEF TypeOK, Writes
  <2>3. txn[at[p]].row.step[1] \in {"succeeded", "failed"} =>
          /\ txn'[at[p]].row.step[1] \in {"succeeded", "failed"}
          /\ txn'[at[p]].outcome # "paused"
    BY <1>5, LoopPassesFirst
  <2>4. QED
    BY <2>1, <2>2, <2>3 DEF PausesOnce
<1>6. ASSUME NEW p \in Proc, Commit(p) PROVE PausesOnce'
  <2>1. at[p] \in Run /\ writer'[at[p]] = NoProc
    BY <1>6 DEF TypeOK, Commit
  <2>2. \A q \in Run \ {at[p]} : txn'[q] = txn[q] /\ writer'[q] = writer[q] /\ db'[q] = db[q]
    BY <1>6 DEF TypeOK, Commit
  <2>3. QED
    BY <2>1, <2>2 DEF PausesOnce
<1>7. ASSUME NEW p \in Proc, Crash(p) PROVE PausesOnce'
  <2>1. at[p] \in Run /\ db' = db
    BY <1>7 DEF TypeOK, Crash
  <2>2. CASE writer[at[p]] = p
    <3>1. writer'[at[p]] = NoProc
      BY <1>7, <2>1, <2>2 DEF TypeOK, Crash
    <3>2. \A q \in Run \ {at[p]} : txn'[q] = txn[q] /\ writer'[q] = writer[q]
      BY <1>7, <2>2 DEF TypeOK, Crash
    <3>3. QED
      BY <2>1, <3>1, <3>2 DEF PausesOnce
  <2>3. CASE writer[at[p]] # p
    BY <1>7, <2>1, <2>3 DEF Crash, PausesOnce
  <2>4. QED
    BY <2>2, <2>3
<1>8. CASE UNCHANGED <<db, txn, writer>>
  BY <1>8 DEF PausesOnce
<1>9. QED
  BY <1>1, <1>2, <1>3, <1>4, <1>5, <1>6, <1>7, <1>8, OnlyTheseTouch DEF Touches

\* The invariant the refinement rests on.
LEMMA LifecycleInvariance == Spec => [](TypeOK /\ Safe /\ PausesOnce)
<1>1. Init => PausesOnce
  BY DEF Init, PausesOnce
<1>2. QED
  BY <1>1, InitSafe, StepSafe, PausesOnceStep, PTL DEF Spec
-----------------------------------------------------------------------------
\* Creating a run is the lifecycle's Create.
LEMMA CreateSeen ==
  ASSUME TypeOK, Safe, NEW r \in Run, NEW f \in Flow, Create(r, f)
  PROVE  Lifecycle!Create(r)
<1> DEFINE seenStatus == [q \in Run |-> db[q].status]
           seenLog == [q \in Run |-> db[q].log]
<1> DEFINE new == Emit([db[r] EXCEPT !.status = "queued", !.flow = f], "Created")
<1>1. db[r] \in Row /\ "queued" \in RunStatus /\ "Created" \in Event
  BY DEF TypeOK, RunStatus, Event
<1>2. new.status = "queued" /\ new.log = [db[r].log EXCEPT !["Created"] = @ + 1]
  BY <1>1 DEF Emit, Row
<1>3. db' = [db EXCEPT ![r] = new] /\ db[r].status = "absent"
  BY DEF Create
<1> HIDE DEF new
<1>4. /\ seenStatus' = [seenStatus EXCEPT ![r] = "queued"]
      /\ seenLog' = [seenLog EXCEPT ![r] = [db[r].log EXCEPT !["Created"] = @ + 1]]
  BY <1>2, <1>3 DEF TypeOK
<1>5. QED
  BY <1>3, <1>4 DEF Lifecycle!Create
\* Cancelling one is its Cancel.
LEMMA CancelSeen ==
  ASSUME TypeOK, Safe, NEW c \in Caller, CancelWrite(c), NEW r \in Run, at[c] = r, MayCancel(r)
  PROVE  Lifecycle!Cancel(r)
<1> DEFINE seenStatus == [q \in Run |-> db[q].status]
           seenLog == [q \in Run |-> db[q].log]
<1> DEFINE new == Emit([db[r] EXCEPT !.status = "canceled"], "Canceled")
<1>1. r \in Run /\ db[r] \in Row /\ "Canceled" \in Event
  BY DEF TypeOK, Proc, Event
<1>2. new.status = "canceled" /\ new.log = [db[r].log EXCEPT !["Canceled"] = @ + 1]
  BY <1>1 DEF Emit, Row
<1>3. db' = [db EXCEPT ![r] = new]
  BY DEF CancelWrite
<1>4. db[r].status \in {"queued", "paused"}
  BY <1>1 DEF MayCancel, Cancelable, Safe, RunningNeverCommitted
<1> HIDE DEF new
<1>5. /\ seenStatus' = [seenStatus EXCEPT ![r] = "canceled"]
      /\ seenLog' = [seenLog EXCEPT ![r] = [db[r].log EXCEPT !["Canceled"] = @ + 1]]
  BY <1>1, <1>2, <1>3 DEF TypeOK
<1>6. QED
  BY <1>1, <1>4, <1>5 DEF Lifecycle!Cancel
\* A commit is its Advance over a queued run, its Complete over a paused one.
LEMMA CommitSeen ==
  ASSUME TypeOK, Safe, PausesOnce, TypeOK', NEW p \in Proc, Commit(p), NEW r \in Run, at[p] = r
  PROVE  Lifecycle!Advance(r) \/ Lifecycle!Complete(r)
<1> DEFINE seenStatus == [q \in Run |-> db[q].status]
           seenLog == [q \in Run |-> db[q].log]
<1> DEFINE row == txn[r].row
           o == txn[r].outcome
           new == Settled(row, o)
<1>1. /\ r \in Run /\ writer[r] # NoProc /\ db[r].status \in {"queued", "paused"}
      /\ row \in Row /\ o \in {"driving", "paused", "failed"} /\ db' = [db EXCEPT ![r] = new]
  BY CommitOverRest
<1>2. /\ \A k \in Event \ {"StepCompleted"} :
           row.log[k] = db[r].log[k] + (IF k = Opening(r) THEN 1 ELSE 0)
      /\ row.log["StepCompleted"] >= db[r].log["StepCompleted"]
  BY <1>1 DEF Safe, TransactionsIsolate, WorkingCopy
<1>3. db[r].log \in [Event -> Nat] /\ row.log \in [Event -> Nat]
  BY <1>1 DEF TypeOK, Row
<1>4. db[r].status = "paused" => o # "paused"
  BY <1>1 DEF PausesOnce
<1> HIDE DEF row, o
<1>5. PICK next \in {"paused", "succeeded", "failed"} :
        next = IF o = "driving" THEN "succeeded" ELSE o
  BY <1>1
<1>6. /\ new.status = next
      /\ \A k \in Event :
           new.log[k] = row.log[k] + (IF k = Lifecycle!Announces[next] THEN 1 ELSE 0)
  BY <1>1, <1>5, SettledRests
<1> HIDE DEF new
<1>7. /\ seenStatus' = [seenStatus EXCEPT ![r] = next]
      /\ seenLog' = [seenLog EXCEPT ![r] = new.log]
  BY <1>1, <1>6 DEF TypeOK
<1>8. /\ seenLog' \in [Run -> [Lifecycle!Event -> Nat]]
      /\ seenLog[r] = db[r].log /\ seenStatus[r] = db[r].status
      /\ seenLog'[r] = new.log
      /\ \A q \in Run \ {r} : seenLog'[q] = seenLog[q]
  <2>1. \A q \in Run : db'[q] \in Row
    BY DEF TypeOK
  <2>2. \A q \in Run : db'[q].log \in [Event -> Nat]
    BY <2>1 DEF Row
  <2>3. Event = Lifecycle!Event
    BY DEF Event, Lifecycle!Event
  <2>4. QED
    BY <1>1, <1>7, <2>2, <2>3 DEF TypeOK
<1>9. /\ Lifecycle!Announces[next] # Opening(r)
      /\ Lifecycle!Announces[next] # "StepCompleted"
  BY <1>1 DEF Lifecycle!Announces, Opening
<1>10. /\ \A k \in Event \ {"StepCompleted"} :
           new.log[k] = db[r].log[k]
                          + (IF k \in {Opening(r), Lifecycle!Announces[next]} THEN 1 ELSE 0)
      /\ new.log["StepCompleted"] >= db[r].log["StepCompleted"]
  <2>1. "StepCompleted" \in Event
    BY DEF Event
  <2>2. new.log["StepCompleted"] = row.log["StepCompleted"]
    BY <1>3, <1>6, <1>9, <2>1
  <2>3. ASSUME NEW k \in Event \ {"StepCompleted"}
        PROVE  new.log[k] = db[r].log[k]
                          + (IF k \in {Opening(r), Lifecycle!Announces[next]} THEN 1 ELSE 0)
    BY <1>2, <1>3, <1>6, <1>9
  <2>4. QED
    BY <1>2, <2>2, <2>3
<1>11. Lifecycle!Proceed(r, Opening(r), next)
  BY <1>7, <1>8, <1>10 DEF Lifecycle!Proceed, Event, Lifecycle!Event
<1>12. CASE db[r].status = "queued"
  <2>1. Opening(r) = "Started"
    BY <1>12 DEF Opening
  <2>2. Lifecycle!Proceed(r, "Started", next)
    BY <1>11, <2>1
  <2>3. Lifecycle!Advance(r)
    BY <1>8, <1>9, <1>12, <2>2 DEF Lifecycle!Advance
  <2>4. QED
    BY <2>3
<1>13. CASE db[r].status = "paused"
  <2>1. next \in {"succeeded", "failed"}
    BY <1>4, <1>5, <1>13
  <2>2. Opening(r) = "Resumed"
    BY <1>13 DEF Opening
  <2>3. Lifecycle!Proceed(r, "Resumed", next)
    BY <1>11, <2>2
  <2>4. Lifecycle!Complete(r)
    BY <1>8, <1>13, <2>1, <2>3 DEF Lifecycle!Complete
  <2>5. QED
    BY <2>4
<1>14. QED
  BY <1>1, <1>12, <1>13

\* The run as clients see it moves only as RunLifecycle lets it: no interleaving,
\* crash or double delivery shows them anything else.
THEOREM LifecycleRefinement == Spec => ImplementsLifecycle
<1>1. Init => Lifecycle!Init
  BY DEF Init, Lifecycle!Init, AbsentRow, Event, Lifecycle!Event
<1>2. TypeOK /\ Safe /\ PausesOnce /\ TypeOK' /\ [Next]_vars
        => [Lifecycle!Next]_(Lifecycle!lifeVars)
  <2> SUFFICES ASSUME TypeOK, Safe, PausesOnce, TypeOK', [Next]_vars
               PROVE  [Lifecycle!Next]_(Lifecycle!lifeVars)
    OBVIOUS
  <2>1. ASSUME NEW r \in Run, NEW f \in Flow, Create(r, f) PROVE Lifecycle!Next
    BY <2>1, CreateSeen DEF Lifecycle!Next
  <2>2. ASSUME NEW c \in Caller, CancelWrite(c), MayCancel(at[c]) PROVE Lifecycle!Next
    <3>1. PICK r \in Run : at[c] = r
      BY DEF TypeOK, Proc
    <3>2. Lifecycle!Cancel(r)
      BY <2>2, <3>1, CancelSeen
    <3>3. QED
      BY <3>2 DEF Lifecycle!Next
  <2>3. ASSUME NEW p \in Proc, Commit(p) PROVE Lifecycle!Next
    <3>1. PICK r \in Run : at[p] = r
      BY DEF TypeOK
    <3>2. Lifecycle!Advance(r) \/ Lifecycle!Complete(r)
      BY <2>3, <3>1, CommitSeen
    <3>3. QED
      BY <3>2 DEF Lifecycle!Next
  <2>4. CASE UNCHANGED db
    BY <2>4 DEF Lifecycle!lifeVars
  <2>5. QED
    BY <2>1, <2>2, <2>3, <2>4, RowChanges
<1>3. QED
  BY <1>1, <1>2, LifecycleInvariance, PTL DEF Spec, ImplementsLifecycle, Lifecycle!Spec
-----------------------------------------------------------------------------
(***************************************************************************)
(* What the rows say.  The committed rows of a run, and the working copy   *)
(* of an open transaction, each tell a true story by themselves: this is   *)
(* what the commit publishes and what a rollback returns to.               *)
(***************************************************************************)
CompletedSteps(row) == {s \in Steps(row) : row.flow[s] # "async" /\ row.step[s] = "succeeded"}

\* LogTellsStory of one row.
TellsStory(row) ==
  /\ \A k \in TerminalEvent : row.log[k] = IF row.status = TerminalStatus[k] THEN 1 ELSE 0
  /\ row.log["Paused"] \in
       CASE row.status = "paused" -> {row.log["Resumed"] + 1}
         [] row.status = "canceled" -> {row.log["Resumed"], row.log["Resumed"] + 1}
         [] OTHER -> {row.log["Resumed"]}
  /\ row.log["StepCompleted"] = Cardinality(CompletedSteps(row))

\* A provider-backed step that succeeded is billed, and what is billed was answered.
Billed(row) == \A s \in Steps(row) :
  row.flow[s] \in {"sync", "async"} /\ row.step[s] = "succeeded" => s \in row.billed

Answered(bills, calls) == \A s \in bills : \E n \in Call : calls[s][n] \in {"ok", "failed"}

\* DeferredResultIsOwn of one row; and its job is one the provider took.
OwnResult(row, calls) == row.job # 0 =>
  /\ calls[1][row.job] \in {"pending", "ok", "failed"}
  /\ row.step[1] \in {"succeeded", "failed"} =>
       calls[1][row.job] = IF row.step[1] = "succeeded" THEN "ok" ELSE "failed"

Truthful(row, calls) ==
  TellsStory(row) /\ Billed(row) /\ Answered(row.billed, calls) /\ OwnResult(row, calls)

\* The first step is deferred and its job is out.
Awaits(row) == /\ 1 \in Steps(row) /\ row.flow[1] = "async" /\ row.step[1] = "running"
               /\ row.job \in Call

Committed(r) ==
  /\ Truthful(db[r], call[r])
  /\ db[r].status = "absent" => db[r] = AbsentRow
  /\ db[r].status = "queued" => db[r].job = 0
  /\ db[r].status = "paused" => Awaits(db[r])
  /\ db[r].status = "succeeded" => \A s \in Steps(db[r]) : db[r].step[s] = "succeeded"

Uncommitted(r) ==
  /\ Truthful(txn[r].row, call[r])
  /\ txn[r].outcome = "paused" => Awaits(txn[r].row)
  /\ txn[r].outcome # "paused" => txn[r].row.job = db[r].job

RowsTrue == \A r \in Run : Committed(r) /\ (writer[r] # NoProc => Uncommitted(r))

\* An engine that holds an answer holds the one of its run's job.
HoldsAnswer ==
  \A e \in Engine : pc[e] \in {"resume", "gate"} =>
    /\ db[at[e]].job \in Call
    /\ got[e] \in {"ok", "failed"} /\ got[e] = call[at[e]][1][db[at[e]].job]

\* What the provider answered stands, and what is pending is not forgotten.
CallsGrow(c, d) ==
  \A s \in Step, n \in Call :
    /\ c[s][n] \in {"ok", "failed"} => d[s][n] = c[s][n]
    /\ c[s][n] = "pending" => d[s][n] \in {"pending", "ok", "failed"}
-----------------------------------------------------------------------------
\* Publishing an event changes nothing but the log.
LEMMA EmitFrame ==
  ASSUME NEW row \in Row, NEW k \in Event
  PROVE  /\ Emit(row, k).flow = row.flow /\ Emit(row, k).step = row.step
         /\ Emit(row, k).billed = row.billed
         /\ Emit(row, k).status = row.status /\ Emit(row, k).job = row.job
         /\ Emit(row, k).log = [row.log EXCEPT ![k] = @ + 1]
BY DEF Emit, Row

\* The steps of a row are steps, and those completed are finitely many.
LEMMA FewSteps ==
  ASSUME NEW row \in Row
  PROVE  /\ Steps(row) \subseteq Step
         /\ CompletedSteps(row) \subseteq Step
         /\ IsFiniteSet(CompletedSteps(row))
<1>1. Steps(row) \subseteq Step
  <2>1. CASE row.flow = <<>>
    BY <2>1 DEF Steps
  <2>2. CASE row.flow # <<>>
    <3>1. Len(row.flow) \in 1..MaxSteps /\ MaxSteps \in Nat
      BY <2>2, WorkflowAssumption DEF Row, Step
    <3>2. QED
      BY <3>1 DEF Steps, Step
  <2>3. QED
    BY <2>1, <2>2
<1>2. IsFiniteSet(Step)
  BY WorkflowAssumption, FS_Interval DEF Step
<1>3. QED
  BY <1>1, <1>2, FS_Subset DEF CompletedSteps

\* A true story stays true as the provider's answers come in.
LEMMA TruthGrows ==
  ASSUME NEW row \in Row, NEW c, NEW d, CallsGrow(c, d), Truthful(row, c)
  PROVE  Truthful(row, d)
<1>1. 1 \in Step /\ row.billed \subseteq Step /\ (row.job # 0 => row.job \in Call)
  BY WorkflowAssumption DEF Step, Row, Call
<1>2. Answered(row.billed, d)
  BY <1>1 DEF Truthful, Answered, CallsGrow
<1>3. OwnResult(row, d)
  BY <1>1 DEF Truthful, OwnResult, CallsGrow
<1>4. QED
  BY <1>2, <1>3 DEF Truthful

\* One more completed step, counted by one more event.
LEMMA OneMoreCompleted ==
  ASSUME NEW row \in Row, NEW next \in Row, NEW s \in Steps(row),
         row.step[s] # "succeeded", row.flow[s] # "async",
         next.flow = row.flow, next.step = [row.step EXCEPT ![s] = "succeeded"]
  PROVE  Cardinality(CompletedSteps(next)) = Cardinality(CompletedSteps(row)) + 1
<1>1. s \in Step /\ row.step \in [Step -> StepStatus]
  BY FewSteps DEF Row
<1>2. CompletedSteps(next) = CompletedSteps(row) \cup {s}
  BY <1>1, FewSteps DEF CompletedSteps, Steps
<1>3. s \notin CompletedSteps(row)
  BY DEF CompletedSteps
<1>4. QED
  BY <1>2, <1>3, FewSteps, FS_AddElement

\* A row written with the same story: its log, status and flow are kept, and no step
\* but s, which was not completed, moves, to a state that does not complete it.
LEMMA SameStory ==
  ASSUME NEW row \in Row, NEW next \in Row, NEW s \in Step, NEW to \in StepStatus,
         next.flow = row.flow, next.status = row.status, next.log = row.log,
         next.step = [row.step EXCEPT ![s] = to],
         row.step[s] # "succeeded", to # "succeeded",
         row.billed \subseteq next.billed,
         TellsStory(row), Billed(row)
  PROVE  TellsStory(next) /\ Billed(next)
<1>1. row.step \in [Step -> StepStatus] /\ Steps(next) = Steps(row) /\ Steps(row) \subseteq Step
  BY FewSteps DEF Row, Steps
<1>2. CompletedSteps(next) = CompletedSteps(row)
  BY <1>1 DEF CompletedSteps
<1>3. Billed(next)
  BY <1>1 DEF Billed
<1>4. QED
  BY <1>2, <1>3 DEF TellsStory

\* A step that succeeds keeps the story, one completed step longer.
LEMMA SucceedsTrue ==
  ASSUME NEW row \in Row, NEW calls, NEW s \in Step, NEW bills \in SUBSET Step,
         Truthful(row, calls), Current(row, s), row.status = "running",
         row.flow[s] # "async", row.flow[s] = "sync" => s \in bills,
         Answered(bills, calls), s = 1 => row.job = 0
  PROVE  Truthful(StepSucceeds(row, s, bills).row, calls)
<1> DEFINE mid == [row EXCEPT !.step[s] = "succeeded", !.billed = @ \cup bills]
           next == Emit(mid, "StepCompleted")
<1>1. /\ mid \in Row /\ mid.status = row.status /\ mid.job = row.job /\ mid.log = row.log
      /\ mid.flow = row.flow /\ mid.step = [row.step EXCEPT ![s] = "succeeded"]
      /\ mid.billed = row.billed \cup bills
  BY DEF Row, StepStatus
<1>2. "StepCompleted" \in Event /\ row.log \in [Event -> Nat] /\ row.step \in [Step -> StepStatus]
  BY DEF Event, Row
<1>3. StepSucceeds(row, s, bills).row = next
  BY DEF StepSucceeds, Open
<1> HIDE DEF mid
<1>4. /\ next \in Row /\ next.status = row.status /\ next.job = row.job
      /\ next.flow = row.flow /\ next.step = [row.step EXCEPT ![s] = "succeeded"]
      /\ next.billed = row.billed \cup bills
      /\ next.log = [row.log EXCEPT !["StepCompleted"] = @ + 1]
  <2>1. next \in Row
    BY <1>1, <1>2, EmitLogs
  <2>2. QED
    BY <1>1, <1>2, <2>1, EmitFrame
<1> HIDE DEF next
<1>5. s \in Steps(row) /\ row.step[s] # "succeeded"
  BY DEF Current
<1>6. Cardinality(CompletedSteps(next)) = Cardinality(CompletedSteps(row)) + 1
  BY <1>4, <1>5, OneMoreCompleted
<1>7. TellsStory(next)
  BY <1>2, <1>4, <1>6 DEF Truthful, TellsStory, TerminalEvent, Event
<1>8. Steps(next) = Steps(row) /\ Steps(row) \subseteq Step
  BY <1>4, FewSteps DEF Steps
<1>9. Billed(next)
  BY <1>2, <1>4, <1>8 DEF Truthful, Billed
<1>10. Answered(next.billed, calls)
  BY <1>4 DEF Truthful, Answered
<1>11. OwnResult(next, calls)
  BY <1>2, <1>4 DEF Truthful, OwnResult
<1>12. QED
  BY <1>3, <1>7, <1>9, <1>10, <1>11 DEF Truthful

\* A step that fails for good keeps the story.
LEMMA FailsTrue ==
  ASSUME NEW row \in Row, NEW calls, NEW s \in Step, NEW bills \in SUBSET Step,
         Truthful(row, calls), Current(row, s),
         Answered(bills, calls), s = 1 => row.job = 0
  PROVE  Truthful(StepFails(row, s, bills).row, calls)
<1> DEFINE next == [row EXCEPT !.step[s] = "failed", !.billed = @ \cup bills]
<1>1. /\ next \in Row /\ next.status = row.status /\ next.job = row.job /\ next.log = row.log
      /\ next.flow = row.flow /\ next.step = [row.step EXCEPT ![s] = "failed"]
      /\ next.billed = row.billed \cup bills
  BY DEF Row, StepStatus
<1>2. StepFails(row, s, bills).row = next
  BY DEF StepFails, Open
<1> HIDE DEF next
<1>3. "failed" \in StepStatus /\ row.step \in [Step -> StepStatus] /\ row.step[s] # "succeeded"
  BY DEF StepStatus, Row, Current
<1>4. TellsStory(next) /\ Billed(next)
  BY <1>1, <1>3, SameStory DEF Truthful
<1>5. Answered(next.billed, calls) /\ OwnResult(next, calls)
  BY <1>1, <1>3 DEF Truthful, Answered, OwnResult
<1>6. QED
  BY <1>2, <1>4, <1>5 DEF Truthful

\* So does a step that is to be retried.
LEMMA RetriesTrue ==
  ASSUME NEW row \in Row, NEW calls, NEW s \in Step,
         Truthful(row, calls), Current(row, s), s = 1 => row.job = 0
  PROVE  Truthful(StepRetries(row, s).row, calls)
<1> DEFINE next == [row EXCEPT !.step[s] = "retrying", !.retries[s] = @ + 1]
           counts == [row.retries EXCEPT ![s] = row.retries[s] + 1]
           steps == [row.step EXCEPT ![s] = "retrying"]
<1>1. counts \in [Step -> Nat] /\ steps \in [Step -> StepStatus]
  BY DEF Row, StepStatus
<1>2. next = [row EXCEPT !.step = steps, !.retries = counts]
  BY DEF Row
<1> HIDE DEF counts, next
<1>3. /\ next \in Row /\ next.status = row.status /\ next.job = row.job /\ next.log = row.log
      /\ next.flow = row.flow /\ next.step = steps /\ next.billed = row.billed
  BY <1>1, <1>2 DEF Row
<1>4. "retrying" \in StepStatus /\ row.step \in [Step -> StepStatus] /\ row.step[s] # "succeeded"
  BY DEF StepStatus, Row, Current
<1>5. TellsStory(next) /\ Billed(next)
  BY <1>3, <1>4, SameStory DEF Truthful
<1>6. OwnResult(next, calls)
  BY <1>3, <1>4 DEF Truthful, OwnResult
<1>7. Truthful(next, calls)
  BY <1>3, <1>5, <1>6 DEF Truthful
<1>8. StepRetries(row, s).row = next \/ StepRetries(row, s) = StepFails(row, s, {})
  BY DEF StepRetries, Open, next
<1>9. Answered({}, calls) /\ {} \in SUBSET Step
  BY DEF Answered
<1>10. QED
  BY <1>7, <1>8, <1>9, FailsTrue

\* So does a step that pauses, and its run then awaits the job it was given.
LEMMA PausesTrue ==
  ASSUME NEW row \in Row, NEW calls, NEW n \in Call, calls[1][n] = "pending",
         Truthful(row, calls), Current(row, 1), row.flow[1] = "async"
  PROVE  Truthful(StepPauses(row, 1, n).row, calls) /\ Awaits(StepPauses(row, 1, n).row)
<1> DEFINE next == [row EXCEPT !.step[1] = "running", !.job = n]
<1>1. n \in 0..MaxCalls /\ 1 \in Step
  BY WorkflowAssumption DEF Call, Step
<1>2. /\ next \in Row /\ next.status = row.status /\ next.job = n /\ next.log = row.log
      /\ next.flow = row.flow /\ next.step = [row.step EXCEPT ![1] = "running"]
      /\ next.billed = row.billed
  BY <1>1 DEF Row, StepStatus
<1>3. StepPauses(row, 1, n).row = next
  BY DEF StepPauses, Open
<1> HIDE DEF next
<1>4. "running" \in StepStatus /\ row.step \in [Step -> StepStatus] /\ row.step[1] # "succeeded"
  BY DEF StepStatus, Row, Current
<1>5. TellsStory(next) /\ Billed(next)
  BY <1>1, <1>2, <1>4, SameStory DEF Truthful
<1>6. next.step[1] = "running"
  BY <1>1, <1>2, <1>4
<1>7. OwnResult(next, calls)
  BY <1>2, <1>6 DEF OwnResult
<1>8. Awaits(next)
  BY <1>2, <1>6 DEF Awaits, Current, Steps
<1>9. QED
  BY <1>2, <1>3, <1>5, <1>7, <1>8 DEF Truthful
-----------------------------------------------------------------------------
\* A run starts with its story so far.
LEMMA StartedTrue ==
  ASSUME NEW row \in Row, NEW calls, Truthful(row, calls), row.status = "queued"
  PROVE  Truthful(Emit([row EXCEPT !.status = "running"], "Started"), calls)
<1> DEFINE mid == [row EXCEPT !.status = "running"]
           next == Emit(mid, "Started")
<1>1. /\ mid \in Row /\ mid.status = "running" /\ mid.job = row.job /\ mid.log = row.log
      /\ mid.flow = row.flow /\ mid.step = row.step /\ mid.billed = row.billed
  BY DEF Row, RunStatus
<1>2. "Started" \in Event /\ row.log \in [Event -> Nat]
  BY DEF Event, Row
<1> HIDE DEF mid
<1>3. /\ next.status = "running" /\ next.job = row.job
      /\ next.flow = row.flow /\ next.step = row.step /\ next.billed = row.billed
      /\ next.log = [row.log EXCEPT !["Started"] = @ + 1]
  BY <1>1, <1>2, EmitFrame
<1> HIDE DEF next
<1>4. CompletedSteps(next) = CompletedSteps(row) /\ Steps(next) = Steps(row)
  BY <1>3 DEF CompletedSteps, Steps
<1>5. TellsStory(next)
  BY <1>2, <1>3, <1>4 DEF Truthful, TellsStory, TerminalEvent, TerminalStatus, Event
<1>6. QED
  BY <1>3, <1>4, <1>5 DEF Truthful, Billed, Answered, OwnResult, next, mid

\* A run that resumes with its own job's answer bills the step and settles it truly.
LEMMA ResumedTrue ==
  ASSUME NEW row \in Row, NEW calls, NEW answer \in {"ok", "failed"},
         Truthful(row, calls), Awaits(row), row.status = "paused", answer = calls[1][row.job]
  PROVE  Truthful(Resumed(row, answer), calls)
<1> DEFINE result == IF answer = "ok" THEN "succeeded" ELSE "failed"
           mid == [row EXCEPT !.status = "running", !.billed = @ \cup {1}, !.step[1] = result]
           next == Emit(mid, "Resumed")
           steps == [row.step EXCEPT ![1] = result]
           bills == row.billed \cup {1}
<1>1. 1 \in Step /\ result \in StepStatus
  BY WorkflowAssumption DEF Step, StepStatus
<1>2. steps \in [Step -> StepStatus] /\ bills \in SUBSET Step
  BY <1>1 DEF Row
<1>3. mid = [row EXCEPT !.status = "running", !.billed = bills, !.step = steps]
  BY DEF Row
<1>4. Resumed(row, answer) = next
  BY DEF Resumed
<1> HIDE DEF mid, result, bills
<1>5. /\ mid \in Row /\ mid.status = "running" /\ mid.job = row.job /\ mid.log = row.log
      /\ mid.flow = row.flow /\ mid.step = steps /\ mid.billed = bills
  BY <1>2, <1>3 DEF Row, RunStatus
<1>6. "Resumed" \in Event /\ row.log \in [Event -> Nat] /\ row.step \in [Step -> StepStatus]
  BY DEF Event, Row
<1>7. /\ next \in Row /\ next.status = "running" /\ next.job = row.job
      /\ next.flow = row.flow /\ next.step = steps /\ next.billed = bills
      /\ next.log = [row.log EXCEPT !["Resumed"] = @ + 1]
  BY <1>5, <1>6, EmitFrame, EmitLogs
<1> HIDE DEF next
<1>8. Steps(next) = Steps(row) /\ Steps(row) \subseteq Step
  BY <1>7, FewSteps DEF Steps
<1>9. CompletedSteps(next) = CompletedSteps(row)
  BY <1>6, <1>7, <1>8 DEF CompletedSteps, Awaits
<1>10. TellsStory(next)
  <2>1. "Paused" \in Event /\ "StepCompleted" \in Event /\ "Resumed" \in Event
        /\ TerminalEvent \subseteq Event \ {"Resumed"}
    BY DEF Event, TerminalEvent
  <2>2. /\ next.log["Resumed"] = row.log["Resumed"] + 1
        /\ \A k \in Event \ {"Resumed"} : next.log[k] = row.log[k]
    BY <1>6, <1>7
  <2>3. row.log["Paused"] = row.log["Resumed"] + 1
    BY DEF Truthful, TellsStory
  <2>4. \A k \in TerminalEvent : next.log[k] = 0 /\ TerminalStatus[k] # "running"
    BY <2>1, <2>2 DEF Truthful, TellsStory, TerminalStatus, TerminalEvent
  <2>5. next.log["StepCompleted"] = Cardinality(CompletedSteps(next))
    BY <1>9, <2>1, <2>2 DEF Truthful, TellsStory
  <2>6. QED
    BY <1>7, <2>1, <2>2, <2>3, <2>4, <2>5 DEF TellsStory
<1>11. Billed(next)
  BY <1>6, <1>7, <1>8 DEF Truthful, Billed, bills
<1>12. Answered(next.billed, calls)
  BY <1>7 DEF Truthful, Answered, bills, Awaits
<1>13. OwnResult(next, calls)
  BY <1>1, <1>6, <1>7 DEF OwnResult, Truthful, result
<1>14. QED
  BY <1>4, <1>10, <1>11, <1>12, <1>13 DEF Truthful

\* A run settles with the story of its working copy and the event of its new status.
LEMMA SettledTrue ==
  ASSUME NEW row \in Row, NEW calls, NEW o \in {"driving", "paused", "failed"},
         Truthful(row, calls), row.status = "running"
  PROVE  /\ Truthful(Settled(row, o), calls)
         /\ Settled(row, o).flow = row.flow /\ Settled(row, o).step = row.step
<1> DEFINE to == IF o = "driving" THEN "succeeded" ELSE o
           k0 == Lifecycle!Announces[to]
           mid == [row EXCEPT !.status = to]
           next == Settled(row, o)
<1>1. /\ mid \in Row /\ mid.status = to /\ mid.job = row.job /\ mid.log = row.log
      /\ mid.flow = row.flow /\ mid.step = row.step /\ mid.billed = row.billed
  BY DEF Row, RunStatus
<1>2. k0 \in Event
  BY DEF Lifecycle!Announces, Event
<1>3. next = Emit(mid, k0)
  BY DEF Settled, Lifecycle!Announces
<1> HIDE DEF mid, k0, next
<1>4. /\ next.status = to /\ next.job = row.job
      /\ next.flow = row.flow /\ next.step = row.step /\ next.billed = row.billed
      /\ next.log = [row.log EXCEPT ![k0] = @ + 1]
  BY <1>1, <1>2, <1>3, EmitFrame
<1>5. CompletedSteps(next) = CompletedSteps(row) /\ Steps(next) = Steps(row)
  BY <1>4 DEF CompletedSteps, Steps
<1>6. TellsStory(next)
  <2>1. /\ row.log \in [Event -> Nat] /\ "Paused" \in Event /\ "StepCompleted" \in Event
        /\ "Resumed" \in Event /\ TerminalEvent \subseteq Event
    BY DEF Row, Event, TerminalEvent
  <2>2. \A k \in Event : next.log[k] = row.log[k] + (IF k = k0 THEN 1 ELSE 0)
    BY <1>2, <1>4, <2>1
  <2>3. k0 = CASE o = "paused" -> "Paused" [] o = "failed" -> "Failed" [] OTHER -> "Succeeded"
    BY DEF k0, Lifecycle!Announces
  <2>4. /\ row.log["Paused"] = row.log["Resumed"]
        /\ \A k \in TerminalEvent : row.log[k] = 0
    BY DEF Truthful, TellsStory, TerminalEvent, TerminalStatus
  <2>5. \A k \in TerminalEvent : next.log[k] = IF to = TerminalStatus[k] THEN 1 ELSE 0
    BY <2>1, <2>2, <2>3, <2>4 DEF TerminalEvent, TerminalStatus
  <2>6. /\ next.log["Resumed"] = row.log["Resumed"]
        /\ next.log["Paused"] = IF to = "paused" THEN row.log["Resumed"] + 1
                                ELSE row.log["Resumed"]
    BY <2>1, <2>2, <2>3, <2>4
  <2>7. next.log["StepCompleted"] = Cardinality(CompletedSteps(next))
    BY <1>5, <2>1, <2>2, <2>3 DEF Truthful, TellsStory
  <2>8. QED
    BY <1>4, <2>5, <2>6, <2>7 DEF TellsStory
<1>7. Billed(next) /\ Answered(next.billed, calls) /\ OwnResult(next, calls)
  BY <1>4, <1>5 DEF Truthful, Billed, OwnResult
<1>8. QED
  BY <1>4, <1>6, <1>7 DEF Truthful, next

\* A queued or paused run is cancelled with its story so far.
LEMMA CanceledTrue ==
  ASSUME NEW row \in Row, NEW calls, Truthful(row, calls), row.status \in {"queued", "paused"}
  PROVE  LET next == Emit([row EXCEPT !.status = "canceled"], "Canceled")
         IN Truthful(next, calls) /\ next.step = row.step
<1> DEFINE mid == [row EXCEPT !.status = "canceled"]
           next == Emit(mid, "Canceled")
<1>1. /\ mid \in Row /\ mid.status = "canceled" /\ mid.job = row.job /\ mid.log = row.log
      /\ mid.flow = row.flow /\ mid.step = row.step /\ mid.billed = row.billed
  BY DEF Row, RunStatus
<1>2. "Canceled" \in Event /\ row.log \in [Event -> Nat]
  BY DEF Event, Row
<1> HIDE DEF mid
<1>3. /\ next.status = "canceled" /\ next.job = row.job
      /\ next.flow = row.flow /\ next.step = row.step /\ next.billed = row.billed
      /\ next.log = [row.log EXCEPT !["Canceled"] = @ + 1]
  BY <1>1, <1>2, EmitFrame
<1> HIDE DEF next
<1>4. CompletedSteps(next) = CompletedSteps(row) /\ Steps(next) = Steps(row)
  BY <1>3 DEF CompletedSteps, Steps
<1>5. TellsStory(next)
  BY <1>2, <1>3, <1>4 DEF Truthful, TellsStory, TerminalEvent, TerminalStatus, Event
<1>6. QED
  BY <1>3, <1>4, <1>5 DEF Truthful, Billed, Answered, OwnResult, next, mid

\* The row CreateWorkflowRun inserts.
CreatedRow(f) == Emit([AbsentRow EXCEPT !.status = "queued", !.flow = f], "Created")

\* A run is created with an empty story.
LEMMA CreatedTrue ==
  ASSUME NEW calls, NEW f \in Flow
  PROVE  /\ Truthful(CreatedRow(f), calls)
         /\ CreatedRow(f).status = "queued" /\ CreatedRow(f).job = 0
         /\ CreatedRow(f).step = AbsentRow.step
<1> DEFINE mid == [AbsentRow EXCEPT !.status = "queued", !.flow = f]
           next == CreatedRow(f)
<1>1. AbsentRow \in Row
  BY WorkflowAssumption DEF AbsentRow, Row, StepStatus, Step, Event, Call
<1>2. /\ mid \in Row /\ mid.status = "queued" /\ mid.job = 0
      /\ mid.log = [k \in Event |-> 0] /\ mid.flow = f
      /\ mid.step = [s \in Step |-> "pending"] /\ mid.billed = {}
  BY <1>1 DEF AbsentRow, Row, RunStatus
<1>3. "Created" \in Event /\ next = Emit(mid, "Created")
  BY DEF Event, CreatedRow
<1> HIDE DEF mid, next
<1>4. /\ next \in Row /\ next.status = "queued" /\ next.job = 0 /\ next.flow = f
      /\ next.step = [s \in Step |-> "pending"] /\ next.billed = {}
      /\ next.log = [[k \in Event |-> 0] EXCEPT !["Created"] = @ + 1]
  <2>1. next \in Row
    BY <1>2, <1>3, EmitLogs
  <2>2. QED
    BY <1>2, <1>3, <2>1, EmitFrame
<1>5. \A s \in Steps(next) : next.step[s] = "pending"
  <2>1. Steps(next) \subseteq Step
    BY <1>4, FewSteps
  <2>2. QED
    BY <1>4, <2>1
<1>6. CompletedSteps(next) = {}
  BY <1>5 DEF CompletedSteps
<1>7. TellsStory(next)
  <2>1. Cardinality(CompletedSteps(next)) = 0
    BY <1>6, FS_EmptySet
  <2>2. QED
    BY <1>4, <2>1 DEF TellsStory, TerminalEvent, TerminalStatus, Event
<1>8. Billed(next) /\ Answered(next.billed, calls) /\ OwnResult(next, calls)
  BY <1>4, <1>5 DEF Billed, Answered, OwnResult
<1>9. QED
  BY <1>4, <1>7, <1>8 DEF Truthful, AbsentRow, next

\* A run that is not there has no story.
LEMMA AbsentTrue ==
  ASSUME NEW calls
  PROVE  Truthful(AbsentRow, calls)
<1>1. CompletedSteps(AbsentRow) = {} /\ Steps(AbsentRow) = {}
  BY DEF CompletedSteps, Steps, AbsentRow
<1>2. TellsStory(AbsentRow)
  <2>1. AbsentRow.status = "absent" /\ AbsentRow.log = [k \in Event |-> 0]
    BY DEF AbsentRow
  <2>2. Cardinality(CompletedSteps(AbsentRow)) = 0
    BY <1>1, FS_EmptySet
  <2>3. QED
    BY <2>1, <2>2 DEF TellsStory, TerminalEvent, TerminalStatus, Event
<1>3. QED
  BY <1>1, <1>2 DEF Truthful, Billed, Answered, OwnResult, AbsentRow
-----------------------------------------------------------------------------
\* Only the step loop and the provider write on the provider's side.
LEMMA CallsOfSteps ==
  [Next]_vars => \/ UNCHANGED call
                 \/ \E p \in Proc : Dispatch(p)
                 \/ \E r \in Run, n \in Call, result \in {"ok", "failed"} : Finish(r, n, result)
<1> SUFFICES ASSUME [Next]_vars
             PROVE  \/ UNCHANGED call
                    \/ \E p \in Proc : Dispatch(p)
                    \/ JobEnds
  BY DEF JobEnds
<1>1. ASSUME NEW r \in Run, NEW f \in Flow, Create(r, f) PROVE UNCHANGED call
  BY <1>1 DEF Create, provVars
<1>2. ASSUME NEW r \in Run, LeaseLapses(r) PROVE UNCHANGED call
  BY <1>2 DEF LeaseLapses, provVars
<1>3. ASSUME NEW c \in Caller, NEW r \in Run, AdvanceRead(c, r) \/ CancelRead(c, r)
      PROVE UNCHANGED call
  BY <1>3 DEF AdvanceRead, CancelRead, provVars
<1>4. ASSUME NEW c \in Caller, CallerStep(c) PROVE UNCHANGED call
  BY <1>4 DEF CallerStep, AdvanceStart, CancelWrite, provVars
<1>5. ASSUME NEW e \in Engine, NEW r \in Run, Poll(e, r) PROVE UNCHANGED call
  BY <1>5 DEF Poll, provVars
<1>6. ASSUME NEW e \in Engine, NEW h \in hooks, Webhook(e, h) PROVE UNCHANGED call
  BY <1>6 DEF Webhook
<1>7. ASSUME NEW e \in Engine, EngineStep(e) \/ ResolveError(e) PROVE UNCHANGED call
  BY <1>7 DEF EngineStep, Acquire, ReadHandoff, Resolve, ResumeRead, ResumeGate, Release,
              ResolveError, provVars
<1>8. ASSUME NEW p \in Proc, RunHandler(p) \/ Commit(p) \/ Crash(p) PROVE UNCHANGED call
  BY <1>8 DEF RunHandler, Commit, Crash, provVars
<1>9. CASE UNCHANGED vars
  BY <1>9 DEF vars
<1>10. QED
  BY <1>1, <1>2, <1>3, <1>4, <1>5, <1>6, <1>7, <1>8, <1>9 DEF Next, Drive

\* Answers stand: a call is only ever added to, or ends.
LEMMA AnswersStand ==
  ASSUME TypeOK, [Next]_vars, NEW r \in Run
  PROVE  CallsGrow(call[r], call'[r])
<1>1. call \in [Run -> [Step -> [Call -> CallStatus]]] /\ 1 \in Step
  BY WorkflowAssumption DEF TypeOK, Step
<1>2. ASSUME NEW p \in Proc, Dispatch(p) PROVE CallsGrow(call[r], call'[r])
  <2>1. PICK s \in Step, n \in Call, answer \in CallStatus \ {"none"} :
          NextCall(at[p], s, n) /\ call' = [call EXCEPT ![at[p]][s][n] = answer]
    BY <1>2 DEF Dispatch
  <2>2. call[at[p]][s][n] = "none" /\ at[p] \in Run
    BY <2>1 DEF NextCall, TypeOK, Call
  <2>3. QED
    BY <1>1, <2>1, <2>2 DEF CallsGrow
<1>3. ASSUME NEW q \in Run, NEW n \in Call, NEW result \in {"ok", "failed"}, Finish(q, n, result)
      PROVE  CallsGrow(call[r], call'[r])
  BY <1>1, <1>3 DEF CallsGrow, Finish
<1>4. CASE UNCHANGED call
  BY <1>4 DEF CallsGrow
<1>5. QED
  BY <1>2, <1>3, <1>4, CallsOfSteps
-----------------------------------------------------------------------------
\* All of it together.
Told == TypeOK /\ Safe /\ PausesOnce /\ RowsTrue /\ HoldsAnswer

\* A run that a step does not write keeps its story.
LEMMA RunUntouched ==
  ASSUME TypeOK, RowsTrue, [Next]_vars, NEW r \in Run, db'[r] = db[r],
         writer'[r] # NoProc => writer[r] # NoProc /\ txn'[r] = txn[r]
  PROVE  Committed(r)' /\ (writer'[r] # NoProc => Uncommitted(r)')
<1>1. CallsGrow(call[r], call'[r])
  BY AnswersStand
<1>2. db[r] \in Row /\ txn[r].row \in Row
  BY DEF TypeOK, Txn
<1>3. Truthful(db[r], call'[r])
  BY <1>1, <1>2, TruthGrows DEF RowsTrue, Committed
<1>4. Committed(r)'
  BY <1>3 DEF RowsTrue, Committed
<1>5. ASSUME writer'[r] # NoProc PROVE Uncommitted(r)'
  <2>1. Uncommitted(r) /\ txn'[r] = txn[r]
    BY <1>5 DEF RowsTrue
  <2>2. Truthful(txn[r].row, call'[r])
    BY <1>1, <1>2, <2>1, TruthGrows DEF Uncommitted
  <2>3. QED
    BY <2>1, <2>2 DEF Uncommitted
<1>6. QED
  BY <1>4, <1>5

\* What is true of a run's rows stays true of them as calls are answered.
LEMMA StillTrue ==
  ASSUME TypeOK, RowsTrue, [Next]_vars, NEW r \in Run
  PROVE  /\ Truthful(db[r], call'[r])
         /\ writer[r] # NoProc => Truthful(txn[r].row, call'[r])
<1>1. CallsGrow(call[r], call'[r])
  BY AnswersStand
<1>2. db[r] \in Row /\ txn[r].row \in Row
  BY DEF TypeOK, Txn
<1>3. QED
  BY <1>1, <1>2, TruthGrows DEF RowsTrue, Committed, Uncommitted

\* Creating a run.
LEMMA TrueCreate ==
  ASSUME Told, [Next]_vars, NEW r \in Run, NEW f \in Flow, Create(r, f)
  PROVE  RowsTrue'
<1>1. db[r] = AbsentRow /\ UNCHANGED <<txn, writer>> /\ writer[r] = NoProc
  BY DEF Told, RowsTrue, Committed, Create, Safe, TransactionsIsolate, WorkingCopy
<1>2. db' = [db EXCEPT ![r] = CreatedRow(f)]
  BY <1>1 DEF Create, CreatedRow
<1>3. /\ Truthful(CreatedRow(f), call'[r])
      /\ CreatedRow(f).status = "queued" /\ CreatedRow(f).job = 0
  BY CreatedTrue
<1>4. db'[r] = CreatedRow(f) /\ \A q \in Run \ {r} : db'[q] = db[q]
  BY <1>2 DEF Told, TypeOK
<1>5. Committed(r)'
  BY <1>3, <1>4 DEF Committed
<1>6. QED
  BY <1>1, <1>4, <1>5, RunUntouched DEF Told, RowsTrue

\* Starting one: the working copy begins with the committed story.
LEMMA TrueStart ==
  ASSUME Told, [Next]_vars, NEW c \in Caller, AdvanceStart(c)
  PROVE  RowsTrue'
<1>0. PICK r \in Run : r = at[c]
  BY DEF Told, TypeOK, Proc
<1> DEFINE mid == [db[r] EXCEPT !.status = "running"]
           new == Emit(mid, "Started")
<1>1. db' = db
  BY <1>0 DEF Told, TypeOK, AdvanceStart, Proc
<1>2. CASE MayStart(r)
  <2>1. txn'[r] = Open(new, "driving") /\ db[r].status = "queued"
    BY <1>0, <1>1, <1>2 DEF Told, TypeOK, AdvanceStart, MayStart
  <2>2. \A q \in Run \ {r} : txn'[q] = txn[q] /\ writer'[q] = writer[q]
    BY <1>0, <1>1, <1>2 DEF Told, TypeOK, AdvanceStart
  <2>3. Truthful(db[r], call'[r]) /\ db[r] \in Row
    BY <1>1, StillTrue DEF Told, TypeOK
  <2>4. Truthful(new, call'[r])
    BY <2>1, <2>3, StartedTrue
  <2>5. new.job = db[r].job
    <3>1. mid \in Row /\ mid.job = db[r].job /\ "Started" \in Event
      BY <2>3 DEF Row, RunStatus, Event
    <3> HIDE DEF mid
    <3>2. QED
      BY <3>1, EmitFrame
  <2> HIDE DEF new
  <2>6. Uncommitted(r)'
    BY <1>1, <2>1, <2>4, <2>5 DEF Uncommitted, Open
  <2>7. Committed(r)'
    BY <1>1, <2>3 DEF Told, RowsTrue, Committed
  <2>8. QED
    BY <1>1, <2>2, <2>6, <2>7, RunUntouched DEF Told, RowsTrue
<1>3. CASE ~MayStart(r)
  <2>1. UNCHANGED <<txn, writer>>
    BY <1>0, <1>3 DEF AdvanceStart
  <2>2. QED
    BY <1>1, <2>1, RunUntouched DEF Told, RowsTrue
<1>4. QED
  BY <1>2, <1>3

\* Cancelling one, of which nobody holds a working copy.
LEMMA TrueCancel ==
  ASSUME Told, [Next]_vars, NEW c \in Caller, CancelWrite(c)
  PROVE  RowsTrue'
<1>0. PICK r \in Run : r = at[c]
  BY DEF Told, TypeOK, Proc
<1> DEFINE mid == [db[r] EXCEPT !.status = "canceled"]
           new == Emit(mid, "Canceled")
<1>1. UNCHANGED <<txn, writer>> /\ writer[r] = NoProc /\ db[r] \in Row
  BY <1>0 DEF Told, TypeOK, CancelWrite, Proc
<1>2. CASE MayCancel(r)
  <2>1. db'[r] = new /\ \A q \in Run \ {r} : db'[q] = db[q]
    BY <1>0, <1>1, <1>2 DEF Told, TypeOK, CancelWrite
  <2>2. db[r].status \in {"queued", "paused"}
    BY <1>1, <1>2 DEF MayCancel, Cancelable, Told, Safe, RunningNeverCommitted
  <2>3. Truthful(new, call'[r])
    BY <1>1, <2>2, StillTrue, CanceledTrue DEF Told
  <2>4. new.status = "canceled"
    <3>1. mid \in Row /\ mid.status = "canceled" /\ "Canceled" \in Event
      BY <1>1 DEF Row, RunStatus, Event
    <3> HIDE DEF mid
    <3>2. QED
      BY <3>1, EmitFrame
  <2> HIDE DEF new
  <2>5. Committed(r)'
    BY <2>1, <2>3, <2>4 DEF Committed
  <2>6. QED
    BY <1>1, <2>1, <2>5, RunUntouched DEF Told, RowsTrue
<1>3. CASE ~MayCancel(r)
  <2>1. db' = db
    BY <1>0, <1>3 DEF CancelWrite
  <2>2. QED
    BY <1>1, <2>1, RunUntouched DEF Told, RowsTrue
<1>4. QED
  BY <1>2, <1>3

\* Resuming one, with the answer of its own job.
LEMMA TrueResume ==
  ASSUME Told, [Next]_vars, NEW e \in Engine, ResumeGate(e)
  PROVE  RowsTrue'
<1>0. PICK r \in Run : r = at[e]
  BY DEF Told, TypeOK, Proc
<1> DEFINE new == Resumed(db[r], got[e])
           o == IF got[e] = "ok" THEN "driving" ELSE "failed"
<1>1. db' = db /\ call' = call /\ db[r] \in Row
  BY <1>0 DEF Told, TypeOK, ResumeGate, Proc, provVars
<1>2. CASE MayResume(r)
  <2>1. txn'[r] = Open(new, o) /\ db[r].status = "paused"
    BY <1>0, <1>1, <1>2 DEF Told, TypeOK, ResumeGate, MayResume
  <2>2. \A q \in Run \ {r} : txn'[q] = txn[q] /\ writer'[q] = writer[q]
    BY <1>0, <1>1, <1>2 DEF Told, TypeOK, ResumeGate
  <2>3. Truthful(db[r], call[r]) /\ Awaits(db[r])
    BY <1>1, <2>1 DEF Told, RowsTrue, Committed
  <2>4. got[e] \in {"ok", "failed"} /\ got[e] = call[r][1][db[r].job]
    BY <1>0 DEF Told, HoldsAnswer, ResumeGate
  <2>5. Truthful(new, call[r])
    BY <1>1, <2>1, <2>3, <2>4, ResumedTrue
  <2>6. new.job = db[r].job
    BY <1>1, ResumedRow
  <2> HIDE DEF new
  <2>7. Uncommitted(r)'
    BY <1>1, <2>1, <2>5, <2>6 DEF Uncommitted, Open
  <2>8. Committed(r)'
    BY <1>1, <2>3 DEF Told, RowsTrue, Committed
  <2>9. QED
    BY <1>1, <2>2, <2>7, <2>8, RunUntouched DEF Told, RowsTrue
<1>3. CASE ~MayResume(r)
  <2>1. UNCHANGED <<txn, writer>>
    BY <1>0, <1>1, <1>3 DEF ResumeGate
  <2>2. QED
    BY <1>1, <2>1, RunUntouched DEF Told, RowsTrue
<1>4. QED
  BY <1>2, <1>3

\* What the step loop may assume of the step it is at: its run is running, and when the
\* step is the first one no job is out yet.
LEMMA LoopAt ==
  ASSUME Told, NEW p \in Proc, Driving(p)
  PROVE  /\ at[p] \in Run /\ writer[at[p]] = p /\ writer[at[p]] # NoProc
         /\ txn[at[p]].row \in Row /\ txn[at[p]].row.status = "running"
         /\ txn[at[p]].row.job = db[at[p]].job
         /\ Current(txn[at[p]].row, 1) => txn[at[p]].row.job = 0
<1>1. at[p] \in Run /\ writer[at[p]] = p /\ p # NoProc
  BY WorkflowAssumption DEF Told, TypeOK, Driving, Safe, TransactionsIsolate, WriterDrives
<1>2. txn[at[p]].row \in Row /\ txn[at[p]].row.status = "running"
      /\ db[at[p]].status \in {"queued", "paused"}
  BY <1>1 DEF Told, TypeOK, Txn, Safe, TransactionsIsolate, WorkingCopy
<1>3. txn[at[p]].row.job = db[at[p]].job
  BY <1>1 DEF Told, RowsTrue, Uncommitted, Driving
<1>4. ASSUME Current(txn[at[p]].row, 1) PROVE txn[at[p]].row.job = 0
  <2>1. txn[at[p]].row.step[1] \notin {"succeeded", "failed"}
    BY <1>4 DEF Current
  <2>2. db[at[p]].status = "queued"
    BY <1>1, <1>2, <2>1 DEF Told, PausesOnce
  <2>3. QED
    BY <1>1, <1>3, <2>2 DEF Told, RowsTrue, Committed
<1>5. QED
  BY <1>1, <1>2, <1>3, <1>4

\* What a step's write does to the job and the loop.
LEMMA WritesKeepJob ==
  ASSUME NEW row \in Row, NEW s \in Step, NEW bills
  PROVE  /\ StepSucceeds(row, s, bills).row.job = row.job
         /\ StepSucceeds(row, s, bills).outcome # "paused"
         /\ StepFails(row, s, bills).row.job = row.job
         /\ StepFails(row, s, bills).outcome # "paused"
         /\ StepRetries(row, s).row.job = row.job
         /\ StepRetries(row, s).outcome # "paused"
<1>1. ASSUME NEW b
      PROVE  /\ StepFails(row, s, b).row.job = row.job
             /\ StepFails(row, s, b).outcome # "paused"
  BY DEF StepFails, Open, Row
<1>2. /\ StepSucceeds(row, s, bills).row.job = row.job
      /\ StepSucceeds(row, s, bills).outcome # "paused"
  BY DEF StepSucceeds, Open, Emit, Row
<1>3. /\ StepRetries(row, s).row.job = row.job
      /\ StepRetries(row, s).outcome # "paused"
  BY <1>1 DEF StepRetries, Open, Row
<1>4. QED
  BY <1>1, <1>2, <1>3

\* The step loop writes the truth.
LEMMA TrueLoop ==
  ASSUME Told, [Next]_vars, NEW p \in Proc, RunHandler(p) \/ Dispatch(p)
  PROVE  RowsTrue'
<1>0. PICK r \in Run : r = at[p]
  BY DEF Told, TypeOK
<1> DEFINE row == txn[r].row
           calls == call'[r]
<1>1. /\ writer[r] = p /\ writer[r] # NoProc /\ row \in Row /\ row.status = "running"
      /\ row.job = db[r].job /\ (Current(row, 1) => row.job = 0)
      /\ db' = db /\ writer' = writer
  <2>1. Driving(p) /\ db' = db /\ writer' = writer
    BY Zenon DEF RunHandler, Dispatch
  <2>2. QED
    BY <1>0, <2>1, LoopAt
<1>2. Truthful(row, calls)
  BY <1>1, StillTrue DEF Told
<1>3. ASSUME NEW t, Writes(r, t) PROVE txn'[r] = t /\ \A q \in Run \ {r} : txn'[q] = txn[q]
  BY <1>3 DEF Told, TypeOK, Writes
<1> HIDE DEF row, calls
<1>4. ASSUME NEW t, Writes(r, t), Truthful(t.row, calls),
             IF t.outcome = "paused" THEN Awaits(t.row) ELSE t.row.job = row.job
      PROVE  RowsTrue'
  <2>1. txn'[r] = t /\ \A q \in Run \ {r} : txn'[q] = txn[q]
    BY <1>3, <1>4
  <2>2. Uncommitted(r)'
    BY <1>1, <1>4, <2>1 DEF Uncommitted, calls
  <2>3. Committed(r)'
    BY <1>1, RunUntouched, StillTrue DEF Told, RowsTrue, Committed
  <2>4. QED
    BY <1>1, <2>1, <2>2, <2>3, RunUntouched DEF Told, RowsTrue
<1>5. ASSUME NEW s \in Step, Current(row, s), NEW bills \in SUBSET Step, Answered(bills, calls),
             \/ Writes(r, StepFails(row, s, bills))
             \/ Writes(r, StepRetries(row, s))
             \/ /\ row.flow[s] # "async" /\ (row.flow[s] = "sync" => s \in bills)
                /\ Writes(r, StepSucceeds(row, s, bills))
      PROVE  RowsTrue'
  <2>1. s = 1 => row.job = 0
    BY <1>1, <1>5
  <2>2. CASE Writes(r, StepFails(row, s, bills))
    BY <1>1, <1>2, <1>4, <1>5, <2>1, <2>2, FailsTrue, WritesKeepJob
  <2>3. CASE Writes(r, StepRetries(row, s))
    BY <1>1, <1>2, <1>4, <1>5, <2>1, <2>3, RetriesTrue, WritesKeepJob
  <2>4. CASE /\ row.flow[s] # "async" /\ (row.flow[s] = "sync" => s \in bills)
             /\ Writes(r, StepSucceeds(row, s, bills))
    BY <1>1, <1>2, <1>4, <1>5, <2>1, <2>4, SucceedsTrue, WritesKeepJob
  <2>5. QED
    BY <1>5, <2>2, <2>3, <2>4
<1>6. Answered({}, calls) /\ {} \in SUBSET Step
  BY DEF Answered
<1>7. CASE RunHandler(p)
  <2>1. PICK s \in Step :
          /\ Current(row, s)
          /\ \/ row.flow[s] \in {"echo", "flaky"} /\ Writes(r, StepSucceeds(row, s, {}))
             \/ Writes(r, StepRetries(row, s))
             \/ Writes(r, StepFails(row, s, {}))
    BY <1>0, <1>7 DEF RunHandler, row
  <2>2. QED
    BY <1>5, <1>6, <2>1
<1>8. CASE Dispatch(p)
  <2>0. PICK s \in Step, n \in Call, answer \in CallStatus \ {"none"} :
          LET copy == txn[at[p]].row IN
          /\ Current(copy, s)
          /\ call' = [call EXCEPT ![at[p]][s][n] = answer]
          /\ \/ copy.flow[s] = "sync" /\ answer = "ok" /\ Writes(at[p], StepSucceeds(copy, s, {s}))
             \/ copy.flow[s] = "sync" /\ answer = "failed" /\ Writes(at[p], StepFails(copy, s, {s}))
             \/ copy.flow[s] = "async" /\ answer = "pending" /\ Writes(at[p], StepPauses(copy, s, n))
             \/ Writes(at[p], StepRetries(copy, s))
             \/ Writes(at[p], StepFails(copy, s, {}))
    BY <1>8, Zenon DEF Dispatch
  <2>1.   /\ Current(row, s)
          /\ call' = [call EXCEPT ![r][s][n] = answer]
          /\ \/ row.flow[s] = "sync" /\ answer = "ok" /\ Writes(r, StepSucceeds(row, s, {s}))
             \/ row.flow[s] = "sync" /\ answer = "failed" /\ Writes(r, StepFails(row, s, {s}))
             \/ row.flow[s] = "async" /\ answer = "pending" /\ Writes(r, StepPauses(row, s, n))
             \/ Writes(r, StepRetries(row, s))
             \/ Writes(r, StepFails(row, s, {}))
    BY <1>0, <2>0 DEF row
  <2>2. calls[s][n] = answer
    BY <2>1 DEF calls, Told, TypeOK
  <2>3. answer \in {"ok", "failed"} => Answered({s}, calls) /\ {s} \in SUBSET Step
    BY <2>2 DEF Answered
  <2>4. CASE row.flow[s] = "async" /\ answer = "pending" /\ Writes(r, StepPauses(row, s, n))
    <3>1. s = 1
      BY <1>1, <2>1, <2>4, DeferredIsFirst
    <3>2. Truthful(StepPauses(row, 1, n).row, calls) /\ Awaits(StepPauses(row, 1, n).row)
      BY <1>1, <1>2, <2>1, <2>2, <2>4, <3>1, PausesTrue
    <3>3. StepPauses(row, s, n).outcome = "paused"
      BY DEF StepPauses, Open
    <3>4. QED
      BY <1>4, <2>4, <3>1, <3>2, <3>3
  <2>5. QED
    BY <1>5, <1>6, <2>1, <2>3, <2>4
<1>9. QED
  BY <1>7, <1>8

\* A commit publishes the working copy as it settles.
LEMMA TrueCommit ==
  ASSUME Told, [Next]_vars, NEW p \in Proc, Commit(p)
  PROVE  RowsTrue'
<1>0. PICK r \in Run : r = at[p]
  BY DEF Told, TypeOK
<1> DEFINE row == txn[r].row
           o == txn[r].outcome
           new == Settled(row, o)
<1>1. /\ writer[r] # NoProc /\ row \in Row /\ o \in {"driving", "paused", "failed"}
      /\ db' = [db EXCEPT ![r] = new]
  BY <1>0, CommitOverRest DEF Told
<1>2. /\ writer' = [writer EXCEPT ![r] = NoProc] /\ txn' = [txn EXCEPT ![r] = Closed]
      /\ o = "driving" => \A s \in Steps(row) : row.step[s] = "succeeded"
  BY <1>0 DEF Commit
<1>3. row.status = "running" /\ (o = "paused" => Awaits(row))
  BY <1>1 DEF Told, Safe, TransactionsIsolate, WorkingCopy, RowsTrue, Uncommitted
<1>4. Truthful(row, call'[r])
  BY <1>1, StillTrue DEF Told
<1> HIDE DEF row, o
<1>5. /\ Truthful(new, call'[r]) /\ new.flow = row.flow /\ new.step = row.step
      /\ new.job = row.job /\ new.status = IF o = "driving" THEN "succeeded" ELSE o
  BY <1>1, <1>3, <1>4, SettledTrue, SettledRests
<1> HIDE DEF new
<1>6. db'[r] = new /\ writer'[r] = NoProc
  BY <1>1, <1>2 DEF Told, TypeOK
<1>7. \A q \in Run \ {r} : db'[q] = db[q] /\ writer'[q] = writer[q] /\ txn'[q] = txn[q]
  BY <1>1, <1>2 DEF Told, TypeOK
<1>8. Steps(new) = Steps(row) /\ (Awaits(row) => Awaits(new))
  BY <1>5 DEF Steps, Awaits
<1>9. Committed(r)'
  BY <1>1, <1>2, <1>3, <1>5, <1>6, <1>8 DEF Committed
<1>10. QED
  BY <1>6, <1>7, <1>9, RunUntouched DEF Told, RowsTrue

\* A crash returns to the committed rows.
LEMMA TrueCrash ==
  ASSUME Told, [Next]_vars, NEW p \in Proc, Crash(p)
  PROVE  RowsTrue'
<1>0. PICK r \in Run : r = at[p]
  BY DEF Told, TypeOK
<1>1. db' = db
  BY DEF Crash
<1>2. \A q \in Run : writer'[q] # NoProc => writer[q] # NoProc /\ txn'[q] = txn[q]
  <2>1. CASE writer[r] = p
    <3>1. writer' = [writer EXCEPT ![r] = NoProc] /\ txn' = [txn EXCEPT ![r] = Closed]
      BY <1>0, <2>1 DEF Crash
    <3>2. QED
      BY <3>1 DEF Told, TypeOK
  <2>2. CASE writer[r] # p
    BY <1>0, <2>2 DEF Crash
  <2>3. QED
    BY <2>1, <2>2
<1>3. QED
  BY <1>1, <1>2, RunUntouched DEF Told, RowsTrue

\* Every step keeps the rows true.
LEMMA RowsTrueStep == Told /\ [Next]_vars => RowsTrue'
<1> SUFFICES ASSUME Told, [Next]_vars
             PROVE  RowsTrue'
  OBVIOUS
<1>1. CASE UNCHANGED <<db, txn, writer>>
  BY <1>1, RunUntouched DEF Told, RowsTrue
<1>2. QED
  BY <1>1, OnlyTheseTouch, TrueCreate, TrueStart, TrueCancel, TrueResume, TrueLoop, TrueCommit,
     TrueCrash DEF Touches
-----------------------------------------------------------------------------
\* Once a run has a job it keeps it: only the commit of its pause gives it one.
LEMMA JobStays ==
  ASSUME Told, [Next]_vars, NEW r \in Run, db[r].job \in Call
  PROVE  db'[r].job = db[r].job
<1>1. db[r] \in Row /\ 0 \notin Call
  BY DEF Told, TypeOK, Call
<1>2. db[r].status \notin {"absent", "queued"}
  BY <1>1 DEF Told, RowsTrue, Committed, AbsentRow
<1>3. ASSUME NEW q \in Run, NEW f \in Flow, Create(q, f) PROVE db'[r] = db[r]
  BY <1>2, <1>3 DEF Told, TypeOK, Create
<1>4. ASSUME NEW c \in Caller, CancelWrite(c), MayCancel(at[c]) PROVE db'[r].job = db[r].job
  <2> DEFINE mid == [db[r] EXCEPT !.status = "canceled"]
  <2>1. mid \in Row /\ mid.job = db[r].job /\ "Canceled" \in Event
    BY <1>1 DEF Row, RunStatus, Event
  <2>2. db'[r] = db[r] \/ db'[r] = Emit(mid, "Canceled")
    BY <1>4 DEF Told, TypeOK, CancelWrite
  <2> HIDE DEF mid
  <2>3. Emit(mid, "Canceled").job = db[r].job
    BY <2>1, EmitFrame
  <2>4. QED
    BY <2>2, <2>3
<1>5. ASSUME NEW p \in Proc, Commit(p) PROVE db'[r].job = db[r].job
  <2>1. CASE at[p] = r
    <3>1. /\ writer[r] # NoProc /\ db[r].status \in {"queued", "paused"}
          /\ txn[r].row \in Row /\ txn[r].outcome \in {"driving", "paused", "failed"}
          /\ db' = [db EXCEPT ![r] = Settled(txn[r].row, txn[r].outcome)]
      BY <1>5, <2>1, CommitOverRest DEF Told
    <3>2. txn[r].row.job = db[r].job
      BY <1>2, <3>1 DEF Told, PausesOnce, RowsTrue, Uncommitted
    <3>3. Settled(txn[r].row, txn[r].outcome).job = txn[r].row.job
      BY <3>1, SettledRests
    <3>4. QED
      BY <3>1, <3>2, <3>3 DEF Told, TypeOK
  <2>2. CASE at[p] # r
    BY <1>5, <2>2 DEF Told, TypeOK, Commit
  <2>3. QED
    BY <2>1, <2>2
<1>6. QED
  BY <1>3, <1>4, <1>5, RowChanges DEF Told

\* An engine moves towards the gate by its own steps, and keeps its run and its answer.
LEMMA AnswerKept ==
  ASSUME TypeOK, [Next]_vars, NEW e \in Engine, pc'[e] \in {"resume", "gate"}
  PROVE  \/ Resolve(e)
         \/ pc[e] \in {"resume", "gate"} /\ at'[e] = at[e] /\ got'[e] = got[e]
<1> DEFINE Kept == pc[e] \in {"resume", "gate"} /\ at'[e] = at[e] /\ got'[e] = got[e]
<1>0. e \in Proc /\ e \notin Caller
  BY WorkflowAssumption DEF Proc
<1>1. ASSUME NEW r \in Run, NEW f \in Flow, Create(r, f) PROVE Kept
  BY <1>1 DEF Create, engineVars
<1>2. ASSUME NEW r \in Run, LeaseLapses(r) PROVE Kept
  BY <1>2 DEF LeaseLapses, engineVars
<1>3. ASSUME NEW c \in Caller, NEW r \in Run, AdvanceRead(c, r) \/ CancelRead(c, r) PROVE Kept
  BY <1>0, <1>3 DEF TypeOK, AdvanceRead, CancelRead, Goto, engineVars
<1>4. ASSUME NEW c \in Caller, CallerStep(c) PROVE Kept
  BY <1>0, <1>4 DEF TypeOK, CallerStep, AdvanceStart, CancelWrite, Goto, engineVars
<1>5. ASSUME NEW d \in Engine, NEW r \in Run, Poll(d, r) PROVE Kept
  BY <1>0, <1>5 DEF TypeOK, Poll, Goto
<1>6. ASSUME NEW d \in Engine, NEW h \in hooks, Webhook(d, h) PROVE Kept
  BY <1>0, <1>6 DEF TypeOK, Webhook, Goto
<1>7. ASSUME NEW d \in Engine, EngineStep(d) \/ ResolveError(d) PROVE Kept \/ Resolve(e)
  <2>1. CASE Resolve(d)
    BY <1>0, <2>1 DEF TypeOK, Resolve, Goto
  <2>2. CASE Acquire(d) \/ ReadHandoff(d) \/ ResumeRead(d)
    BY <1>0, <2>2 DEF TypeOK, Acquire, ReadHandoff, ResumeRead, Goto, engineVars
  <2>3. CASE ResumeGate(d) \/ Release(d) \/ ResolveError(d)
    BY <1>0, <2>3 DEF TypeOK, ResumeGate, Release, ResolveError, Goto, engineVars
  <2>4. QED
    BY <1>7, <2>1, <2>2, <2>3 DEF EngineStep
<1>8. ASSUME NEW p \in Proc, RunHandler(p) \/ Dispatch(p) PROVE Kept
  BY <1>8, DriveWrites
<1>9. ASSUME NEW p \in Proc, Commit(p) \/ Crash(p) PROVE Kept
  BY <1>0, <1>9 DEF TypeOK, Commit, Crash, Goto, engineVars
<1>10. CASE JobEnds
  BY <1>10 DEF JobEnds, Finish, engineVars
<1>11. CASE UNCHANGED vars
  BY <1>11 DEF vars
<1>12. QED
  BY <1>1, <1>2, <1>3, <1>4, <1>5, <1>6, <1>7, <1>8, <1>9, <1>10, <1>11 DEF Next, Drive

\* So what it holds stays the answer of its run's job.
LEMMA HoldsAnswerStep == Told /\ [Next]_vars => HoldsAnswer'
<1> SUFFICES ASSUME Told, [Next]_vars, NEW e \in Engine, pc'[e] \in {"resume", "gate"}
             PROVE  /\ db'[at'[e]].job \in Call
                    /\ got'[e] \in {"ok", "failed"}
                    /\ got'[e] = call'[at'[e]][1][db'[at'[e]].job]
  BY DEF HoldsAnswer
<1>1. PICK r \in Run : r = at[e]
  BY DEF Told, TypeOK, Proc
<1>2. CASE Resolve(e)
  <2>1. pc[e] = "resolve" /\ UNCHANGED <<db, call, at>> /\ db[r].job \in Call
    BY <1>1, <1>2 DEF Told, Safe, JobKnown, Resolve, provVars
  <2>2. call[r][1][db[r].job] \in {"pending", "ok", "failed"}
    BY <2>1 DEF Told, RowsTrue, Committed, Truthful, OwnResult, Call
  <2>3. Answer(r) # "pending" /\ got' = [got EXCEPT ![e] = Answer(r)]
    BY <1>1, <1>2 DEF Told, TypeOK, Resolve, Goto, Proc
  <2>4. got'[e] = call[r][1][db[r].job]
    BY <2>3 DEF Told, TypeOK, Answer
  <2>5. QED
    BY <1>1, <2>1, <2>2, <2>3, <2>4 DEF Answer
<1>3. CASE pc[e] \in {"resume", "gate"} /\ at'[e] = at[e] /\ got'[e] = got[e]
  <2>1. /\ db[r].job \in Call /\ got[e] \in {"ok", "failed"}
        /\ got[e] = call[r][1][db[r].job]
    BY <1>1, <1>3 DEF Told, HoldsAnswer
  <2>2. db'[r].job = db[r].job
    BY <2>1, JobStays
  <2>3. call'[r][1][db[r].job] = call[r][1][db[r].job]
    <3>1. 1 \in Step
      BY WorkflowAssumption DEF Step
    <3>2. QED
      BY <2>1, <3>1, AnswersStand DEF Told, CallsGrow
  <2>4. QED
    BY <1>1, <1>3, <2>1, <2>2, <2>3
<1>4. QED
  BY <1>2, <1>3, AnswerKept DEF Told

\* Every reachable state tells the truth.
LEMMA ToldInvariance == Spec => []Told
<1>1. Init => RowsTrue /\ HoldsAnswer /\ PausesOnce
  <2> SUFFICES ASSUME Init
               PROVE  RowsTrue /\ HoldsAnswer /\ PausesOnce
    OBVIOUS
  <2>1. \A r \in Run : db[r] = AbsentRow /\ writer[r] = NoProc
    BY DEF Init
  <2>2. AbsentRow.status = "absent"
    BY DEF AbsentRow
  <2>3. \A r \in Run : Committed(r)
    BY <2>1, <2>2, AbsentTrue DEF Committed
  <2>4. HoldsAnswer
    BY DEF Init, HoldsAnswer, Proc
  <2>5. QED
    BY <2>1, <2>3, <2>4 DEF RowsTrue, PausesOnce
<1>2. Told /\ [Next]_vars => Told'
  BY StepSafe, PausesOnceStep, RowsTrueStep, HoldsAnswerStep DEF Told
<1>3. QED
  BY <1>1, <1>2, InitSafe, PTL DEF Spec, Told

\* The published events tell each run's story, whatever was rolled back or raced.
THEOREM StoryIsTold == Spec => []LogTellsStory
<1>1. Told => LogTellsStory
  BY DEF Told, RowsTrue, Committed, Truthful, TellsStory, LogTellsStory, CompletedSteps
<1>2. QED
  BY <1>1, ToldInvariance, PTL

\* No media without accounting: a succeeded run is billed for each provider-backed step,
\* and no step is billed that no provider answered.
THEOREM UsageProven == Spec => []UsageMatchesCalls
<1>1. Told => UsageMatchesCalls
  BY DEF Told, RowsTrue, Committed, Truthful, Billed, Answered, UsageMatchesCalls
<1>2. QED
  BY <1>1, ToldInvariance, PTL

\* A deferred step ends as its own job did, whatever other attempts left behind.
THEOREM ResultIsOwn == Spec => []DeferredResultIsOwn
<1>1. Told => DeferredResultIsOwn
  BY DEF Told, RowsTrue, Committed, Truthful, OwnResult, DeferredResultIsOwn
<1>2. QED
  BY <1>1, ToldInvariance, PTL
-----------------------------------------------------------------------------
(***************************************************************************)
(* The calls a step costs.  A step that has begun, in the working copy of  *)
(* the transaction that holds its run or else in the committed rows, does  *)
(* not begin again unless that transaction is lost.                        *)
(***************************************************************************)
Effective(r) == IF writer[r] = NoProc THEN db[r] ELSE txn[r].row
Begun(r, s) == Effective(r).step[s] \in {"running", "succeeded", "failed"}

\* The calls of a step that the provider took.
Taken(r, s) == {n \in Call : call[r][s][n] \notin {"none", "error"}}

CallsSpent ==
  \A r \in Run, s \in Step : Cardinality(Taken(r, s)) <= faults + (IF Begun(r, s) THEN 1 ELSE 0)
-----------------------------------------------------------------------------
\* Faults are counted, one by one, and a crash is one of them.
LEMMA FaultsCount ==
  ASSUME TypeOK, [Next]_vars
  PROVE  faults' \in {faults, faults + 1} /\ \A p \in Proc : Crash(p) => faults' = faults + 1
<1>1. ASSUME NEW r \in Run, NEW f \in Flow, Create(r, f) PROVE UNCHANGED faults
  BY <1>1 DEF Create
<1>2. ASSUME NEW r \in Run, LeaseLapses(r) PROVE UNCHANGED faults
  BY <1>2 DEF LeaseLapses
<1>3. ASSUME NEW c \in Caller, NEW r \in Run, AdvanceRead(c, r) \/ CancelRead(c, r)
      PROVE UNCHANGED faults
  BY <1>3 DEF AdvanceRead, CancelRead
<1>4. ASSUME NEW c \in Caller, CallerStep(c) PROVE UNCHANGED faults
  BY <1>4 DEF CallerStep, AdvanceStart, CancelWrite
<1>5. ASSUME NEW e \in Engine, NEW r \in Run, Poll(e, r) PROVE UNCHANGED faults
  BY <1>5 DEF Poll
<1>6. ASSUME NEW e \in Engine, NEW h \in hooks, Webhook(e, h) PROVE UNCHANGED faults
  BY <1>6 DEF Webhook
<1>7. ASSUME NEW e \in Engine, EngineStep(e) PROVE UNCHANGED faults
  BY <1>7 DEF EngineStep, Acquire, ReadHandoff, Resolve, ResumeRead, ResumeGate, Release
<1>8. ASSUME NEW e \in Engine, ResolveError(e) PROVE faults' = faults + 1
  BY <1>8 DEF ResolveError, Fault
<1>9. ASSUME NEW p \in Proc, RunHandler(p) \/ Dispatch(p) PROVE UNCHANGED faults
  BY <1>9, DriveWrites
<1>10. ASSUME NEW p \in Proc, Commit(p) PROVE UNCHANGED faults
  BY <1>10 DEF Commit
<1>11. ASSUME NEW p \in Proc, Crash(p) PROVE faults' = faults + 1
  BY <1>11, Zenon DEF Crash, Fault
<1>12. ASSUME JobEnds PROVE UNCHANGED faults
  BY <1>12 DEF JobEnds, Finish
<1>13. ASSUME UNCHANGED vars PROVE UNCHANGED faults
  BY <1>13 DEF vars
<1>14. faults' \in {faults, faults + 1}
  BY <1>1, <1>2, <1>3, <1>4, <1>5, <1>6, <1>7, <1>8, <1>9, <1>10, <1>11, <1>12, <1>13
     DEF Next, Drive
<1>15. QED
  BY <1>11, <1>14

\* Where a step's write leaves it.
LEMMA WritesStep ==
  ASSUME NEW row \in Row, NEW s \in Step, NEW bills, NEW n
  PROVE  /\ StepSucceeds(row, s, bills).row.step = [row.step EXCEPT ![s] = "succeeded"]
         /\ StepFails(row, s, bills).row.step = [row.step EXCEPT ![s] = "failed"]
         /\ StepPauses(row, s, n).row.step = [row.step EXCEPT ![s] = "running"]
         /\ \E to \in StepStatus : StepRetries(row, s).row.step = [row.step EXCEPT ![s] = to]
<1>1. StepSucceeds(row, s, bills).row.step = [row.step EXCEPT ![s] = "succeeded"]
  BY DEF StepSucceeds, Open, Emit, Row
<1>2. ASSUME NEW b PROVE StepFails(row, s, b).row.step = [row.step EXCEPT ![s] = "failed"]
  BY DEF StepFails, Open, Row
<1>3. StepPauses(row, s, n).row.step = [row.step EXCEPT ![s] = "running"]
  BY DEF StepPauses, Open, Row
<1>4. \E to \in StepStatus : StepRetries(row, s).row.step = [row.step EXCEPT ![s] = to]
  <2>1. CASE row.retries[s] < MaxRetries[row.flow[s]]
    <3>1. StepRetries(row, s).row.step = [row.step EXCEPT ![s] = "retrying"]
      BY <2>1 DEF StepRetries, Open, Row
    <3>2. QED
      BY <3>1 DEF StepStatus
  <2>2. CASE ~(row.retries[s] < MaxRetries[row.flow[s]])
    BY <1>2, <2>2 DEF StepRetries, StepStatus
  <2>3. QED
    BY <2>1, <2>2
<1>5. QED
  BY <1>1, <1>2, <1>3, <1>4

\* The loop moves step s, which had not begun, and calls the provider for it or does not;
\* if the provider takes the call, the step has begun.
Moves(r, s, to) == /\ txn[r].row.step[s] \in {"pending", "retrying"}
                   /\ txn'[r].row.step = [txn[r].row.step EXCEPT ![s] = to]

Asks(r, s, to) ==
  \/ UNCHANGED call
  \/ \E n \in Call, answer \in CallStatus \ {"none"} :
       /\ call[r][s][n] = "none"
       /\ call' = [call EXCEPT ![r][s][n] = answer]
       /\ answer # "error" => to \in {"running", "succeeded", "failed"}

\* The step loop moves one step of its run, which had not begun.  When it asks the
\* provider for it and the provider takes the call, the step has begun.
LEMMA LoopMoves ==
  ASSUME Told, [Next]_vars, NEW p \in Proc, RunHandler(p) \/ Dispatch(p),
         NEW r \in Run, r = at[p]
  PROVE  /\ UNCHANGED <<db, writer>> /\ writer[r] # NoProc
         /\ \A q \in Run \ {r} : txn'[q] = txn[q]
         /\ \E s \in Step, to \in StepStatus : Moves(r, s, to) /\ Asks(r, s, to)
<1> DEFINE row == txn[r].row
<1>1. Driving(p) /\ UNCHANGED <<db, writer>>
  BY Zenon DEF RunHandler, Dispatch
<1>2. writer[r] # NoProc /\ row \in Row
  BY <1>1, LoopAt
<1>3. ASSUME NEW t, Writes(r, t) PROVE txn'[r] = t /\ \A q \in Run \ {r} : txn'[q] = txn[q]
  BY <1>3 DEF Told, TypeOK, Writes
<1> HIDE DEF row
<1>4. ASSUME NEW s \in Step, Current(row, s), NEW bills, NEW n
      PROVE  /\ Writes(r, StepSucceeds(row, s, bills)) => Moves(r, s, "succeeded")
             /\ Writes(r, StepFails(row, s, bills)) => Moves(r, s, "failed")
             /\ Writes(r, StepPauses(row, s, n)) => Moves(r, s, "running")
             /\ Writes(r, StepRetries(row, s)) => \E to \in StepStatus : Moves(r, s, to)
  <2>1. row.step[s] \in {"pending", "retrying"}
    BY <1>4 DEF Current
  <2>2. /\ StepSucceeds(row, s, bills).row.step = [row.step EXCEPT ![s] = "succeeded"]
        /\ StepFails(row, s, bills).row.step = [row.step EXCEPT ![s] = "failed"]
        /\ StepPauses(row, s, n).row.step = [row.step EXCEPT ![s] = "running"]
        /\ \E to \in StepStatus : StepRetries(row, s).row.step = [row.step EXCEPT ![s] = to]
    BY <1>2, WritesStep
  <2>3. QED
    BY <1>3, <2>1, <2>2 DEF Moves, row
<1>5. {"running", "succeeded", "failed"} \subseteq StepStatus
  BY DEF StepStatus
<1>6. CASE RunHandler(p)
  <2>1. PICK s \in Step :
          /\ Current(row, s)
          /\ \/ Writes(r, StepSucceeds(row, s, {}))
             \/ Writes(r, StepRetries(row, s))
             \/ Writes(r, StepFails(row, s, {}))
    BY <1>6 DEF RunHandler, row
  <2>2. \A to : Asks(r, s, to)
    BY <1>6 DEF RunHandler, provVars, Asks
  <2>3. \E to \in StepStatus : Moves(r, s, to)
    BY <1>4, <1>5, <2>1
  <2>4. \A q \in Run \ {r} : txn'[q] = txn[q]
    BY <1>3, <2>1
  <2>5. QED
    BY <1>1, <1>2, <2>2, <2>3, <2>4
<1>7. CASE Dispatch(p)
  <2>0. PICK s \in Step, n \in Call, answer \in CallStatus \ {"none"} :
          LET copy == txn[at[p]].row IN
          /\ Current(copy, s) /\ NextCall(at[p], s, n)
          /\ call' = [call EXCEPT ![at[p]][s][n] = answer]
          /\ \/ Writes(at[p], StepSucceeds(copy, s, {s}))
             \/ Writes(at[p], StepFails(copy, s, {s}))
             \/ Writes(at[p], StepPauses(copy, s, n))
             \/ answer = "error" /\ Writes(at[p], StepRetries(copy, s))
             \/ Writes(at[p], StepFails(copy, s, {}))
    BY <1>7, Zenon DEF Dispatch
  <2>1. /\ Current(row, s) /\ NextCall(r, s, n)
        /\ call' = [call EXCEPT ![r][s][n] = answer]
        /\ \/ Writes(r, StepSucceeds(row, s, {s}))
           \/ Writes(r, StepFails(row, s, {s}))
           \/ Writes(r, StepPauses(row, s, n))
           \/ answer = "error" /\ Writes(r, StepRetries(row, s))
           \/ Writes(r, StepFails(row, s, {}))
    BY <2>0 DEF row
  <2>2. call[r][s][n] = "none"
    BY <2>1 DEF NextCall, Call
  <2>3. \E to \in StepStatus : Moves(r, s, to)
          /\ (answer # "error" => to \in {"running", "succeeded", "failed"})
    BY <1>4, <1>5, <2>1
  <2>4. \A q \in Run \ {r} : txn'[q] = txn[q]
    BY <1>3, <2>1
  <2>5. QED
    BY <1>1, <1>2, <2>1, <2>2, <2>3, <2>4 DEF Asks
<1>8. QED
  BY <1>6, <1>7

\* A step that has begun stays begun, or its transaction crashes.
LEMMA BegunStays ==
  ASSUME Told, [Next]_vars, NEW r \in Run, NEW s \in Step, Begun(r, s)
  PROVE  Begun(r, s)' \/ \E p \in Proc : Crash(p)
<1> DEFINE begun == {"running", "succeeded", "failed"}
<1>0. db[r] \in Row /\ txn[r].row \in Row
  BY DEF Told, TypeOK, Txn
<1>1. ASSUME writer[r] = NoProc, writer'[r] = NoProc, db'[r].step = db[r].step
      PROVE  Begun(r, s)'
  BY <1>1 DEF Begun, Effective
<1>2. ASSUME db'[r] = db[r], txn'[r] = txn[r], writer'[r] = writer[r]
      PROVE  Begun(r, s)'
  BY <1>2 DEF Begun, Effective
<1>3. ASSUME NEW q \in Run, NEW f \in Flow, Create(q, f) PROVE Begun(r, s)'
  <2>1. CASE q = r
    <3>1. db[r] = AbsentRow /\ writer[r] = NoProc
      BY <1>3, <2>1 DEF Told, RowsTrue, Committed, Create, Safe, TransactionsIsolate, WorkingCopy
    <3>2. QED
      BY <3>1 DEF Begun, Effective, AbsentRow
  <2>2. CASE q # r
    BY <1>2, <1>3, <2>2 DEF Create, Told, TypeOK
  <2>3. QED
    BY <2>1, <2>2
<1>4. ASSUME NEW c \in Caller, AdvanceStart(c) PROVE Begun(r, s)'
  <2>0. PICK q \in Run : q = at[c]
    BY DEF Told, TypeOK, Proc
  <2>1. CASE q = r /\ MayStart(r)
    <3> DEFINE mid == [db[r] EXCEPT !.status = "running"]
               new == Emit(mid, "Started")
    <3>1. txn'[r] = Open(new, "driving") /\ writer'[r] = c /\ writer[r] = NoProc
      BY <1>4, <2>0, <2>1 DEF Told, TypeOK, AdvanceStart
    <3>2. mid \in Row /\ mid.step = db[r].step /\ "Started" \in Event
      BY <1>0 DEF Row, RunStatus, Event
    <3> HIDE DEF mid
    <3>3. new.step = db[r].step
      BY <3>2, EmitFrame
    <3> HIDE DEF new
    <3>4. c # NoProc
      BY WorkflowAssumption DEF Proc
    <3>5. QED
      BY <3>1, <3>3, <3>4 DEF Begun, Effective, Open
  <2>2. CASE q # r
    BY <1>2, <1>4, <2>0, <2>2 DEF Told, TypeOK, AdvanceStart
  <2>3. CASE q = r /\ ~MayStart(r)
    BY <1>2, <1>4, <2>0, <2>3 DEF AdvanceStart
  <2>4. QED
    BY <2>1, <2>2, <2>3
<1>5. ASSUME NEW c \in Caller, CancelWrite(c) PROVE Begun(r, s)'
  <2>0. PICK q \in Run : q = at[c]
    BY DEF Told, TypeOK, Proc
  <2>1. CASE q = r /\ MayCancel(r)
    <3> DEFINE mid == [db[r] EXCEPT !.status = "canceled"]
               new == Emit(mid, "Canceled")
    <3>1. db'[r] = new /\ writer[r] = NoProc /\ writer' = writer
      BY <1>5, <2>0, <2>1 DEF Told, TypeOK, CancelWrite
    <3>2. mid \in Row /\ mid.step = db[r].step /\ "Canceled" \in Event
      BY <1>0 DEF Row, RunStatus, Event
    <3> HIDE DEF mid
    <3>3. new.step = db[r].step
      BY <3>2, EmitFrame
    <3> HIDE DEF new
    <3>4. QED
      BY <1>1, <3>1, <3>3
  <2>2. CASE q # r \/ ~MayCancel(r)
    BY <1>2, <1>5, <2>0, <2>2 DEF Told, TypeOK, CancelWrite
  <2>3. QED
    BY <2>1, <2>2
<1>6. ASSUME NEW e \in Engine, ResumeGate(e) PROVE Begun(r, s)'
  <2>0. PICK q \in Run : q = at[e]
    BY DEF Told, TypeOK, Proc
  <2>1. CASE q = r /\ MayResume(r)
    <3> DEFINE to == IF got[e] = "ok" THEN "succeeded" ELSE "failed"
    <3>1. txn'[r].row = Resumed(db[r], got[e]) /\ writer'[r] = e /\ writer[r] = NoProc
      BY <1>6, <2>0, <2>1 DEF Told, TypeOK, ResumeGate, Open
    <3>2. Resumed(db[r], got[e]).step = [db[r].step EXCEPT ![1] = to]
      BY <1>0 DEF Resumed, Emit, Row
    <3>3. db[r].step[s] \in begun
      BY <3>1 DEF Begun, Effective
    <3>4. [db[r].step EXCEPT ![1] = to][s] \in begun
      BY <1>0, <3>3 DEF Row
    <3>5. e # NoProc
      BY WorkflowAssumption DEF Proc
    <3>6. QED
      BY <3>1, <3>2, <3>4, <3>5 DEF Begun, Effective
  <2>2. CASE q # r
    BY <1>2, <1>6, <2>0, <2>2 DEF Told, TypeOK, ResumeGate
  <2>3. CASE q = r /\ ~MayResume(r)
    BY <1>2, <1>6, <2>0, <2>3 DEF ResumeGate
  <2>4. QED
    BY <2>1, <2>2, <2>3
<1>7. ASSUME NEW p \in Proc, RunHandler(p) \/ Dispatch(p) PROVE Begun(r, s)'
  <2>0. PICK q \in Run : q = at[p]
    BY DEF Told, TypeOK
  <2>1. /\ UNCHANGED <<db, writer>> /\ writer[q] # NoProc
        /\ \A x \in Run \ {q} : txn'[x] = txn[x]
        /\ \E t \in Step, to \in StepStatus : Moves(q, t, to)
    BY <1>7, <2>0, LoopMoves
  <2>2. CASE q = r
    <3>1. txn[r].row.step[s] \in begun
      BY <2>1, <2>2 DEF Begun, Effective
    <3>2. txn'[r].row.step[s] \in begun
      BY <1>0, <2>1, <2>2, <3>1 DEF Moves, Row
    <3>3. QED
      BY <2>1, <2>2, <3>2 DEF Begun, Effective
  <2>3. CASE q # r
    BY <1>2, <2>1, <2>3
  <2>4. QED
    BY <2>2, <2>3
<1>8. ASSUME NEW p \in Proc, Commit(p) PROVE Begun(r, s)'
  <2>0. PICK q \in Run : q = at[p]
    BY DEF Told, TypeOK
  <2>1. /\ writer[q] # NoProc /\ txn[q].row \in Row
        /\ txn[q].outcome \in {"driving", "paused", "failed"}
        /\ db' = [db EXCEPT ![q] = Settled(txn[q].row, txn[q].outcome)]
        /\ writer' = [writer EXCEPT ![q] = NoProc] /\ txn' = [txn EXCEPT ![q] = Closed]
    BY <1>8, <2>0, CommitOverRest DEF Told, Commit
  <2>2. CASE q = r
    <3>1. txn[r].row.status = "running" /\ Truthful(txn[r].row, call[r])
      BY <2>1, <2>2 DEF Told, Safe, TransactionsIsolate, WorkingCopy, RowsTrue, Uncommitted
    <3>2. Settled(txn[r].row, txn[r].outcome).step = txn[r].row.step
      BY <2>1, <2>2, <3>1, SettledTrue
    <3>3. db'[r].step = txn[r].row.step /\ writer'[r] = NoProc
      BY <2>1, <2>2, <3>2 DEF Told, TypeOK
    <3>4. QED
      BY <2>1, <2>2, <3>3 DEF Begun, Effective
  <2>3. CASE q # r
    BY <1>2, <2>1, <2>3 DEF Told, TypeOK
  <2>4. QED
    BY <2>2, <2>3
<1>9. CASE UNCHANGED <<db, txn, writer>>
  BY <1>2, <1>9
<1>10. QED
  BY <1>3, <1>4, <1>5, <1>6, <1>7, <1>8, <1>9, OnlyTheseTouch DEF Touches

\* The provider takes a call for a step only as the step begins.
LEMMA CallsBegin ==
  ASSUME Told, [Next]_vars, NEW r \in Run, NEW s \in Step
  PROVE  \/ Taken(r, s)' = Taken(r, s)
         \/ /\ ~Begun(r, s) /\ Begun(r, s)'
            /\ \E n \in Call : n \notin Taken(r, s) /\ Taken(r, s)' = Taken(r, s) \cup {n}
<1>1. CASE UNCHANGED call
  BY <1>1 DEF Taken
<1>2. ASSUME NEW q \in Run, NEW n \in Call, NEW result \in {"ok", "failed"}, Finish(q, n, result)
      PROVE  Taken(r, s)' = Taken(r, s)
  <2>1. call[q][1][n] = "pending" /\ call' = [call EXCEPT ![q][1][n] = result] /\ 1 \in Step
    BY <1>2, WorkflowAssumption DEF Finish, Step
  <2>2. \A m \in Call : call'[r][s][m] = call[r][s][m]
                        \/ (call[r][s][m] = "pending" /\ call'[r][s][m] = result)
    BY <2>1 DEF Told, TypeOK
  <2>3. QED
    BY <2>2 DEF Taken
<1>3. ASSUME NEW p \in Proc, Dispatch(p)
      PROVE  \/ Taken(r, s)' = Taken(r, s)
             \/ /\ ~Begun(r, s) /\ Begun(r, s)'
                /\ \E n \in Call : n \notin Taken(r, s) /\ Taken(r, s)' = Taken(r, s) \cup {n}
  <2>0. PICK q \in Run : q = at[p]
    BY DEF Told, TypeOK
  <2>1. /\ UNCHANGED <<db, writer>> /\ writer[q] # NoProc
        /\ \E t \in Step, to \in StepStatus : Moves(q, t, to) /\ Asks(q, t, to)
    BY <1>3, <2>0, LoopMoves
  <2>2. PICK t \in Step, to \in StepStatus : Moves(q, t, to) /\ Asks(q, t, to)
    BY <2>1
  <2>3. CASE UNCHANGED call
    BY <1>1, <2>3
  <2>4. ASSUME NEW n \in Call, NEW answer \in CallStatus \ {"none"},
               call[q][t][n] = "none", call' = [call EXCEPT ![q][t][n] = answer],
               answer # "error" => to \in {"running", "succeeded", "failed"}
        PROVE  \/ Taken(r, s)' = Taken(r, s)
               \/ /\ ~Begun(r, s) /\ Begun(r, s)' /\ n \notin Taken(r, s)
                  /\ Taken(r, s)' = Taken(r, s) \cup {n}
    <3>1. \A m \in Call : ~(q = r /\ t = s /\ m = n) => call'[r][s][m] = call[r][s][m]
      BY <2>4 DEF Told, TypeOK
    <3>2. CASE ~(q = r /\ t = s)
      BY <3>1, <3>2 DEF Taken
    <3>3. CASE q = r /\ t = s
      <4>1. call'[r][s][n] = answer
        BY <2>4, <3>3 DEF Told, TypeOK
      <4>2. CASE answer = "error"
        BY <2>4, <3>1, <3>3, <4>1, <4>2 DEF Taken
      <4>3. CASE answer # "error"
        <5>1. Taken(r, s)' = Taken(r, s) \cup {n} /\ n \notin Taken(r, s)
          BY <2>4, <3>1, <3>3, <4>1, <4>3 DEF Taken
        <5>2. txn[r].row.step \in [Step -> StepStatus]
          BY DEF Told, TypeOK, Txn, Row
        <5>3. ~Begun(r, s) /\ Begun(r, s)'
          BY <2>1, <2>2, <2>4, <3>3, <4>3, <5>2 DEF Moves, Begun, Effective
        <5>4. QED
          BY <5>1, <5>3
      <4>4. QED
        BY <4>2, <4>3
    <3>4. QED
      BY <3>2, <3>3
  <2>5. QED
    BY <2>2, <2>3, <2>4 DEF Asks
<1>4. QED
  BY <1>1, <1>2, <1>3, CallsOfSteps

\* So each call beyond the first one of a begun step was paid for by a fault.
LEMMA CallsSpentStep == Told /\ CallsSpent /\ [Next]_vars => CallsSpent'
<1> SUFFICES ASSUME Told, CallsSpent, [Next]_vars, NEW r \in Run, NEW s \in Step
             PROVE  Cardinality(Taken(r, s)') <= faults' + (IF Begun(r, s)' THEN 1 ELSE 0)
  BY DEF CallsSpent
<1>1. /\ faults \in Nat /\ faults' \in {faults, faults + 1}
      /\ \A p \in Proc : Crash(p) => faults' = faults + 1
  BY FaultsCount DEF Told, TypeOK
<1>2. IsFiniteSet(Taken(r, s)) /\ Cardinality(Taken(r, s)) \in Nat
  <2>1. IsFiniteSet(Call)
    BY WorkflowAssumption, FS_Interval DEF Call
  <2>2. IsFiniteSet(Taken(r, s))
    BY <2>1, FS_Subset DEF Taken
  <2>3. QED
    BY <2>2, FS_CardinalityType
<1>3. Cardinality(Taken(r, s)) <= faults + (IF Begun(r, s) THEN 1 ELSE 0)
  BY DEF CallsSpent
<1>4. CASE Taken(r, s)' = Taken(r, s)
  BY <1>1, <1>2, <1>3, <1>4, BegunStays
<1>5. ASSUME ~Begun(r, s), Begun(r, s)',
             NEW n \in Call, n \notin Taken(r, s), Taken(r, s)' = Taken(r, s) \cup {n}
      PROVE  Cardinality(Taken(r, s)') <= faults' + (IF Begun(r, s)' THEN 1 ELSE 0)
  <2>1. Cardinality(Taken(r, s)') = Cardinality(Taken(r, s)) + 1
    BY <1>2, <1>5, FS_AddElement
  <2>2. QED
    BY <1>1, <1>2, <1>3, <1>5, <2>1
<1>6. QED
  BY <1>4, <1>5, CallsBegin

\* The provider takes one call of a step, and one more for each fault: no resume, poll,
\* webhook or retry asks it again.
THEOREM DispatchProven == Spec => []DispatchedOnce
<1>1. Init => CallsSpent
  <2> SUFFICES ASSUME Init, NEW r \in Run, NEW s \in Step
               PROVE  Cardinality(Taken(r, s)) <= faults + (IF Begun(r, s) THEN 1 ELSE 0)
    BY DEF CallsSpent
  <2>1. Taken(r, s) = {} /\ faults = 0
    BY DEF Init, Taken
  <2>2. QED
    BY <2>1, FS_EmptySet
<1>2. Told /\ CallsSpent => DispatchedOnce
  <2> SUFFICES ASSUME Told, CallsSpent, NEW r \in Run, NEW s \in Step
               PROVE  Cardinality(Taken(r, s)) <= 1 + faults
    BY DEF DispatchedOnce, Taken
  <2>1. faults \in Nat /\ Cardinality(Taken(r, s)) \in Nat
    <3>0. IsFiniteSet(Call)
      BY WorkflowAssumption, FS_Interval DEF Call
    <3>1. IsFiniteSet(Taken(r, s))
      BY <3>0, FS_Subset DEF Taken
    <3>2. QED
      BY <3>1, FS_CardinalityType DEF Told, TypeOK
  <2>2. QED
    BY <2>1 DEF CallsSpent
<1>3. QED
  BY <1>1, <1>2, CallsSpentStep, ToldInvariance, PTL DEF Spec
=============================================================================
