--------------------------- MODULE GenerationJobs ---------------------------
(***************************************************************************)
(* Generations: creating and cancelling them, and the worker that reaps    *)
(* abandoned ones, claims queued ones and runs the video pipeline under a  *)
(* generation:<id> lease (application/use_cases/generation/).              *)
(*                                                                         *)
(* Every statement on the generations table is a transaction of its own.   *)
(* The worker's statements are compare-and-sets; the pipeline's are not.   *)
(***************************************************************************)
EXTENDS Naturals, FiniteSets

CONSTANTS
  Generation,  \* generation ids; fewer than a worker's batch size
  Worker,      \* worker instances, each its own lease owner (a fresh uuid4)
  Nobody,      \* no lease row
  Nothing,     \* what a worker holds between generations
  MaxFaults    \* bound on crashes, shutdowns and failing statements

ASSUME GenerationAssumption ==
  /\ Generation # {}
  /\ Nobody \notin Worker /\ Nothing \notin Generation
  /\ MaxFaults \in Nat

VARIABLES
  status,        \* status[g], "absent" before it is created
  quiet,         \* quiet[g]: updated_at is older than the reaper's cutoff
  started,       \* started[g]: GenerationStarted events
  exported,      \* exported[g]: ExportCompleted events
  spent,         \* spent[g]: runs that went on to call image providers
  pc, at,        \* where each worker is, and the generation it holds
  todo,          \* todo[w]: ids of the scan that w has yet to look at
  holder, live,  \* the lease rows (Lease)
  faults

rowVars == <<status, quiet>>
eventVars == <<started, exported, spent>>
workerVars == <<pc, at, todo>>
leaseVars == <<holder, live>>
vars == <<rowVars, eventVars, workerVars, leaseVars, faults>>

Locks == INSTANCE Lease WITH Key <- Generation, Owner <- Worker

InPipeline == {"planning", "resolving", "generating", "rendering", "exporting"}
Terminal == {"completed", "failed", "cancelled"}
Status == {"absent", "queued"} \cup InPipeline \cup Terminal
Claimed == Status \ ({"absent", "queued"} \cup Terminal)

\* While a worker runs the pipeline, its location is the last status the run wrote.
Running == {"claimed"} \cup InPipeline
Location == {"idle", "reaping", "marking", "unreap", "claiming", "claim", "lost", "release"}
              \cup Running

Init == /\ status = [g \in Generation |-> "absent"]
        /\ quiet = [g \in Generation |-> FALSE]
        /\ started = [g \in Generation |-> 0]
        /\ exported = [g \in Generation |-> 0]
        /\ spent = [g \in Generation |-> 0]
        /\ pc = [w \in Worker |-> "idle"]
        /\ at = [w \in Worker |-> Nothing]
        /\ todo = [w \in Worker |-> {}]
        /\ Locks!Init
        /\ faults = 0

Goto(w, l) == pc' = [pc EXCEPT ![w] = l]

\* Every write of the status touches updated_at.
SetStatus(g, s) == /\ status' = [status EXCEPT ![g] = s]
                   /\ quiet' = [quiet EXCEPT ![g] = FALSE]
-----------------------------------------------------------------------------
(***************************************************************************)
(* The API.                                                                *)
(***************************************************************************)
Create(g) ==
  /\ status[g] = "absent"
  /\ SetStatus(g, "queued")
  /\ UNCHANGED <<eventVars, workerVars, leaseVars, faults>>

\* cancel_queued: only a generation nobody has claimed.
CancelQueued(g) ==
  /\ status[g] = "queued"
  /\ SetStatus(g, "cancelled")
  /\ UNCHANGED <<eventVars, workerVars, leaseVars, faults>>
-----------------------------------------------------------------------------
(***************************************************************************)
(* Phase 0 of GenerationWorker.run_once: reap.                             *)
(***************************************************************************)
\* The WHERE clause of list_reapable.  (Mutant: a status is forgotten.)
ReapableButPlanning(g) == status[g] \in Claimed \ {"planning"} /\ quiet[g]
Reapable(g) == status[g] \in Claimed /\ quiet[g]

\* What the scan returns may be stale when the worker comes to it.
ListReapable(w) ==
  /\ pc[w] = "idle"
  /\ todo' = [todo EXCEPT ![w] = {g \in Generation : Reapable(g)}]
  /\ Goto(w, "reaping")
  /\ UNCHANGED <<rowVars, eventVars, at, leaseVars, faults>>

\* _acquire for the next id of a scan; a live lease of somebody else's skips it.
TakeNext(w, g, next) ==
  /\ todo' = [todo EXCEPT ![w] = @ \ {g}]
  /\ \/ /\ Locks!Take(g, w)
        /\ at' = [at EXCEPT ![w] = g]
        /\ Goto(w, next)
     \/ /\ ~Locks!Free(g)
        /\ UNCHANGED <<at, pc, leaseVars>>

\* (Mutant: the reaper does without the lease.)
ReapNextUnleased(w) ==
  /\ pc[w] = "reaping"
  /\ \E g \in todo[w] : at' = [at EXCEPT ![w] = g] /\ todo' = [todo EXCEPT ![w] = @ \ {g}]
  /\ Goto(w, "marking")
  /\ UNCHANGED <<rowVars, eventVars, leaseVars, faults>>

ReapNext(w) ==
  /\ pc[w] = "reaping"
  /\ \E g \in todo[w] : TakeNext(w, g, "marking")
  /\ UNCHANGED <<rowVars, eventVars, faults>>

\* mark_lost fails a claimed generation and leaves any other alone.
\* (Mutant: it fails whatever it finds.)
MarkLostUnguarded(g) == SetStatus(g, "failed")

MarkLost(g) == IF status[g] \in Claimed THEN SetStatus(g, "failed") ELSE UNCHANGED rowVars

Reap(w) ==
  /\ pc[w] = "marking"
  /\ MarkLost(at[w])
  /\ Goto(w, "unreap")
  /\ UNCHANGED <<eventVars, at, todo, leaseVars, faults>>

\* The finally block of either phase.
Unlock(w) ==
  /\ pc[w] \in {"unreap", "release"}
  /\ Locks!Drop(at[w], w)
  /\ at' = [at EXCEPT ![w] = Nothing]
  /\ Goto(w, IF pc[w] = "unreap" THEN "reaping" ELSE "claiming")
  /\ UNCHANGED <<rowVars, eventVars, todo, faults>>
-----------------------------------------------------------------------------
(***************************************************************************)
(* Phase 1: claim and run.                                                 *)
(***************************************************************************)
ListClaimable(w) ==
  /\ pc[w] = "reaping" /\ todo[w] = {}
  /\ todo' = [todo EXCEPT ![w] = {g \in Generation : status[g] = "queued"}]
  /\ Goto(w, "claiming")
  /\ UNCHANGED <<rowVars, eventVars, at, leaseVars, faults>>

ClaimNext(w) ==
  /\ pc[w] = "claiming"
  /\ \E g \in todo[w] : TakeNext(w, g, "claim")
  /\ UNCHANGED <<rowVars, eventVars, faults>>

\* The claim compare-and-set queued -> planning.  (Mutant: any unfinished status.)
ClaimableAny(g) == status[g] \notin {"absent", "completed"}
Claimable(g) == status[g] = "queued"

Claim(w) ==
  LET g == at[w] IN
  /\ pc[w] = "claim"
  /\ IF Claimable(g)
       THEN /\ SetStatus(g, "planning")
            /\ Goto(w, "claimed")
       ELSE /\ Goto(w, "release")
            /\ UNCHANGED rowVars
  /\ UNCHANGED <<eventVars, at, todo, leaseVars, faults>>

EndOfPass(w) ==
  /\ pc[w] = "claiming" /\ todo[w] = {}
  /\ Goto(w, "idle")
  /\ UNCHANGED <<rowVars, eventVars, at, todo, leaseVars, faults>>
-----------------------------------------------------------------------------
(***************************************************************************)
(* The pipeline, GenerateVideo.execute.  Its writes name the row by id     *)
(* only: they look neither at its status nor at the lease.                 *)
(***************************************************************************)
\* The stages in order.
After == [claimed |-> "planning", planning |-> "resolving", resolving |-> "generating",
          generating |-> "rendering", rendering |-> "exporting"]

\* begin, and set_status at the start of each later stage.
NextStage(w) ==
  LET g == at[w] IN
  /\ pc[w] \in DOMAIN After
  /\ SetStatus(g, After[pc[w]])
  /\ Goto(w, After[pc[w]])
  /\ started' = [started EXCEPT ![g] = IF pc[w] = "claimed" THEN @ + 1 ELSE @]
  /\ spent' = [spent EXCEPT ![g] = IF pc[w] = "resolving" THEN @ + 1 ELSE @]
  /\ UNCHANGED <<exported, at, todo, leaseVars, faults>>

\* fail: no eligible provider, a shot given up, a bad timeline or a bad video.
GiveUp(w) ==
  /\ pc[w] \in {"resolving", "generating", "exporting"}
  /\ SetStatus(at[w], "failed")
  /\ Goto(w, "release")
  /\ UNCHANGED <<eventVars, at, todo, leaseVars, faults>>

Complete(w) ==
  /\ pc[w] = "exporting"
  /\ SetStatus(at[w], "completed")
  /\ exported' = [exported EXCEPT ![at[w]] = @ + 1]
  /\ Goto(w, "release")
  /\ UNCHANGED <<started, spent, at, todo, leaseVars, faults>>

\* A prompt that cannot be planned, or any other exception of the pipeline.
PipelineRaises(w) ==
  /\ pc[w] \in Running
  /\ Goto(w, "lost")
  /\ UNCHANGED <<rowVars, eventVars, at, todo, leaseVars, faults>>

\* ... which the worker answers with mark_lost before the finally block.
SettleLost(w) ==
  /\ pc[w] = "lost"
  /\ MarkLost(at[w])
  /\ Goto(w, "release")
  /\ UNCHANGED <<eventVars, at, todo, leaseVars, faults>>
-----------------------------------------------------------------------------
(***************************************************************************)
(* Time and faults.                                                        *)
(***************************************************************************)
\* The heartbeat keeps a lease alive while it can; once the lease has lapsed,
\* renewing fails, which the worker logs and otherwise ignores.
LeaseLapses(g) ==
  /\ live[g]
  /\ Locks!Lapse({g})
  /\ UNCHANGED <<rowVars, eventVars, workerVars, faults>>

GoesQuiet(g) ==
  /\ status[g] \in Claimed /\ ~quiet[g]
  /\ quiet' = [quiet EXCEPT ![g] = TRUE]
  /\ UNCHANGED <<status, eventVars, workerVars, leaseVars, faults>>

Fault == faults < MaxFaults /\ faults' = faults + 1

\* The worker process dies; its lease row stays until it lapses.
Crash(w) ==
  /\ pc[w] # "idle"
  /\ Fault
  /\ Goto(w, "idle")
  /\ todo' = [todo EXCEPT ![w] = {}]
  /\ at' = [at EXCEPT ![w] = Nothing]
  /\ UNCHANGED <<rowVars, eventVars, leaseVars>>

\* Shutdown cancels the pipeline: CancelledError passes the except block by and
\* leaves the row as it is.
Shutdown(w) ==
  /\ pc[w] \in Running
  /\ Fault
  /\ Goto(w, "release")
  /\ todo' = [todo EXCEPT ![w] = {}]
  /\ UNCHANGED <<rowVars, eventVars, at, leaseVars>>

\* The database rejects a statement.  A failing claim or renewal is answered with
\* mark_lost; a failing mark_lost ends the pass, through the finally block.
StatementFails(w) ==
  /\ Fault
  /\ \/ /\ pc[w] = "claim"
        /\ Goto(w, "lost")
        /\ UNCHANGED todo
     \/ /\ pc[w] \in {"marking", "lost"}
        /\ Goto(w, "release")
        /\ todo' = [todo EXCEPT ![w] = {}]
     \/ /\ pc[w] \in {"reaping", "claiming"}
        /\ Goto(w, "idle")
        /\ todo' = [todo EXCEPT ![w] = {}]
  /\ UNCHANGED <<rowVars, eventVars, at, leaseVars>>
-----------------------------------------------------------------------------
RunStep(w) == NextStage(w) \/ GiveUp(w) \/ Complete(w) \/ PipelineRaises(w)

WorkerStep(w) ==
  \/ ListReapable(w) \/ ReapNext(w) \/ Reap(w) \/ Unlock(w)
  \/ ListClaimable(w) \/ ClaimNext(w) \/ Claim(w) \/ EndOfPass(w)
  \/ RunStep(w) \/ SettleLost(w)

Next == \/ \E g \in Generation : Create(g) \/ CancelQueued(g)
        \/ \E w \in Worker : WorkerStep(w)
        \/ \E g \in Generation : LeaseLapses(g) \/ GoesQuiet(g)
        \/ \E w \in Worker : Crash(w) \/ Shutdown(w) \/ StatementFails(w)

Spec == Init /\ [][Next]_vars

\* The worker host calls run_once again and again, and time passes.
Fairness == /\ \A w \in Worker : WF_vars(WorkerStep(w))
            /\ \A g \in Generation : WF_vars(LeaseLapses(g)) /\ WF_vars(GoesQuiet(g))

FairSpec == Spec /\ Fairness
-----------------------------------------------------------------------------
(***************************************************************************)
(* Properties                                                              *)
(***************************************************************************)
\* Every variable has its type.
TypeOK ==
  /\ status \in [Generation -> Status]
  /\ quiet \in [Generation -> BOOLEAN]
  /\ started \in [Generation -> Nat]
  /\ exported \in [Generation -> Nat]
  /\ spent \in [Generation -> Nat]
  /\ pc \in [Worker -> Location]
  /\ at \in [Worker -> Generation \cup {Nothing}]
  /\ todo \in [Worker -> SUBSET Generation]
  /\ holder \in [Generation -> Worker \cup {Nobody}]
  /\ live \in [Generation -> BOOLEAN]
  /\ faults \in 0..MaxFaults

\* GEN-2, "one generation execution is one external spend opportunity": whatever
\* crashes, lapses or is reaped, at most one run of a generation ever goes to the
\* providers, and none of a cancelled one does.
SpendOnce ==
  \A g \in Generation :
    /\ spent[g] <= started[g] /\ started[g] <= 1
    /\ status[g] = "cancelled" => started[g] = 0

\* A video is announced once, exactly when its generation is completed: neither a
\* late reaper nor a worker's own error path unsettles a completed generation.
AnnouncedIfCompleted ==
  \A g \in Generation : exported[g] = IF status[g] = "completed" THEN 1 ELSE 0

\* "A live worker still holds the lease: the run is slow, not abandoned": as long
\* as a running worker's lease has not lapsed, no reaper fails its generation,
\* however long ago the reaper listed it.
Leased(w) == pc[w] \in Running /\ holder[at[w]] = w /\ live[at[w]]

LiveRunNotReaped ==
  [][\A w, v \in Worker :
       (Leased(w) /\ pc[v] = "marking" /\ pc'[v] = "unreap") =>
         status'[at[w]] = status[at[w]]]_vars

\* A claimed generation comes to an end, by its worker or by a reaper: "without
\* this phase a crashed run would sit mid-state forever".
ClaimedEnds ==
  \A g \in Generation : status[g] \in Claimed ~> status[g] \in Terminal

\* "Statuses a generation can never leave" (generation_job_store.py): true of completed
\* and cancelled ones; a failed one is left only by a write of the run under way, which
\* goes on when its lease is lost (generation_worker.py), never by a claim or a reaper.
OnlyItsRunRevives ==
  [][\A g \in Generation :
       status[g] \in Terminal /\ status'[g] # status[g] =>
         /\ status[g] = "failed"
         /\ \E w \in Worker : /\ at[w] = g /\ pc[w] \in Running /\ pc'[w] # pc[w]
                             /\ \A v \in Worker \ {w} : pc'[v] = pc[v]]_vars
=============================================================================
