----------------------------- MODULE WorkerHost -----------------------------
(***************************************************************************)
(* The worker processes (runtime/worker_host.py, scripts/run_worker.py): a *)
(* host keeps one supervision task per worker, which runs one pass after   *)
(* the other with a sleep between, restarts a task that dies a bounded     *)
(* number of times, and on a signal starts no pass any more and gives the  *)
(* passes in flight their drain budget.  A process that ended is started   *)
(* again.  What a pass does is left to the module that composes with this  *)
(* one, and the length of a sleep or a budget is "some time".              *)
(***************************************************************************)
EXTENDS Naturals

CONSTANTS Process,      \* the worker processes
          Worker,       \* the workers of all of them
          ProcessOf,    \* ProcessOf[w]: the process worker w runs in
          MaxRestarts   \* max_supervisor_restarts

VARIABLES phase,     \* phase[w]: what the supervision task of w is doing
          restarts,  \* restarts[w]: how often that task was replaced
          stopping   \* stopping[p]: process p was asked to stop

hostVars == <<phase, restarts, stopping>>

Over == {"drained", "abandoned", "escalated"}
Phase == {"waiting", "passing"} \cup Over

TypeOK == /\ phase \in [Worker -> Phase]
          /\ restarts \in [Worker -> 0..MaxRestarts]
          /\ stopping \in [Process -> BOOLEAN]

Init == /\ phase = [w \in Worker |-> "waiting"]
        /\ restarts = [w \in Worker |-> 0]
        /\ stopping = [p \in Process |-> FALSE]

Becomes(w, f) == /\ phase' = [phase EXCEPT ![w] = f]
                 /\ UNCHANGED <<restarts, stopping>>
Stops(w) == stopping[ProcessOf[w]]
Workers(p) == {w \in Worker : ProcessOf[w] = p}
-----------------------------------------------------------------------------
\* The sleep is over, by its delay or by the stop that interrupts it: the loop
\* starts another pass or ends.
BeginPass(w) == phase[w] = "waiting" /\ ~Stops(w) /\ Becomes(w, "passing")
LeaveLoop(w) == phase[w] = "waiting" /\ Stops(w) /\ Becomes(w, "drained")

\* A pass returned or raised: either way the loop goes on, after a sleep.
EndPass(w) == /\ phase[w] = "passing"
              /\ Becomes(w, IF Stops(w) THEN "drained" ELSE "waiting")

\* The drain budget of a pass that was in flight at the stop is over.
AbandonPass(w) == phase[w] = "passing" /\ Stops(w) /\ Becomes(w, "abandoned")

\* The supervision loop itself raises between two passes: it is replaced, up to
\* the bound, after which its worker is escalated.
SupervisorDies(w) ==
  /\ phase[w] = "waiting"
  /\ LET again == ~Stops(w) /\ restarts[w] < MaxRestarts IN
       /\ phase' = [phase EXCEPT ![w] = IF Stops(w) THEN "drained"
                                        ELSE IF again THEN "waiting" ELSE "escalated"]
       /\ restarts' = [restarts EXCEPT ![w] = @ + IF again THEN 1 ELSE 0]
  /\ UNCHANGED stopping

\* SIGINT or SIGTERM.
RequestStop(p) == /\ ~stopping[p]
                  /\ stopping' = [stopping EXCEPT ![p] = TRUE]
                  /\ UNCHANGED <<phase, restarts>>

Fresh(p) ==
  /\ phase' = [w \in Worker |-> IF w \in Workers(p) THEN "waiting" ELSE phase[w]]
  /\ restarts' = [w \in Worker |-> IF w \in Workers(p) THEN 0 ELSE restarts[w]]
  /\ stopping' = [stopping EXCEPT ![p] = FALSE]

\* Every task has reported, the process exits and is started again.
Replace(p) == /\ \A w \in Workers(p) : phase[w] \in Over
              /\ Fresh(p)
-----------------------------------------------------------------------------
\* No worker is quietly absent: while its process runs on, a worker without a
\* supervision task has been escalated.  Composed into EventDelivery.
NeverQuietlyAbsent ==
  \A w \in Worker : phase[w] \in Over => Stops(w) \/ phase[w] = "escalated"
=============================================================================
