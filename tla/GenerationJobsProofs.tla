------------------------ MODULE GenerationJobsProofs ------------------------
(***************************************************************************)
(* Theorems about generations, for every set of generations and workers    *)
(* and however often leases lapse, workers die and statements fail; then   *)
(* about the catalogue they are resolved from, for every manifest and any  *)
(* number of seedings; then about one run, for every prompt, every image a *)
(* generator may return and wherever the run stops.                        *)
(***************************************************************************)
EXTENDS GenerationJobs, Catalogue, Pipeline, FiniteSetTheorems,
        WellFoundedInduction, TLAPS

Between == {"idle", "reaping", "claiming"}

\* Outside its scans a worker holds a generation.
HoldsOne == \A w \in Worker : pc[w] \in Between \/ at[w] \in Generation

\* The claim is exclusive: no two workers run one generation, lease or no lease.
OneRunner ==
  \A w, v \in Worker :
    (pc[w] \in Running /\ pc[v] \in Running /\ at[w] = at[v]) => w = v

\* How far a run has come tells what it has announced and spent.  It may have been
\* failed by a reaper, but it has not been completed, or returned to the queue.
Ledger ==
  \A w \in Worker : pc[w] \in Running =>
    /\ status[at[w]] \in Claimed \cup {"failed"}
    /\ started[at[w]] = IF pc[w] = "claimed" THEN 0 ELSE 1
    /\ spent[at[w]] = IF pc[w] \in {"claimed", "planning", "resolving"} THEN 0 ELSE 1

\* A generation nobody has claimed has not been started.
Unstarted ==
  \A g \in Generation : status[g] \in {"absent", "queued", "cancelled"} => started[g] = 0

\* With the types, the inductive invariant.
IInv == HoldsOne /\ OneRunner /\ Ledger /\ Unstarted /\ SpendOnce /\ AnnouncedIfCompleted
-----------------------------------------------------------------------------
\* A worker changes places.
LEMMA MovesTyped ==
  ASSUME TypeOK, NEW w \in Worker, NEW l \in Location, Goto(w, l)
  PROVE  /\ pc' \in [Worker -> Location]
         /\ pc'[w] = l
         /\ \A v \in Worker \ {w} : pc'[v] = pc[v]
BY DEF TypeOK, Goto

\* A write of the status of one generation.
LEMMA StatusTyped ==
  ASSUME TypeOK, NEW g \in Generation, NEW s \in Status, SetStatus(g, s)
  PROVE  /\ status' \in [Generation -> Status] /\ quiet' \in [Generation -> BOOLEAN]
         /\ status'[g] = s
         /\ \A h \in Generation \ {g} : status'[h] = status[h]
BY DEF TypeOK, SetStatus

\* A lost generation is failed if it was claimed; nothing else changes.
LEMMA LostTyped ==
  ASSUME TypeOK, NEW g \in Generation, MarkLost(g)
  PROVE  /\ status' \in [Generation -> Status] /\ quiet' \in [Generation -> BOOLEAN]
         /\ \A h \in Generation :
              status'[h] = status[h] \/ (status[h] \in Claimed /\ status'[h] = "failed")
BY DEF TypeOK, MarkLost, SetStatus, Status, Terminal, rowVars

\* The lease rows stay well typed.
LEMMA LeaseTyped ==
  ASSUME TypeOK, NEW g \in Generation, NEW w \in Worker,
         Locks!Take(g, w) \/ Locks!Drop(g, w) \/ UNCHANGED leaseVars
  PROVE  holder' \in [Generation -> Worker \cup {Nobody}] /\ live' \in [Generation -> BOOLEAN]
BY DEF TypeOK, Locks!Take, Locks!Drop, Locks!leaseVars, leaseVars

\* A worker leaves a run or never was in one, and no generation is touched but
\* for claimed ones that fail.
LEMMA LeavesSafe ==
  ASSUME TypeOK, IInv, NEW w \in Worker, NEW l \in Location \ Running, Goto(w, l),
         UNCHANGED eventVars,
         \A g \in Generation :
           status'[g] = status[g] \/ (status[g] \in Claimed /\ status'[g] = "failed"),
         \A v \in Worker \ {w} : at'[v] = at[v],
         l \in Between \/ at'[w] \in Generation
  PROVE  IInv'
<1>1. pc'[w] = l /\ \A v \in Worker \ {w} : pc'[v] = pc[v]
  BY MovesTyped
<1>2. HoldsOne' /\ OneRunner'
  BY <1>1 DEF IInv, HoldsOne, OneRunner
<1>3. Claimed \cap {"absent", "queued", "cancelled", "completed", "failed"} = {}
  BY DEF Claimed, Terminal
<1>4. UNCHANGED <<started, spent, exported>>
  BY DEF eventVars
<1>5. Ledger'
  <2> SUFFICES ASSUME NEW v \in Worker, pc'[v] \in Running
               PROVE  /\ status'[at'[v]] \in Claimed \cup {"failed"}
                      /\ started'[at'[v]] = IF pc'[v] = "claimed" THEN 0 ELSE 1
                      /\ spent'[at'[v]] =
                           IF pc'[v] \in {"claimed", "planning", "resolving"} THEN 0 ELSE 1
    BY DEF Ledger
  <2>1. v # w /\ pc'[v] = pc[v] /\ at'[v] = at[v]
    BY <1>1
  <2>2. at[v] \in Generation
    BY <2>1 DEF IInv, HoldsOne, Between, Running, InPipeline
  <2>3. QED
    BY <1>4, <2>1, <2>2 DEF IInv, Ledger
<1>6. Unstarted' /\ SpendOnce' /\ AnnouncedIfCompleted'
  BY <1>3, <1>4 DEF IInv, Unstarted, SpendOnce, AnnouncedIfCompleted
<1>7. QED
  BY <1>2, <1>5, <1>6 DEF IInv

\* A step that touches no worker and no status.
LEMMA QuietSafe ==
  ASSUME IInv, UNCHANGED <<status, eventVars, workerVars>>
  PROVE  IInv'
BY DEF IInv, HoldsOne, OneRunner, Ledger, Unstarted, SpendOnce, AnnouncedIfCompleted, eventVars,
       workerVars

\* Creating a generation, or cancelling one nobody has claimed.
LEMMA ApiSafe ==
  ASSUME TypeOK, IInv, NEW g \in Generation, Create(g) \/ CancelQueued(g)
  PROVE  TypeOK' /\ IInv'
<1>1. PICK s \in {"queued", "cancelled"} : SetStatus(g, s)
  BY DEF Create, CancelQueued
<1>2. /\ status[g] \in {"absent", "queued"}
      /\ UNCHANGED <<started, exported, spent, pc, at, todo, holder, live, faults>>
  BY DEF Create, CancelQueued, eventVars, workerVars, leaseVars
<1>3. s \in Status
  BY DEF Status, Terminal
<1>4. /\ status' \in [Generation -> Status] /\ quiet' \in [Generation -> BOOLEAN]
      /\ status'[g] = s /\ \A h \in Generation \ {g} : status'[h] = status[h]
  BY <1>1, <1>3, StatusTyped
<1>5. TypeOK'
  BY <1>2, <1>4 DEF TypeOK
<1>6. \A w \in Worker : pc[w] \in Running => at[w] # g
  BY <1>2 DEF IInv, Ledger, Claimed, Terminal
<1>7. Ledger'
  BY <1>2, <1>4, <1>6 DEF IInv, Ledger, HoldsOne, Between, Running, InPipeline
<1>8. HoldsOne' /\ OneRunner' /\ Unstarted' /\ SpendOnce' /\ AnnouncedIfCompleted'
  BY <1>2, <1>4 DEF IInv, HoldsOne, OneRunner, Unstarted, SpendOnce, AnnouncedIfCompleted
<1>9. QED
  BY <1>5, <1>7, <1>8 DEF IInv
-----------------------------------------------------------------------------
\* The scans and the steps of a worker that holds a generation but does not run
\* it leave the types and the invariant alone.
LEMMA ScanSafe ==
  ASSUME TypeOK, IInv, NEW w \in Worker,
         ListReapable(w) \/ ListClaimable(w) \/ EndOfPass(w)
  PROVE  TypeOK' /\ IInv'
<1>1. PICK l \in Between : Goto(w, l)
  BY DEF ListReapable, ListClaimable, EndOfPass, Between
<1>2. l \in Location \ Running
  BY DEF Between, Location, Running, InPipeline
<1>3. /\ UNCHANGED <<status, quiet, started, exported, spent, at, holder, live, faults>>
      /\ todo' \in [Worker -> SUBSET Generation]
  BY DEF TypeOK, ListReapable, ListClaimable, EndOfPass, rowVars, eventVars, leaseVars
<1>4. pc' \in [Worker -> Location]
  BY <1>1, <1>2, MovesTyped
<1>5. TypeOK'
  BY <1>3, <1>4 DEF TypeOK
<1>6. IInv'
  BY <1>1, <1>2, <1>3, LeavesSafe DEF eventVars
<1>7. QED
  BY <1>5, <1>6

\* Taking up the next id of a scan, if its lease is free.
LEMMA TakeSafe ==
  ASSUME TypeOK, IInv, NEW w \in Worker, ReapNext(w) \/ ClaimNext(w)
  PROVE  TypeOK' /\ IInv'
<1>1. PICK g \in Generation, next \in {"marking", "claim"} :
        g \in todo[w] /\ TakeNext(w, g, next)
  BY DEF TypeOK, ReapNext, ClaimNext
<1>2. /\ pc[w] \in Between
      /\ UNCHANGED <<status, quiet, started, exported, spent, faults>>
  BY DEF ReapNext, ClaimNext, Between, rowVars, eventVars
<1>3. /\ todo' \in [Worker -> SUBSET Generation]
      /\ holder' \in [Generation -> Worker \cup {Nobody}] /\ live' \in [Generation -> BOOLEAN]
  BY <1>1, LeaseTyped DEF TypeOK, TakeNext
<1>4. CASE Goto(w, next) /\ at' = [at EXCEPT ![w] = g]
  <2>1. next \in Location \ Running
    BY DEF Location, Running, InPipeline
  <2>2. pc' \in [Worker -> Location] /\ at' \in [Worker -> Generation \cup {Nothing}] /\ at'[w] = g
        /\ \A v \in Worker \ {w} : at'[v] = at[v]
    BY <1>4, <2>1, MovesTyped DEF TypeOK
  <2>3. IInv'
    BY <1>2, <1>4, <2>1, <2>2, LeavesSafe DEF eventVars
  <2>4. QED
    BY <1>2, <1>3, <2>2, <2>3 DEF TypeOK
<1>5. CASE UNCHANGED <<pc, at>>
  <2>1. IInv'
    BY <1>2, <1>5
       DEF IInv, HoldsOne, OneRunner, Ledger, Unstarted, SpendOnce, AnnouncedIfCompleted
  <2>2. QED
    BY <1>2, <1>3, <1>5, <2>1 DEF TypeOK
<1>6. QED
  BY <1>1, <1>4, <1>5 DEF TakeNext

\* A reaper, and a worker whose run or claim has raised, fail a claimed generation.
LEMMA LostSafe ==
  ASSUME TypeOK, IInv, NEW w \in Worker, Reap(w) \/ SettleLost(w)
  PROVE  TypeOK' /\ IInv'
<1>1. PICK l \in {"unreap", "release"} : Goto(w, l)
  BY DEF Reap, SettleLost
<1>2. /\ pc[w] \in {"marking", "lost"} /\ MarkLost(at[w])
      /\ UNCHANGED <<started, exported, spent, at, todo, holder, live, faults>>
  BY DEF Reap, SettleLost, eventVars, leaseVars
<1>3. at[w] \in Generation
  BY <1>2 DEF IInv, HoldsOne, Between
<1>4. /\ status' \in [Generation -> Status] /\ quiet' \in [Generation -> BOOLEAN]
      /\ \A h \in Generation :
           status'[h] = status[h] \/ (status[h] \in Claimed /\ status'[h] = "failed")
  BY <1>2, <1>3, LostTyped
<1>5. l \in Location \ Running
  BY DEF Location, Running, InPipeline
<1>6. pc' \in [Worker -> Location]
  BY <1>1, <1>5, MovesTyped
<1>7. IInv'
  BY <1>1, <1>2, <1>3, <1>4, <1>5, LeavesSafe DEF eventVars
<1>8. QED
  BY <1>2, <1>4, <1>6, <1>7 DEF TypeOK

\* The finally block gives the lease up.
LEMMA UnlockSafe ==
  ASSUME TypeOK, IInv, NEW w \in Worker, Unlock(w)
  PROVE  TypeOK' /\ IInv'
<1>1. PICK l \in {"reaping", "claiming"} : Goto(w, l)
  BY DEF Unlock
<1>2. /\ pc[w] \in {"unreap", "release"} /\ Locks!Drop(at[w], w)
      /\ at' = [at EXCEPT ![w] = Nothing]
      /\ UNCHANGED <<status, quiet, started, exported, spent, todo, faults>>
  BY DEF Unlock, rowVars, eventVars
<1>3. at[w] \in Generation
  BY <1>2 DEF IInv, HoldsOne, Between
<1>4. holder' \in [Generation -> Worker \cup {Nobody}] /\ live' \in [Generation -> BOOLEAN]
  BY <1>2, <1>3, LeaseTyped
<1>5. at' \in [Worker -> Generation \cup {Nothing}] /\ \A v \in Worker \ {w} : at'[v] = at[v]
  BY <1>2 DEF TypeOK
<1>6. l \in Location \ Running /\ l \in Between
  BY DEF Location, Running, InPipeline, Between
<1>7. pc' \in [Worker -> Location]
  BY <1>1, <1>6, MovesTyped
<1>8. IInv'
  BY <1>1, <1>2, <1>5, <1>6, LeavesSafe DEF eventVars
<1>9. QED
  BY <1>2, <1>4, <1>5, <1>7, <1>8 DEF TypeOK

\* A crash, a shutdown, a failing statement or an exception ends a run.
LEMMA FaultSafe ==
  ASSUME TypeOK, IInv, NEW w \in Worker,
         Crash(w) \/ Shutdown(w) \/ StatementFails(w) \/ PipelineRaises(w)
  PROVE  TypeOK' /\ IInv'
<1>1. PICK l \in {"idle", "release", "lost"} : Goto(w, l)
  BY DEF Crash, Shutdown, StatementFails, PipelineRaises
<1>2. /\ UNCHANGED <<status, quiet, started, exported, spent, holder, live>>
      /\ at' \in [Worker -> Generation \cup {Nothing}]
      /\ \A v \in Worker \ {w} : at'[v] = at[v]
      /\ todo' \in [Worker -> SUBSET Generation]
      /\ faults' \in 0..MaxFaults
  BY GenerationAssumption
     DEF TypeOK, Crash, Shutdown, StatementFails, PipelineRaises, Fault, rowVars, eventVars, leaseVars
<1>3. l \in Between \/ at'[w] \in Generation
  <2>1. CASE Crash(w)
    BY <1>1, <2>1 DEF Crash, Between, TypeOK, Goto
  <2>2. CASE Shutdown(w)
    BY <2>2 DEF Shutdown, IInv, HoldsOne, Between, Running, InPipeline
  <2>3. CASE PipelineRaises(w)
    BY <2>3 DEF PipelineRaises, IInv, HoldsOne, Between, Running, InPipeline
  <2>4. CASE StatementFails(w)
    <3>1. pc[w] \in {"claim", "marking", "lost"} => at'[w] \in Generation
      BY <2>4 DEF StatementFails, IInv, HoldsOne, Between
    <3>2. pc[w] \in {"reaping", "claiming"} => Goto(w, "idle")
      BY <2>4 DEF StatementFails
    <3>3. Goto(w, "idle") => l = "idle"
      BY <1>1 DEF Goto, TypeOK
    <3>4. QED
      BY <2>4, <3>1, <3>2, <3>3 DEF StatementFails, Between
  <2>5. QED
    BY <2>1, <2>2, <2>3, <2>4
<1>4. l \in Location \ Running
  BY DEF Location, Running, InPipeline
<1>5. pc' \in [Worker -> Location]
  BY <1>1, <1>4, MovesTyped
<1>6. IInv'
  BY <1>1, <1>2, <1>3, <1>4, LeavesSafe DEF eventVars
<1>7. QED
  BY <1>2, <1>5, <1>6 DEF TypeOK
-----------------------------------------------------------------------------
\* The claim takes a queued generation, which nobody runs and nobody has started.
LEMMA ClaimSafe ==
  ASSUME TypeOK, IInv, NEW w \in Worker, Claim(w)
  PROVE  TypeOK' /\ IInv'
<1> DEFINE g == at[w]
<1>1. /\ pc[w] = "claim" /\ g \in Generation
      /\ UNCHANGED <<started, exported, spent, at, todo, holder, live, faults>>
  BY DEF Claim, IInv, HoldsOne, Between, eventVars, leaseVars
<1>2. CASE Claimable(g)
  <2>1. SetStatus(g, "planning") /\ Goto(w, "claimed") /\ status[g] = "queued"
    BY <1>2 DEF Claim, Claimable
  <2>2. "planning" \in Status /\ "planning" \in Claimed /\ "claimed" \in Location
    BY DEF Status, Claimed, InPipeline, Terminal, Location, Running
  <2>3. /\ status' \in [Generation -> Status] /\ quiet' \in [Generation -> BOOLEAN]
        /\ status'[g] = "planning" /\ \A h \in Generation \ {g} : status'[h] = status[h]
    BY <1>1, <2>1, <2>2, StatusTyped
  <2>4. pc' \in [Worker -> Location] /\ pc'[w] = "claimed" /\ \A v \in Worker \ {w} : pc'[v] = pc[v]
    BY <2>1, <2>2, MovesTyped
  <2>5. TypeOK'
    BY <1>1, <2>3, <2>4 DEF TypeOK
  <2>6. \A v \in Worker : pc[v] \in Running => at[v] # g
    BY <2>1 DEF IInv, Ledger, Claimed, Terminal
  <2>7. OneRunner' /\ HoldsOne'
    BY <1>1, <2>4, <2>6 DEF IInv, OneRunner, HoldsOne
  <2>8. Unstarted' /\ SpendOnce' /\ AnnouncedIfCompleted'
    BY <1>1, <2>1, <2>3 DEF IInv, Unstarted, SpendOnce, AnnouncedIfCompleted
  <2>9. started[g] = 0 /\ spent[g] = 0
    BY <1>1, <2>1 DEF TypeOK, IInv, Unstarted, SpendOnce
  <2>10. Ledger'
    <3> SUFFICES ASSUME NEW v \in Worker, pc'[v] \in Running
                 PROVE  /\ status'[at[v]] \in Claimed \cup {"failed"}
                        /\ started[at[v]] = IF pc'[v] = "claimed" THEN 0 ELSE 1
                        /\ spent[at[v]] =
                             IF pc'[v] \in {"claimed", "planning", "resolving"} THEN 0 ELSE 1
      BY <1>1 DEF Ledger
    <3>1. CASE v = w
      BY <2>2, <2>3, <2>4, <2>9, <3>1
    <3>2. CASE v # w
      BY <2>3, <2>4, <2>6, <3>2 DEF IInv, Ledger, HoldsOne, Between, Running, InPipeline
    <3>3. QED
      BY <3>1, <3>2
  <2>11. QED
    BY <2>5, <2>7, <2>8, <2>10 DEF IInv
<1>3. CASE ~Claimable(g)
  <2>1. Goto(w, "release") /\ UNCHANGED <<status, quiet>>
    BY <1>3 DEF Claim, rowVars
  <2>2. "release" \in Location \ Running
    BY DEF Location, Running, InPipeline
  <2>3. pc' \in [Worker -> Location]
    BY <2>1, <2>2, MovesTyped
  <2>4. IInv'
    BY <1>1, <2>1, <2>2, LeavesSafe DEF eventVars
  <2>5. QED
    BY <1>1, <2>1, <2>3, <2>4 DEF TypeOK
<1>4. QED
  BY <1>2, <1>3

\* A stage of the pipeline, whatever became of the row meanwhile.
LEMMA StageSafe ==
  ASSUME TypeOK, IInv, NEW w \in Worker, NextStage(w)
  PROVE  TypeOK' /\ IInv'
<1> DEFINE g == at[w]
           s == After[pc[w]]
<1>1. /\ pc[w] \in {"claimed", "planning", "resolving", "generating", "rendering"}
      /\ SetStatus(g, s) /\ Goto(w, s)
      /\ started' = [started EXCEPT ![g] = IF pc[w] = "claimed" THEN started[g] + 1 ELSE started[g]]
      /\ spent' = [spent EXCEPT ![g] = IF pc[w] = "resolving" THEN spent[g] + 1 ELSE spent[g]]
      /\ UNCHANGED <<exported, at, todo, holder, live, faults>>
  BY DEF NextStage, After, leaseVars
<1>2. g \in Generation /\ pc[w] \in Running
  BY <1>1 DEF IInv, HoldsOne, Between, Running, InPipeline
<1>3. /\ s \in InPipeline
      /\ (s = "planning") <=> (pc[w] = "claimed")
      /\ (s = "resolving") <=> (pc[w] = "planning")
      /\ (s = "generating") <=> (pc[w] = "resolving")
  BY <1>1 DEF After, InPipeline
<1> HIDE DEF s, g
<1>4. s \in Status /\ s \in Claimed /\ s \in Running /\ s \in Location
  BY <1>3 DEF Status, Claimed, Terminal, InPipeline, Running, Location
<1>5. /\ status' \in [Generation -> Status] /\ quiet' \in [Generation -> BOOLEAN]
      /\ status'[g] = s /\ \A h \in Generation \ {g} : status'[h] = status[h]
  BY <1>1, <1>2, <1>4, StatusTyped
<1>6. pc' \in [Worker -> Location] /\ pc'[w] = s /\ \A v \in Worker \ {w} : pc'[v] = pc[v]
  BY <1>1, <1>4, MovesTyped
<1>7. /\ status[g] \in Claimed \cup {"failed"}
      /\ started[g] = IF pc[w] = "claimed" THEN 0 ELSE 1
      /\ spent[g] = IF pc[w] \in {"claimed", "planning", "resolving"} THEN 0 ELSE 1
  BY <1>2 DEF IInv, Ledger, g
<1>8. /\ started'[g] = 1
      /\ spent'[g] = IF s \in {"planning", "resolving"} THEN 0 ELSE 1
      /\ started' \in [Generation -> Nat] /\ spent' \in [Generation -> Nat]
      /\ \A h \in Generation \ {g} : started'[h] = started[h] /\ spent'[h] = spent[h]
  BY <1>1, <1>2, <1>3, <1>7 DEF TypeOK
<1>9. TypeOK'
  BY <1>1, <1>5, <1>6, <1>8 DEF TypeOK
<1>10. \A v \in Worker \ {w} : pc[v] \in Running => at[v] # g /\ at[v] \in Generation
  BY <1>2 DEF IInv, OneRunner, HoldsOne, Between, Running, InPipeline, g
<1>11. OneRunner' /\ HoldsOne'
  BY <1>1, <1>2, <1>6, <1>10 DEF IInv, OneRunner, HoldsOne, g
<1>12. Ledger'
  <2> SUFFICES ASSUME NEW v \in Worker, pc'[v] \in Running
               PROVE  /\ status'[at[v]] \in Claimed \cup {"failed"}
                      /\ started'[at[v]] = IF pc'[v] = "claimed" THEN 0 ELSE 1
                      /\ spent'[at[v]] =
                           IF pc'[v] \in {"claimed", "planning", "resolving"} THEN 0 ELSE 1
    BY <1>1 DEF Ledger
  <2>1. CASE v = w
    BY <1>3, <1>4, <1>5, <1>6, <1>8, <2>1 DEF g, InPipeline
  <2>2. CASE v # w
    BY <1>5, <1>6, <1>8, <1>10, <2>2 DEF IInv, Ledger
  <2>3. QED
    BY <2>1, <2>2
<1>13. Unstarted' /\ AnnouncedIfCompleted'
  <2>1. Claimed \cap {"absent", "queued", "cancelled", "completed", "failed"} = {}
    BY DEF Claimed, Terminal
  <2>2. QED
    BY <1>1, <1>2, <1>4, <1>5, <1>7, <1>8, <2>1 DEF IInv, Unstarted, AnnouncedIfCompleted
<1>14. SpendOnce'
  BY <1>4, <1>5, <1>8 DEF IInv, SpendOnce, Claimed, Terminal
<1>15. QED
  BY <1>9, <1>11, <1>12, <1>13, <1>14 DEF IInv

\* The end of a run that settles its own outcome.
LEMMA GiveUpSafe ==
  ASSUME TypeOK, IInv, NEW w \in Worker, GiveUp(w)
  PROVE  TypeOK' /\ IInv'
<1>1. /\ pc[w] \in Running /\ SetStatus(at[w], "failed") /\ Goto(w, "release")
      /\ UNCHANGED <<started, exported, spent, at, todo, holder, live, faults>>
  BY DEF GiveUp, Running, InPipeline, eventVars, leaseVars
<1>2. at[w] \in Generation /\ status[at[w]] \in Claimed \cup {"failed"}
  BY <1>1 DEF IInv, HoldsOne, Ledger, Between, Running, InPipeline
<1>3. "failed" \in Status /\ "release" \in Location \ Running
  BY DEF Status, Terminal, Location, Running, InPipeline
<1>4. /\ status' \in [Generation -> Status] /\ quiet' \in [Generation -> BOOLEAN]
      /\ status'[at[w]] = "failed" /\ \A h \in Generation \ {at[w]} : status'[h] = status[h]
  BY <1>1, <1>2, <1>3, StatusTyped
<1>5. pc' \in [Worker -> Location]
  BY <1>1, <1>3, MovesTyped
<1>6. IInv'
  BY <1>1, <1>2, <1>3, <1>4, LeavesSafe DEF eventVars
<1>7. QED
  BY <1>1, <1>4, <1>5, <1>6 DEF TypeOK

\* complete: only a run that nobody has completed gets here.
LEMMA CompleteSafe ==
  ASSUME TypeOK, IInv, NEW w \in Worker, Complete(w)
  PROVE  TypeOK' /\ IInv'
<1> DEFINE g == at[w]
<1>1. /\ pc[w] = "exporting" /\ SetStatus(g, "completed") /\ Goto(w, "release")
      /\ exported' = [exported EXCEPT ![g] = exported[g] + 1]
      /\ UNCHANGED <<started, spent, at, todo, holder, live, faults>>
  BY DEF Complete, leaseVars
<1>2. g \in Generation /\ pc[w] \in Running /\ status[g] \in Claimed \cup {"failed"}
  BY <1>1 DEF IInv, HoldsOne, Ledger, Between, Running, InPipeline
<1>3. "completed" \in Status /\ "release" \in Location \ Running
  BY DEF Status, Terminal, Location, Running, InPipeline
<1>4. /\ status' \in [Generation -> Status] /\ quiet' \in [Generation -> BOOLEAN]
      /\ status'[g] = "completed" /\ \A h \in Generation \ {g} : status'[h] = status[h]
  BY <1>1, <1>2, <1>3, StatusTyped
<1>5. pc' \in [Worker -> Location] /\ pc'[w] = "release" /\ \A v \in Worker \ {w} : pc'[v] = pc[v]
  BY <1>1, <1>3, MovesTyped
<1>6. exported[g] = 0
  BY <1>2 DEF IInv, AnnouncedIfCompleted, Claimed, Terminal
<1>7. exported' \in [Generation -> Nat] /\ exported'[g] = 1
      /\ \A h \in Generation \ {g} : exported'[h] = exported[h]
  BY <1>1, <1>2, <1>6 DEF TypeOK
<1>8. TypeOK'
  BY <1>1, <1>4, <1>5, <1>7 DEF TypeOK
<1>9. \A v \in Worker \ {w} : pc[v] \in Running => at[v] # g /\ at[v] \in Generation
  BY <1>2 DEF IInv, OneRunner, HoldsOne, Between, Running, InPipeline
<1>10. OneRunner' /\ HoldsOne'
  BY <1>1, <1>2, <1>3, <1>5 DEF IInv, OneRunner, HoldsOne
<1>11. Ledger'
  BY <1>1, <1>3, <1>4, <1>5, <1>9 DEF IInv, Ledger
<1>12. Unstarted' /\ SpendOnce' /\ AnnouncedIfCompleted'
  BY <1>1, <1>4, <1>7 DEF IInv, Unstarted, SpendOnce, AnnouncedIfCompleted
<1>13. QED
  BY <1>8, <1>10, <1>11, <1>12 DEF IInv
-----------------------------------------------------------------------------
\* Nothing has been created yet, and every worker is idle.
LEMMA InitSafe == Init => TypeOK /\ IInv
BY GenerationAssumption
   DEF Init, Locks!Init, TypeOK, Status, Location, IInv, HoldsOne, OneRunner, Ledger, Unstarted,
       SpendOnce, AnnouncedIfCompleted, Between, Running, InPipeline

\* Every step of the system, by action.
LEMMA StepSafe == TypeOK /\ IInv /\ [Next]_vars => TypeOK' /\ IInv'
<1> SUFFICES ASSUME TypeOK, IInv, [Next]_vars
             PROVE  TypeOK' /\ IInv'
  OBVIOUS
<1>1. ASSUME NEW g \in Generation, Create(g) \/ CancelQueued(g) PROVE TypeOK' /\ IInv'
  BY <1>1, ApiSafe
<1>2. ASSUME NEW w \in Worker, WorkerStep(w) PROVE TypeOK' /\ IInv'
  BY <1>2, ScanSafe, TakeSafe, LostSafe, UnlockSafe, ClaimSafe, StageSafe, GiveUpSafe, CompleteSafe,
     FaultSafe
     DEF WorkerStep, RunStep
<1>3. ASSUME NEW g \in Generation, LeaseLapses(g) \/ GoesQuiet(g) PROVE TypeOK' /\ IInv'
  <2>1. /\ UNCHANGED <<status, eventVars, workerVars, holder, faults>>
        /\ quiet' \in [Generation -> BOOLEAN] /\ live' \in [Generation -> BOOLEAN]
    BY <1>3 DEF TypeOK, LeaseLapses, GoesQuiet, Locks!Lapse, rowVars, leaseVars
  <2>2. IInv'
    BY <2>1, QuietSafe
  <2>3. QED
    BY <2>1, <2>2 DEF TypeOK, eventVars, workerVars
<1>4. ASSUME NEW w \in Worker, Crash(w) \/ Shutdown(w) \/ StatementFails(w)
      PROVE  TypeOK' /\ IInv'
  BY <1>4, FaultSafe
<1>5. CASE UNCHANGED vars
  <2>1. IInv'
    BY <1>5, QuietSafe DEF vars, rowVars
  <2>2. QED
    BY <1>5, <2>1 DEF vars, rowVars, eventVars, workerVars, leaseVars, TypeOK
<1>6. QED
  BY <1>1, <1>2, <1>3, <1>4, <1>5 DEF Next

\* The inductive invariant holds in every reachable state.
LEMMA Invariance == Spec => [](TypeOK /\ IInv)
BY InitSafe, StepSafe, PTL DEF Spec

\* Every reachable state is well typed.
THEOREM TypeCorrect == Spec => []TypeOK
BY Invariance, PTL

\* GEN-2 holds for any number of workers: one generation is spent on once, though
\* the lease that is meant to protect the spend may lapse under every run.
THEOREM OneSpend == Spec => []SpendOnce
<1>1. IInv => SpendOnce
  BY DEF IInv
<1>2. QED
  BY <1>1, Invariance, PTL

\* A video is announced once, exactly when its generation is completed.
THEOREM AnnouncedOnce == Spec => []AnnouncedIfCompleted
<1>1. IInv => AnnouncedIfCompleted
  BY DEF IInv
<1>2. QED
  BY <1>1, Invariance, PTL
-----------------------------------------------------------------------------
(***************************************************************************)
(* A reaper never fails a generation whose run still has its lease.  What  *)
(* the reaper read of the row is old by then; what saves the run is that   *)
(* the generation had been claimed when it was listed and a claim happens  *)
(* once, so the reaper took the lease after the run did: the run has lost  *)
(* it, and no run ever takes it back.                                      *)
(***************************************************************************)
Begun == Status \ {"absent", "queued"}

\* What a reaper has listed or taken up had been claimed.
ListedBegun ==
  \A v \in Worker :
    /\ pc[v] \in {"reaping", "marking", "unreap"} => \A g \in todo[v] : status[g] \in Begun
    /\ pc[v] = "marking" => status[at[v]] \in Begun

\* A run whose generation a reaper has taken up has lost its lease.
Outlived ==
  \A v, w \in Worker : pc[v] = "marking" /\ Leased(w) => at[v] # at[w]

ReapInv == ListedBegun /\ Outlived

\* A generation that was claimed or cancelled is not queued again.
LEMMA StaysBegun ==
  ASSUME TypeOK, IInv, Next, NEW g \in Generation, status[g] \in Begun
  PROVE  status'[g] \in Begun
<1>1. status' \in [Generation -> Status]
  BY StepSafe DEF TypeOK
<1>2. SUFFICES status'[g] \notin {"absent", "queued"}
  BY <1>1 DEF Begun
<1>3. ASSUME NEW h \in Generation, Create(h) \/ CancelQueued(h)
      PROVE  status'[g] \notin {"absent", "queued"}
  BY <1>3 DEF Create, CancelQueued, SetStatus, Begun, TypeOK
<1>4. ASSUME NEW w \in Worker, WorkerStep(w)
      PROVE  status'[g] \notin {"absent", "queued"}
  <2>1. CASE NextStage(w)
    <3>1. After[pc[w]] \notin {"absent", "queued"}
      BY <2>1 DEF NextStage, After
    <3>2. SetStatus(at[w], After[pc[w]])
      BY <2>1 DEF NextStage
    <3>3. QED
      BY <3>1, <3>2 DEF SetStatus, Begun, TypeOK
  <2>2. CASE GiveUp(w) \/ Complete(w) \/ Claim(w)
    BY <2>2 DEF GiveUp, Complete, Claim, SetStatus, Begun, TypeOK, rowVars
  <2>3. CASE Reap(w) \/ SettleLost(w)
    BY <2>3 DEF Reap, SettleLost, MarkLost, SetStatus, Begun, TypeOK, rowVars
  <2>4. CASE ListReapable(w) \/ ReapNext(w) \/ Unlock(w) \/ ListClaimable(w) \/ ClaimNext(w)
             \/ EndOfPass(w) \/ PipelineRaises(w)
    BY <2>4 DEF ListReapable, ReapNext, Unlock, ListClaimable, ClaimNext, EndOfPass,
                PipelineRaises, rowVars, Begun
  <2>5. QED
    BY <1>4, <2>1, <2>2, <2>3, <2>4 DEF WorkerStep, RunStep
<1>5. ASSUME NEW h \in Generation, LeaseLapses(h) \/ GoesQuiet(h)
      PROVE  status'[g] \notin {"absent", "queued"}
  BY <1>5 DEF LeaseLapses, GoesQuiet, rowVars, Begun
<1>6. ASSUME NEW w \in Worker, Crash(w) \/ Shutdown(w) \/ StatementFails(w)
      PROVE  status'[g] \notin {"absent", "queued"}
  BY <1>6 DEF Crash, Shutdown, StatementFails, rowVars, Begun
<1>7. QED
  BY <1>3, <1>4, <1>5, <1>6 DEF Next

\* A worker's own step leaves the others where they are, and takes a lease for nobody else.
OthersStay(u) ==
  \A w \in Worker \ {u} :
    /\ pc'[w] = pc[w] /\ at'[w] = at[w] /\ todo'[w] = todo[w]
    /\ \A g \in Generation : holder'[g] = w /\ live'[g] => holder[g] = w /\ live[g]

\* What it reaps had been claimed, and is under its own lease.
ReapsBegun(u) ==
  /\ pc'[u] \in {"reaping", "marking", "unreap"} => \A g \in todo'[u] : status'[g] \in Begun
  /\ pc'[u] = "marking" => /\ at'[u] \in Generation
                           /\ status'[at'[u]] \in Begun
                           /\ holder'[at'[u]] = u

\* What it runs it ran before under the lease it has, or has just claimed from the queue.
RunsClaimed(u) ==
  pc'[u] \in Running =>
    /\ at'[u] = at[u] /\ at[u] \in Generation
    /\ \/ pc[u] \in Running /\ UNCHANGED leaseVars
       \/ status[at[u]] = "queued"

LEMMA ReapInvStep ==
  ASSUME TypeOK, IInv, ReapInv, Next, NEW u \in Worker,
         OthersStay(u), ReapsBegun(u), RunsClaimed(u)
  PROVE  ReapInv'
<1>1. TypeOK' /\ IInv'
  BY StepSafe
<1>2. ListedBegun'
  <2> SUFFICES ASSUME NEW v \in Worker
               PROVE  /\ pc'[v] \in {"reaping", "marking", "unreap"} =>
                           \A g \in todo'[v] : status'[g] \in Begun
                      /\ pc'[v] = "marking" => status'[at'[v]] \in Begun
    BY DEF ListedBegun, Begun
  <2>1. CASE v = u
    BY <2>1 DEF ReapsBegun
  <2>2. CASE v # u
    <3>1. pc'[v] = pc[v] /\ at'[v] = at[v] /\ todo'[v] = todo[v]
      BY <2>2 DEF OthersStay
    <3>2. /\ todo[v] \subseteq Generation
          /\ pc[v] = "marking" => at[v] \in Generation
      BY DEF TypeOK, IInv, HoldsOne, Between
    <3>3. QED
      BY <3>1, <3>2, StaysBegun DEF ReapInv, ListedBegun
  <2>3. QED
    BY <2>1, <2>2
<1>3. Outlived'
  <2> SUFFICES ASSUME NEW v \in Worker, NEW w \in Worker, pc'[v] = "marking",
                      pc'[w] \in Running, holder'[at'[w]] = w, live'[at'[w]], at'[v] = at'[w]
               PROVE  FALSE
    BY DEF Outlived, Leased, Running, InPipeline
  <2>1. v # w
    BY DEF Running, InPipeline
  <2>2. at'[w] \in Generation
    BY <1>1 DEF IInv, HoldsOne, Between, Running, InPipeline
  <2>3. CASE v = u
    BY <2>1, <2>3 DEF ReapsBegun
  <2>4. CASE v # u
    <3>1. pc[v] = "marking" /\ at[v] = at'[w]
      BY <2>4 DEF OthersStay
    <3>2. status[at[v]] \in Begun
      BY <3>1 DEF ReapInv, ListedBegun
    <3>3. at[w] = at'[w] /\ Leased(w)
      <4>1. CASE w = u
        BY <3>1, <3>2, <4>1 DEF RunsClaimed, Begun, Leased, leaseVars
      <4>2. CASE w # u
        BY <2>2, <4>2 DEF OthersStay, Leased
      <4>3. QED
        BY <4>1, <4>2
    <3>4. QED
      BY <3>1, <3>3 DEF ReapInv, Outlived
  <2>5. QED
    BY <2>3, <2>4
<1>4. QED
  BY <1>2, <1>3 DEF ReapInv

\* Steps outside a worker: the rows stay begun and a lease may lapse.
LEMMA ReapInvTime ==
  ASSUME TypeOK, IInv, ReapInv, [Next]_vars, UNCHANGED <<workerVars, holder>>,
         \A g \in Generation : live'[g] => live[g]
  PROVE  ReapInv'
<1>1. \A g \in Generation : status[g] \in Begun => status'[g] \in Begun
  BY StaysBegun DEF vars, rowVars
<1>2. /\ \A v \in Worker : todo[v] \subseteq Generation
      /\ \A v \in Worker : pc[v] \in {"marking"} \cup Running => at[v] \in Generation
  BY DEF TypeOK, IInv, HoldsOne, Between, Running, InPipeline
<1>3. ListedBegun'
  BY <1>1, <1>2 DEF ReapInv, ListedBegun, workerVars
<1>4. Outlived'
  BY <1>2 DEF ReapInv, Outlived, Leased, workerVars
<1>5. QED
  BY <1>3, <1>4 DEF ReapInv

LEMMA ReapInvNext == TypeOK /\ IInv /\ ReapInv /\ [Next]_vars => ReapInv'
<1> SUFFICES ASSUME TypeOK, IInv, ReapInv, [Next]_vars
             PROVE  ReapInv'
  OBVIOUS
<1>1. ASSUME NEW g \in Generation, Create(g) \/ CancelQueued(g) PROVE ReapInv'
  BY <1>1, ReapInvTime DEF Create, CancelQueued, leaseVars
<1>2. ASSUME NEW g \in Generation, LeaseLapses(g) \/ GoesQuiet(g) PROVE ReapInv'
  BY <1>2, ReapInvTime DEF LeaseLapses, GoesQuiet, Locks!Lapse, leaseVars
<1>3. CASE UNCHANGED vars
  BY <1>3, ReapInvTime DEF vars, leaseVars
<1>4. ASSUME NEW u \in Worker, Next,
             WorkerStep(u) \/ Crash(u) \/ Shutdown(u) \/ StatementFails(u)
      PROVE  ReapInv'
  <2>1. \A g \in Generation : status[g] \in Begun => status'[g] \in Begun
    BY <1>4, StaysBegun
  <2>2. /\ todo[u] \subseteq Generation
        /\ pc[u] \notin Between => at[u] \in Generation
    BY DEF TypeOK, IInv, HoldsOne
  <2>3. CASE ListReapable(u)
    <3>1. /\ pc' = [pc EXCEPT ![u] = "reaping"] /\ UNCHANGED <<at, status, holder, live>>
          /\ todo' = [todo EXCEPT ![u] = {g \in Generation : Reapable(g)}]
      BY <2>3 DEF ListReapable, Goto, rowVars, leaseVars
    <3>2. OthersStay(u) /\ RunsClaimed(u)
      BY <3>1 DEF OthersStay, RunsClaimed, TypeOK, Running, InPipeline
    <3>3. ReapsBegun(u)
      BY <3>1 DEF ReapsBegun, TypeOK, Reapable, Claimed, Begun
    <3>4. QED
      BY <1>4, <3>2, <3>3, ReapInvStep
  <2>4. CASE ReapNext(u) \/ ClaimNext(u)
    <3>1. PICK g \in todo[u], next \in {"marking", "claim"} :
            /\ pc[u] = IF next = "marking" THEN "reaping" ELSE "claiming"
            /\ TakeNext(u, g, next)
      BY <2>4 DEF ReapNext, ClaimNext
    <3>2. UNCHANGED status
      BY <2>4 DEF ReapNext, ClaimNext, rowVars
    <3>3. g \in Generation /\ todo'[u] \subseteq todo[u]
          /\ \A w \in Worker \ {u} : todo'[w] = todo[w]
      BY <2>2, <3>1 DEF TakeNext, TypeOK
    <3>4. CASE Locks!Take(g, u) /\ at' = [at EXCEPT ![u] = g] /\ Goto(u, next)
      <4>1. OthersStay(u)
        BY <3>3, <3>4 DEF OthersStay, Locks!Take, Goto, TypeOK
      <4>2. ReapsBegun(u)
        BY <3>1, <3>2, <3>3, <3>4 DEF ReapsBegun, Locks!Take, Goto, TypeOK, ReapInv, ListedBegun
      <4>3. RunsClaimed(u)
        BY <3>4 DEF RunsClaimed, Goto, TypeOK, Running, InPipeline
      <4>4. QED
        BY <1>4, <4>1, <4>2, <4>3, ReapInvStep
    <3>5. CASE UNCHANGED <<at, pc, leaseVars>>
      <4>1. OthersStay(u)
        BY <3>3, <3>5 DEF OthersStay, leaseVars
      <4>2. ReapsBegun(u) /\ RunsClaimed(u)
        BY <3>1, <3>2, <3>3, <3>5
           DEF ReapsBegun, RunsClaimed, ReapInv, ListedBegun, Running, InPipeline
      <4>3. QED
        BY <1>4, <4>1, <4>2, ReapInvStep
    <3>6. QED
      BY <3>1, <3>4, <3>5 DEF TakeNext
  <2>5. CASE Unlock(u)
    <3>1. /\ pc[u] \in {"unreap", "release"} /\ at[u] \in Generation
          /\ pc' = [pc EXCEPT ![u] = IF pc[u] = "unreap" THEN "reaping" ELSE "claiming"]
          /\ at' = [at EXCEPT ![u] = Nothing] /\ UNCHANGED <<status, todo>>
          /\ Locks!Drop(at[u], u)
      BY <2>2, <2>5 DEF Unlock, Goto, rowVars, Between
    <3>2. OthersStay(u)
      BY <3>1 DEF OthersStay, TypeOK, Locks!Drop, Locks!leaseVars
    <3>3. ReapsBegun(u) /\ RunsClaimed(u)
      BY <3>1 DEF ReapsBegun, RunsClaimed, TypeOK, ReapInv, ListedBegun, Running, InPipeline
    <3>4. QED
      BY <1>4, <3>2, <3>3, ReapInvStep
  <2>6. CASE \/ Reap(u) \/ ListClaimable(u) \/ Claim(u) \/ EndOfPass(u) \/ RunStep(u)
             \/ SettleLost(u) \/ Shutdown(u) \/ StatementFails(u) \/ Crash(u)
    <3>1. UNCHANGED leaseVars /\ pc'[u] # "marking"
      BY <2>6 DEF Reap, ListClaimable, Claim, EndOfPass, RunStep, SettleLost, Shutdown,
           StatementFails, Crash, NextStage, GiveUp, Complete, PipelineRaises, Goto, After, TypeOK
    <3>2. OthersStay(u)
      BY <2>6, <3>1 DEF Reap, ListClaimable, Claim, EndOfPass, RunStep, SettleLost, Shutdown,
           StatementFails, Crash, NextStage, GiveUp, Complete, PipelineRaises, Goto, After, TypeOK,
           OthersStay, leaseVars
    <3>3. pc'[u] \in {"reaping", "marking", "unreap"} => pc[u] = "marking" /\ todo'[u] = todo[u]
      BY <2>6, <3>1 DEF Reap, ListClaimable, Claim, EndOfPass, RunStep, SettleLost, Shutdown,
           StatementFails, Crash, NextStage, GiveUp, Complete, PipelineRaises, Goto, After, TypeOK
    <3>4. ReapsBegun(u)
      BY <2>1, <2>2, <3>1, <3>3 DEF ReapsBegun, ReapInv, ListedBegun
    <3>5. RunsClaimed(u)
      BY <2>2, <2>6, <3>1 DEF Reap, ListClaimable, Claim, EndOfPass, RunStep, SettleLost, Shutdown,
           StatementFails, Crash, NextStage, GiveUp, Complete, PipelineRaises, Goto, After, TypeOK,
           RunsClaimed, Running, InPipeline, Claimable, Between
    <3>6. QED
      BY <1>4, <3>2, <3>4, <3>5, ReapInvStep
  <2>7. QED
    BY <1>4, <2>3, <2>4, <2>5, <2>6 DEF WorkerStep
<1>5. QED
  BY <1>1, <1>2, <1>3, <1>4 DEF Next

LEMMA ReapInvInit == Init => ReapInv
BY DEF Init, ReapInv, ListedBegun, Outlived, Leased, Running, InPipeline

\* Only a reaper at work answers "marking" with "unreap", and it fails its own generation.
LEMMA ReapsItsOwn ==
  ASSUME TypeOK, IInv, Next, NEW v \in Worker, pc[v] = "marking", pc'[v] = "unreap"
  PROVE  Reap(v)
<1>1. ASSUME NEW u \in Worker, WorkerStep(u) \/ Crash(u) \/ Shutdown(u) \/ StatementFails(u)
      PROVE  Reap(v)
  <2>1. PICK l \in Location : Goto(u, l) \/ UNCHANGED pc
    BY <1>1 DEF WorkerStep, RunStep, Crash, Shutdown, StatementFails, ListReapable, ReapNext,
         TakeNext, Reap, Unlock, ListClaimable, ClaimNext, Claim, EndOfPass, NextStage, GiveUp,
         Complete, PipelineRaises, SettleLost, After, Location, Running, InPipeline
  <2>2. u = v
    BY <2>1 DEF Goto, TypeOK
  <2>3. QED
    BY <1>1, <2>2 DEF WorkerStep, RunStep, Crash, Shutdown, StatementFails, ListReapable, ReapNext,
         Unlock, ListClaimable, ClaimNext, Claim, EndOfPass, NextStage, GiveUp,
         Complete, PipelineRaises, SettleLost, Goto, TypeOK, Running, InPipeline, After
<1>2. ~UNCHANGED pc
  OBVIOUS
<1>3. QED
  BY <1>1, <1>2 DEF Next, Create, CancelQueued, LeaseLapses, GoesQuiet, workerVars

\* As long as a running worker's lease has not lapsed, no reaper fails its generation,
\* for any number of workers and however old the reaper's list is.
THEOREM LiveRunsSpared == Spec => LiveRunNotReaped
<1>1. TypeOK /\ IInv /\ ReapInv /\ [Next]_vars =>
        [\A w, v \in Worker :
           (Leased(w) /\ pc[v] = "marking" /\ pc'[v] = "unreap") =>
             status'[at[w]] = status[at[w]]]_vars
  <2> SUFFICES ASSUME TypeOK, IInv, ReapInv, Next, NEW w \in Worker, NEW v \in Worker,
                      Leased(w), pc[v] = "marking", pc'[v] = "unreap"
               PROVE  status'[at[w]] = status[at[w]]
    BY DEF vars
  <2>1. MarkLost(at[v])
    BY ReapsItsOwn DEF Reap
  <2>2. at[v] # at[w]
    BY DEF ReapInv, Outlived
  <2>3. at[v] \in Generation /\ at[w] \in Generation
    BY DEF IInv, HoldsOne, Between, Leased, Running, InPipeline
  <2>4. QED
    BY <2>1, <2>2, <2>3 DEF MarkLost, SetStatus, TypeOK, rowVars
<1>2. QED
  BY <1>1, InitSafe, StepSafe, ReapInvInit, ReapInvNext, PTL DEF Spec, LiveRunNotReaped

\* Completed and cancelled generations stay so, and a failed one is revived only by the
\* run that goes on without its lease.
THEOREM RevivedByItsRun == Spec => OnlyItsRunRevives
<1>1. ASSUME TypeOK, IInv, Next, NEW g \in Generation,
             status[g] \in Terminal, status'[g] # status[g]
      PROVE  /\ status[g] = "failed"
             /\ \E w \in Worker : /\ at[w] = g /\ pc[w] \in Running /\ pc'[w] # pc[w]
                                  /\ \A v \in Worker \ {w} : pc'[v] = pc[v]
  <2>0. Terminal \cap ({"absent", "queued"} \cup Claimed) = {}
    BY DEF Terminal, Claimed
  <2>1. PICK w \in Worker : NextStage(w) \/ GiveUp(w) \/ Complete(w)
    <3>1. ASSUME NEW h \in Generation, Create(h) \/ CancelQueued(h) \/ LeaseLapses(h) \/ GoesQuiet(h)
          PROVE  FALSE
      BY <1>1, <2>0, <3>1 DEF Create, CancelQueued, LeaseLapses, GoesQuiet, SetStatus, TypeOK, rowVars
    <3>2. ASSUME NEW u \in Worker, Claim(u)
          PROVE  FALSE
      BY <1>1, <2>0, <3>2 DEF Claim, Claimable, SetStatus, TypeOK, rowVars
    <3>3. ASSUME NEW u \in Worker, Reap(u) \/ SettleLost(u)
          PROVE  FALSE
      BY <1>1, <2>0, <3>3 DEF Reap, SettleLost, MarkLost, SetStatus, TypeOK, rowVars
    <3>4. ASSUME NEW u \in Worker,
                 ListReapable(u) \/ ReapNext(u) \/ Unlock(u) \/ ListClaimable(u) \/ ClaimNext(u)
                   \/ EndOfPass(u) \/ PipelineRaises(u)
                   \/ Crash(u) \/ Shutdown(u) \/ StatementFails(u)
          PROVE  FALSE
      BY <1>1, <3>4 DEF ListReapable, ReapNext, Unlock, ListClaimable, ClaimNext, EndOfPass,
           PipelineRaises, Crash, Shutdown, StatementFails, rowVars
    <3>5. QED
      BY <1>1, <3>1, <3>2, <3>3, <3>4 DEF Next, WorkerStep, RunStep
  <2>2. at[w] = g /\ pc[w] \in Running
    BY <1>1, <2>1 DEF NextStage, GiveUp, Complete, SetStatus, TypeOK, After, Running, InPipeline
  <2>3. status[g] = "failed"
    BY <1>1, <2>0, <2>2 DEF IInv, Ledger
  <2>4. pc'[w] # pc[w] /\ \A v \in Worker \ {w} : pc'[v] = pc[v]
    BY <1>1, <2>1 DEF NextStage, GiveUp, Complete, Goto, TypeOK, After
  <2>5. QED
    BY <2>2, <2>3, <2>4
<1>2. TypeOK /\ IInv /\ [Next]_vars =>
        [\A g \in Generation :
           status[g] \in Terminal /\ status'[g] # status[g] =>
             /\ status[g] = "failed"
             /\ \E w \in Worker : /\ at[w] = g /\ pc[w] \in Running /\ pc'[w] # pc[w]
                                 /\ \A v \in Worker \ {w} : pc'[v] = pc[v]]_vars
  BY <1>1
<1>3. QED
  BY <1>2, Invariance, PTL DEF Spec, OnlyItsRunRevives
-----------------------------------------------------------------------------
(***************************************************************************)
(* The catalogue.                                                          *)
(***************************************************************************)
\* The tables, one by one.
LEMMA TableNames == ToSet(Table) = {"providers", "adapters", "fallbacks", "routing"}
BY DEF ToSet, Table

\* What AskedAssumption says of the rows of one table of a manifest.
OwnKeys(rows) == \A i, j \in DOMAIN rows : rows[i].key = rows[j].key => i = j
Asks(t, rows) == /\ IsFiniteSet(DOMAIN rows) /\ OwnKeys(rows)
                 /\ \A i \in DOMAIN rows : Shaped(t, rows[i].key, rows[i].row)

\* Rows as the schema has them; those that can be disabled stay so when they are.
Formed(t, rows) == IsFiniteSet(DOMAIN rows) /\ \A k \in DOMAIN rows : Shaped(t, k, rows[k])

\* Such a row stays as it is shaped when it is disabled.
LEMMA ShapedStays ==
  ASSUME NEW t \in ToSet(Table), Removal[t] = "disable", NEW k, NEW row, Shaped(t, k, row)
  PROVE  "enabled" \in DOMAIN row /\ Shaped(t, k, [row EXCEPT !.enabled = FALSE])
<1>1. t \in {"providers", "adapters"}
  BY TableNames DEF Removal
<1>2. DOMAIN [row EXCEPT !.enabled = FALSE] = DOMAIN row
  OBVIOUS
<1>3. CASE t = "providers"
  <2>1. /\ {"enabled", "quality", "cost", "speed", "reliability"} \subseteq DOMAIN row
        /\ {row.quality, row.cost, row.speed, row.reliability} \subseteq Int
    BY <1>3 DEF Shaped
  <2>2. \A f \in {"quality", "cost", "speed", "reliability"} :
          [row EXCEPT !.enabled = FALSE][f] = row[f]
    BY <2>1
  <2>3. QED BY <1>2, <1>3, <2>1, <2>2 DEF Shaped
<1>4. CASE t = "adapters"
  BY <1>2, <1>4 DEF Shaped
<1>5. QED BY <1>1, <1>3, <1>4

\* The keys of the rows at some places.
KeysAt(rows, places) == {rows[i].key : i \in places}
RowsAt(rows, places) == {rows[i] : i \in places}

\* The table of rows with keys of their own has each of them at its key.
LEMMA TableOfRows ==
  ASSUME NEW rows, NEW places \in SUBSET DOMAIN rows,
         OwnKeys(rows)
  PROVE  /\ DOMAIN AsTable(RowsAt(rows, places)) = KeysAt(rows, places)
         /\ \A i \in places : AsTable(RowsAt(rows, places))[rows[i].key] = rows[i].row
<1>1. DOMAIN AsTable(RowsAt(rows, places)) = KeysAt(rows, places)
  BY DEF AsTable, KeysAt, RowsAt
<1>2. ASSUME NEW i \in places PROVE AsTable(RowsAt(rows, places))[rows[i].key] = rows[i].row
  <2>1. ASSUME NEW r \in RowsAt(rows, places), r.key = rows[i].key PROVE r = rows[i]
    BY <2>1 DEF OwnKeys, RowsAt
  <2>2. rows[i] \in RowsAt(rows, places)
    BY DEF RowsAt
  <2>3. (CHOOSE r \in RowsAt(rows, places) : r.key = rows[i].key) = rows[i]
    BY <2>1, <2>2
  <2>4. QED
    BY <2>2, <2>3 DEF AsTable
<1>3. QED
  BY <1>1, <1>2

\* f is the rows with those of a manifest at some places put at their keys.
IsUpserted(f, desired, places, rows) ==
  /\ DOMAIN f = KeysAt(desired, places) \cup DOMAIN rows
  /\ \A i \in places : f[desired[i].key] = desired[i].row
  /\ \A k \in DOMAIN rows \ KeysAt(desired, places) : f[k] = rows[k]

\* Upserting puts each of the rows at its key and leaves the other keys as they were.
LEMMA UpsertedRows ==
  ASSUME NEW desired, NEW places \in SUBSET DOMAIN desired, NEW rows, OwnKeys(desired)
  PROVE  IsUpserted(Upserted(desired, places, rows), desired, places, rows)
<1> DEFINE g == AsTable(RowsAt(desired, places))
<1>1. /\ DOMAIN g = KeysAt(desired, places)
      /\ \A i \in places : g[desired[i].key] = desired[i].row /\ desired[i].key \in DOMAIN g
  BY TableOfRows DEF KeysAt
<1>2. Upserted(desired, places, rows)
        = [k \in DOMAIN g \cup DOMAIN rows |-> IF k \in DOMAIN g THEN g[k] ELSE rows[k]]
  BY DEF Upserted, RowsAt
<1>3. QED
  <2> HIDE DEF g
  <2>1. QED BY <1>1, <1>2 DEF IsUpserted

\* What a table is written to converges to the manifest: where the diff was taken against
\* the very rows that are written over.
LEMMA AppliedConverges ==
  ASSUME NEW t \in ToSet(Table), NEW desired, NEW rows, Asks(t, desired),
         Removal[t] = "disable" => \A k \in DOMAIN rows : "enabled" \in DOMAIN rows[k],
         ~Conflicts(t, desired, rows, rows)
  PROVE  Holds(t, desired, Applied(t, desired, rows, rows))
<1> DEFINE W == Writes(desired, rows)
           written == Upserted(desired, W, rows)
           gone == Removed(t, desired, rows)
           new == Applied(t, desired, rows, rows)
<1>1. /\ OwnKeys(desired)
      /\ \A i, j \in DOMAIN desired : desired[i].key = desired[j].key => i = j
      /\ KeysOf(desired) = {desired[i].key : i \in DOMAIN desired}
      /\ ToSet(desired) = {desired[i] : i \in DOMAIN desired}
  BY DEF Asks, OwnKeys, KeysOf, ToSet
<1>2. W \in SUBSET DOMAIN desired
  BY DEF Writes
<1>3. /\ DOMAIN written = KeysAt(desired, W) \cup DOMAIN rows
      /\ \A i \in W : written[desired[i].key] = desired[i].row
      /\ \A k \in DOMAIN rows \ KeysAt(desired, W) : written[k] = rows[k]
  <2> HIDE DEF W
  <2>1. IsUpserted(written, desired, W, rows)
    BY <1>1, <1>2, UpsertedRows
  <2>2. QED BY <2>1 DEF IsUpserted
<1>4. \A i \in DOMAIN desired \ W : /\ desired[i].key \in DOMAIN rows
                                    /\ desired[i].row = rows[desired[i].key]
  BY DEF Writes
<1>5. \A i \in DOMAIN desired : /\ desired[i].key \in DOMAIN written
                                /\ written[desired[i].key] = desired[i].row
  <2> HIDE DEF W, written
  <2> TAKE i \in DOMAIN desired
  <2>1. CASE i \in W
    BY <1>3, <2>1 DEF KeysAt
  <2>2. CASE i \notin W
    <3>1. desired[i].key \in DOMAIN rows /\ desired[i].row = rows[desired[i].key]
      BY <1>4, <2>2
    <3>2. desired[i].key \notin KeysAt(desired, W)
      BY <1>1, <1>2, <2>2 DEF KeysAt
    <3>3. QED BY <1>3, <3>1, <3>2
  <2>3. QED BY <2>1, <2>2
<1>6. \A k \in DOMAIN written \ KeysOf(desired) : k \in DOMAIN rows /\ written[k] = rows[k]
  BY <1>1, <1>2, <1>3 DEF KeysAt
<1>7. /\ gone = {k \in DOMAIN rows \ KeysOf(desired) : Removal[t] = "disable" => rows[k].enabled}
      /\ gone \subseteq DOMAIN written
  BY <1>3 DEF Removed
<1>8. CASE Removal[t] = "disable"
  <2>1. new = [k \in DOMAIN written |->
                 IF k \in gone THEN [written[k] EXCEPT !.enabled = FALSE] ELSE written[k]]
    BY <1>8 DEF Applied
  <2> HIDE DEF W, written, gone, new
  <2>2. \A i \in DOMAIN desired : /\ desired[i].key \in DOMAIN new
                                  /\ new[desired[i].key] = desired[i].row
    BY <1>1, <1>5, <1>7, <2>1
  <2>3. ASSUME NEW k \in DOMAIN new \ KeysOf(desired) PROVE ~new[k].enabled
    <3>1. k \in DOMAIN rows /\ written[k] = rows[k]
      BY <1>6, <2>1
    <3>2. CASE k \in gone
      <4>1. "enabled" \in DOMAIN written[k]
        BY <1>8, <3>1
      <4>2. new[k] = [written[k] EXCEPT !.enabled = FALSE]
        BY <2>1, <3>2
      <4>3. QED BY <4>1, <4>2
    <3>3. CASE k \notin gone
      <4>1. ~rows[k].enabled
        BY <1>7, <1>8, <3>1, <3>3
      <4>2. new[k] = rows[k]
        BY <2>1, <3>1, <3>3
      <4>3. QED BY <4>1, <4>2
    <3>4. QED BY <3>2, <3>3
  <2>4. QED BY <1>1, <1>8, <2>2, <2>3 DEF Holds, new
<1>9. CASE Removal[t] = "delete"
  <2>1. new = [k \in DOMAIN written \ gone |-> written[k]]
    BY <1>9 DEF Applied
  <2> HIDE DEF W, written, gone, new
  <2>2. \A i \in DOMAIN desired : /\ desired[i].key \in DOMAIN new
                                  /\ new[desired[i].key] = desired[i].row
    BY <1>1, <1>5, <1>7, <2>1
  <2>3. DOMAIN new \ KeysOf(desired) = {}
    BY <1>6, <1>7, <1>9, <2>1
  <2>4. QED BY <1>1, <1>9, <2>2, <2>3 DEF Holds, new
<1>10. CASE Removal[t] = "retain"
  <2>1. new = written
    BY <1>10 DEF Applied
  <2> HIDE DEF W, written, gone, new
  <2>2. QED BY <1>1, <1>5, <1>10, <2>1 DEF Holds, new
<1>11. QED
  BY <1>8, <1>9, <1>10, TableNames DEF Removal
-----------------------------------------------------------------------------
\* A run of the seeder, and one of a reader, under way.
SeedRun(x) ==
  /\ DOMAIN x = {"op", "left", "read", "digest", "revision", "overtaken"}
  /\ x.op = "seed" /\ x.left \in Seq(ToSet(Table)) /\ DOMAIN x.read = ToSet(Table)
  /\ x.digest \in Digest /\ Asked[x.digest] # None /\ x.overtaken \in BOOLEAN
ReadRun(x) ==
  /\ DOMAIN x = {"op", "left", "read", "digest", "torn", "mixed"}
  /\ x.op = "read" /\ x.left \in Seq(ToSet(Table)) /\ DOMAIN x.read = ToSet(Table)
  /\ x.torn \in BOOLEAN /\ x.mixed \in BOOLEAN

\* What a reader resolved, from what it read.
Resolution(x) ==
  /\ x.op = "resolved" /\ DOMAIN x.read = ToSet(Table) /\ x.mode \in Mode
  /\ x.measured \in Measured
  /\ x.answer = Resolved(x.mode, x.budget, AsCatalogue(x.read), x.measured)

\* The provider of every adapter is there.
AllKnown(rows) ==
  \A i \in DOMAIN rows.adapters : rows.adapters[i].provider \in DOMAIN rows.providers

CatalogueTyped ==
  /\ DOMAIN tables = ToSet(Table) /\ \A t \in ToSet(Table) : Formed(t, tables[t])
  /\ AllKnown(tables)
  /\ meta # None => meta.digest \in Digest /\ Asked[meta.digest] # None
  /\ DOMAIN seeders = Seeder /\ \A s \in Seeder : seeders[s] = Idle \/ SeedRun(seeders[s])
  /\ DOMAIN readers = Reader
  /\ \A r \in Reader :
       readers[r] # Idle => /\ ReadRun(readers[r]) \/ Resolution(readers[r])
                            /\ readers[r].digest \in Digest /\ Asked[readers[r].digest] # None
                            /\ \A t \in ToSet(Table) : Formed(t, readers[r].read[t])
  /\ mixed \in BOOLEAN

\* A seeder that nobody overtook has read what is committed now; and no provider that
\* another has read is gone.
SeedersAreCurrent ==
  \A s \in Seeder : seeders[s] # Idle =>
    /\ ~seeders[s].overtaken =>
         \A t \in ToSet(Table) \ ToSet(seeders[s].left) : seeders[s].read[t] = tables[t]
    /\ DOMAIN seeders[s].read.providers \subseteq DOMAIN tables.providers

\* A reader during whose reading nothing was committed has read what is committed now, of
\* the digest that is stored now; once it has read all tables they hold that manifest.
TablesOf(x) == \A t \in ToSet(Table) : Holds(t, Asked[x.digest][t], x.read[t])
ReadersAreCurrent ==
  \A r \in Reader : readers[r].op = "read" /\ ~readers[r].torn =>
    LET x == readers[r]
    IN IF x.left = <<>> THEN (x.mixed \/ TablesOf(x)) /\ AllKnown(x.read)
       ELSE /\ meta # None /\ x.digest = meta.digest /\ x.mixed = mixed
            /\ \A t \in ToSet(Table) \ ToSet(x.left) : x.read[t] = tables[t]

ResolvedFromKnown ==
  \A r \in Reader : readers[r].op = "resolved" /\ ~readers[r].torn => AllKnown(readers[r].read)

CatalogueInv == /\ CatalogueTyped /\ SeedersAreCurrent /\ ReadersAreCurrent
                /\ CatalogueIsManifest /\ ResolvedFromKnown

\* The table at the head of what is left to read, and the rest.
LEMMA NextTable ==
  ASSUME NEW S, NEW l \in Seq(S), l # <<>>
  PROVE  /\ Head(l) \in S /\ Tail(l) \in Seq(S)
         /\ ToSet(l) = {Head(l)} \cup ToSet(Tail(l))
         /\ Tail(l) = <<>> => ToSet(Tail(l)) = {}
<1>1. Len(l) \in Nat \ {0} /\ DOMAIN l = 1..Len(l) /\ l[1] = Head(l)
  OBVIOUS
<1>2. /\ Tail(l) \in Seq(S) /\ DOMAIN Tail(l) = 1..(Len(l) - 1)
      /\ \A i \in 1..(Len(l) - 1) : Tail(l)[i] = l[i + 1]
  BY <1>1
<1>3. ASSUME NEW i \in DOMAIN l PROVE l[i] \in {Head(l)} \cup ToSet(Tail(l))
  <2>1. CASE i = 1
    BY <1>1, <2>1
  <2>2. CASE i # 1
    <3>1. i - 1 \in DOMAIN Tail(l) /\ Tail(l)[i - 1] = l[i]
      BY <1>1, <1>2, <2>2
    <3>2. QED BY <3>1 DEF ToSet
  <2>3. QED BY <2>1, <2>2
<1>4. ASSUME NEW i \in DOMAIN Tail(l) PROVE Tail(l)[i] \in ToSet(l)
  <2>1. i + 1 \in DOMAIN l /\ Tail(l)[i] = l[i + 1]
    BY <1>1, <1>2
  <2>2. QED BY <2>1 DEF ToSet
<1>5. Head(l) \in ToSet(l) /\ Head(l) \in S
  BY <1>1 DEF ToSet
<1>6. QED
  BY <1>2, <1>3, <1>4, <1>5 DEF ToSet

\* What is left to read at first is every table.
LEMMA AllTables == Table \in Seq(ToSet(Table)) /\ Table # <<>>
BY DEF Table, ToSet

\* A manifest that asks for rows asks for such rows as AskedAssumption says.
LEMMA AskedRows ==
  ASSUME NEW d \in Digest, Asked[d] # None, NEW t \in ToSet(Table)
  PROVE  Asks(t, Asked[d][t])
BY AskedAssumption DEF Asks, OwnKeys

\* What writing rows of a manifest makes of a table: each row is one that was there or that
\* was written, or such a row disabled.
Written(t, new, desired, W, rows) ==
  /\ DOMAIN new \subseteq KeysAt(desired, W) \cup DOMAIN rows
  /\ Removal[t] # "delete" => KeysAt(desired, W) \cup DOMAIN rows \subseteq DOMAIN new
  /\ \A k \in DOMAIN new :
       \/ k \in DOMAIN rows /\ new[k] = rows[k]
       \/ \E i \in W : k = desired[i].key /\ new[k] = desired[i].row
       \/ /\ Removal[t] = "disable" /\ k \in DOMAIN rows
          /\ new[k] = [rows[k] EXCEPT !.enabled = FALSE]
       \/ \E i \in W : /\ Removal[t] = "disable" /\ k = desired[i].key
                        /\ new[k] = [desired[i].row EXCEPT !.enabled = FALSE]

\* Rows written to a table are as the schema has them, for they are a manifest's or were so
\* before, and keep the fields they had.
LEMMA AppliedIsFormed ==
  ASSUME NEW t \in ToSet(Table), NEW desired, NEW read, NEW rows,
         Asks(t, desired), Formed(t, rows), ~Conflicts(t, desired, read, rows)
  PROVE  /\ Formed(t, Applied(t, desired, read, rows))
         /\ Written(t, Applied(t, desired, read, rows), desired, Writes(desired, read), rows)
<1> DEFINE W == Writes(desired, read)
           written == Upserted(desired, W, rows)
           gone == Removed(t, desired, read)
           new == Applied(t, desired, read, rows)
<1>1. W \in SUBSET DOMAIN desired /\ OwnKeys(desired)
  BY DEF Writes, Asks
<1>2. IsUpserted(written, desired, W, rows)
  <2> HIDE DEF W
  <2>1. QED BY <1>1, UpsertedRows
<1>3. /\ Removal[t] = "disable" =>
            new = [k \in DOMAIN written |->
                     IF k \in gone THEN [written[k] EXCEPT !.enabled = FALSE] ELSE written[k]]
      /\ Removal[t] = "delete" => new = [k \in DOMAIN written \ gone |-> written[k]]
      /\ Removal[t] = "retain" => new = written
  BY DEF Applied
<1>4. Removal[t] \in {"disable", "delete", "retain"}
  BY TableNames DEF Removal
<1> HIDE DEF W, written, gone, new
<1>5. /\ DOMAIN new \subseteq DOMAIN written
      /\ Removal[t] # "delete" => DOMAIN new = DOMAIN written
      /\ \A k \in DOMAIN new : \/ new[k] = written[k]
                               \/ /\ Removal[t] = "disable"
                                  /\ new[k] = [written[k] EXCEPT !.enabled = FALSE]
  BY <1>3, <1>4
<1>6. \A k \in DOMAIN written : \/ k \in DOMAIN rows /\ written[k] = rows[k]
                               \/ \E i \in W : k = desired[i].key /\ written[k] = desired[i].row
  BY <1>2 DEF IsUpserted, KeysAt
<1>7. /\ DOMAIN new \subseteq KeysAt(desired, W) \cup DOMAIN rows
      /\ Removal[t] # "delete" => KeysAt(desired, W) \cup DOMAIN rows \subseteq DOMAIN new
  BY <1>2, <1>5 DEF IsUpserted
<1>8. ASSUME NEW k \in DOMAIN new
      PROVE  \/ k \in DOMAIN rows /\ new[k] = rows[k]
             \/ \E i \in W : k = desired[i].key /\ new[k] = desired[i].row
             \/ /\ Removal[t] = "disable" /\ k \in DOMAIN rows
                /\ new[k] = [rows[k] EXCEPT !.enabled = FALSE]
             \/ \E i \in W : /\ Removal[t] = "disable" /\ k = desired[i].key
                              /\ new[k] = [desired[i].row EXCEPT !.enabled = FALSE]
  <2>1. CASE k \in DOMAIN rows /\ written[k] = rows[k]
    BY <1>5, <2>1
  <2>2. CASE \E i \in W : k = desired[i].key /\ written[k] = desired[i].row
    <3>1. PICK i \in W : k = desired[i].key /\ written[k] = desired[i].row
      BY <2>2
    <3>2. QED BY <1>5, <3>1
  <2>3. QED BY <1>5, <1>6, <2>1, <2>2
<1>9. IsFiniteSet(DOMAIN new)
  <2> DEFINE f == [i \in W |-> desired[i].key]
  <2>1. IsFiniteSet(W)
    BY <1>1, FS_Subset DEF Asks
  <2>2. f \in Surjection(W, KeysAt(desired, W))
    BY DEF KeysAt, Surjection
  <2> HIDE DEF f
  <2>3. IsFiniteSet(KeysAt(desired, W))
    BY <2>1, <2>2, FS_Surjection
  <2>4. IsFiniteSet(KeysAt(desired, W) \cup DOMAIN rows)
    BY <2>3, FS_Union DEF Formed
  <2>5. QED BY <1>7, <2>4, FS_Subset
<1>10. ASSUME NEW k \in DOMAIN new PROVE Shaped(t, k, new[k])
  <2>1. k \in DOMAIN rows => Shaped(t, k, rows[k])
    BY DEF Formed
  <2>2. \A i \in W : Shaped(t, desired[i].key, desired[i].row)
    BY <1>1 DEF Asks
  <2>3. \A row : Removal[t] = "disable" /\ Shaped(t, k, row) =>
                    Shaped(t, k, [row EXCEPT !.enabled = FALSE])
    BY ShapedStays
  <2>4. QED BY <1>8, <2>1, <2>2, <2>3
<1>11. QED
  BY <1>7, <1>8, <1>9, <1>10 DEF Formed, Written, new, W

\* The invariant starts true: nothing is stored and nobody is under way.
LEMMA CatalogueStarts == CatalogueInit => CatalogueInv
<1> SUFFICES ASSUME CatalogueInit PROVE CatalogueInv
  OBVIOUS
<1>1. CatalogueTyped
  <2>1. DOMAIN tables = ToSet(Table) /\ \A t \in ToSet(Table) : DOMAIN tables[t] = {}
    BY DEF CatalogueInit, Empty
  <2>2. \A t \in ToSet(Table) : Formed(t, tables[t])
    BY <2>1, FS_EmptySet DEF Formed
  <2>3. AllKnown(tables)
    BY <2>1, TableNames DEF AllKnown
  <2>4. /\ DOMAIN seeders = Seeder /\ \A s \in Seeder : seeders[s] = Idle
        /\ DOMAIN readers = Reader /\ \A r \in Reader : readers[r] = Idle
    BY DEF CatalogueInit
  <2>5. QED BY <2>1, <2>2, <2>3, <2>4 DEF CatalogueInit, CatalogueTyped
<1>2. \A r \in Reader : readers[r].op = "idle"
  BY DEF CatalogueInit, Idle
<1>3. QED
  BY <1>1, <1>2 DEF CatalogueInit, CatalogueInv, SeedersAreCurrent, ReadersAreCurrent,
                    CatalogueIsManifest, ResolvedFromKnown

\* Where only the seeders move, what concerns the tables and the readers stays.
LEMMA SeedersMove ==
  ASSUME CatalogueInv, UNCHANGED <<tables, meta, readers, mixed>>, DOMAIN seeders' = Seeder,
         \A s \in Seeder : seeders'[s] = Idle \/ SeedRun(seeders'[s]),
         SeedersAreCurrent'
  PROVE  CatalogueInv'
<1>1. CatalogueTyped'
  BY DEF CatalogueInv, CatalogueTyped
<1>2. ReadersAreCurrent' /\ CatalogueIsManifest' /\ ResolvedFromKnown'
  BY DEF CatalogueInv, ReadersAreCurrent, TablesOf, CatalogueIsManifest, ResolvedFromKnown
<1>3. QED BY <1>1, <1>2 DEF CatalogueInv

\* A seeding starts having read nothing.
LEMMA StartSeedKeeps ==
  ASSUME CatalogueInv, NEW s \in Seeder, NEW d \in Digest, NEW force, StartSeed(s, d, force)
  PROVE  CatalogueInv'
<1>1. CASE UNCHANGED seeders
  <2>1. UNCHANGED <<tables, meta, readers, mixed>>
    BY DEF StartSeed
  <2>2. SeedersAreCurrent'
    BY <1>1, <2>1 DEF CatalogueInv, SeedersAreCurrent
  <2>3. QED BY <1>1, <2>1, <2>2, SeedersMove DEF CatalogueInv, CatalogueTyped
<1>2. CASE ~(UNCHANGED seeders)
  <2> DEFINE x == [op |-> "seed", left |-> Table, read |-> Empty, digest |-> d,
                   revision |-> Stored.revision, overtaken |-> FALSE]
  <2>1. /\ UNCHANGED <<tables, meta, readers, mixed>>
        /\ seeders' = [seeders EXCEPT ![s] = x] /\ Asked[d] # None
    BY <1>2 DEF StartSeed
  <2>2. SeedRun(x)
    BY <2>1, AllTables DEF SeedRun, Empty
  <2>3. ToSet(Table) \ ToSet(x.left) = {} /\ DOMAIN x.read.providers = {}
    BY TableNames DEF Empty
  <2>4. /\ DOMAIN seeders' = Seeder /\ seeders'[s] = x
        /\ \A y \in Seeder \ {s} : seeders'[y] = seeders[y]
    BY <2>1 DEF CatalogueInv, CatalogueTyped
  <2> HIDE DEF x
  <2>5. \A y \in Seeder : seeders'[y] = Idle \/ SeedRun(seeders'[y])
    BY <2>2, <2>4 DEF CatalogueInv, CatalogueTyped
  <2>6. SeedersAreCurrent'
    BY <2>1, <2>3, <2>4 DEF CatalogueInv, SeedersAreCurrent
  <2>7. QED BY <2>1, <2>4, <2>5, <2>6, SeedersMove
<1>3. QED BY <1>1, <1>2

\* Until it is overtaken it reads what is stored.
LEMMA ReadTableKeeps ==
  ASSUME CatalogueInv, NEW s \in Seeder, ReadTable(s)
  PROVE  CatalogueInv'
<1> DEFINE x == seeders[s]
           t == Head(x.left)
           y == [x EXCEPT !.left = Tail(x.left), !.read = [x.read EXCEPT ![t] = tables[t]]]
<1>1. SeedRun(x) /\ x.left # <<>> /\ x # Idle
  BY DEF ReadTable, CatalogueInv, CatalogueTyped
<1>2. /\ UNCHANGED <<tables, meta, readers, mixed>>
      /\ seeders' = [seeders EXCEPT ![s] = y]
  BY DEF ReadTable
<1>3. /\ t \in ToSet(Table) /\ Tail(x.left) \in Seq(ToSet(Table))
      /\ ToSet(x.left) = {t} \cup ToSet(Tail(x.left))
  BY <1>1, NextTable DEF SeedRun
<1>4. /\ y.left = Tail(x.left) /\ y.overtaken = x.overtaken
      /\ DOMAIN y.read = ToSet(Table) /\ y.read[t] = tables[t]
      /\ \A u \in ToSet(Table) \ {t} : y.read[u] = x.read[u]
  BY <1>1, <1>3 DEF SeedRun
<1>5. SeedRun(y)
  BY <1>1, <1>3, <1>4 DEF SeedRun
<1>6. /\ DOMAIN seeders' = Seeder /\ seeders'[s] = y
      /\ \A z \in Seeder \ {s} : seeders'[z] = seeders[z]
  BY <1>2 DEF CatalogueInv, CatalogueTyped
<1> HIDE DEF t, y
<1>7. ASSUME ~y.overtaken, NEW u \in ToSet(Table) \ ToSet(y.left) PROVE y.read[u] = tables[u]
  <2>1. CASE u = t
    BY <1>4, <2>1
  <2>2. CASE u # t
    BY <1>1, <1>3, <1>4, <1>7, <2>2 DEF CatalogueInv, SeedersAreCurrent
  <2>3. QED BY <2>1, <2>2
<1>8. DOMAIN y.read.providers \subseteq DOMAIN tables.providers
  BY <1>1, <1>4, TableNames DEF CatalogueInv, SeedersAreCurrent
<1>9. \A z \in Seeder : seeders'[z] = Idle \/ SeedRun(seeders'[z])
  BY <1>5, <1>6 DEF CatalogueInv, CatalogueTyped
<1>10. SeedersAreCurrent'
  BY <1>2, <1>6, <1>7, <1>8 DEF CatalogueInv, SeedersAreCurrent
<1>11. QED BY <1>2, <1>6, <1>9, <1>10, SeedersMove

\* A seeding given up leaves nothing.
LEMMA AbandonSeedKeeps ==
  ASSUME CatalogueInv, NEW s \in Seeder, AbandonSeed(s)
  PROVE  CatalogueInv'
<1>1. /\ UNCHANGED <<tables, meta, readers, mixed>>
      /\ DOMAIN seeders' = Seeder /\ seeders'[s] = Idle
      /\ \A z \in Seeder \ {s} : seeders'[z] = seeders[z]
  BY DEF AbandonSeed, CatalogueInv, CatalogueTyped
<1>2. SeedersAreCurrent'
  BY <1>1 DEF CatalogueInv, SeedersAreCurrent
<1>3. QED BY <1>1, <1>2, SeedersMove DEF CatalogueInv, CatalogueTyped

\* What a seeding writes is as the schema has it, loses no provider, and names only those
\* there are.
LEMMA WrittenIsKnown ==
  ASSUME NEW d \in Digest, Asked[d] # None, NEW rows, NEW read, NEW new,
         DOMAIN rows = ToSet(Table), \A t \in ToSet(Table) : Formed(t, rows[t]), AllKnown(rows),
         DOMAIN read.providers \subseteq DOMAIN rows.providers,
         \A t \in ToSet(Table) : /\ ~Conflicts(t, Asked[d][t], read[t], rows[t])
                                 /\ new[t] = Applied(t, Asked[d][t], read[t], rows[t])
  PROVE  /\ \A t \in ToSet(Table) : Formed(t, new[t])
         /\ DOMAIN rows.providers \subseteq DOMAIN new.providers /\ AllKnown(new)
<1> DEFINE A == Asked[d].adapters
           P == Asked[d].providers
<1>1. \A t \in ToSet(Table) : Asks(t, Asked[d][t])
  BY AskedRows
<1>2. \A t \in ToSet(Table) : Formed(t, new[t])
  BY <1>1, AppliedIsFormed
<1>3. /\ DOMAIN rows.providers \subseteq DOMAIN new.providers
      /\ KeysAt(P, Writes(P, read.providers)) \subseteq DOMAIN new.providers
  <2>1. Written("providers", new.providers, P, Writes(P, read.providers), rows.providers)
    BY <1>1, AppliedIsFormed, TableNames
  <2>2. QED BY <2>1 DEF Written, Removal
<1>4. \A k \in DOMAIN P : P[k].key \in DOMAIN new.providers
  BY <1>3 DEF KeysAt, Writes
<1>5. \A i \in DOMAIN A : A[i].row.provider \in DOMAIN new.providers
  BY <1>4, AskedAssumption
<1>6. ASSUME NEW k \in DOMAIN new.adapters PROVE new.adapters[k].provider \in DOMAIN new.providers
  <2>1. CASE /\ k \in DOMAIN rows.adapters
             /\ \/ new.adapters[k] = rows.adapters[k]
                \/ new.adapters[k] = [rows.adapters[k] EXCEPT !.enabled = FALSE]
    <3>1. "provider" \in DOMAIN rows.adapters[k]
      BY <2>1, TableNames DEF Formed, Shaped
    <3>2. new.adapters[k].provider = rows.adapters[k].provider
      BY <2>1, <3>1
    <3>3. QED BY <1>3, <2>1, <3>2 DEF AllKnown
  <2>2. ASSUME NEW i \in DOMAIN A,
               \/ new.adapters[k] = A[i].row
               \/ new.adapters[k] = [A[i].row EXCEPT !.enabled = FALSE]
        PROVE  new.adapters[k].provider \in DOMAIN new.providers
    <3>1. "provider" \in DOMAIN A[i].row
      BY <1>1, <2>2, TableNames DEF Asks, Shaped
    <3>2. new.adapters[k].provider = A[i].row.provider
      BY <2>2, <3>1
    <3>3. QED BY <1>5, <3>2
  <2>3. /\ Asks("adapters", A) /\ Formed("adapters", rows.adapters)
        /\ ~Conflicts("adapters", A, read.adapters, rows.adapters)
        /\ new.adapters = Applied("adapters", A, read.adapters, rows.adapters)
        /\ "adapters" \in ToSet(Table)
    BY <1>1, TableNames
  <2> HIDE DEF A
  <2>4. \/ /\ k \in DOMAIN rows.adapters
           /\ \/ new.adapters[k] = rows.adapters[k]
              \/ new.adapters[k] = [rows.adapters[k] EXCEPT !.enabled = FALSE]
        \/ \E i \in Writes(A, read.adapters) :
              \/ new.adapters[k] = A[i].row
              \/ new.adapters[k] = [A[i].row EXCEPT !.enabled = FALSE]
    <3>1. Written("adapters", new.adapters, A, Writes(A, read.adapters), rows.adapters)
      BY <2>3, AppliedIsFormed
    <3>2. QED BY <3>1, Zenon DEF Written
  <2>5. ASSUME NEW i \in Writes(A, read.adapters) PROVE i \in DOMAIN A
    BY DEF Writes
  <2>6. QED BY <2>1, <2>2, <2>4, <2>5
<1>7. QED BY <1>2, <1>3, <1>6 DEF AllKnown

\* A seeding that nobody overtook leaves tables that hold its manifest, one that was
\* overtaken says so; whoever else is under way knows.
LEMMA CommitSeedKeeps ==
  ASSUME CatalogueInv, NEW s \in Seeder, CommitSeed(s)
  PROVE  CatalogueInv'
<1> DEFINE x == seeders[s]
<1>1. SeedRun(x) /\ x.left = <<>> /\ x # Idle
  BY DEF CommitSeed, ReadyToWrite, CatalogueInv, CatalogueTyped
<1>2. /\ DOMAIN tables' = ToSet(Table) /\ meta'.digest = x.digest /\ mixed' = x.overtaken
      /\ \A t \in ToSet(Table) : tables'[t] = Applied(t, Asked[x.digest][t], x.read[t], tables[t])
  BY DEF CommitSeed, Outcome
<1>3. \A t \in ToSet(Table) : ~Conflicts(t, Asked[x.digest][t], x.read[t], tables[t])
  BY DEF CommitSeed, Refused, Outcome, Applied
<1>4. \A t \in ToSet(Table) : Asks(t, Asked[x.digest][t])
  BY <1>1, AskedRows DEF SeedRun
<1>5. /\ \A t \in ToSet(Table) : Formed(t, tables'[t])
      /\ DOMAIN tables.providers \subseteq DOMAIN tables'.providers /\ AllKnown(tables')
  <2>1. /\ x.digest \in Digest /\ Asked[x.digest] # None
        /\ DOMAIN x.read.providers \subseteq DOMAIN tables.providers
    BY <1>1 DEF CatalogueInv, SeedersAreCurrent, SeedRun
  <2>2. /\ DOMAIN tables = ToSet(Table) /\ \A t \in ToSet(Table) : Formed(t, tables[t])
        /\ AllKnown(tables)
    BY DEF CatalogueInv, CatalogueTyped
  <2> HIDE DEF x
  <2>3. QED BY <1>2, <1>3, <2>1, <2>2, WrittenIsKnown
<1>6. /\ DOMAIN seeders' = Seeder
      /\ \A z \in Seeder : \/ seeders'[z] = Idle
                           \/ /\ seeders'[z] = [seeders[z] EXCEPT !.overtaken = TRUE]
                              /\ seeders[z] # Idle
  BY DEF CommitSeed
<1>7. /\ DOMAIN readers' = Reader
      /\ \A r \in Reader : IF Reading(r) THEN readers'[r] = [readers[r] EXCEPT !.torn = TRUE]
                           ELSE readers'[r] = readers[r]
  BY DEF CommitSeed
<1>8. \A z \in Seeder : \/ seeders'[z] = Idle
                        \/ SeedRun(seeders'[z]) /\ seeders'[z].overtaken = TRUE
  <2> TAKE z \in Seeder
  <2>1. CASE seeders'[z] = [seeders[z] EXCEPT !.overtaken = TRUE] /\ seeders[z] # Idle
    <3>1. SeedRun(seeders[z])
      BY <2>1 DEF CatalogueInv, CatalogueTyped
    <3>2. QED BY <2>1, <3>1 DEF SeedRun
  <2>2. QED BY <1>6, <2>1
<1>9. ASSUME NEW r \in Reader
      PROVE  /\ readers'[r] # Idle =>
                  /\ ReadRun(readers'[r]) \/ Resolution(readers'[r])
                  /\ readers'[r].digest = readers[r].digest /\ readers'[r].read = readers[r].read
                  /\ readers[r] # Idle
             /\ readers'[r].op = "read" /\ ~readers'[r].torn =>
                  readers'[r] = readers[r] /\ readers[r].left = <<>>
             /\ readers'[r].op = "resolved" => readers'[r] = readers[r]
  <2>1. CASE Reading(r)
    <3>1. ReadRun(readers[r]) /\ readers[r] # Idle
      BY <2>1 DEF CatalogueInv, CatalogueTyped, Reading, Idle, Resolution
    <3>2. /\ ReadRun(readers'[r]) /\ readers'[r].torn = TRUE
          /\ readers'[r].digest = readers[r].digest /\ readers'[r].read = readers[r].read
      BY <1>7, <2>1, <3>1 DEF ReadRun
    <3>3. QED BY <3>1, <3>2 DEF ReadRun
  <2>2. CASE ~Reading(r)
    <3>1. readers'[r] = readers[r]
      BY <1>7, <2>2
    <3>2. QED BY <2>2, <3>1 DEF Reading, CatalogueInv, CatalogueTyped
  <2>3. QED BY <2>1, <2>2
<1>10. CatalogueTyped'
  <2>1. \A r \in Reader : readers'[r] # Idle =>
          /\ readers'[r].digest \in Digest /\ Asked[readers'[r].digest] # None
          /\ \A t \in ToSet(Table) : Formed(t, readers'[r].read[t])
    BY <1>9 DEF CatalogueInv, CatalogueTyped
  <2>2. mixed' \in BOOLEAN /\ meta'.digest \in Digest /\ Asked[meta'.digest] # None
    BY <1>1, <1>2 DEF SeedRun
  <2>3. QED BY <1>2, <1>5, <1>6, <1>7, <1>8, <1>9, <2>1, <2>2 DEF CatalogueTyped
<1>11. SeedersAreCurrent'
  <2>1. ASSUME NEW z \in Seeder, seeders'[z] # Idle
        PROVE  DOMAIN seeders'[z].read.providers \subseteq DOMAIN tables'.providers
    <3>1. /\ seeders[z] # Idle /\ seeders'[z] = [seeders[z] EXCEPT !.overtaken = TRUE]
          /\ SeedRun(seeders[z])
      BY <1>6, <2>1 DEF CatalogueInv, CatalogueTyped
    <3>2. seeders'[z].read = seeders[z].read
      BY <3>1 DEF SeedRun
    <3>3. QED BY <1>5, <3>1, <3>2 DEF CatalogueInv, SeedersAreCurrent
  <2>2. QED BY <1>8, <2>1 DEF SeedersAreCurrent
<1>12. ReadersAreCurrent' /\ ResolvedFromKnown'
  BY <1>9 DEF ReadersAreCurrent, TablesOf, CatalogueInv, ResolvedFromKnown
<1>13. ASSUME ~mixed' , NEW t \in ToSet(Table) PROVE Holds(t, Asked[x.digest][t], tables'[t])
  <2>1. x.read[t] = tables[t]
    BY <1>1, <1>2, <1>13 DEF CatalogueInv, SeedersAreCurrent, ToSet
  <2>2. Removal[t] = "disable" => \A k \in DOMAIN tables[t] : "enabled" \in DOMAIN tables[t][k]
    BY ShapedStays DEF CatalogueInv, CatalogueTyped, Formed
  <2>3. ~Conflicts(t, Asked[x.digest][t], tables[t], tables[t])
    BY <1>3, <2>1
  <2>4. Holds(t, Asked[x.digest][t], Applied(t, Asked[x.digest][t], tables[t], tables[t]))
    BY <1>4, <2>2, <2>3, AppliedConverges
  <2>5. QED BY <1>2, <2>1, <2>4
<1>14. CatalogueIsManifest'
  BY <1>2, <1>9, <1>13 DEF CatalogueIsManifest, CatalogueInv
<1>15. QED BY <1>10, <1>11, <1>12, <1>14 DEF CatalogueInv

\* Where only the readers move, what concerns the tables and the seeders stays.
LEMMA ReadersMove ==
  ASSUME CatalogueInv, UNCHANGED <<tables, meta, seeders, mixed>>, DOMAIN readers' = Reader,
         NEW r \in Reader, \A q \in Reader \ {r} : readers'[q] = readers[q],
         ReadRun(readers'[r]) \/ Resolution(readers'[r]),
         readers'[r].digest \in Digest, Asked[readers'[r].digest] # None,
         \A t \in ToSet(Table) : Formed(t, readers'[r].read[t]),
         readers'[r].op = "read" /\ ~readers'[r].torn =>
           IF readers'[r].left = <<>>
           THEN (readers'[r].mixed \/ TablesOf(readers'[r])) /\ AllKnown(readers'[r].read)
           ELSE /\ meta # None /\ readers'[r].digest = meta.digest /\ readers'[r].mixed = mixed
                /\ \A t \in ToSet(Table) \ ToSet(readers'[r].left) :
                     readers'[r].read[t] = tables[t],
         readers'[r].op = "resolved" /\ ~readers'[r].torn =>
           (readers'[r].mixed \/ TablesOf(readers'[r])) /\ AllKnown(readers'[r].read)
  PROVE  CatalogueInv'
<1>1. CatalogueTyped'
  BY DEF CatalogueInv, CatalogueTyped
<1>2. SeedersAreCurrent'
  BY DEF CatalogueInv, SeedersAreCurrent
<1>3. ReadersAreCurrent'
  BY DEF CatalogueInv, ReadersAreCurrent, TablesOf
<1>4. CatalogueIsManifest' /\ ResolvedFromKnown'
  BY DEF CatalogueInv, CatalogueIsManifest, TablesOf, ResolvedFromKnown
<1>5. QED BY <1>1, <1>2, <1>3, <1>4 DEF CatalogueInv

\* A resolution starts having read nothing.
LEMMA StartReadKeeps ==
  ASSUME CatalogueInv, NEW r \in Reader, StartRead(r)
  PROVE  CatalogueInv'
<1> DEFINE x == [op |-> "read", left |-> Table, read |-> Empty, digest |-> meta.digest,
                 torn |-> FALSE, mixed |-> mixed]
<1>1. /\ UNCHANGED <<tables, meta, seeders, mixed>> /\ meta # None
      /\ DOMAIN readers' = Reader /\ readers'[r] = x
      /\ \A q \in Reader \ {r} : readers'[q] = readers[q]
  BY DEF StartRead, CatalogueInv, CatalogueTyped
<1>2. ReadRun(x)
  BY AllTables DEF ReadRun, Empty, CatalogueInv, CatalogueTyped
<1>3. /\ x.op = "read" /\ x.left # <<>> /\ x.digest = meta.digest /\ x.mixed = mixed
      /\ ToSet(Table) \ ToSet(x.left) = {}
      /\ \A t \in ToSet(Table) : DOMAIN x.read[t] = {}
  BY AllTables DEF Empty
<1> HIDE DEF x
<1>4. \A t \in ToSet(Table) : Formed(t, x.read[t])
  BY <1>3, FS_EmptySet DEF Formed
<1>5. x.digest \in Digest /\ Asked[x.digest] # None
  BY <1>1, <1>3 DEF CatalogueInv, CatalogueTyped
<1>6. QED BY <1>1, <1>2, <1>3, <1>4, <1>5, ReadersMove

\* With the last table read, the reader has what the invariant says of the tables.
LEMMA LoadTableKeeps ==
  ASSUME CatalogueInv, NEW r \in Reader, LoadTable(r)
  PROVE  CatalogueInv'
<1> DEFINE x == readers[r]
           t == Head(x.left)
           y == [x EXCEPT !.left = Tail(x.left), !.read = [x.read EXCEPT ![t] = tables[t]]]
<1>1. ReadRun(x) /\ x.left # <<>> /\ x # Idle
  BY DEF LoadTable, Reading, CatalogueInv, CatalogueTyped, Idle, Resolution
<1>2. /\ UNCHANGED <<tables, meta, seeders, mixed>>
      /\ readers' = [readers EXCEPT ![r] = y]
  BY DEF LoadTable
<1>3. /\ t \in ToSet(Table) /\ Tail(x.left) \in Seq(ToSet(Table))
      /\ ToSet(x.left) = {t} \cup ToSet(Tail(x.left))
      /\ Tail(x.left) = <<>> => ToSet(Tail(x.left)) = {}
  BY <1>1, NextTable DEF ReadRun
<1>4. /\ y.left = Tail(x.left) /\ y.op = "read" /\ y.torn = x.torn
      /\ y.digest = x.digest /\ y.mixed = x.mixed
      /\ DOMAIN y.read = ToSet(Table) /\ y.read[t] = tables[t]
      /\ \A u \in ToSet(Table) \ {t} : y.read[u] = x.read[u]
  BY <1>1, <1>3 DEF ReadRun
<1>5. ReadRun(y)
  BY <1>1, <1>3, <1>4 DEF ReadRun
<1>6. /\ DOMAIN readers' = Reader /\ readers'[r] = y
      /\ \A q \in Reader \ {r} : readers'[q] = readers[q]
  BY <1>2 DEF CatalogueInv, CatalogueTyped
<1> HIDE DEF t, y
<1>7. ASSUME ~y.torn
      PROVE  /\ meta # None /\ y.digest = meta.digest /\ y.mixed = mixed
             /\ \A u \in ToSet(Table) \ ToSet(y.left) : y.read[u] = tables[u]
  <2>1. /\ meta # None /\ x.digest = meta.digest /\ x.mixed = mixed
        /\ \A u \in ToSet(Table) \ ToSet(x.left) : x.read[u] = tables[u]
    BY <1>1, <1>4, <1>7 DEF ReadRun, CatalogueInv, ReadersAreCurrent
  <2>2. QED BY <1>3, <1>4, <2>1
<1>8. ASSUME ~y.torn, y.left = <<>> PROVE (y.mixed \/ TablesOf(y)) /\ AllKnown(y.read)
  <2>1. \A u \in ToSet(Table) : y.read[u] = tables[u]
    BY <1>3, <1>4, <1>7, <1>8
  <2>2. ~mixed => \A u \in ToSet(Table) : Holds(u, Asked[meta.digest][u], tables[u])
    BY <1>7, <1>8 DEF CatalogueInv, CatalogueIsManifest
  <2>3. y.mixed \/ TablesOf(y)
    BY <1>7, <1>8, <2>1, <2>2 DEF TablesOf
  <2>4. AllKnown(y.read)
    BY <2>1, TableNames DEF AllKnown, CatalogueInv, CatalogueTyped
  <2>5. QED BY <2>3, <2>4
<1>9. /\ y.torn \in BOOLEAN /\ y.mixed \in BOOLEAN
      /\ y.digest \in Digest /\ Asked[y.digest] # None
      /\ \A u \in ToSet(Table) : Formed(u, y.read[u])
  BY <1>1, <1>4, <1>5 DEF ReadRun, CatalogueInv, CatalogueTyped
<1>10. QED BY <1>2, <1>4, <1>5, <1>6, <1>7, <1>8, <1>9, ReadersMove

\* What is resolved keeps the tables it was resolved from.
LEMMA DecideKeeps ==
  ASSUME CatalogueInv, NEW r \in Reader, Decide(r)
  PROVE  CatalogueInv'
<1> DEFINE x == readers[r]
           y == readers'[r]
<1>1. ReadRun(x) /\ x.left = <<>> /\ x # Idle
  BY DEF Decide, CatalogueInv, CatalogueTyped, Idle, Resolution
<1>2. /\ UNCHANGED <<tables, meta, seeders, mixed>>
      /\ DOMAIN readers' = Reader /\ \A q \in Reader \ {r} : readers'[q] = readers[q]
      /\ y.op = "resolved" /\ y.digest = x.digest /\ y.read = x.read
      /\ y.torn = x.torn /\ y.mixed = x.mixed /\ y.mode \in Mode /\ y.measured \in Measured
      /\ y.answer = Resolved(y.mode, y.budget, AsCatalogue(y.read), y.measured)
  BY DEF Decide, CatalogueInv, CatalogueTyped
<1>3. y.torn \/ ((y.mixed \/ TablesOf(y)) /\ AllKnown(y.read))
  BY <1>1, <1>2 DEF ReadRun, CatalogueInv, ReadersAreCurrent, TablesOf
<1> HIDE DEF y
<1>4. Resolution(y)
  BY <1>1, <1>2 DEF ReadRun, Resolution
<1>5. /\ y.digest \in Digest /\ Asked[y.digest] # None
      /\ \A t \in ToSet(Table) : Formed(t, y.read[t])
  BY <1>1, <1>2 DEF CatalogueInv, CatalogueTyped
<1>6. QED BY <1>2, <1>3, <1>4, <1>5, ReadersMove DEF y

\* Every step of the catalogue keeps the invariant.
LEMMA CatalogueKeeps == CatalogueInv /\ [CatalogueNext]_catalogueVars => CatalogueInv'
<1> SUFFICES ASSUME CatalogueInv, [CatalogueNext]_catalogueVars PROVE CatalogueInv'
  OBVIOUS
<1>1. ASSUME NEW s \in Seeder, NEW d \in Digest, NEW force \in BOOLEAN, StartSeed(s, d, force)
      PROVE CatalogueInv'
  BY <1>1, StartSeedKeeps
<1>2. ASSUME NEW s \in Seeder, ReadTable(s) PROVE CatalogueInv'
  BY <1>2, ReadTableKeeps
<1>3. ASSUME NEW s \in Seeder, CommitSeed(s) PROVE CatalogueInv'
  BY <1>3, CommitSeedKeeps
<1>4. ASSUME NEW s \in Seeder, AbandonSeed(s) PROVE CatalogueInv'
  BY <1>4, AbandonSeedKeeps
<1>5. ASSUME NEW r \in Reader, StartRead(r) PROVE CatalogueInv'
  BY <1>5, StartReadKeeps
<1>6. ASSUME NEW r \in Reader, LoadTable(r) PROVE CatalogueInv'
  BY <1>6, LoadTableKeeps
<1>7. ASSUME NEW r \in Reader, Decide(r) PROVE CatalogueInv'
  BY <1>7, DecideKeeps
<1>8. CASE UNCHANGED catalogueVars
  BY <1>8 DEF catalogueVars, CatalogueInv, CatalogueTyped, SeedersAreCurrent, ReadersAreCurrent,
              TablesOf, CatalogueIsManifest, ResolvedFromKnown
<1>9. QED
  BY <1>1, <1>2, <1>3, <1>4, <1>5, <1>6, <1>7, <1>8 DEF CatalogueNext

-----------------------------------------------------------------------------
\* A finite set that is not empty has an element with nothing before it, whatever the order.
LEMMA Minimal ==
  ASSUME NEW S, IsFiniteSet(S), S # {}, NEW R,
         \A i \in S : <<i, i>> \notin R,
         \A i, j, k \in S : <<i, j>> \in R /\ <<j, k>> \in R => <<i, k>> \in R
  PROVE  \E i \in S : \A j \in S : <<j, i>> \notin R
<1> DEFINE D == [i \in S |-> {j \in S : <<j, i>> \in R}]
           T == {D[i] : i \in S}
<1>1. \A i \in S : D[i] \in SUBSET S /\ \A j \in S : j \in D[i] <=> <<j, i>> \in R
  OBVIOUS
<1> HIDE DEF D
<1>2. T \in SUBSET FiniteSubsetsOf(S) /\ T # {}
  <2>1. \A i \in S : D[i] \in FiniteSubsetsOf(S)
    BY <1>1, FS_FiniteSubsetsOfFinite
  <2>2. QED BY <2>1
<1>3. PICK X \in T : \A Y \in T : <<Y, X>> \notin StrictSubsetOrdering(S)
  <2> HIDE DEF T
  <2>1. QED BY <1>2, FS_StrictSubsetOrderingWellFounded, WFMin
<1>4. PICK i \in S : X = D[i]
  BY <1>3
<1>5. ASSUME NEW j \in S, <<j, i>> \in R PROVE FALSE
  <2>1. D[j] \subseteq D[i] /\ j \in D[i] /\ j \notin D[j]
    BY <1>1, <1>5
  <2>2. D[j] \in T /\ D[j] \in SUBSET S /\ D[i] \in SUBSET S /\ D[j] # D[i]
    BY <1>1, <2>1
  <2>3. <<D[j], D[i]>> \in StrictSubsetOrdering(S)
    BY <2>1, <2>2 DEF StrictSubsetOrdering
  <2>4. QED BY <1>3, <1>4, <2>2, <2>3
<1>6. QED BY <1>5

\* Numbers up to n have a first among them.
LEMMA First ==
  ASSUME NEW n \in Nat, NEW S \in SUBSET (1..n), S # {}
  PROVE  \E m \in S : \A k \in 1..(m - 1) : k \notin S
<1> DEFINE R == {p \in S \X S : p[1] < p[2]}
<1>1. IsFiniteSet(S)
  <2>1. IsFiniteSet(1..n)
    BY FS_Interval
  <2>2. QED BY <2>1, FS_Subset
<1>2. \A i, j \in S : <<i, j>> \in R <=> i < j
  OBVIOUS
<1> HIDE DEF R
<1>3. /\ \A i \in S : <<i, i>> \notin R
      /\ \A i, j, k \in S : <<i, j>> \in R /\ <<j, k>> \in R => <<i, k>> \in R
  BY <1>2
<1>4. PICK m \in S : \A j \in S : <<j, m>> \notin R
  BY <1>1, <1>3, Minimal
<1>5. ASSUME NEW k \in 1..(m - 1), k \in S PROVE FALSE
  <2>1. k < m
    BY <1>5
  <2>2. QED BY <1>2, <1>4, <1>5, <2>1
<1>6. QED BY <1>5

\* The hard constraints are thirteen, one after another.
LEMMA ConstraintsAre ==
  ASSUME NEW i, NEW cat, NEW q, NEW rt, NEW can
  PROVE  LET tests == Constraints(i, cat, q, rt, can)
             a == cat.adapters[i]
             p == cat.providers[a.provider]
         IN /\ DOMAIN tests = 1..13
            /\ tests[1][2] = (i \notin can) /\ tests[2][2] = ~p.enabled /\ tests[3][2] = ~a.enabled
            /\ tests[6][2] = (~q.paidAllowed /\ p.pricing = "paid")
            /\ tests[8][2] = (q.budget = 0 /\ p.pricing = "paid")
            /\ tests[9][2] = Over(q.budget, p, a)
            /\ \A n \in 1..13 : tests[n][2] => tests[n][1] # "unknown_provider"
<1> DEFINE a == cat.adapters[i]
           p == cat.providers[a.provider]
           extra == ExtraReason(StrategyFor(cat, q.capability), a, p)
           tests == Constraints(i, cat, q, rt, can)
<1>1. DOMAIN tests = 1..13
  BY DEF Constraints
<1>2. /\ tests[1][2] = (i \notin can) /\ tests[2][2] = ~p.enabled /\ tests[3][2] = ~a.enabled
      /\ tests[6][2] = (~q.paidAllowed /\ p.pricing = "paid")
      /\ tests[8][2] = (q.budget = 0 /\ p.pricing = "paid")
      /\ tests[9][2] = Over(q.budget, p, a)
  BY DEF Constraints
<1>3. /\ \A n \in 1..12 : tests[n][1] # "unknown_provider"
      /\ tests[13][1] = extra /\ tests[13][2] = (extra # None)
  BY DEF Constraints
<1>4. extra # None => extra # "unknown_provider"
  BY DEF ExtraReason
<1> HIDE DEF tests, extra
<1>5. ASSUME NEW n \in 1..13, tests[n][2] PROVE tests[n][1] # "unknown_provider"
  <2>1. CASE n \in 1..12
    BY <1>3, <2>1
  <2>2. CASE n = 13
    BY <1>3, <1>4, <1>5, <2>2
  <2>3. QED BY <2>1, <2>2
<1>6. QED BY <1>1, <1>2, <1>5 DEF tests

\* Nothing that is known is refused as unknown.
LEMMA KnownIsNotUnknown ==
  ASSUME NEW i, NEW cat, NEW q, NEW rt, NEW can,
         Known(i, cat), ~Eligible(i, cat, q, rt, can)
  PROVE  Reason(i, cat, q, rt, can) # "unknown_provider"
<1> DEFINE tests == Constraints(i, cat, q, rt, can)
           S == {n \in 1..13 : tests[n][2]}
<1>1. /\ DOMAIN tests = 1..13
      /\ \A n \in 1..13 : tests[n][2] => tests[n][1] # "unknown_provider"
  BY ConstraintsAre
<1>2. S # {}
  BY <1>1 DEF Eligible
<1>3. Reason(i, cat, q, rt, can) =
        tests[CHOOSE n \in DOMAIN tests : tests[n][2] /\ \A m \in 1..(n - 1) : ~tests[m][2]][1]
  BY DEF Reason
<1> HIDE DEF tests
<1>4. PICK n \in S : \A m \in 1..(n - 1) : m \notin S
  BY <1>2, First
<1>5. n \in DOMAIN tests /\ tests[n][2] /\ \A m \in 1..(n - 1) : ~tests[m][2]
  BY <1>1, <1>4
<1> DEFINE first == CHOOSE k \in DOMAIN tests : tests[k][2] /\ \A m \in 1..(k - 1) : ~tests[m][2]
<1>6. first \in DOMAIN tests /\ tests[first][2]
  BY <1>5
<1>7. QED BY <1>1, <1>3, <1>6

\* What stays in play: the eligible of a tier the mode has; and but for hybrid, where no
\* tier before it has any.
LEMMA ApplyMembers ==
  ASSUME NEW mode, NEW cat, NEW eligible, NEW i
  PROVE  i \in Apply(mode, cat, eligible) <=>
           /\ i \in eligible
           /\ \E n \in DOMAIN Tiers[mode] :
                /\ TierFor(cat, i) = Tiers[mode][n]
                /\ mode = "hybrid" \/ \A m \in 1..(n - 1) : \A j \in eligible :
                                        TierFor(cat, j) # Tiers[mode][m]
<1> DEFINE of(tier) == {k \in eligible : TierFor(cat, k) = tier}
           tiers == Tiers[mode]
<1>1. CASE mode = "hybrid"
  <2>1. Apply(mode, cat, eligible) = UNION {of(tiers[n]) : n \in DOMAIN tiers}
    BY <1>1 DEF Apply
  <2> HIDE DEF tiers
  <2>2. QED BY <1>1, <2>1 DEF tiers
<1>2. CASE mode # "hybrid"
  <2> DEFINE D == {k \in DOMAIN tiers : \A m \in 1..(k - 1) : of(tiers[m]) = {}}
  <2>1. Apply(mode, cat, eligible) = UNION {of(tiers[n]) : n \in D}
    BY <1>2 DEF Apply
  <2> HIDE DEF tiers
  <2>2. \A k \in DOMAIN tiers :
          k \in D <=> \A m \in 1..(k - 1) : \A j \in eligible : TierFor(cat, j) # tiers[m]
    OBVIOUS
  <2>3. D \subseteq DOMAIN tiers
    OBVIOUS
  <2>4. i \in Apply(mode, cat, eligible) <=> \E n \in D : i \in of(tiers[n])
    BY <2>1
  <2> HIDE DEF D
  <2>5. QED BY <1>2, <2>2, <2>3, <2>4 DEF tiers
<1>3. QED BY <1>1, <1>2

\* What scores are computed from: of a catalogue that is formed, and of what was measured.
Scorable(i, cat, q, rt) ==
  LET p == cat.adapters[i].provider
  IN /\ i \in Int
     /\ {cat.providers[p].quality, cat.providers[p].cost, cat.providers[p].speed,
          cat.providers[p].reliability} \subseteq Int
     /\ rt.health[p] # None => rt.health[p] \in Int
     /\ rt.latency[i] # None => rt.latency[i] \in Int
     /\ StrategyFor(cat, q.capability) \in DOMAIN Weights

\* Such a score is a number.
LEMMA ScoresAreNumbers ==
  ASSUME NEW i, NEW cat, NEW q, NEW rt, Scorable(i, cat, q, rt)
  PROVE  Score(i, cat, q, rt) \in Int
<1> DEFINE a == cat.adapters[i]
           p == cat.providers[a.provider]
           w == Weights[StrategyFor(cat, q.capability)]
           health == IF rt.health[a.provider] = None THEN 100 ELSE rt.health[a.provider]
           raw == w.quality * p.quality + w.cost * CostFit(p, a)
                    + w.speed * SpeedOf(p, rt.latency[i]) + w.reliability * p.reliability
                    + w.hardware * HardwareFit(cat, a, q.device)
<1>1. \A s \in DOMAIN Weights : /\ Weights[s].quality \in Int /\ Weights[s].cost \in Int
                               /\ Weights[s].speed \in Int /\ Weights[s].reliability \in Int
                               /\ Weights[s].hardware \in Int
  BY DEF Weights
<1>2. /\ w.quality \in Int /\ w.cost \in Int /\ w.speed \in Int /\ w.reliability \in Int
      /\ w.hardware \in Int
  BY <1>1 DEF Scorable
<1>3. /\ p.quality \in Int /\ p.cost \in Int /\ p.speed \in Int /\ p.reliability \in Int
      /\ health \in Int
  BY DEF Scorable
<1>4. CostFit(p, a) \in Int
  BY <1>3 DEF CostFit
<1>5. HardwareFit(cat, a, q.device) \in Int
  BY DEF HardwareFit
<1>6. SpeedOf(p, rt.latency[i]) \in Int
  <2>1. rt.latency[i] # None => rt.latency[i] \in Int
    BY DEF Scorable
  <2>2. QED BY <1>3, <2>1 DEF SpeedOf
<1>7. Score(i, cat, q, rt) = (raw * health + 50) \div 100
  BY DEF Score
<1> HIDE DEF w, health
<1>8. raw \in Int
  BY <1>2, <1>3, <1>4, <1>5, <1>6
<1> HIDE DEF raw
<1>9. raw * health + 50 \in Int
  BY <1>3, <1>8
<1>10. QED BY <1>7, <1>9

\* One adapter is before another by its score, then its provider's reliability, then its id.
Reliability(cat, i) == cat.providers[cat.adapters[i].provider].reliability

\* Scores that are numbers are compared so.
LEMMA BeforeMeans ==
  ASSUME NEW i, NEW j, NEW cat, NEW q, NEW rt,
         Scorable(i, cat, q, rt), Scorable(j, cat, q, rt)
  PROVE  LET si == Score(i, cat, q, rt)
             sj == Score(j, cat, q, rt)
         IN /\ {si, sj, Reliability(cat, i), Reliability(cat, j), i, j} \subseteq Int
            /\ Before(cat, q, rt, i, j) <=>
                 \/ si > sj
                 \/ si = sj /\ \/ Reliability(cat, i) > Reliability(cat, j)
                               \/ Reliability(cat, i) = Reliability(cat, j) /\ i < j
<1> DEFINE si == Score(i, cat, q, rt)
           sj == Score(j, cat, q, rt)
           ri == Reliability(cat, i)
           rj == Reliability(cat, j)
           a == <<-si, -ri, i>>
           b == <<-sj, -rj, j>>
<1>1. si \in Int /\ sj \in Int /\ ri \in Int /\ rj \in Int /\ i \in Int /\ j \in Int
  BY ScoresAreNumbers DEF Scorable, Reliability
<1>2. Before(cat, q, rt, i, j) <=>
        \E n \in 1..3 : a[n] < b[n] /\ \A k \in 1..(n - 1) : a[k] = b[k]
  BY DEF Before, Reliability
<1> HIDE DEF si, sj, ri, rj
<1>3. Before(cat, q, rt, i, j) <=>
        \/ a[1] < b[1]
        \/ a[1] = b[1] /\ a[2] < b[2]
        \/ a[1] = b[1] /\ a[2] = b[2] /\ a[3] < b[3]
  <2> HIDE DEF a, b
  <2>1. 1..(1 - 1) = {} /\ 1..(2 - 1) = {1} /\ 1..(3 - 1) = {1, 2} /\ 1..3 = {1, 2, 3}
    OBVIOUS
  <2>2. QED BY <1>2, <2>1
<1>4. QED BY <1>1, <1>3 DEF si, sj, ri, rj

\* Of adapters that can be scored the first ranked is one that none is before.
LEMMA RankedFirst ==
  ASSUME NEW S, IsFiniteSet(S), NEW cat, NEW q, NEW rt,
         \A i \in S : Scorable(i, cat, q, rt),
         Ranked(S, cat, q, rt) # <<>>
  PROVE  LET first == Ranked(S, cat, q, rt)[1]
         IN first \in S /\ \A i \in S : Score(first, cat, q, rt) >= Score(i, cat, q, rt)
<1> DEFINE R == {p \in S \X S : Before(cat, q, rt, p[1], p[2])}
           ahead == [i \in S |-> Cardinality({j \in S : Before(cat, q, rt, j, i)})]
           first == Ranked(S, cat, q, rt)[1]
<1>1. /\ \A i \in S : Score(i, cat, q, rt) \in Int
      /\ \A i, j \in S : Score(i, cat, q, rt) > Score(j, cat, q, rt) => Before(cat, q, rt, i, j)
  BY BeforeMeans
<1>2. \A i, j \in S : <<i, j>> \in R <=> Before(cat, q, rt, i, j)
  OBVIOUS
<1>3. Ranked(S, cat, q, rt) = [n \in 1..Cardinality(S) |-> CHOOSE i \in S : ahead[i] = n - 1]
  BY DEF Ranked
<1> HIDE DEF R, ahead
<1>4. S # {}
  <2>1. Cardinality({}) = 0
    BY FS_EmptySet
  <2>2. [n \in 1..0 |-> CHOOSE i \in S : ahead[i] = n - 1] = <<>>
    OBVIOUS
  <2>3. QED BY <1>3, <2>1, <2>2
<1>5. Cardinality(S) \in Nat \ {0}
  BY <1>4, FS_CardinalityType, FS_EmptySet
<1>6. first = CHOOSE i \in S : ahead[i] = 0
  BY <1>3, <1>5
<1>7. PICK least \in S : \A j \in S : <<j, least>> \notin R
  <2>1. \A i \in S : <<i, i>> \notin R
    BY <1>2, BeforeMeans
  <2>2. ASSUME NEW i \in S, NEW j \in S, NEW k \in S, <<i, j>> \in R, <<j, k>> \in R
        PROVE  <<i, k>> \in R
    <3>1. Before(cat, q, rt, i, j) /\ Before(cat, q, rt, j, k)
      BY <1>2, <2>2
    <3>2. Scorable(i, cat, q, rt) /\ Scorable(j, cat, q, rt) /\ Scorable(k, cat, q, rt)
      OBVIOUS
    <3>3. Before(cat, q, rt, i, k)
      BY <3>1, <3>2, BeforeMeans
    <3>4. QED BY <1>2, <3>3
  <2>3. QED BY <1>4, <2>1, <2>2, Minimal
<1>8. \A i \in S : ahead[i] = 0 <=> \A j \in S : ~Before(cat, q, rt, j, i)
  <2> TAKE i \in S
  <2> DEFINE B == {j \in S : Before(cat, q, rt, j, i)}
  <2>1. IsFiniteSet(B) /\ (Cardinality(B) = 0 <=> B = {})
    BY FS_Subset, FS_EmptySet
  <2>2. ahead[i] = Cardinality(B)
    BY DEF ahead
  <2>3. QED BY <2>1, <2>2
<1>9. ahead[least] = 0
  BY <1>2, <1>7, <1>8
<1>10. first \in S /\ ahead[first] = 0
  BY <1>6, <1>9
<1>11. ASSUME NEW i \in S PROVE Score(first, cat, q, rt) >= Score(i, cat, q, rt)
  <2>1. ~Before(cat, q, rt, i, first)
    BY <1>8, <1>10
  <2>2. QED BY <1>1, <1>10, <2>1
<1>12. QED BY <1>10, <1>11

\* The tiers of the modes, in the order of the cascade.
LEMMA TiersOfModes ==
  /\ \A mode \in DOMAIN Tiers : mode \in {"auto", "hybrid"} => Tiers[mode] = Cascade
  /\ Tiers["local_only"] = <<"local">> /\ Tiers["free_remote_only"] = <<"free_remote">>
  /\ Tiers["commercial_only"] = <<"commercial">>
  /\ DOMAIN Tiers = {"auto", "hybrid", "local_only", "free_remote_only", "commercial_only"}
  /\ DOMAIN Cascade = 1..3
  /\ \A n, k \in 1..3 : Cascade[n] = Cascade[k] => n = k
<1>1. /\ \A mode \in DOMAIN Tiers : mode \in {"auto", "hybrid"} => Tiers[mode] = Cascade
      /\ Tiers["local_only"] = <<"local">> /\ Tiers["free_remote_only"] = <<"free_remote">>
      /\ Tiers["commercial_only"] = <<"commercial">>
      /\ DOMAIN Tiers = {"auto", "hybrid", "local_only", "free_remote_only", "commercial_only"}
      /\ DOMAIN Cascade = 1..3
  BY DEF Tiers, Cascade
<1>2. Cascade[1] = "local" /\ Cascade[2] = "free_remote" /\ Cascade[3] = "commercial"
  BY DEF Cascade
<1>3. \A n, k \in 1..3 : Cascade[n] = Cascade[k] => n = k
  <2>1. 1..3 = {1, 2, 3}
    OBVIOUS
  <2>2. QED BY <1>2, <2>1
<1>4. QED BY <1>1, <1>3

\* What is in play at all is of the tier that is carried out, or of no tier before it.
LEMMA NothingPassedOver ==
  ASSUME NEW mode \in DOMAIN Tiers, NEW cat, NEW eligible, NEW first,
         first \in Apply(mode, cat, eligible)
  PROVE  /\ first \in eligible /\ TierFor(cat, first) \in ToSet(Tiers[mode])
         /\ \A n \in DOMAIN Cascade : \A m \in 1..(n - 1) : \A i \in eligible :
              mode # "hybrid" /\ TierFor(cat, first) = Cascade[n] =>
                TierFor(cat, i) # Cascade[m] \/ Cascade[m] \notin ToSet(Tiers[mode])
         /\ \A i \in eligible :
              ((mode = "hybrid" /\ TierFor(cat, i) \in ToSet(Tiers[mode]))
                 \/ TierFor(cat, i) = TierFor(cat, first)) => i \in Apply(mode, cat, eligible)
<1> DEFINE tiers == Tiers[mode]
<1>1. PICK n \in DOMAIN tiers :
        /\ first \in eligible /\ TierFor(cat, first) = tiers[n]
        /\ mode = "hybrid" \/ \A m \in 1..(n - 1) : \A j \in eligible : TierFor(cat, j) # tiers[m]
  BY ApplyMembers
<1>2. TierFor(cat, first) \in ToSet(tiers)
  BY <1>1 DEF ToSet
<1>3. ASSUME NEW k \in DOMAIN Cascade, NEW m \in 1..(k - 1), NEW i \in eligible,
             mode # "hybrid", TierFor(cat, first) = Cascade[k]
      PROVE  TierFor(cat, i) # Cascade[m] \/ Cascade[m] \notin ToSet(tiers)
  <2>1. CASE mode = "auto"
    <3>1. tiers = Cascade
      BY <2>1, TiersOfModes
    <3>2. n = k
      <4>1. n \in 1..3 /\ k \in 1..3 /\ Cascade[n] = Cascade[k]
        BY <1>1, <1>3, <3>1, TiersOfModes
      <4>2. QED BY <4>1, TiersOfModes
    <3>3. QED BY <1>1, <1>3, <3>1, <3>2
  <2>2. ASSUME NEW t, tiers = <<t>> PROVE Cascade[m] \notin ToSet(tiers)
    <3>1. tiers[n] = t /\ ToSet(tiers) = {t}
      <4> HIDE DEF tiers
      <4>1. DOMAIN tiers = {1} /\ tiers[1] = t
        BY <2>2
      <4>2. QED BY <1>1, <4>1 DEF ToSet
    <3>2. Cascade[m] # Cascade[k]
      <4>1. k \in 1..3 /\ m \in 1..3 /\ m # k
        BY TiersOfModes
      <4>2. QED BY <4>1, TiersOfModes
    <3>3. QED BY <1>1, <1>3, <3>1, <3>2
  <2>3. QED BY <1>3, <2>1, <2>2, TiersOfModes
<1>4. ASSUME NEW i \in eligible, TierFor(cat, i) = TierFor(cat, first)
      PROVE  i \in Apply(mode, cat, eligible)
  BY <1>1, <1>4, ApplyMembers
<1>5. ASSUME NEW i \in eligible, mode = "hybrid", TierFor(cat, i) \in ToSet(tiers)
      PROVE  i \in Apply(mode, cat, eligible)
  <2>1. \E k \in DOMAIN tiers : TierFor(cat, i) = tiers[k]
    BY <1>5 DEF ToSet
  <2>2. QED BY <1>5, <2>1, ApplyMembers
<1>6. QED BY <1>1, <1>2, <1>3, <1>4, <1>5

\* What two catalogues have in common of an adapter, and of its provider.
Agree(c1, r1, c2, r2, i) ==
  LET p == c1.adapters[i].provider
  IN /\ i \in DOMAIN c1.adapters \cap DOMAIN c2.adapters /\ c1.adapters[i] = c2.adapters[i]
     /\ p \in DOMAIN c1.providers \cap DOMAIN c2.providers /\ c1.providers[p] = c2.providers[p]
     /\ r1.quota[p] = r2.quota[p] /\ r1.health[p] = r2.health[p]
     /\ r1.latency[i] = r2.latency[i]

\* What follows of how they judge it.
JudgedAlike(c1, r1, c2, r2, q, i) ==
  /\ \A can : Constraints(i, c1, q, r1, can) = Constraints(i, c2, q, r2, can)
  /\ Known(i, c1) /\ Known(i, c2)
  /\ Score(i, c1, q, r1) = Score(i, c2, q, r2)
  /\ TierFor(c1, i) = TierFor(c2, i) /\ Reliability(c1, i) = Reliability(c2, i)

\* Catalogues that agree on an adapter judge it alike.
LEMMA AgreeingScores ==
  ASSUME NEW c1, NEW r1, NEW c2, NEW r2, NEW q, NEW i, Agree(c1, r1, c2, r2, i),
         StrategyFor(c1, q.capability) = StrategyFor(c2, q.capability),
         c1.devices = c2.devices
  PROVE  JudgedAlike(c1, r1, c2, r2, q, i)
<1> DEFINE a == c1.adapters[i]
           p == c1.providers[a.provider]
<1>1. /\ c2.adapters[i] = a /\ c2.providers[a.provider] = p
      /\ r2.quota[a.provider] = r1.quota[a.provider]
      /\ r2.health[a.provider] = r1.health[a.provider] /\ r2.latency[i] = r1.latency[i]
  BY DEF Agree
<1>2. \A device : RamOf(c1, device) = RamOf(c2, device)
  BY DEF RamOf
<1>3. TooSmall(c1, a, q.device) = TooSmall(c2, a, q.device)
  BY <1>2 DEF TooSmall
<1>4. HardwareFit(c1, a, q.device) = HardwareFit(c2, a, q.device)
  BY <1>2 DEF HardwareFit
<1>5. ASSUME NEW can PROVE Constraints(i, c1, q, r1, can) = Constraints(i, c2, q, r2, can)
  BY <1>1, <1>3 DEF Constraints
<1>6. Score(i, c1, q, r1) = Score(i, c2, q, r2)
  BY <1>1, <1>4 DEF Score
<1>7. Known(i, c1) /\ Known(i, c2)
  BY <1>1 DEF Agree, Known
<1>8. TierFor(c1, i) = TierFor(c2, i) /\ Reliability(c1, i) = Reliability(c2, i)
  BY <1>1 DEF TierFor, Reliability
<1>9. QED BY <1>5, <1>6, <1>7, <1>8 DEF JudgedAlike

\* Where they agree on whatever is eligible, the same is resolved.
LEMMA AgreeingCandidates ==
  ASSUME NEW mode, NEW c1, NEW r1, NEW c2, NEW r2, NEW q, NEW E,
         \A i \in E : Agree(c1, r1, c2, r2, i),
         StrategyFor(c1, q.capability) = StrategyFor(c2, q.capability),
         c1.devices = c2.devices
  PROVE  Ranked(Apply(mode, c1, E), c1, q, r1) = Ranked(Apply(mode, c2, E), c2, q, r2)
<1> DEFINE A1 == Apply(mode, c1, E)
           A2 == Apply(mode, c2, E)
<1>1. \A i \in E : /\ TierFor(c1, i) = TierFor(c2, i) /\ Score(i, c1, q, r1) = Score(i, c2, q, r2)
                   /\ Reliability(c1, i) = Reliability(c2, i)
  BY AgreeingScores DEF JudgedAlike
<1>2. ASSUME NEW i PROVE i \in A1 <=> i \in A2
  BY <1>1, ApplyMembers
<1>3. A1 = A2 /\ A1 \subseteq E
  BY <1>2, ApplyMembers
<1> DEFINE S == A1
           later1 == [i \in S |-> Cardinality({j \in S : Before(c1, q, r1, j, i)})]
           later2 == [i \in S |-> Cardinality({j \in S : Before(c2, q, r2, j, i)})]
<1> HIDE DEF A1, A2
<1>4. ASSUME NEW i \in S, NEW j \in S
      PROVE  Before(c1, q, r1, j, i) <=> Before(c2, q, r2, j, i)
  <2>1. /\ Score(i, c1, q, r1) = Score(i, c2, q, r2) /\ Score(j, c1, q, r1) = Score(j, c2, q, r2)
        /\ Reliability(c1, i) = Reliability(c2, i) /\ Reliability(c1, j) = Reliability(c2, j)
    BY <1>1, <1>3
  <2>2. QED BY <2>1 DEF Before, Reliability
<1>5. later1 = later2
  <2>1. \A i \in S : {j \in S : Before(c1, q, r1, j, i)} = {j \in S : Before(c2, q, r2, j, i)}
    BY <1>4
  <2>2. QED BY <2>1
<1>6. /\ Ranked(S, c1, q, r1) = [n \in 1..Cardinality(S) |-> CHOOSE i \in S : later1[i] = n - 1]
      /\ Ranked(S, c2, q, r2) = [n \in 1..Cardinality(S) |-> CHOOSE i \in S : later2[i] = n - 1]
  BY DEF Ranked
<1> HIDE DEF S, later1, later2
<1>7. Ranked(S, c1, q, r1) = Ranked(S, c2, q, r2)
  BY <1>5, <1>6
<1>8. QED BY <1>3, <1>7 DEF S, A1, A2
-----------------------------------------------------------------------------
\* Of rows as the schema has them adapters can be scored, whatever was measured.
LEMMA RowsScorable ==
  ASSUME NEW rows, \A t \in ToSet(Table) : Formed(t, rows[t]), NEW measured \in Measured, NEW q,
         NEW i \in DOMAIN rows.adapters, rows.adapters[i].provider \in DOMAIN rows.providers
  PROVE  Scorable(i, AsCatalogue(rows), q, RuntimeOf(measured, AsCatalogue(rows)))
<1> DEFINE cat == AsCatalogue(rows)
           rt == RuntimeOf(measured, cat)
           p == rows.adapters[i].provider
<1>1. cat.adapters = rows.adapters /\ cat.providers = rows.providers /\ cat.routing = rows.routing
  BY DEF AsCatalogue
<1>2. i \in Int
  BY TableNames DEF Formed, Shaped
<1>3. {rows.providers[p].quality, rows.providers[p].cost, rows.providers[p].speed,
       rows.providers[p].reliability} \subseteq Int
  BY TableNames DEF Formed, Shaped
<1> HIDE DEF cat
<1>4. /\ rt.health[p] = IF p \in DOMAIN measured.health THEN measured.health[p] ELSE None
      /\ rt.latency[i] = IF i \in DOMAIN measured.latency THEN measured.latency[i] ELSE None
  BY <1>1 DEF RuntimeOf
<1>5. /\ rt.health[p] # None => rt.health[p] \in Int
      /\ rt.latency[i] # None => rt.latency[i] \in Int
  BY <1>4, MeasuredAssumption
<1>6. StrategyFor(cat, q.capability) \in DOMAIN Weights
  <2>1. \A k \in DOMAIN rows.routing : rows.routing[k] \in DOMAIN Weights
    BY TableNames DEF Formed, Shaped
  <2>2. "balanced" \in DOMAIN Weights
    BY DEF Weights
  <2>3. QED BY <1>1, <2>1, <2>2 DEF StrategyFor
<1>7. QED BY <1>1, <1>2, <1>3, <1>5, <1>6 DEF Scorable, cat

\* What is resolved: the eligible of those that serve, those in play in their order.
Usable(cat, q, rt) == {i \in Serving(cat, Capability) : Eligible(i, cat, q, rt, Executable)}

Answers(x, mode, cat, q, rt) ==
  /\ x.candidates = Ranked(Apply(mode, cat, Usable(cat, q, rt)), cat, q, rt)
  /\ x.refused = [i \in Serving(cat, Capability) \ Usable(cat, q, rt) |->
                    Reason(i, cat, q, rt, Executable)]

\* That is what is resolved.
LEMMA ResolvedAnswers ==
  ASSUME NEW mode, NEW budget, NEW cat, NEW rows
  PROVE  Answers(Resolved(mode, budget, cat, rows), mode, cat,
                 ToRequest(Capability, mode, budget), RuntimeOf(rows, cat))
BY DEF Answers, Resolved, Candidates, Resolve, Usable, ToRequest

\* Whatever is resolved is never out of the mode, the budget or the build, and nothing that
\* should come before it is passed over.
LEMMA ResolvedIsBest == CatalogueInv => NeverEscalates
<1> SUFFICES ASSUME CatalogueInv, NEW r \in Reader, readers[r].op = "resolved",
                    readers[r].answer.candidates # <<>>
             PROVE  LET x == readers[r]
                        cat == AsCatalogue(x.read)
                        tier(i) == TierFor(cat, i)
                        first == x.answer.candidates[1]
                        pick == cat.adapters[first]
                        payee == cat.providers[pick.provider]
                        allowed == ToSet(Tiers[x.mode])
                        q == ToRequest(Capability, x.mode, x.budget)
                        rt == RuntimeOf(x.measured, cat)
                        usable == {i \in Serving(cat, Capability) :
                                     Eligible(i, cat, q, rt, Executable)}
                    IN /\ first \in usable /\ tier(first) \in allowed /\ first \in Executable
                       /\ pick.enabled /\ payee.enabled
                       /\ payee.pricing = "paid" =>
                            /\ x.mode \in {"auto", "hybrid", "commercial_only"}
                            /\ x.budget # 0 /\ ~Over(x.budget, payee, pick)
                       /\ \A n \in DOMAIN Cascade : \A m \in 1..(n - 1) : \A i \in usable :
                            x.mode # "hybrid" /\ tier(first) = Cascade[n] =>
                              tier(i) # Cascade[m] \/ Cascade[m] \notin allowed
                       /\ \A i \in usable :
                            (x.mode = "hybrid" /\ tier(i) \in allowed) \/ tier(i) = tier(first) =>
                              Score(first, cat, q, rt) >= Score(i, cat, q, rt)
  BY DEF NeverEscalates
<1> DEFINE x == readers[r]
           cat == AsCatalogue(x.read)
           first == x.answer.candidates[1]
           pick == cat.adapters[first]
           payee == cat.providers[pick.provider]
           allowed == ToSet(Tiers[x.mode])
           q == ToRequest(Capability, x.mode, x.budget)
           rt == RuntimeOf(x.measured, cat)
           E == Usable(cat, q, rt)
           S == Apply(x.mode, cat, E)
<1>1. /\ Resolution(x) /\ \A t \in ToSet(Table) : Formed(t, x.read[t])
      /\ x.mode \in DOMAIN Tiers
  BY MeasuredAssumption DEF CatalogueInv, CatalogueTyped, Idle, ReadRun, Resolution
<1>2. /\ x.answer.candidates = Ranked(S, cat, q, rt)
      /\ q.budget = x.budget /\ q.paidAllowed = PaidAllowed(x.mode)
  <2>1. x.answer = Resolved(x.mode, x.budget, cat, x.measured)
    BY <1>1 DEF Resolution
  <2>2. Answers(x.answer, x.mode, cat, q, rt)
    BY <2>1, ResolvedAnswers
  <2>3. q.budget = x.budget /\ q.paidAllowed = PaidAllowed(x.mode)
    BY DEF ToRequest
  <2> HIDE DEF x, cat, q, rt
  <2>4. QED BY <2>2, <2>3 DEF Answers
<1>3. /\ cat.adapters = x.read.adapters /\ cat.providers = x.read.providers
      /\ S \subseteq E /\ \A i \in E : i \in DOMAIN cat.adapters /\ Known(i, cat)
  <2>1. S \subseteq E
    BY ApplyMembers
  <2>2. \A i \in E : i \in DOMAIN cat.adapters /\ Known(i, cat)
    BY DEF Usable, Serving, Eligible
  <2>3. QED BY <2>1, <2>2 DEF AsCatalogue
<1>4. \A i \in E : Scorable(i, cat, q, rt)
  <2> TAKE i \in E
  <2>1. i \in DOMAIN x.read.adapters /\ x.read.adapters[i].provider \in DOMAIN x.read.providers
    BY <1>3 DEF Known
  <2>2. x.measured \in Measured
    BY <1>1 DEF Resolution
  <2>3. QED BY <1>1, <2>1, <2>2, RowsScorable
<1>5. IsFiniteSet(S)
  <2>1. IsFiniteSet(DOMAIN x.read.adapters)
    BY <1>1, TableNames DEF Formed
  <2>2. QED BY <1>3, <2>1, FS_Subset
<1> HIDE DEF x, cat, q, rt, E, S
<1>6. first \in S /\ \A i \in S : Score(first, cat, q, rt) >= Score(i, cat, q, rt)
  <2>1. \A i \in S : Scorable(i, cat, q, rt)
    BY <1>3, <1>4
  <2>2. Ranked(S, cat, q, rt) # <<>>
    BY <1>2 DEF x
  <2>3. QED BY <1>2, <1>5, <2>1, <2>2, RankedFirst
<1>7. /\ first \in E /\ TierFor(cat, first) \in allowed
      /\ \A n \in DOMAIN Cascade : \A m \in 1..(n - 1) : \A i \in E :
           x.mode # "hybrid" /\ TierFor(cat, first) = Cascade[n] =>
             TierFor(cat, i) # Cascade[m] \/ Cascade[m] \notin allowed
      /\ \A i \in E : ((x.mode = "hybrid" /\ TierFor(cat, i) \in allowed)
                        \/ TierFor(cat, i) = TierFor(cat, first)) => i \in S
  BY <1>1, <1>6, NothingPassedOver DEF S
<1>8. /\ first \in Executable /\ pick.enabled /\ payee.enabled
      /\ payee.pricing = "paid" => /\ PaidAllowed(x.mode) /\ x.budget # 0
                                   /\ ~Over(x.budget, payee, pick)
  <2> DEFINE tests == Constraints(first, cat, q, rt, Executable)
  <2>1. \A n \in DOMAIN tests : ~tests[n][2]
    BY <1>7 DEF E, Usable, Eligible
  <2>2. /\ DOMAIN tests = 1..13
        /\ tests[1][2] = (first \notin Executable)
        /\ tests[2][2] = ~payee.enabled /\ tests[3][2] = ~pick.enabled
        /\ tests[6][2] = (~q.paidAllowed /\ payee.pricing = "paid")
        /\ tests[8][2] = (q.budget = 0 /\ payee.pricing = "paid")
        /\ tests[9][2] = Over(q.budget, payee, pick)
    <3> HIDE DEF first
    <3>1. QED BY ConstraintsAre
  <2> HIDE DEF tests, first, pick, payee
  <2>3. /\ ~tests[1][2] /\ ~tests[2][2] /\ ~tests[3][2] /\ ~tests[6][2] /\ ~tests[8][2]
        /\ ~tests[9][2]
    BY <2>1, <2>2
  <2>4. QED BY <1>2, <2>2, <2>3
<1>9. PaidAllowed(x.mode) => x.mode \in {"auto", "hybrid", "commercial_only"}
  <2>1. ToSet(<<"local">>) = {"local"} /\ ToSet(<<"free_remote">>) = {"free_remote"}
    BY DEF ToSet
  <2>2. QED BY <1>1, <2>1, TiersOfModes DEF PaidAllowed
<1>10. \A i \in E : ((x.mode = "hybrid" /\ TierFor(cat, i) \in allowed)
                        \/ TierFor(cat, i) = TierFor(cat, first))
         => Score(first, cat, q, rt) >= Score(i, cat, q, rt)
  BY <1>6, <1>7
<1>11. QED
  BY <1>7, <1>8, <1>9, <1>10 DEF x, cat, q, rt, E, Usable

\* The rows a reader has of a manifest that holds: the manifest's own, and of others only
\* such as are not enabled.
LEMMA HeldRows ==
  ASSUME NEW d \in Digest, Asked[d] # None, NEW t \in ToSet(Table), NEW rows,
         Holds(t, Asked[d][t], rows)
  PROVE  LET own == Desired(d)[t]
         IN /\ \A k \in DOMAIN own : k \in DOMAIN rows /\ rows[k] = own[k]
            /\ Removal[t] = "disable" => \A k \in DOMAIN rows \ DOMAIN own : ~rows[k].enabled
<1> DEFINE desired == Asked[d][t]
           own == Desired(d)[t]
<1>1. OwnKeys(desired)
  BY AskedRows DEF Asks
<1>2. ToSet(desired) = RowsAt(desired, DOMAIN desired)
  BY DEF ToSet, RowsAt
<1>3. own = AsTable(RowsAt(desired, DOMAIN desired))
  BY <1>2 DEF Desired
<1>4. /\ DOMAIN own = KeysAt(desired, DOMAIN desired)
      /\ \A i \in DOMAIN desired : own[desired[i].key] = desired[i].row
  BY <1>1, <1>3, TableOfRows
<1>5. KeysOf(desired) = KeysAt(desired, DOMAIN desired)
  BY <1>2 DEF KeysOf, KeysAt, RowsAt
<1>6. \A i \in DOMAIN desired : /\ desired[i].key \in DOMAIN rows
                                /\ rows[desired[i].key] = desired[i].row
  BY DEF Holds, ToSet
<1> HIDE DEF own, desired
<1>7. \A k \in DOMAIN own : k \in DOMAIN rows /\ rows[k] = own[k]
  BY <1>4, <1>6 DEF KeysAt
<1>8. Removal[t] = "disable" => \A k \in DOMAIN rows \ DOMAIN own : ~rows[k].enabled
  BY <1>4, <1>5 DEF Holds, desired
<1>9. QED BY <1>7, <1>8 DEF own

\* What was resolved from a manifest can be resolved again from it.
LEMMA ResolvedReplays == CatalogueInv => LedgerReplays
<1> SUFFICES ASSUME CatalogueInv, NEW r \in Reader, readers[r].op = "resolved"
             PROVE  LET x == readers[r]
                        old == DOMAIN x.read.routing \ DOMAIN Desired(x.digest).routing
                        again == Resolved(x.mode, x.budget, AsCatalogue(Desired(x.digest)),
                                          x.measured)
                    IN /\ ~x.torn /\ ~x.mixed /\ old = {} => x.answer.candidates = again.candidates
                       /\ ~x.torn => \A i \in DOMAIN x.answer.refused :
                                       x.answer.refused[i] # "unknown_provider"
  BY DEF LedgerReplays
<1> DEFINE x == readers[r]
           own == Desired(x.digest)
           c1 == AsCatalogue(x.read)
           c2 == AsCatalogue(own)
           q == ToRequest(Capability, x.mode, x.budget)
           r1 == RuntimeOf(x.measured, c1)
           r2 == RuntimeOf(x.measured, c2)
           E1 == Usable(c1, q, r1)
           E2 == Usable(c2, q, r2)
<1>1. Resolution(x) /\ x.digest \in Digest /\ Asked[x.digest] # None
  BY DEF CatalogueInv, CatalogueTyped, Idle, ReadRun
<1>2. /\ x.answer.candidates = Ranked(Apply(x.mode, c1, E1), c1, q, r1)
      /\ x.answer.refused =
           [i \in Serving(c1, Capability) \ E1 |-> Reason(i, c1, q, r1, Executable)]
  <2>1. x.answer = Resolved(x.mode, x.budget, c1, x.measured)
    BY <1>1 DEF Resolution
  <2>2. Answers(x.answer, x.mode, c1, q, r1)
    BY <2>1, ResolvedAnswers
  <2> HIDE DEF x, c1, q, r1
  <2>3. QED BY <2>2 DEF Answers
<1>3. /\ Resolved(x.mode, x.budget, c2, x.measured).candidates =
           Ranked(Apply(x.mode, c2, E2), c2, q, r2)
      /\ q.capability = Capability
  <2>1. Answers(Resolved(x.mode, x.budget, c2, x.measured), x.mode, c2, q, r2)
    BY ResolvedAnswers
  <2>2. q.capability = Capability
    BY DEF ToRequest
  <2> HIDE DEF x, c2, q, r2
  <2>3. QED BY <2>1, <2>2 DEF Answers
<1>4. ASSUME ~x.torn, NEW i \in Serving(c1, Capability) \ E1
      PROVE  Reason(i, c1, q, r1, Executable) # "unknown_provider"
  <2>1. AllKnown(x.read)
    BY <1>4 DEF CatalogueInv, ResolvedFromKnown
  <2>2. Known(i, c1)
    BY <2>1 DEF AllKnown, Known, AsCatalogue, Serving
  <2>3. ~Eligible(i, c1, q, r1, Executable)
    BY DEF Usable
  <2>4. QED BY <2>2, <2>3, KnownIsNotUnknown
<1>5. ASSUME ~x.torn, ~x.mixed, DOMAIN x.read.routing \ DOMAIN own.routing = {}
      PROVE  x.answer.candidates = Resolved(x.mode, x.budget, c2, x.measured).candidates
  <2>1. TablesOf(x)
    BY <1>5 DEF CatalogueInv, CatalogueIsManifest, TablesOf
  <2>2. \A t \in ToSet(Table) :
          /\ \A k \in DOMAIN own[t] : k \in DOMAIN x.read[t] /\ x.read[t][k] = own[t][k]
          /\ Removal[t] = "disable" =>
               \A k \in DOMAIN x.read[t] \ DOMAIN own[t] : ~x.read[t][k].enabled
    BY <1>1, <2>1, HeldRows DEF TablesOf
  <2>3. /\ c1.adapters = x.read.adapters /\ c1.providers = x.read.providers
        /\ c1.routing = x.read.routing /\ c2.adapters = own.adapters
        /\ c2.providers = own.providers /\ c2.routing = own.routing /\ c1.devices = c2.devices
    BY DEF AsCatalogue
  <2>4. /\ \A k \in DOMAIN c2.adapters : k \in DOMAIN c1.adapters /\ c1.adapters[k] = c2.adapters[k]
        /\ \A k \in DOMAIN c1.adapters \ DOMAIN c2.adapters : ~c1.adapters[k].enabled
        /\ \A k \in DOMAIN c2.providers :
             k \in DOMAIN c1.providers /\ c1.providers[k] = c2.providers[k]
        /\ \A k \in DOMAIN c1.providers \ DOMAIN c2.providers : ~c1.providers[k].enabled
        /\ \A k \in DOMAIN c2.routing : k \in DOMAIN c1.routing /\ c1.routing[k] = c2.routing[k]
        /\ DOMAIN c1.routing \ DOMAIN c2.routing = {}
    BY <1>5, <2>2, <2>3, TableNames DEF Removal
  <2> HIDE DEF c1, c2, x, own
  <2>5. StrategyFor(c1, q.capability) = StrategyFor(c2, q.capability)
    <3>1. \A k : k \in DOMAIN c1.routing <=> k \in DOMAIN c2.routing
      BY <2>4
    <3>2. QED BY <2>4, <3>1 DEF StrategyFor
  <2>6. ASSUME NEW i \in DOMAIN c2.adapters, c2.adapters[i].provider \in DOMAIN c2.providers
        PROVE  Agree(c1, r1, c2, r2, i)
    <3> DEFINE p == c2.adapters[i].provider
    <3>1. /\ i \in DOMAIN c1.adapters /\ c1.adapters[i] = c2.adapters[i]
          /\ p \in DOMAIN c1.providers /\ c1.providers[p] = c2.providers[p]
      BY <2>4, <2>6
    <3>2. r1.quota[p] = r2.quota[p] /\ r1.health[p] = r2.health[p] /\ r1.latency[i] = r2.latency[i]
      BY <2>6, <3>1 DEF RuntimeOf
    <3> HIDE DEF r1, r2
    <3>3. QED BY <2>6, <3>1, <3>2 DEF Agree
  <2> HIDE DEF r1, r2, q
  <2>7. ASSUME NEW i \in E1 PROVE i \in E2 /\ Agree(c1, r1, c2, r2, i)
    <3>1. /\ i \in DOMAIN c1.adapters /\ c1.adapters[i].capability = Capability
          /\ Eligible(i, c1, q, r1, Executable) /\ Known(i, c1)
      BY DEF Usable, Serving, Eligible
    <3>2. c1.adapters[i].enabled /\ c1.providers[c1.adapters[i].provider].enabled
      <4> DEFINE tests == Constraints(i, c1, q, r1, Executable)
      <4>1. /\ DOMAIN tests = 1..13
            /\ tests[2][2] = ~c1.providers[c1.adapters[i].provider].enabled
            /\ tests[3][2] = ~c1.adapters[i].enabled
        BY ConstraintsAre
      <4>2. \A n \in DOMAIN tests : ~tests[n][2]
        BY <3>1 DEF Eligible
      <4> HIDE DEF tests
      <4>3. ~tests[2][2] /\ ~tests[3][2]
        BY <4>1, <4>2
      <4>4. QED BY <4>1, <4>3
    <3>3. i \in DOMAIN c2.adapters /\ c2.adapters[i] = c1.adapters[i]
      BY <2>4, <3>1, <3>2
    <3>4. c2.adapters[i].provider \in DOMAIN c2.providers
      BY <2>4, <3>1, <3>2, <3>3 DEF Known
    <3>5. Agree(c1, r1, c2, r2, i)
      BY <2>6, <3>3, <3>4
    <3>6. /\ Known(i, c2)
          /\ Constraints(i, c1, q, r1, Executable) = Constraints(i, c2, q, r2, Executable)
      <4>1. JudgedAlike(c1, r1, c2, r2, q, i)
        BY <2>3, <2>5, <3>5, AgreeingScores
      <4>2. QED BY <4>1 DEF JudgedAlike
    <3>7. Eligible(i, c2, q, r2, Executable)
      BY <3>1, <3>6 DEF Eligible
    <3>8. QED BY <3>1, <3>3, <3>5, <3>7 DEF Usable, Serving
  <2>8. ASSUME NEW i \in E2 PROVE i \in E1
    <3>1. /\ i \in DOMAIN c2.adapters /\ c2.adapters[i].capability = Capability
          /\ Eligible(i, c2, q, r2, Executable) /\ Known(i, c2)
      BY DEF Usable, Serving, Eligible
    <3>2. Agree(c1, r1, c2, r2, i)
      BY <2>6, <3>1 DEF Known
    <3>3. /\ Known(i, c1)
          /\ Constraints(i, c1, q, r1, Executable) = Constraints(i, c2, q, r2, Executable)
      <4>1. JudgedAlike(c1, r1, c2, r2, q, i)
        BY <2>3, <2>5, <3>2, AgreeingScores
      <4>2. QED BY <4>1 DEF JudgedAlike
    <3>4. Eligible(i, c1, q, r1, Executable)
      BY <3>1, <3>3 DEF Eligible
    <3>5. QED BY <2>4, <3>1, <3>4 DEF Usable, Serving
  <2> HIDE DEF E1, E2
  <2>9. E1 = E2 /\ \A i \in E1 : Agree(c1, r1, c2, r2, i)
    BY <2>7, <2>8
  <2>10. Ranked(Apply(x.mode, c1, E1), c1, q, r1) = Ranked(Apply(x.mode, c2, E1), c2, q, r2)
    BY <2>3, <2>5, <2>9, AgreeingCandidates
  <2>11. QED BY <1>2, <1>3, <2>9, <2>10
<1>6. QED BY <1>2, <1>4, <1>5

\* The tables hold the manifest whose digest is stored, and what a resolution read the one
\* it recorded, but where seedings overlapped or one was committed while it read; what was
\* resolved can be resolved again from it; and it is the best that mode, budget and build
\* allow.
THEOREM CatalogueProven == CatalogueSpec => []CatalogueIsSound
<1>1. CatalogueInv => CatalogueIsSound
  BY ResolvedIsBest, ResolvedReplays DEF CatalogueInv, CatalogueIsSound
<1>2. QED
  BY <1>1, CatalogueStarts, CatalogueKeeps, PTL DEF CatalogueSpec
-----------------------------------------------------------------------------
(***************************************************************************)
(* One run of a generation.                                                *)
(***************************************************************************)
Positive == Nat \ {0}

\* There is a shot for every part of the duration asked for, and at least one.
LEMMA ShotsAsked ==
  ASSUME NEW target \in Target, NEW perShot \in PerShot
  PROVE  ShotCount(target, perShot) \in Positive
<1>1. Clamped(target) \in Int /\ perShot \in Positive
  BY RequestAssumption DEF Clamped, AtLeast, MinDuration, MaxDuration, Positive
<1>2. Rounded(Clamped(target), perShot) \in Int
  <2>1. \A t \in Int : t \div perShot \in Int /\ t % perShot \in Int
    BY <1>1 DEF Positive
  <2>2. QED BY <1>1, <2>1 DEF Rounded
<1>3. QED
  BY <1>2 DEF ShotCount, AtLeast, Positive

\* An arc, authored or synthesized, has as many beats as it was asked for.
LEMMA ArcIsAsked ==
  ASSUME NEW n \in Positive
  PROVE  DOMAIN Arc(n) = 1..n
<1>1. CASE n \in {3, 5, 6}
  <2>1. Arc(n) = Authored[n]
    BY <1>1 DEF Arc, Authored
  <2>2. DOMAIN Authored[3] = 1..3 /\ DOMAIN Authored[5] = 1..5 /\ DOMAIN Authored[6] = 1..6
    BY DEF Authored
  <2>3. QED BY <1>1, <2>1, <2>2
<1>2. CASE n \notin {3, 5, 6}
  <2>1. Arc(n) = Synthesized(n)
    BY <1>2 DEF Arc, Authored
  <2>2. CASE n = 1
    BY <2>1, <2>2 DEF Synthesized
  <2>3. CASE n # 1
    <3> DEFINE beat(i) == Beat(InTurn(Types, i), InTurn(Cameras, i), InTurn(Movements, i),
                               "beat " \o ToString(i), "subject", InTurn(Transitions, i))
               middle == [i \in 1..(n - 2) |-> beat(i)]
               S == {middle[i] : i \in 1..(n - 2)} \cup {Opening, Ending("still")}
    <3>1. middle \in Seq(S) /\ Len(middle) = n - 2
      <4> HIDE DEF beat
      <4>1. n - 2 \in Nat
        BY <2>3 DEF Positive
      <4>2. QED BY <4>1
    <3>2. Arc(n) = <<Opening>> \o middle \o <<Ending("still")>>
      BY <2>1, <2>3 DEF Synthesized
    <3>3. <<Opening>> \in Seq(S) /\ <<Ending("still")>> \in Seq(S)
      <4> HIDE DEF middle
      <4>1. QED OBVIOUS
    <3> HIDE DEF S, middle
    <3>4. QED BY <3>1, <3>2, <3>3 DEF Positive
  <2>4. QED BY <2>2, <2>3
<1>3. QED
  BY <1>1, <1>2

\* What the loop relies on of a plan: it has a shot, and no two of one id.
GoodPlan(made) ==
  /\ Len(made) \in Positive /\ DOMAIN made = 1..Len(made)
  /\ \A i, j \in DOMAIN made : made[i].id = made[j].id => i = j

\* Ids are the types of the beats with the number of their occurrence.
LEMMA IdsDiffer ==
  ASSUME NEW arc, NEW n \in Nat, DOMAIN arc = 1..n,
         NEW i \in 1..n, NEW j \in 1..n, ShotIds(arc)[i] = ShotIds(arc)[j]
  PROVE  i = j
<1> DEFINE Until(k) == {m \in 1..k : arc[m].type = arc[k].type}
<1>1. \A k \in 1..n : ShotIds(arc)[k] = <<arc[k].type, Cardinality(Until(k))>>
  BY DEF ShotIds
<1>2. arc[i].type = arc[j].type /\ Cardinality(Until(i)) = Cardinality(Until(j))
  <2> HIDE DEF Until
  <2>1. QED BY <1>1
<1>3. \A k \in 1..n : IsFiniteSet(Until(k)) /\ k \in Until(k)
  <2> TAKE k \in 1..n
  <2>1. IsFiniteSet(1..k)
    BY FS_Interval
  <2>2. Until(k) \in SUBSET (1..k) /\ k \in Until(k)
    OBVIOUS
  <2>3. QED BY <2>1, <2>2, FS_Subset
<1>4. ASSUME NEW k \in 1..n, NEW l \in 1..n, k < l, arc[k].type = arc[l].type,
             Cardinality(Until(k)) = Cardinality(Until(l))
      PROVE FALSE
  <2>1. Until(k) \in SUBSET Until(l)
    BY <1>4
  <2>2. Until(k) = Until(l)
    BY <1>3, <1>4, <2>1, FS_Subset
  <2>3. l \notin Until(k)
    BY <1>4
  <2>4. QED BY <1>3, <2>2, <2>3
<1>5. QED
  <2> HIDE DEF Until
  <2>1. QED BY <1>2, <1>4

\* Pools taken in turn give neighbours that differ, of which none is like the opening or the
\* ending.
LEMMA PoolsVary ==
  ASSUME NEW i \in Positive
  PROVE  /\ InTurn(Types, i) # InTurn(Types, i + 1)
         /\ InTurn(Movements, i) # InTurn(Movements, i + 1)
         /\ InTurn(Types, i) \notin {"establishing", "ending"}
         /\ InTurn(Movements, i) # "still"
<1> DEFINE k == (i - 1) % 5
           l == i % 5
<1>1. /\ k \in 0..4
      /\ l = IF k = 4 THEN 0 ELSE k + 1
  BY DEF Positive
<1>2. /\ InTurn(Types, i) = Types[k + 1] /\ InTurn(Types, i + 1) = Types[l + 1]
      /\ InTurn(Movements, i) = Movements[k + 1]
      /\ InTurn(Movements, i + 1) = Movements[l + 1]
  <2>1. Len(Types) = 5 /\ Len(Movements) = 5 /\ (i + 1) - 1 = i
    BY DEF Types, Movements, Positive
  <2>2. QED BY <2>1 DEF InTurn
<1> HIDE DEF k, l
<1>3. CASE k = 0
  BY <1>1, <1>2, <1>3 DEF Types, Movements
<1>4. CASE k = 1
  BY <1>1, <1>2, <1>4 DEF Types, Movements
<1>5. CASE k = 2
  BY <1>1, <1>2, <1>5 DEF Types, Movements
<1>6. CASE k = 3
  BY <1>1, <1>2, <1>6 DEF Types, Movements
<1>7. CASE k = 4
  BY <1>1, <1>2, <1>7 DEF Types, Movements
<1>8. QED
  BY <1>1, <1>3, <1>4, <1>5, <1>6, <1>7

\* Two beats that differ in a primary and in a secondary dimension.
Differ(a, b) == a.type # b.type /\ (a.movement # b.movement \/ a.purpose # b.purpose)

\* Neighbours differ in every authored arc.
LEMMA AuthoredVary ==
  ASSUME NEW n \in {3, 5, 6}, NEW i \in 1..(n - 1)
  PROVE  Differ(Authored[n][i], Authored[n][i + 1])
<1> USE DEF Authored, Differ, Opening, Ending, Medium, CloseUp, Beat
<1>1. CASE n = 3
  <2>1. i \in {1, 2}
    BY <1>1
  <2>2. QED BY <1>1, <2>1
<1>2. CASE n = 5
  <2>1. i \in {1, 2, 3, 4}
    BY <1>2
  <2>2. QED BY <1>2, <2>1
<1>3. CASE n = 6
  <2>1. i \in {1, 2, 3, 4, 5}
    BY <1>3
  <2>2. QED BY <1>3, <2>1
<1>4. QED BY <1>1, <1>2, <1>3

\* And so they do in a synthesized one.
LEMMA SynthesizedVary ==
  ASSUME NEW n \in Positive, n # 1, NEW i \in 1..(n - 1)
  PROVE  Differ(Synthesized(n)[i], Synthesized(n)[i + 1])
<1> DEFINE beat(j) == Beat(InTurn(Types, j), InTurn(Cameras, j), InTurn(Movements, j),
                           "beat " \o ToString(j), "subject", InTurn(Transitions, j))
           middle == [j \in 1..(n - 2) |-> beat(j)]
           last == Ending("still")
           S == {middle[j] : j \in 1..(n - 2)} \cup {Opening, last}
           arc == Synthesized(n)
<1>1. \A j \in 1..(n - 2) : /\ middle[j].type = InTurn(Types, j)
                            /\ middle[j].movement = InTurn(Movements, j)
  BY DEF Beat
<1>2. middle \in Seq(S) /\ Len(middle) = n - 2
  <2> HIDE DEF beat
  <2>1. n - 2 \in Nat
    BY DEF Positive
  <2>2. QED BY <2>1
<1>3. arc = <<Opening>> \o middle \o <<last>>
  BY DEF Synthesized
<1>4. <<Opening>> \in Seq(S) /\ <<last>> \in Seq(S)
  <2> HIDE DEF middle
  <2>1. QED OBVIOUS
<1>5. /\ Opening.type = "establishing" /\ Opening.movement = "still" /\ Opening.purpose = "arrival"
      /\ last.type = "ending" /\ last.movement = "still" /\ last.purpose = "resolution"
  BY DEF Opening, Ending, Beat
<1>6. \A j \in 1..(n - 2) : j \in Positive /\ (j < n - 2 => j + 1 \in 1..(n - 2))
  BY DEF Positive
<1> HIDE DEF S, middle, last, arc
<1>7. /\ arc[1] = Opening /\ arc[n] = last
      /\ \A j \in 1..(n - 2) : arc[j + 1] = middle[j]
  <2>1. /\ <<Opening>> \o middle \in Seq(S) /\ Len(<<Opening>> \o middle) = n - 1
        /\ (<<Opening>> \o middle)[1] = Opening
        /\ \A j \in 1..(n - 2) : (<<Opening>> \o middle)[j + 1] = middle[j]
    BY <1>2, <1>4 DEF Positive
  <2>2. QED BY <1>3, <1>4, <2>1 DEF Positive
<1>8. CASE i = 1
  <2>1. CASE n = 2
    BY <1>5, <1>7, <1>8, <2>1 DEF Differ, arc
  <2>2. CASE n # 2
    <3>1. 1 \in 1..(n - 2)
      BY <2>2 DEF Positive
    <3>2. arc[2] = middle[1]
      BY <1>7, <3>1
    <3>3. middle[1].type # "establishing" /\ middle[1].movement # "still"
      BY <1>1, <1>6, <3>1, PoolsVary
    <3>4. QED BY <1>5, <1>7, <1>8, <3>2, <3>3 DEF Differ, arc
  <2>3. QED BY <2>1, <2>2 DEF arc
<1>9. CASE i # 1
  <2> DEFINE j == i - 1
  <2>1. j \in 1..(n - 2) /\ arc[i] = middle[j]
    BY <1>7, <1>9 DEF Positive
  <2>2. CASE j = n - 2
    <3>1. arc[i + 1] = last
      <4>1. i + 1 = n
        BY <2>2 DEF Positive
      <4>2. QED BY <1>7, <4>1
    <3>2. middle[j].type # "ending" /\ middle[j].movement # "still"
      BY <1>1, <1>6, <2>1, PoolsVary
    <3>3. QED BY <1>5, <2>1, <3>1, <3>2 DEF Differ, arc
  <2>3. CASE j # n - 2
    <3>1. j + 1 \in 1..(n - 2) /\ j + 1 = i
      BY <2>1, <2>3 DEF Positive
    <3>2. arc[i + 1] = middle[j + 1]
      BY <1>7, <3>1
    <3>3. /\ middle[j].type # middle[j + 1].type
          /\ middle[j].movement # middle[j + 1].movement
      BY <1>1, <1>6, <2>1, <3>1, PoolsVary
    <3>4. QED BY <2>1, <3>2, <3>3 DEF Differ, arc
  <2>4. QED BY <2>2, <2>3
<1>10. QED BY <1>8, <1>9

\* What division and rounding of a whole number come to.
LEMMA RoundedParts ==
  ASSUME NEW a \in Int, NEW n \in Positive
  PROVE  \E q \in Int, r \in 0..(n - 1) :
           /\ a = n * q + r /\ r = a % n
           /\ Rounded(a, n) = IF 2 * r > n \/ (2 * r = n /\ q % 2 = 1) THEN q + 1 ELSE q
<1> DEFINE q == a \div n
           r == a % n
<1>1. n \in Nat /\ n > 0
  BY DEF Positive
<1>2. r = a - n * q
  BY <1>1, Z3T(30)
<1>3. q \in Int /\ r \in 0..(n - 1)
  BY <1>1
<1>4. Rounded(a, n) = IF 2 * r > n \/ (2 * r = n /\ q % 2 = 1) THEN q + 1 ELSE q
  BY DEF Rounded
<1>5. r = a % n
  OBVIOUS
<1> HIDE DEF q, r
<1>6. n * q \in Int
  BY <1>1, <1>3
<1>7. a = n * q + r
  BY <1>2, <1>3, <1>6
<1>8. QED BY <1>3, <1>4, <1>5, <1>7

\* Of which division alone is this.
LEMMA Divides ==
  ASSUME NEW a \in Int, NEW n \in Positive
  PROVE  \E q \in Int, r \in 0..(n - 1) : a = n * q + r /\ r = a % n
<1>1. PICK q \in Int, r \in 0..(n - 1) :
        /\ a = n * q + r /\ r = a % n
        /\ Rounded(a, n) = IF 2 * r > n \/ (2 * r = n /\ q % 2 = 1) THEN q + 1 ELSE q
  BY RoundedParts
<1>2. QED BY <1>1

\* Of two numbers that are a whole step apart, or more, the quotients are too.
LEMMA QuotientsApart ==
  ASSUME NEW n \in Positive, NEW p \in Int, NEW q \in Int, n * q - n * p > 0
  PROVE  q >= p + 1
<1>1. n \in Nat /\ n > 0
  BY DEF Positive
<1>2. SUFFICES ASSUME q <= p PROVE FALSE
  OBVIOUS
<1> DEFINE d == p - q
<1>3. d \in Nat /\ n * p = n * q + n * d /\ n * d >= 0 /\ n * p \in Int /\ n * q \in Int
  BY <1>1, <1>2
<1> HIDE DEF d
<1> DEFINE np == n * p
           nq == n * q
           nd == n * d
<1>4. nq - np > 0 /\ np = nq + nd /\ nd >= 0 /\ np \in Int /\ nq \in Int /\ nd \in Int
  BY <1>1, <1>3
<1> HIDE DEF np, nq, nd
<1>5. QED BY <1>4

\* Rounding keeps the order of numbers.
LEMMA RoundedGrows ==
  ASSUME NEW n \in Positive, NEW a \in Int, NEW b \in Int, a <= b
  PROVE  /\ Rounded(a, n) \in Int /\ Rounded(b, n) \in Int
         /\ Rounded(a, n) <= Rounded(b, n)
<1>1. PICK q \in Int, r \in 0..(n - 1) :
        /\ a = n * q + r
        /\ Rounded(a, n) = IF 2 * r > n \/ (2 * r = n /\ q % 2 = 1) THEN q + 1 ELSE q
  BY RoundedParts
<1>2. PICK u \in Int, v \in 0..(n - 1) :
        /\ b = n * u + v
        /\ Rounded(b, n) = IF 2 * v > n \/ (2 * v = n /\ u % 2 = 1) THEN u + 1 ELSE u
  BY RoundedParts
<1>3. n \in Nat /\ n > 0 /\ n * q \in Int /\ n * u \in Int
  BY DEF Positive
<1>4. u >= q
  <2>1. n * (u + 1) = n * u + n /\ n * (u + 1) \in Int
    BY <1>3
  <2>2. n * (u + 1) - n * q > 0
    BY <1>1, <1>2, <1>3, <2>1
  <2>3. QED BY <2>2, QuotientsApart
<1>5. CASE u = q
  <2>1. r <= v
    BY <1>1, <1>2, <1>3, <1>5
  <2>2. QED BY <1>1, <1>2, <1>3, <1>5, <2>1
<1>6. CASE u > q
  BY <1>1, <1>2, <1>3, <1>6
<1>7. QED BY <1>1, <1>2, <1>3, <1>4, <1>5, <1>6

\* A quotient of more than one, or of one from a whole number on, moves what is rounded.
LEMMA RoundedAdvances ==
  ASSUME NEW n \in Positive, NEW a \in Int, NEW b \in Int,
         b > a + n \/ (b = a + n /\ a % n = 0)
  PROVE  Rounded(a, n) < Rounded(b, n)
<1>1. PICK q \in Int, r \in 0..(n - 1) :
        /\ a = n * q + r /\ r = a % n
        /\ Rounded(a, n) = IF 2 * r > n \/ (2 * r = n /\ q % 2 = 1) THEN q + 1 ELSE q
  BY RoundedParts
<1>2. PICK u \in Int, v \in 0..(n - 1) :
        /\ b = n * u + v /\ v = b % n
        /\ Rounded(b, n) = IF 2 * v > n \/ (2 * v = n /\ u % 2 = 1) THEN u + 1 ELSE u
  BY RoundedParts
<1>3. n \in Nat /\ n > 0 /\ n * q \in Int /\ n * u \in Int
  BY DEF Positive
<1>4. n * (q + 1) = n * q + n /\ n * (u + 1) = n * u + n
  BY <1>3
<1>5. u >= q + 1
  <2>1. n * (u + 1) - n * (q + 1) > 0
    BY <1>1, <1>2, <1>3, <1>4
  <2>2. QED BY <2>1, QuotientsApart
<1>6. CASE u = q + 1
  <2>1. v > r \/ (v = r /\ r = 0)
    BY <1>1, <1>2, <1>3, <1>4, <1>6
  <2>2. QED BY <1>1, <1>2, <1>3, <1>6, <2>1
<1>7. CASE u > q + 1
  BY <1>1, <1>2, <1>3, <1>7
<1>8. QED BY <1>3, <1>5, <1>6, <1>7

\* Whole quotients are what they are.
LEMMA RoundedWhole ==
  ASSUME NEW n \in Positive, NEW k \in Int
  PROVE  (n * k) % n = 0 /\ Rounded(n * k, n) = k
<1>1. n \in Nat /\ n > 0 /\ n * k \in Int
  BY DEF Positive
<1>2. PICK q \in Int, r \in 0..(n - 1) :
        /\ n * k = n * q + r /\ r = (n * k) % n
        /\ Rounded(n * k, n) = IF 2 * r > n \/ (2 * r = n /\ q % 2 = 1) THEN q + 1 ELSE q
  BY <1>1, RoundedParts
<1>3. n * q \in Int /\ n * (q + 1) = n * q + n /\ n * (q + 1) \in Int
  BY <1>1
<1>4. ~(k >= q + 1)
  <2>1. SUFFICES ASSUME k >= q + 1 PROVE FALSE
    OBVIOUS
  <2>2. n * (q + 1) - n * k > 0
    BY <1>1, <1>2, <1>3
  <2>3. q + 1 >= k + 1
    BY <2>2, QuotientsApart
  <2>4. QED BY <2>1, <2>3
<1>5. ~(k < q)
  <2>1. SUFFICES ASSUME k < q PROVE FALSE
    OBVIOUS
  <2>2. PICK d \in Nat : q = k + 1 + d
    <3>1. q - (k + 1) \in Nat /\ q = k + 1 + (q - (k + 1))
      BY <2>1
    <3>2. QED BY <3>1
  <2>3. n * q = n * k + n + n * d /\ n * d \in Nat
    BY <1>1, <2>2
  <2>4. QED BY <1>1, <1>2, <2>3
<1>6. q = k /\ r = 0
  BY <1>1, <1>2, <1>3, <1>4, <1>5
<1>7. QED BY <1>1, <1>2, <1>6

\* A duration divided into n and rounded is off by half a unit at most.
LEMMA RoundedNear ==
  ASSUME NEW c \in Nat, NEW n \in Positive
  PROVE  2 * (n * Rounded(c, n)) \in (2 * c - n)..(2 * c + n)
<1>1. n \in Nat /\ n > 0
  BY DEF Positive
<1>2. PICK q \in Int, r \in 0..(n - 1) :
        /\ c = n * q + r
        /\ Rounded(c, n) = IF 2 * r > n \/ (2 * r = n /\ q % 2 = 1) THEN q + 1 ELSE q
  BY RoundedParts
<1>3. n * (q + 1) = n * q + n /\ n * q \in Int
  BY <1>1
<1> DEFINE nq == n * q
<1>4. /\ nq = c - r /\ nq \in Int
      /\ \/ 2 * (n * Rounded(c, n)) = 2 * nq /\ 2 * r <= n
         \/ 2 * (n * Rounded(c, n)) = 2 * (nq + n) /\ 2 * r >= n
  <2>1. CASE 2 * r > n \/ (2 * r = n /\ q % 2 = 1)
    BY <1>1, <1>2, <1>3, <2>1
  <2>2. CASE ~(2 * r > n \/ (2 * r = n /\ q % 2 = 1))
    BY <1>1, <1>2, <1>3, <2>2
  <2>3. QED BY <2>1, <2>2
<1> HIDE DEF nq
<1>5. QED
  BY <1>1, <1>4

\* A prompt has a part, whatever is in it.
LEMMA PartsAsked ==
  ASSUME NEW p \in Prompt, NEW count \in Positive
  PROVE  PartsOf(p, count) \in Positive
<1>1. p.sentences \in Nat /\ p.clauses \in Nat
  BY RequestAssumption
<1>2. QED
  BY <1>1 DEF PartsOf, AtLeast, Positive

\* Where a part of a prompt of n parts falls among c shots, which are no more.
Edge(n, c, i) == Rounded(i * n, c)

\* The bounds of the shots advance from the first part to the last.
LEMMA EdgesAdvance ==
  ASSUME NEW c \in Positive, NEW n \in Positive, n >= c
  PROVE  /\ \A i \in 0..c : Edge(n, c, i) \in Int
         /\ Edge(n, c, 0) = 0 /\ Edge(n, c, c) = n
         /\ \A i \in 1..c : Edge(n, c, i - 1) < Edge(n, c, i)
         /\ \A i, j \in 0..c : i <= j => Edge(n, c, i) <= Edge(n, c, j)
<1>1. c \in Nat /\ n \in Nat /\ c > 0
  BY DEF Positive
<1>2. \A i \in 0..c : i * n \in Int
  BY <1>1
<1>3. \A i \in 0..c : Edge(n, c, i) \in Int
  BY <1>2, RoundedGrows DEF Edge
<1>4. Edge(n, c, 0) = 0
  <2>1. 0 * n = c * 0
    BY <1>1
  <2>2. Rounded(c * 0, c) = 0
    BY RoundedWhole
  <2>3. QED BY <2>1, <2>2 DEF Edge
<1>5. Edge(n, c, c) = n
  BY <1>1, RoundedWhole DEF Edge
<1>6. ASSUME NEW i \in 1..c
      PROVE  Edge(n, c, i - 1) < Edge(n, c, i)
  <2>1. i - 1 \in Int /\ i * n = (i - 1) * n + n /\ i * n \in Int /\ (i - 1) * n \in Int
    BY <1>1
  <2>2. ((i - 1) * n) % c = 0 \/ n > c
    <3>1. CASE n = c
      <4>1. (i - 1) * n = c * (i - 1)
        BY <1>1, <3>1
      <4>2. (c * (i - 1)) % c = 0
        BY <2>1, RoundedWhole
      <4>3. QED BY <4>1, <4>2
    <3>2. QED BY <1>1, <3>1
  <2> DEFINE a == (i - 1) * n
             b == i * n
  <2>3. a \in Int /\ b \in Int /\ b = a + n /\ (a % c = 0 \/ n > c)
    BY <2>1, <2>2
  <2>4. Edge(n, c, i - 1) = Rounded(a, c) /\ Edge(n, c, i) = Rounded(b, c)
    BY DEF Edge
  <2> HIDE DEF a, b
  <2>5. b > a + c \/ (b = a + c /\ a % c = 0)
    BY <1>1, <2>3
  <2>6. QED BY <2>3, <2>4, <2>5, RoundedAdvances
<1>7. ASSUME NEW i \in 0..c, NEW j \in 0..c, i <= j
      PROVE  Edge(n, c, i) <= Edge(n, c, j)
  <2>1. PICK d \in Nat : j = i + d
    <3>1. j - i \in Nat /\ j = i + (j - i)
      BY <1>7
    <3>2. QED BY <3>1
  <2>2. j * n = i * n + d * n /\ d * n >= 0 /\ i * n \in Int /\ j * n \in Int /\ d * n \in Int
    BY <1>1, <2>1
  <2>3. i * n <= j * n
    BY <2>2
  <2>4. QED BY <2>2, <2>3, RoundedGrows DEF Edge
<1>8. QED
  BY <1>3, <1>4, <1>5, <1>6, <1>7

\* So every part is within the bounds of a shot.
LEMMA EdgesCover ==
  ASSUME NEW c \in Positive, NEW n \in Positive, n >= c, NEW part \in 1..n
  PROVE  \E i \in 1..c : part \in (Edge(n, c, i - 1) + 1)..Edge(n, c, i)
<1>1. c \in Nat /\ n \in Nat /\ c > 0 /\ n > 0 /\ part \in Nat /\ part > 0
  BY DEF Positive
<1>2. PICK m \in Int, r \in 0..(n - 1) : c * part = n * m + r
  <2>1. c * part \in Int
    BY <1>1
  <2>2. QED BY <2>1, RoundedParts
<1>3. n * m \in Int /\ n * (m + 1) = n * m + n /\ n * (m + 1) \in Int /\ c * part \in Int
  BY <1>1
<1>4. m >= 0
  <2>1. c * part >= 0
    BY <1>1
  <2>2. n * (m + 1) - n * 0 > 0
    BY <1>1, <1>2, <1>3, <2>1
  <2>3. m + 1 >= 0 + 1
    BY <2>2, QuotientsApart
  <2>4. QED BY <2>3
<1>5. m <= c
  <2>1. PICK d \in Nat : n = part + d
    <3>1. n - part \in Nat /\ n = part + (n - part)
      BY <1>1
    <3>2. QED BY <3>1
  <2>2. n * c = c * part + c * d /\ c * d >= 0 /\ n * c \in Int /\ c * d \in Int
    BY <1>1, <2>1
  <2>3. n * (c + 1) = n * c + n
    BY <1>1
  <2>4. n * (c + 1) - n * m > 0
    BY <1>1, <1>2, <1>3, <2>2, <2>3
  <2>5. c + 1 >= m + 1
    BY <1>1, <2>4, QuotientsApart
  <2>6. QED BY <1>1, <2>5
<1>6. m \in 0..c
  BY <1>1, <1>4, <1>5
<1>7. Rounded(c * part, c) = part
  BY <1>1, RoundedWhole
<1>8. Edge(n, c, m) <= part
  <2>1. m * n = n * m
    BY <1>1
  <2>2. m * n <= c * part /\ m * n \in Int
    BY <1>2, <1>3, <2>1
  <2>3. QED BY <1>3, <1>7, <2>2, RoundedGrows DEF Edge
<1>9. CASE Edge(n, c, m) = part
  <2>1. m # 0
    BY <1>1, <1>9, EdgesAdvance
  <2>2. m \in 1..c
    BY <1>6, <2>1
  <2>3. Edge(n, c, m - 1) < Edge(n, c, m) /\ Edge(n, c, m - 1) \in Int
    <3>1. m - 1 \in 0..c
      BY <1>1, <2>2
    <3>2. QED BY <2>2, <3>1, EdgesAdvance
  <2>4. part \in (Edge(n, c, m - 1) + 1)..Edge(n, c, m)
    BY <1>1, <1>9, <2>3
  <2>5. QED BY <2>2, <2>4
<1>10. CASE Edge(n, c, m) < part
  <2>1. m # c
    <3>1. Edge(n, c, c) = n
      BY EdgesAdvance
    <3>2. QED BY <1>1, <1>10, <3>1
  <2>2. m + 1 \in 1..c /\ (m + 1) - 1 = m
    BY <1>1, <1>6, <2>1
  <2>3. (m + 1) * n = n * (m + 1)
    BY <1>1
  <2>4. c * part <= (m + 1) * n /\ (m + 1) * n \in Int
    BY <1>1, <1>2, <1>3, <2>3
  <2>5. part <= Edge(n, c, m + 1) /\ Edge(n, c, m + 1) \in Int
    BY <1>3, <1>7, <2>4, RoundedGrows DEF Edge
  <2>6. Edge(n, c, m) \in Int
    BY <1>6, EdgesAdvance
  <2>7. part \in (Edge(n, c, (m + 1) - 1) + 1)..Edge(n, c, m + 1)
    BY <1>1, <1>10, <2>2, <2>5, <2>6
  <2>8. QED BY <2>2, <2>7
<1>11. Edge(n, c, m) \in Int
  BY <1>6, EdgesAdvance
<1>12. QED
  BY <1>1, <1>8, <1>9, <1>10, <1>11

\* Of a prompt of no fewer parts than shots, a shot shows what is within its bounds.
LEMMA BeatsMany ==
  ASSUME NEW p \in Prompt, NEW c \in Positive, PartsOf(p, c) >= c, NEW i \in 1..c
  PROVE  LET n == PartsOf(p, c)
             show == Beats(p, c)[i]
         IN /\ ToSet(show) = (Edge(n, c, i - 1) + 1)..Edge(n, c, i)
            /\ \A k, l \in DOMAIN show : k < l => show[k] < show[l]
<1> DEFINE n == PartsOf(p, c)
           a == Edge(n, c, i - 1)
           b == Edge(n, c, i)
           show == Beats(p, c)[i]
<1>1. n \in Positive /\ c \in Nat
  BY PartsAsked DEF Positive
<1>2. show = [k \in 1..(b - a) |-> a + k]
  BY DEF Beats, Edge
<1>3. a \in Int /\ b \in Int
  <2>1. i - 1 \in 0..c /\ i \in 0..c
    BY <1>1
  <2>2. QED BY <1>1, <2>1, EdgesAdvance
<1> HIDE DEF a, b, show, n
<1>4. ToSet(show) = {a + k : k \in 1..(b - a)}
  BY <1>2 DEF ToSet
<1>5. {a + k : k \in 1..(b - a)} = (a + 1)..b
  <2>1. \A x \in (a + 1)..b : x - a \in 1..(b - a) /\ x = a + (x - a)
    BY <1>3
  <2>2. \A k \in 1..(b - a) : a + k \in (a + 1)..b
    BY <1>3
  <2>3. QED BY <2>1, <2>2
<1>6. \A k, l \in DOMAIN show : k < l => show[k] < show[l]
  <2>1. TAKE k, l \in DOMAIN show
  <2>2. k \in Int /\ l \in Int /\ show[k] = a + k /\ show[l] = a + l
    BY <1>2, <1>3
  <2>3. QED BY <1>3, <2>2
<1>7. QED
  BY <1>4, <1>5, <1>6 DEF a, b, n, show

\* If it has fewer, a shot shows one of them, in turn.
LEMMA BeatsFew ==
  ASSUME NEW p \in Prompt, NEW c \in Positive, PartsOf(p, c) < c, NEW i \in 1..c
  PROVE  Beats(p, c)[i] = <<((i - 1) % PartsOf(p, c)) + 1>>
<1>1. ~(PartsOf(p, c) >= c)
  BY PartsAsked DEF Positive
<1>2. QED BY <1>1 DEF Beats

\* Any plan keeps the prompt it was made from.
LEMMA BeatsKeep ==
  ASSUME NEW p \in Prompt, NEW c \in Positive,
         NEW made, Len(made) = c, DOMAIN made = 1..c,
         \A i \in 1..c : made[i].shows = Beats(p, c)[i]
  PROVE  Keeps(made, p)
<1> DEFINE n == PartsOf(p, c)
           shown(i) == ToSet(made[i].shows)
<1>1. n \in Positive /\ n \in Nat /\ n > 0 /\ c \in Nat /\ c > 0
  BY PartsAsked DEF Positive
<1>2. CASE n >= c
  <2>1. \A i \in 1..c :
          /\ shown(i) = (Edge(n, c, i - 1) + 1)..Edge(n, c, i)
          /\ \A k, l \in DOMAIN made[i].shows :
               k < l => made[i].shows[k] < made[i].shows[l]
    BY <1>2, BeatsMany
  <2>2. \A i \in 1..c : i - 1 \in 0..c /\ i \in 0..c
    BY <1>1
  <2> HIDE DEF n, shown
  <2>3. /\ \A i \in 0..c : Edge(n, c, i) \in Int
        /\ Edge(n, c, 0) = 0 /\ Edge(n, c, c) = n
        /\ \A i \in 1..c : Edge(n, c, i - 1) < Edge(n, c, i)
        /\ \A i, j \in 0..c : i <= j => Edge(n, c, i) <= Edge(n, c, j)
    BY <1>1, <1>2, EdgesAdvance
  <2>4. \A i \in 1..c : shown(i) # {}
    <3> TAKE i \in 1..c
    <3>1. Edge(n, c, i) \in shown(i)
      BY <2>1, <2>2, <2>3
    <3>2. QED BY <3>1
  <2>5. \A i \in 1..c : shown(i) \subseteq 1..n
    <3> TAKE i \in 1..c
    <3>1. 0 <= Edge(n, c, i - 1) /\ Edge(n, c, i) <= n
      BY <1>1, <2>2, <2>3
    <3> DEFINE a == Edge(n, c, i - 1)
               b == Edge(n, c, i)
    <3>2. a \in Int /\ b \in Int /\ shown(i) = (a + 1)..b /\ 0 <= a /\ b <= n
      BY <2>1, <2>2, <2>3, <3>1
    <3> HIDE DEF a, b
    <3>3. QED BY <1>1, <3>2
  <2>6. ASSUME NEW part \in 1..n
        PROVE  \E i \in 1..c : part \in shown(i)
    <3>1. PICK i \in 1..c : part \in (Edge(n, c, i - 1) + 1)..Edge(n, c, i)
      BY <1>1, <1>2, EdgesCover
    <3>2. QED BY <2>1, <3>1
  <2>7. UNION {shown(i) : i \in 1..c} = 1..n
    BY <2>5, <2>6
  <2>8. ASSUME NEW i \in 1..c, NEW j \in 1..c, i < j, NEW a \in shown(i), NEW b \in shown(j)
        PROVE  a < b
    <3>1. i <= j - 1 /\ j - 1 \in 0..c /\ i \in 0..c
      BY <2>2, <2>8
    <3>2. Edge(n, c, i) <= Edge(n, c, j - 1)
      BY <2>3, <3>1
    <3> DEFINE e == Edge(n, c, i)
               f == Edge(n, c, j - 1)
    <3>3. /\ e \in Int /\ f \in Int /\ Edge(n, c, j) \in Int /\ Edge(n, c, i - 1) \in Int
          /\ shown(i) = (Edge(n, c, i - 1) + 1)..e /\ shown(j) = (f + 1)..Edge(n, c, j)
      BY <2>1, <2>2, <2>3
    <3> HIDE DEF e, f
    <3>4. a \in Int /\ a <= e /\ b \in Int /\ b >= f + 1
      BY <2>8, <3>3
    <3>5. QED BY <3>2, <3>3, <3>4 DEF e, f
  <2>9. ~(n < c)
    BY <1>1, <1>2
  <2>10. QED
    BY <1>2, <2>1, <2>4, <2>7, <2>8, <2>9 DEF Keeps, n, shown
<1>3. CASE n < c
  <2>1. \A i \in 1..c : made[i].shows = <<((i - 1) % n) + 1>>
    BY <1>3, BeatsFew
  <2>2. \A i \in 1..c : DOMAIN made[i].shows = {1} /\ shown(i) = {((i - 1) % n) + 1}
    BY <2>1 DEF ToSet
  <2> HIDE DEF n, shown
  <2>3. \A i \in 1..c : ((i - 1) % n) + 1 \in 1..n
    BY <1>1
  <2>4. \A part \in 1..n : part \in 1..c /\ ((part - 1) % n) + 1 = part
    <3> TAKE part \in 1..n
    <3>1. part - 1 \in 0..(n - 1) /\ part \in 1..c
      BY <1>1, <1>3
    <3>2. (part - 1) % n = part - 1
      BY <1>1, <3>1, Z3T(30)
    <3>3. QED BY <3>1, <3>2
  <2>5. UNION {shown(i) : i \in 1..c} = 1..n
    BY <2>2, <2>3, <2>4
  <2>6. ASSUME NEW i \in 1..c, NEW j \in 1..c, i + 1 = j, NEW a \in shown(i)
        PROVE  shown(j) = {(a % n) + 1}
    <3> DEFINE m == (i - 1) % n
    <3>1. a = m + 1 /\ m \in 0..(n - 1) /\ shown(j) = {(i % n) + 1}
      <4>1. j - 1 = i /\ i \in Int
        BY <2>6
      <4>2. QED BY <1>1, <2>2, <2>6, <4>1
    <3>2. i % n = (m + 1) % n
      <4> i \in Int /\ i - 1 \in Int
        BY <1>1
      <4>1. PICK q \in Int : i - 1 = n * q + m
        <5>1. \E q \in Int, r \in 0..(n - 1) : i - 1 = n * q + r /\ r = (i - 1) % n
          BY <1>1, Divides
        <5>2. QED BY <5>1
      <4>2. i % n = IF m = n - 1 THEN 0 ELSE m + 1
        <5>1. CASE m = n - 1
          <6>0. PICK k \in Int : k = q + 1 /\ n * k = n * q + n /\ n * q \in Int
            BY <1>1
          <6>1. i = n * k
            BY <1>1, <3>1, <4>1, <5>1, <6>0
          <6>2. (n * k) % n = 0
            BY <1>1, RoundedWhole
          <6>3. QED BY <5>1, <6>1, <6>2
        <5>2. CASE m < n - 1
          <6>1. PICK u \in Int, r \in 0..(n - 1) : i = n * u + r /\ r = i % n
            BY <1>1, Divides
          <6> DEFINE nq == n * q
                     nu == n * u
          <6>2. /\ n * (u + 1) = nu + n /\ n * (q + 1) = nq + n
                /\ nq \in Int /\ nu \in Int
            BY <1>1
          <6>3. i = nq + m + 1 /\ i = nu + r
            BY <1>1, <3>1, <4>1, <6>1, <6>2
          <6>4. n * (u + 1) - n * q > 0 /\ n * (q + 1) - n * u > 0
            BY <1>1, <3>1, <5>2, <6>1, <6>2, <6>3
          <6>5. u + 1 >= q + 1 /\ q + 1 >= u + 1
            BY <1>1, <6>4, QuotientsApart
          <6>6. u = q
            BY <6>5
          <6>7. QED BY <1>1, <3>1, <5>2, <6>1, <6>2, <6>3, <6>6
        <5>3. QED BY <1>1, <3>1, <5>1, <5>2
      <4>3. (m + 1) % n = IF m = n - 1 THEN 0 ELSE m + 1
        <5>1. CASE m = n - 1
          <6>1. m + 1 = n * 1
            BY <1>1, <5>1
          <6>2. (n * 1) % n = 0
            BY <1>1, RoundedWhole
          <6>3. QED BY <5>1, <6>1, <6>2
        <5>2. CASE m < n - 1
          <6> HIDE DEF m
          <6>1. QED BY <1>1, <3>1, <5>2, Z3T(30)
        <5>3. QED BY <1>1, <3>1, <5>1, <5>2
      <4>4. QED BY <4>2, <4>3
    <3>3. QED BY <3>1, <3>2
  <2>7. \A i \in 1..c : shown(i) # {}
    BY <2>2
  <2>8. \A i \in 1..c : \A k, l \in DOMAIN made[i].shows :
          k < l => made[i].shows[k] < made[i].shows[l]
    BY <2>2
  <2>9. ~(n >= c)
    BY <1>1, <1>3
  <2>10. /\ \A i, j \in DOMAIN made : i + 1 = j /\ n < Len(made) =>
              \A a \in shown(i) : shown(j) = {(a % n) + 1}
         /\ ~(n >= Len(made))
    BY <2>6, <2>9
  <2>11. QED
    BY <2>5, <2>7, <2>8, <2>10 DEF Keeps, n, shown
<1>4. QED
  BY <1>1, <1>2, <1>3

\* Any plan is as PlanVaries says, and keeps its prompt.
LEMMA PlansVary ==
  ASSUME NEW p \in Prompt, NEW identity, NEW target \in Target, NEW perShot \in PerShot,
         NEW made, made = PlanOf(p, identity, target, perShot)
  PROVE  /\ GoodPlan(made) /\ Keeps(made, p)
         /\ \A i \in 1..(Len(made) - 1) : /\ Primary(made[i]) # Primary(made[i + 1])
                                          /\ Secondary(made[i]) # Secondary(made[i + 1])
         /\ 2 * (Len(made) * made[1].lasts)
              \in (2 * MinDuration - Len(made))..(2 * MaxDuration + Len(made))
<1> DEFINE n == ShotCount(target, perShot)
           arc == Arc(n)
           shot(i) == [id |-> ShotIds(arc)[i], shows |-> Beats(p, n)[i], beat |-> arc[i],
                       focus |-> Focus(identity, arc[i].focus),
                       lasts |-> Rounded(Clamped(target), n)]
           c == Clamped(target)
<1>1. n \in Positive /\ n \in Nat /\ 1 \in 1..n /\ DOMAIN arc = 1..n
  BY ShotsAsked, ArcIsAsked DEF Positive
<1>2. made = [i \in 1..n |-> shot(i)]
  BY DEF PlanOf
<1>3. \A i \in 1..n : /\ shot(i).id = ShotIds(arc)[i] /\ shot(i).beat = arc[i]
                     /\ shot(i).lasts = Rounded(c, n) /\ shot(i).shows = Beats(p, n)[i]
  OBVIOUS
<1>4. \A i \in 1..(n - 1) : Differ(arc[i], arc[i + 1])
  <2> TAKE i \in 1..(n - 1)
  <2> HIDE DEF n
  <2>1. CASE n \in {3, 5, 6}
    BY <2>1, AuthoredVary DEF Arc, Authored
  <2>2. CASE n \notin {3, 5, 6}
    <3>1. arc = Synthesized(n) /\ n # 1
      BY <2>2 DEF Arc, Authored
    <3>2. QED BY <1>1, <3>1, SynthesizedVary
  <2>3. QED BY <2>1, <2>2
<1> HIDE DEF shot, n, arc, c
<1>5. Len(made) = n /\ DOMAIN made = 1..n
  BY <1>1, <1>2
<1>6. \A i \in 1..n : /\ made[i].id = ShotIds(arc)[i] /\ made[i].beat = arc[i]
                     /\ made[i].lasts = Rounded(c, n) /\ made[i].shows = Beats(p, n)[i]
  BY <1>2, <1>3
<1>7. GoodPlan(made)
  BY <1>1, <1>5, <1>6, IdsDiffer DEF GoodPlan
<1>8. ASSUME NEW i \in 1..(n - 1)
      PROVE  /\ Primary(made[i]) # Primary(made[i + 1])
             /\ Secondary(made[i]) # Secondary(made[i + 1])
  <2>1. made[i].beat = arc[i] /\ made[i + 1].beat = arc[i + 1]
    BY <1>1, <1>6
  <2>2. Differ(made[i].beat, made[i + 1].beat)
    BY <1>4, <2>1
  <2>3. QED BY <2>2 DEF Differ, Primary, Secondary
<1>9. 2 * (Len(made) * made[1].lasts)
        \in (2 * MinDuration - Len(made))..(2 * MaxDuration + Len(made))
  <2>1. c \in Nat /\ c >= MinDuration /\ c <= MaxDuration
    BY RequestAssumption DEF c, Clamped, AtLeast, MinDuration, MaxDuration
  <2>2. 2 * (n * Rounded(c, n)) \in (2 * c - n)..(2 * c + n)
    BY <1>1, <2>1, RoundedNear
  <2>3. n * Rounded(c, n) = Len(made) * made[1].lasts
    BY <1>1, <1>5, <1>6
  <2>4. QED
    <3> DEFINE total == Len(made) * made[1].lasts
    <3>1. 2 * total \in (2 * c - n)..(2 * c + n)
      BY <2>2, <2>3
    <3> HIDE DEF total
    <3>2. 2 * total \in (2 * MinDuration - n)..(2 * MaxDuration + n)
      BY <1>1, <2>1, <3>1 DEF MinDuration, MaxDuration
    <3>3. QED BY <1>5, <3>2 DEF total
<1>10. Keeps(made, p)
  BY <1>1, <1>5, <1>6, BeatsKeep
<1>11. QED
  BY <1>5, <1>7, <1>8, <1>9, <1>10

\* The rows of the shots that are over.
Accepted == {i \in DOMAIN shots : shots[i].accepted}
Repaired == {i \in Accepted : shots[i].repairs > 0}

\* The seeds of the plan, and rows made of them.
SeedOfPlan == [id : {plan[i].id : i \in DOMAIN plan}, moved : Nat]
RowOfShot == [accepted : BOOLEAN, seed : SeedOfPlan, repairs : Nat]

PipelineTyped ==
  /\ DOMAIN run = {"pc", "shot", "attempt", "seed", "frames", "image"}
  /\ run.frames \in Seq(Image)
  /\ DOMAIN record = {"status", "video"}
  /\ emitted \in [Event -> Nat]
  /\ shots \in Seq(RowOfShot)
  /\ called \in Seq(SeedOfPlan)

FrameKeys(n) == {FrameKey(i) : i \in 1..n}

\* What is registered and what is stored, as far as the run has come.
Files(registered, stored_) == assets = registered /\ DOMAIN objects = stored_

FilesOfRun ==
  LET n == Len(shots)
  IN CASE run.pc = "registering" -> Files(FrameKeys(n), FrameKeys(n + 1))
       [] run.pc = "recording" -> Files(FrameKeys(n + 1), FrameKeys(n + 1))
       [] run.pc \in {"rendered", "exporting"} -> Files(FrameKeys(n), FrameKeys(n) \cup {VideoKey})
       [] run.pc = "completing" ->
            Files(FrameKeys(n) \cup {VideoKey}, FrameKeys(n) \cup {VideoKey})
       [] OTHER -> Files(FrameKeys(n), FrameKeys(n))

\* Every shot so far was accepted, and its frame is the stored one and passes.
FramesPass ==
  /\ Len(run.frames) = Len(shots)
  /\ \A i \in DOMAIN shots :
       /\ shots[i].accepted
       /\ objects[FrameKey(i)] = run.frames[i]
       /\ Failures(run.frames[i], IF i = 1 THEN Absent ELSE run.frames[1]) = {}

BeforeShots == {"claimed", "planned", "resolving", "resolved"}
Filing == {"putting", "registering", "recording"}
InShot == Filing \cup {"shooting", "rejecting"}
VideoStored == {"rendered", "exporting", "completing"}
AfterShots == VideoStored \cup {"assembling", "rendering"}

\* A run that has not come to its shots has left nothing.
NothingYet == shots = <<>> /\ called = <<>> /\ run.frames = <<>>

\* The shot under way follows those on record, and its attempts have taken its seed further
\* each time: the images made for it are of lower ones.
ShotUnderWay ==
  LET calls == Calls(run.shot)
  IN /\ run.shot = Len(shots) + 1 /\ run.shot \in DOMAIN plan
     /\ run.attempt \in 1..MaxAttempts
     /\ run.seed \in SeedOfPlan /\ run.seed.id = plan[run.shot].id
     /\ run.pc = "shooting" => /\ Cardinality(calls) = run.attempt - 1
                               /\ \A c \in calls : called[c].moved < run.seed.moved
     /\ run.pc # "shooting" => Cardinality(calls) = run.attempt

\* The image that is filed passes against the first frame, and is the stored one once it
\* has been put.
ImagePasses ==
  /\ run.image \in Image /\ Failures(run.image, Reference(run.frames)) = {}
  /\ run.pc # "putting" => objects[FrameKey(run.shot)] = run.image

PipelineInv ==
  /\ PipelineTyped
  /\ RunsAreSound
  /\ record.status = "completed" => run.pc = "ended"
  /\ run.pc \in BeforeShots => NothingYet
  /\ run.pc \in BeforeShots \cup InShot \cup AfterShots => FilesOfRun
  /\ run.pc \in (BeforeShots \ {"claimed"}) \cup InShot \cup AfterShots => GoodPlan(plan)
  /\ run.pc \in InShot \cup AfterShots => FramesPass
  /\ run.pc \in InShot => ShotUnderWay
  /\ run.pc \in Filing => ImagePasses
  /\ run.pc \in AfterShots => Len(shots) = Len(plan) /\ TimelineHolds(run.frames)
  /\ run.pc \in VideoStored => objects[VideoKey] = run.frames

\* The property, part by part.
RejectedIsLast ==
  \A i \in DOMAIN shots \ Accepted : i = Len(shots) /\ record.status # "completed"
EventsTell ==
  /\ emitted["shot_generated"] = Cardinality(Accepted)
  /\ emitted["repair_succeeded"] = Cardinality(Repaired)
  /\ emitted["verification_failed"] = Cardinality(DOMAIN shots \ Accepted)
ShotsIn(keys) == {key.shot : key \in keys \ {VideoKey}}
FilesTell(accepted, registered, kept) ==
  /\ accepted \subseteq ShotsIn(registered)
  /\ Cardinality(ShotsIn(registered) \ accepted) <= 1
  /\ registered \subseteq kept /\ Cardinality(kept \ registered) <= 1

\* What the tables tell is the rejected row, the events and the files.
LEMMA RowsParts ==
  RowsTellRun
    <=> RejectedIsLast /\ EventsTell /\ FilesTell(Accepted, assets, DOMAIN objects)
BY DEF RowsTellRun, RejectedIsLast, EventsTell, FilesTell, ShotsIn, Accepted, Repaired

\* A step that leaves plan, rows of shots, files, events and images alone, and completes
\* nothing, leaves the properties as they were.
LEMMA QuietStep ==
  ASSUME RunsAreSound, UNCHANGED <<plan, shots, assets, objects, emitted, called>>,
         record' = record \/ record'.status # "completed"
  PROVE  RunsAreSound'
<1>1. CompletedIsSound'
  <2>1. CASE record' = record
    BY <2>1 DEF RunsAreSound, CompletedIsSound, Frame
  <2>2. CASE record'.status # "completed"
    BY <2>2 DEF CompletedIsSound
  <2>3. QED BY <2>1, <2>2
<1>2. RowsTellRun'
  <2>1. RejectedIsLast /\ EventsTell /\ FilesTell(Accepted, assets, DOMAIN objects)
    BY RowsParts DEF RunsAreSound
  <2>2. RejectedIsLast'
    BY <2>1 DEF RejectedIsLast, Accepted
  <2>3. EventsTell'
    BY <2>1 DEF EventsTell, Accepted, Repaired
  <2>4. FilesTell(Accepted, assets, DOMAIN objects)'
    BY <2>1 DEF FilesTell, ShotsIn, Accepted
  <2>5. QED BY <2>2, <2>3, <2>4, RowsParts, PTL
<1>3. EveryImageCounts'
  BY DEF RunsAreSound, EveryImageCounts, Calls, ImagesOf
<1>4. PlanKeepsPrompt' /\ PlanVaries'
  BY DEF RunsAreSound, PlanKeepsPrompt, PlanVaries
<1>5. QED
  BY <1>1, <1>2, <1>3, <1>4 DEF RunsAreSound

\* Keys of frames are told apart by their shot, and from the video's.
LEMMA KeysDiffer ==
  /\ \A i, j : FrameKey(i) = FrameKey(j) => i = j
  /\ \A i : FrameKey(i) # VideoKey /\ FrameKey(i).shot = i
BY DEF FrameKey, VideoKey

\* The files of a run that is under way: of the accepted shots, at most one more frame
\* that is registered or the video, and at most one object more that is not.
LEMMA FilesUnderWay ==
  ASSUME NEW n \in Nat, NEW m \in {n, n + 1}, NEW more \in SUBSET {VideoKey}, NEW key,
         NEW registered, registered = FrameKeys(m) \cup more,
         NEW kept, kept \in {registered, registered \cup {key}}
  PROVE  FilesTell(1..n, registered, kept)
<1>1. ShotsIn(registered) = 1..m
  <2>1. registered \ {VideoKey} = FrameKeys(m)
    BY KeysDiffer DEF FrameKeys
  <2>2. ASSUME NEW i PROVE i \in ShotsIn(registered) <=> i \in 1..m
    <3>1. i \in ShotsIn(registered) <=> \E k \in FrameKeys(m) : i = k.shot
      BY <2>1 DEF ShotsIn
    <3>2. QED BY <3>1, KeysDiffer DEF FrameKeys
  <2>3. QED BY <2>2
<1>2. ASSUME NEW S, NEW x, S \subseteq {x} PROVE Cardinality(S) <= 1
  <2>1. S = {} \/ S = {x}
    BY <1>2
  <2>2. Cardinality({}) = 0 /\ Cardinality({x}) = 1
    BY FS_EmptySet, FS_Singleton
  <2>3. QED BY <2>1, <2>2
<1>3. (1..m) \ (1..n) \subseteq {n + 1} /\ 1..n \subseteq 1..m
  OBVIOUS
<1>4. kept \ registered \subseteq {key} /\ registered \subseteq kept
  OBVIOUS
<1>5. QED
  BY <1>1, <1>2, <1>3, <1>4 DEF FilesTell

\* A step of the run that moves it on leaves the rest of what it keeps.
LEMMA MovedOn ==
  ASSUME PipelineTyped, NEW l, MoveTo(l)
  PROVE  /\ DOMAIN run' = DOMAIN run /\ run'.pc = l
         /\ run'.shot = run.shot /\ run'.attempt = run.attempt /\ run'.seed = run.seed
         /\ run'.frames = run.frames /\ run'.image = run.image
BY DEF PipelineTyped, MoveTo

\* So does what is written of its status.
LEMMA StatusSaved ==
  ASSUME PipelineTyped, NEW s, SaveStatus(s)
  PROVE  DOMAIN record' = DOMAIN record /\ record'.status = s
BY DEF PipelineTyped, SaveStatus

\* The invariant holds at first.
LEMMA PipelineStarts == PipelineInit => PipelineInv
<1> SUFFICES ASSUME PipelineInit PROVE PipelineInv
  OBVIOUS
<1> USE DEF PipelineInit
<1>1. /\ run.pc = "claimed" /\ run.frames = <<>> /\ record.status = "planning"
      /\ DOMAIN shots = {} /\ DOMAIN objects = {} /\ DOMAIN called = {}
      /\ Len(shots) = 0 /\ assets = {} /\ called = <<>> /\ shots = <<>>
  OBVIOUS
<1>2. PipelineTyped
  BY DEF PipelineTyped
<1>3. Accepted = {} /\ Repaired = {}
  BY <1>1 DEF Accepted, Repaired
<1>4. FrameKeys(0) = {}
  BY DEF FrameKeys
<1>5. RunsAreSound
  <2>1. CompletedIsSound
    BY <1>1 DEF CompletedIsSound
  <2>2. EventsTell
    <3>1. emitted["shot_generated"] = 0 /\ emitted["repair_succeeded"] = 0
            /\ emitted["verification_failed"] = 0
      BY DEF Event
    <3>2. Cardinality({}) = 0
      BY FS_EmptySet
    <3>3. QED BY <1>1, <1>3, <3>1, <3>2 DEF EventsTell
  <2>3. FilesTell(Accepted, assets, DOMAIN objects)
    <3>1. FilesTell(1..0, FrameKeys(0) \cup {}, FrameKeys(0) \cup {})
      BY FilesUnderWay
    <3>2. 1..0 = {}
      OBVIOUS
    <3>3. QED BY <1>1, <1>3, <1>4, <3>1, <3>2
  <2>4. RejectedIsLast
    BY <1>1 DEF RejectedIsLast
  <2>5. EveryImageCounts
    BY <1>1 DEF EveryImageCounts, IsInjective
  <2>6. PlanKeepsPrompt /\ PlanVaries
    BY DEF PlanKeepsPrompt, PlanVaries
  <2>7. QED BY <2>1, <2>2, <2>3, <2>4, <2>5, <2>6, RowsParts DEF RunsAreSound
<1>6. NothingYet
  BY <1>1 DEF NothingYet
<1>7. FilesOfRun
  BY <1>1, <1>4 DEF FilesOfRun, Files
<1>8. QED
  BY <1>1, <1>2, <1>5, <1>6, <1>7
     DEF PipelineInv, BeforeShots, InShot, Filing, AfterShots, VideoStored

\* The properties do not depend on where the run is, and nothing else is kept of one that
\* is over or about to fail.
LEMMA StopKeeps ==
  ASSUME PipelineInv, NEW l \in {"failing", "ended"}, MoveTo(l),
         UNCHANGED <<plan, shots, assets, objects, emitted, called>>,
         DOMAIN record' = DOMAIN record,
         record' = record \/ record'.status # "completed",
         record'.status = "completed" => l = "ended"
  PROVE  PipelineInv'
<1>1. run'.pc = l /\ run'.frames = run.frames /\ DOMAIN run' = DOMAIN run
  BY MovedOn DEF PipelineInv
<1>2. PipelineTyped'
  BY <1>1 DEF PipelineInv, PipelineTyped, RowOfShot, SeedOfPlan
<1>3. RunsAreSound'
  BY QuietStep DEF PipelineInv
<1>4. QED
  BY <1>1, <1>2, <1>3 DEF PipelineInv, BeforeShots, InShot, Filing, AfterShots, VideoStored

\* Of a step that changes the place of the run at most, the invariant asks what it asked of
\* the place before.
LEMMA PlaceKeeps ==
  ASSUME PipelineInv, UNCHANGED <<plan, shots, assets, objects, emitted, called>>,
         DOMAIN run' = DOMAIN run, run'.frames = run.frames,
         DOMAIN record' = DOMAIN record, record' = record \/ record'.status # "completed",
         \/ run.pc \in BeforeShots /\ run'.pc \in BeforeShots \ {"claimed"} /\ GoodPlan(plan)
         \/ run.pc = "assembling" /\ run'.pc = "rendering"
         \/ run.pc = "rendered" /\ run'.pc = "exporting"
  PROVE  PipelineInv'
<1>1. PipelineTyped'
  BY DEF PipelineInv, PipelineTyped, RowOfShot, SeedOfPlan
<1>2. RunsAreSound'
  BY QuietStep DEF PipelineInv
<1>3. record.status # "completed"
  BY DEF PipelineInv, BeforeShots
<1>4. FilesOfRun'
  <2>1. FilesOfRun
    BY DEF PipelineInv, AfterShots, VideoStored
  <2>2. QED
    BY <2>1 DEF FilesOfRun, Files, FrameKeys, BeforeShots
<1> USE DEF BeforeShots, InShot, Filing, AfterShots, VideoStored
<1>5. CASE run.pc \in BeforeShots
  <2>1. NothingYet'
    BY <1>5 DEF PipelineInv, NothingYet
  <2>2. GoodPlan(plan)'
    BY <1>5 DEF GoodPlan
  <2>3. QED
    BY <1>1, <1>2, <1>3, <1>4, <1>5, <2>1, <2>2 DEF PipelineInv
<1>6. CASE run.pc \notin BeforeShots
  <2>1. run.pc \in AfterShots /\ run'.pc \in AfterShots /\ run'.pc \notin BeforeShots \cup InShot
    BY <1>6
  <2>2. FramesPass'
    BY <2>1 DEF PipelineInv, FramesPass
  <2>3. GoodPlan(plan)'
    BY <2>1 DEF PipelineInv
  <2>4. (Len(shots) = Len(plan) /\ TimelineHolds(run.frames))'
    BY <2>1 DEF PipelineInv, TimelineHolds
  <2>5. (run.pc \in VideoStored => objects[VideoKey] = run.frames)'
    BY <1>6 DEF PipelineInv
  <2>6. QED
    BY <1>1, <1>2, <1>3, <1>4, <2>1, <2>2, <2>3, <2>4, <2>5 DEF PipelineInv
<1>7. QED BY <1>5, <1>6

\* set_status, between two steps of the run.
LEMMA AdvanceKeeps ==
  ASSUME PipelineInv,
         NEW from, NEW saved \in {"resolving", "rendering", "exporting"}, NEW to,
         Advance(from, saved, to),
         <<from, to>> \in {<<"planned", "resolving">>, <<"assembling", "rendering">>,
                           <<"rendered", "exporting">>}
  PROVE  PipelineInv'
<1>1. /\ run.pc = from /\ MoveTo(to) /\ SaveStatus(saved)
      /\ UNCHANGED <<plan, shots, assets, objects, emitted, called>>
  BY DEF Advance
<1>2. PipelineTyped
  BY DEF PipelineInv
<1>3. DOMAIN run' = DOMAIN run /\ run'.pc = to /\ run'.frames = run.frames
  BY <1>1, <1>2, MovedOn
<1>4. DOMAIN record' = DOMAIN record /\ record'.status # "completed"
  BY <1>1, <1>2, StatusSaved
<1>5. run.pc = "planned" => GoodPlan(plan)
  BY DEF PipelineInv, BeforeShots
<1>6. QED
  BY <1>1, <1>3, <1>4, <1>5, PlaceKeeps DEF BeforeShots

\* execute up to begin.
LEMMA BeginKeeps ==
  ASSUME PipelineInv, Begin
  PROVE  PipelineInv'
<1>1. /\ run.pc = "claimed" /\ MoveTo("planned") /\ SaveStatus("planning") /\ Emit({"started"})
      /\ UNCHANGED <<shots, assets, objects, called>>
  BY DEF Begin
<1>2. PipelineTyped /\ NothingYet /\ FilesOfRun /\ RowsTellRun
  BY <1>1 DEF PipelineInv, BeforeShots, RunsAreSound
<1>3. DOMAIN run' = DOMAIN run /\ run'.pc = "planned" /\ run'.frames = run.frames
  BY <1>1, <1>2, MovedOn
<1>4. DOMAIN record' = DOMAIN record /\ record'.status = "planning"
  BY <1>1, <1>2, StatusSaved
<1>5. /\ emitted' \in [Event -> Nat]
      /\ \A e \in Event \ {"started"} : emitted'[e] = emitted[e]
  BY <1>1, <1>2 DEF PipelineTyped, Emit
<1>6. GoodPlan(plan') /\ PlanKeepsPrompt' /\ PlanVaries'
  <2>1. PICK p \in Prompt, identity \in Identity, target \in Target, perShot \in PerShot :
          plan' = PlanOf(p, identity, target, perShot)
    BY DEF Begin
  <2>2. PICK made : made = plan'
    OBVIOUS
  <2>3. /\ GoodPlan(made) /\ Keeps(made, p)
        /\ \A i \in 1..(Len(made) - 1) : /\ Primary(made[i]) # Primary(made[i + 1])
                                         /\ Secondary(made[i]) # Secondary(made[i + 1])
        /\ 2 * (Len(made) * made[1].lasts)
             \in (2 * MinDuration - Len(made))..(2 * MaxDuration + Len(made))
    BY <2>1, <2>2, PlansVary
  <2>4. PlanKeepsPrompt'
    BY <2>2, <2>3 DEF PlanKeepsPrompt
  <2>5. QED BY <2>2, <2>3, <2>4 DEF GoodPlan, PlanVaries
<1>7. NothingYet'
  BY <1>1, <1>2, <1>3 DEF NothingYet
<1>8. PipelineTyped'
  BY <1>1, <1>2, <1>3, <1>4, <1>5, <1>7 DEF PipelineTyped, NothingYet
<1>9. RunsAreSound'
  <2>1. RejectedIsLast /\ EventsTell /\ FilesTell(Accepted, assets, DOMAIN objects)
    BY <1>2, RowsParts
  <2>2. EventsTell'
    BY <1>1, <1>5, <2>1 DEF EventsTell, Accepted, Repaired, Event
  <2>3. RejectedIsLast'
    BY <1>1, <1>4, <2>1 DEF RejectedIsLast, Accepted
  <2>4. FilesTell(Accepted, assets, DOMAIN objects)'
    BY <1>1, <2>1 DEF FilesTell, ShotsIn, Accepted
  <2>5. RowsTellRun'
    BY <2>2, <2>3, <2>4, RowsParts, PTL
  <2>6. EveryImageCounts'
    BY <1>7 DEF NothingYet, EveryImageCounts, IsInjective
  <2>7. CompletedIsSound'
    BY <1>4 DEF CompletedIsSound
  <2>8. QED BY <1>6, <2>5, <2>6, <2>7 DEF RunsAreSound
<1>10. FilesOfRun'
  BY <1>1, <1>2, <1>3 DEF FilesOfRun, Files, FrameKeys
<1>11. QED
  BY <1>3, <1>4, <1>6, <1>7, <1>8, <1>9, <1>10
     DEF PipelineInv, BeforeShots, InShot, Filing, AfterShots, VideoStored

\* record_resolution.
LEMMA RecordResolutionKeeps ==
  ASSUME PipelineInv, RecordResolution
  PROVE  PipelineInv'
<1>1. PICK outcome \in {"resolved", "failing"} : MoveTo(outcome)
  BY DEF RecordResolution
<1>2. run.pc = "resolving" /\ UNCHANGED <<plan, record, shots, assets, objects, emitted, called>>
  BY DEF RecordResolution, stored
<1>3. PipelineTyped /\ record.status # "completed" /\ GoodPlan(plan)
  BY <1>2 DEF PipelineInv, BeforeShots
<1>4. CASE outcome = "failing"
  BY <1>1, <1>2, <1>3, <1>4, StopKeeps
<1>5. CASE outcome = "resolved"
  <2>1. DOMAIN run' = DOMAIN run /\ run'.pc = "resolved" /\ run'.frames = run.frames
    BY <1>1, <1>3, <1>5, MovedOn
  <2>2. run.pc \in BeforeShots /\ run'.pc \in BeforeShots \ {"claimed"}
    BY <1>2, <2>1 DEF BeforeShots
  <2>3. QED BY <1>2, <1>3, <2>1, <2>2, PlaceKeeps
<1>6. QED BY <1>4, <1>5

\* Fail, Raise, Die: a run that stops leaves what it wrote.
LEMMA EndKeeps ==
  ASSUME PipelineInv, Fail \/ Raise \/ Die
  PROVE  PipelineInv'
<1>1. /\ MoveTo("ended") /\ UNCHANGED <<plan, shots, assets, objects, emitted, called>>
      /\ record' = record \/ SaveStatus("failed")
  BY DEF Fail, Raise, Die, RecordLost, stored
<1>2. PipelineTyped
  BY DEF PipelineInv
<1>3. DOMAIN record' = DOMAIN record /\ (record' = record \/ record'.status # "completed")
  BY <1>1, <1>2, StatusSaved
<1>4. QED
  BY <1>1, <1>3, StopKeeps

\* A reaper touches the status only, and not that of a completed run.
LEMMA ReapKeeps ==
  ASSUME PipelineInv, ReapRun
  PROVE  PipelineInv'
<1>1. /\ UNCHANGED <<plan, run, shots, assets, objects, emitted, called>>
      /\ record' = record \/ SaveStatus("failed")
  BY DEF ReapRun, RecordLost
<1>2. PipelineTyped
  BY DEF PipelineInv
<1>3. DOMAIN record' = DOMAIN record /\ (record' = record \/ record'.status # "completed")
  BY <1>1, <1>2, StatusSaved
<1>4. PipelineTyped'
  BY <1>1, <1>2, <1>3 DEF PipelineTyped, RowOfShot, SeedOfPlan
<1>5. RunsAreSound'
  BY <1>1, <1>3, QuietStep DEF PipelineInv
<1>6. (record.status = "completed" => run.pc = "ended")'
  BY <1>1, <1>3 DEF PipelineInv
<1>7. /\ NothingYet => NothingYet'
      /\ FilesOfRun => FilesOfRun'
      /\ FramesPass => FramesPass'
      /\ ShotUnderWay => ShotUnderWay'
      /\ ImagePasses => ImagePasses'
  BY <1>1 DEF NothingYet, FilesOfRun, Files, FrameKeys, FramesPass, ShotUnderWay, Calls,
              ImagesOf, SeedOfPlan, ImagePasses
<1>8. TimelineHolds(run.frames) => TimelineHolds(run.frames)'
  BY <1>1 DEF TimelineHolds
<1>9. QED
  BY <1>1, <1>4, <1>5, <1>6, <1>7, <1>8 DEF PipelineInv

\* While all were accepted, the accepted shots are those on record.
LEMMA AllAccepted ==
  ASSUME PipelineTyped, FramesPass
  PROVE  /\ Len(shots) \in Nat /\ DOMAIN shots = 1..Len(shots) /\ Accepted = 1..Len(shots)
         /\ DOMAIN shots \ Accepted = {}
         /\ DOMAIN run.frames = 1..Len(shots)
BY DEF PipelineTyped, FramesPass, Accepted

\* Where a turn of the loop over the plan leads.
LEMMA TurnLeads ==
  ASSUME PipelineTyped, NEW frames \in Seq(Image), run' = Turn(frames)
  PROVE  /\ DOMAIN run' = DOMAIN run /\ run'.frames = frames
         /\ \/ /\ Len(frames) + 1 <= Len(plan)
               /\ run'.pc = "shooting" /\ run'.shot = Len(frames) + 1 /\ run'.attempt = 1
               /\ run'.seed = [id |-> plan[Len(frames) + 1].id, moved |-> 0]
            \/ run'.pc = "assembling" /\ TimelineHolds(frames)
            \/ run'.pc = "failing"
<1>1. CASE Len(frames) + 1 <= Len(plan)
  BY <1>1 DEF Turn, PipelineTyped
<1>2. CASE ~(Len(frames) + 1 <= Len(plan))
  <2>1. run' = [run EXCEPT !.frames = frames, !.image = Absent,
                           !.pc = IF TimelineHolds(frames) THEN "assembling" ELSE "failing"]
    BY <1>2 DEF Turn
  <2>2. QED BY <2>1 DEF PipelineTyped
<1>3. QED BY <1>1, <1>2

\* A turn that has taken up the frames of the accepted shots, and of no other, keeps the
\* invariant.
LEMMA TurnKeeps ==
  ASSUME PipelineTyped, NEW frames \in Seq(Image), run' = Turn(frames),
         UNCHANGED <<plan, called>>, GoodPlan(plan),
         PipelineTyped', RunsAreSound', record'.status # "completed", FramesPass',
         Files(FrameKeys(Len(shots)), FrameKeys(Len(shots)))',
         Len(frames) + 1 \in DOMAIN plan => Calls(Len(frames) + 1) = {}
  PROVE  PipelineInv'
<1> USE DEF BeforeShots, InShot, Filing, AfterShots, VideoStored
<1>1. DOMAIN run' = DOMAIN run /\ run'.frames = frames
  BY TurnLeads
<1>2. Len(shots') = Len(frames) /\ Len(frames) \in Nat
  BY <1>1 DEF FramesPass
<1>3. GoodPlan(plan)'
  BY DEF GoodPlan
<1>4. CASE /\ Len(frames) + 1 <= Len(plan)
           /\ run'.pc = "shooting" /\ run'.shot = Len(frames) + 1 /\ run'.attempt = 1
           /\ run'.seed = [id |-> plan[Len(frames) + 1].id, moved |-> 0]
  <2>1. run'.shot \in DOMAIN plan
    BY <1>2, <1>4 DEF GoodPlan, Positive
  <2>2. Calls(run.shot)' = {}
    BY <1>4, <2>1 DEF Calls
  <2>3. ShotUnderWay'
    <3>1. Cardinality({}) = 0
      BY FS_EmptySet
    <3>2. run'.seed \in SeedOfPlan'
      BY <1>4, <2>1 DEF SeedOfPlan
    <3>3. run'.seed.id = plan'[run'.shot].id
      BY <1>4
    <3>4. QED BY <1>2, <1>4, <2>1, <2>2, <3>1, <3>2, <3>3 DEF ShotUnderWay, MaxAttempts, Calls
  <2>4. FilesOfRun'
    BY <1>4 DEF FilesOfRun
  <2>5. QED BY <1>3, <1>4, <2>3, <2>4 DEF PipelineInv
<1>5. CASE run'.pc = "assembling" /\ TimelineHolds(frames)
  <2>1. FilesOfRun'
    BY <1>5 DEF FilesOfRun
  <2>2. (Len(shots) = Len(plan) /\ TimelineHolds(run.frames))'
    BY <1>1, <1>2, <1>5 DEF TimelineHolds
  <2>3. QED BY <1>3, <1>5, <2>1, <2>2 DEF PipelineInv
<1>6. CASE run'.pc = "failing"
  BY <1>6 DEF PipelineInv
<1>7. QED BY <1>4, <1>5, <1>6, TurnLeads

\* The first turn.
LEMMA StartShotsKeeps ==
  ASSUME PipelineInv, StartShots
  PROVE  PipelineInv'
<1>1. /\ run.pc = "resolved" /\ run' = Turn(<<>>) /\ SaveStatus("generating")
      /\ UNCHANGED <<plan, shots, assets, objects, emitted, called>>
  BY DEF StartShots
<1>2. PipelineTyped /\ NothingYet /\ GoodPlan(plan) /\ FilesOfRun
  BY <1>1 DEF PipelineInv, BeforeShots
<1>3. DOMAIN record' = DOMAIN record /\ record'.status # "completed"
  BY <1>1, <1>2, StatusSaved
<1>4. <<>> \in Seq(Image)
  OBVIOUS
<1>5. DOMAIN run' = DOMAIN run /\ run'.frames = <<>>
  BY <1>1, <1>2, <1>4, TurnLeads
<1>6. PipelineTyped'
  BY <1>1, <1>2, <1>3, <1>4, <1>5 DEF PipelineTyped, RowOfShot, SeedOfPlan
<1>7. RunsAreSound'
  BY <1>1, <1>3, QuietStep DEF PipelineInv
<1>8. FramesPass'
  BY <1>1, <1>2, <1>5 DEF FramesPass, NothingYet
<1>9. Files(FrameKeys(Len(shots)), FrameKeys(Len(shots)))'
  BY <1>1, <1>2 DEF FilesOfRun, Files, FrameKeys
<1>10. Calls(Len(<<>>) + 1) = {}
  BY <1>2 DEF Calls, ImagesOf, NothingYet
<1>11. QED
  BY <1>1, <1>2, <1>3, <1>4, <1>6, <1>7, <1>8, <1>9, <1>10, TurnKeeps

\* What decide_repair may answer: a retry only before the last attempt.
LEMMA Repairs ==
  ASSUME NEW failures, NEW attempt
  PROVE  \/ RepairAction(failures, attempt) = "accept" /\ failures = {}
         \/ RepairAction(failures, attempt) = "retry" /\ attempt < MaxAttempts
         \/ RepairAction(failures, attempt) = "give_up"
<1>1. CASE failures = {}
  BY <1>1 DEF RepairAction
<1>2. CASE failures # {} /\ attempt < MaxAttempts
  BY <1>2 DEF RepairAction
<1>3. CASE failures # {} /\ ~(attempt < MaxAttempts)
  BY <1>3 DEF RepairAction
<1>4. QED BY <1>1, <1>2, <1>3

\* more is made, of n seeds, with another one appended.
OneLonger(more, made, n, seed) ==
  /\ DOMAIN made = 1..n /\ DOMAIN more = 1..(n + 1)
  /\ more[n + 1] = seed /\ \A c \in 1..n : more[c] = made[c]

\* The image made with a seed is one more of those of its shot, and of no other.
LEMMA OneMore ==
  ASSUME NEW made, NEW more, NEW seed, NEW n \in Nat, OneLonger(more, made, n, seed), NEW id
  PROVE  /\ seed.id # id => ImagesOf(id, more) = ImagesOf(id, made)
         /\ seed.id = id =>
              /\ ImagesOf(id, more) = ImagesOf(id, made) \cup {n + 1}
              /\ Cardinality(ImagesOf(id, more)) = Cardinality(ImagesOf(id, made)) + 1
<1> DEFINE C == ImagesOf(id, made)
<1>1. /\ DOMAIN made = 1..n /\ DOMAIN more = 1..(n + 1)
      /\ more[n + 1] = seed /\ \A c \in 1..n : more[c] = made[c]
  BY DEF OneLonger
<1>2. IsFiniteSet(C) /\ Cardinality(C) \in Nat
  <2>1. IsFiniteSet(1..n) /\ C \in SUBSET (1..n)
    BY <1>1, FS_Interval DEF ImagesOf
  <2>2. IsFiniteSet(C)
    BY <2>1, FS_Subset
  <2>3. QED BY <2>2, FS_CardinalityType
<1>3. ASSUME seed.id # id PROVE ImagesOf(id, more) = C
  BY <1>1, <1>3 DEF ImagesOf
<1>4. ASSUME seed.id = id
      PROVE  /\ ImagesOf(id, more) = C \cup {n + 1}
             /\ Cardinality(ImagesOf(id, more)) = Cardinality(C) + 1
  <2>1. ImagesOf(id, more) = C \cup {n + 1} /\ n + 1 \notin C
    BY <1>1, <1>4 DEF ImagesOf
  <2>2. QED
    <3> HIDE DEF C
    <3>1. QED BY <1>2, <2>1, FS_AddElement
<1>5. QED
  BY <1>2, <1>3, <1>4

\* An image made for the shot under way, of a seed not used before, is accounted for.
LEMMA ImageCounts ==
  ASSUME PipelineInv, run.pc = "shooting", UNCHANGED <<plan, shots>>,
         called' \in Seq(SeedOfPlan), OneLonger(called', called, Len(called), run.seed)
  PROVE  /\ EveryImageCounts'
         /\ Cardinality(ImagesOf(plan[run.shot].id, called')) = run.attempt
         /\ \A c \in ImagesOf(plan[run.shot].id, called') : called'[c].moved <= run.seed.moved
<1>1. /\ PipelineTyped /\ EveryImageCounts /\ GoodPlan(plan) /\ FramesPass /\ ShotUnderWay
      /\ run.seed \in SeedOfPlan /\ run.seed.id = plan[run.shot].id
      /\ run.seed.moved \in Nat
  <2>1. ShotUnderWay
    BY DEF PipelineInv, InShot
  <2>2. run.seed \in SeedOfPlan /\ run.seed.id = plan[run.shot].id
    BY <2>1 DEF ShotUnderWay
  <2>3. run.seed.moved \in Nat
    BY <2>2 DEF SeedOfPlan
  <2>4. QED BY <2>1, <2>2, <2>3 DEF PipelineInv, InShot, RunsAreSound
<1>2. /\ called \in Seq(SeedOfPlan) /\ called' \in Seq(SeedOfPlan)
      /\ Len(called) \in Nat /\ DOMAIN called = 1..Len(called)
      /\ DOMAIN called' = 1..(Len(called) + 1)
      /\ called'[Len(called) + 1] = run.seed
      /\ \A c \in DOMAIN called : called'[c] = called[c]
  BY <1>1 DEF PipelineTyped, OneLonger
<1>3. /\ Len(shots) \in Nat /\ DOMAIN shots = 1..Len(shots) /\ run.shot = Len(shots) + 1
      /\ \A i \in DOMAIN shots : shots[i].accepted
      /\ run.shot \in DOMAIN plan /\ DOMAIN plan = 1..Len(plan) /\ Len(plan) \in Nat
      /\ \A i, j \in DOMAIN plan : plan[i].id = plan[j].id => i = j
  BY <1>1, AllAccepted DEF FramesPass, ShotUnderWay, GoodPlan, Positive
<1>4. /\ run.attempt \in 1..MaxAttempts
      /\ Cardinality(Calls(run.shot)) = run.attempt - 1
      /\ \A c \in Calls(run.shot) : called[c].moved < run.seed.moved
  BY <1>1 DEF ShotUnderWay
<1>5. \A id : /\ run.seed.id # id => ImagesOf(id, called') = ImagesOf(id, called)
              /\ run.seed.id = id =>
                   /\ ImagesOf(id, called') = ImagesOf(id, called) \cup {Len(called) + 1}
                   /\ Cardinality(ImagesOf(id, called')) = Cardinality(ImagesOf(id, called)) + 1
  BY <1>2, OneMore
<1>6. \A i \in DOMAIN plan \ {run.shot} : ImagesOf(plan[i].id, called') = Calls(i)
  <2> TAKE i \in DOMAIN plan \ {run.shot}
  <2>1. run.seed.id # plan[i].id
    BY <1>1, <1>3
  <2>2. QED BY <1>5, <2>1 DEF Calls
<1>7. /\ ImagesOf(plan[run.shot].id, called') = Calls(run.shot) \cup {Len(called) + 1}
      /\ Cardinality(ImagesOf(plan[run.shot].id, called')) = run.attempt
  <2>1. /\ ImagesOf(plan[run.shot].id, called') = Calls(run.shot) \cup {Len(called) + 1}
        /\ Cardinality(ImagesOf(plan[run.shot].id, called')) = Cardinality(Calls(run.shot)) + 1
    BY <1>1, <1>5 DEF Calls
  <2>2. QED BY <1>4, <2>1 DEF MaxAttempts
<1>8. \A c \in ImagesOf(plan[run.shot].id, called') : called'[c].moved <= run.seed.moved
  <2>1. \A c \in Calls(run.shot) : c \in DOMAIN called /\ called[c].moved \in Nat
    <3>1. \A c \in DOMAIN called : called[c] \in SeedOfPlan
      BY <1>2
    <3>2. QED BY <3>1 DEF Calls, ImagesOf, SeedOfPlan
  <2>2. called'[Len(called) + 1].moved <= run.seed.moved
    BY <1>1, <1>2
  <2>3. \A c \in Calls(run.shot) : called'[c].moved <= run.seed.moved
    BY <1>1, <1>2, <1>4, <2>1
  <2>4. QED BY <1>7, <2>2, <2>3
<1>9. EveryImageCounts'
  <2>1. IsInjective(called)'
    <3>1. \A c \in DOMAIN called : called[c] # run.seed
      <4> SUFFICES ASSUME NEW c \in DOMAIN called, called[c] = run.seed PROVE FALSE
        OBVIOUS
      <4>1. c \in Calls(run.shot)
        BY <1>1 DEF Calls, ImagesOf
      <4>2. QED BY <1>1, <1>4, <4>1
    <3>2. QED BY <1>1, <1>2, <3>1 DEF EveryImageCounts, IsInjective
  <2>2. \A c \in DOMAIN called' : \E i \in DOMAIN plan' : called'[c].id = plan'[i].id
    <3>1. \A c \in DOMAIN called' : called'[c] \in SeedOfPlan
      BY <1>2
    <3>2. QED BY <3>1 DEF SeedOfPlan
  <2>3. \A i \in DOMAIN shots' : Cardinality(ImagesOf(plan[i].id, called')) = shots'[i].repairs + 1
    BY <1>1, <1>3, <1>6 DEF EveryImageCounts
  <2>4. ASSUME NEW i \in DOMAIN plan' \ DOMAIN shots', ImagesOf(plan[i].id, called') # {}
        PROVE  /\ i = Len(shots') + 1 /\ \A j \in DOMAIN shots' : shots'[j].accepted
               /\ Cardinality(ImagesOf(plan[i].id, called')) <= MaxAttempts
    <3>1. CASE i = run.shot
      <4>1. Cardinality(ImagesOf(plan[i].id, called')) <= MaxAttempts
        <5>1. plan[i].id = plan[run.shot].id
          BY <3>1
        <5>2. Cardinality(ImagesOf(plan[i].id, called')) = run.attempt
          BY <1>7, <5>1
        <5>3. run.attempt <= MaxAttempts
          BY <1>4 DEF MaxAttempts
        <5>4. QED BY <5>2, <5>3
      <4>2. QED BY <1>3, <3>1, <4>1
    <3>2. CASE i # run.shot
      <4>1. Calls(i) # {}
        BY <1>6, <2>4, <3>2
      <4>2. called # <<>>
        BY <4>1 DEF Calls, ImagesOf
      <4>3. i = Len(shots) + 1
        BY <1>1, <2>4, <4>1, <4>2 DEF EveryImageCounts
      <4>4. QED BY <1>3, <3>2, <4>3
    <3>3. QED BY <3>1, <3>2
  <2>5. QED BY <2>1, <2>2, <2>3, <2>4 DEF EveryImageCounts, Calls
<1>10. QED
  BY <1>7, <1>8, <1>9

\* One turn of the loop of _render_shot.
LEMMA ShootKeeps ==
  ASSUME PipelineInv, Shoot
  PROVE  PipelineInv'
<1> USE DEF BeforeShots, InShot, Filing, AfterShots, VideoStored
<1>1. /\ run.pc = "shooting" /\ called' = Append(called, run.seed)
      /\ UNCHANGED <<plan, record, shots, assets, objects, emitted>>
  BY DEF Shoot, stored
<1>2. /\ PipelineTyped /\ GoodPlan(plan) /\ FilesOfRun /\ FramesPass /\ ShotUnderWay
      /\ RunsAreSound /\ record.status # "completed"
  BY <1>1 DEF PipelineInv
<1>3. /\ EveryImageCounts' /\ called' \in Seq(SeedOfPlan)
      /\ Cardinality(ImagesOf(plan[run.shot].id, called')) = run.attempt
      /\ \A c \in ImagesOf(plan[run.shot].id, called') : called'[c].moved <= run.seed.moved
  <2>1. ShotUnderWay
    BY <1>1 DEF PipelineInv
  <2>2. run.seed \in SeedOfPlan /\ called \in Seq(SeedOfPlan)
    BY <1>2, <2>1 DEF ShotUnderWay, PipelineTyped
  <2>3. called' \in Seq(SeedOfPlan) /\ OneLonger(called', called, Len(called), run.seed)
    BY <1>1, <2>2 DEF OneLonger
  <2>4. PipelineInv /\ run.pc = "shooting" /\ UNCHANGED <<plan, shots>>
    BY <1>1
  <2>5. QED BY <2>3, <2>4, ImageCounts
<1>4. /\ run.attempt \in 1..MaxAttempts /\ run.seed \in SeedOfPlan
      /\ run.seed.id = plan[run.shot].id
      /\ run.shot = Len(shots) + 1 /\ run.shot \in DOMAIN plan
  BY <1>2 DEF ShotUnderWay
<1>5. PICK image \in Image :
        LET action == RepairAction(Failures(image, Reference(run.frames)), run.attempt)
        IN run' = CASE action = "accept" -> [run EXCEPT !.pc = "putting", !.image = image]
                    [] action = "retry" -> [run EXCEPT !.attempt = @ + 1,
                                                       !.seed = NextSeed(@, run.attempt)]
                    [] action = "give_up" -> [run EXCEPT !.pc = "rejecting"]
  BY DEF Shoot
<1> DEFINE action == RepairAction(Failures(image, Reference(run.frames)), run.attempt)
<1>6. \/ /\ Failures(image, Reference(run.frames)) = {}
         /\ run' = [run EXCEPT !.pc = "putting", !.image = image]
      \/ /\ run.attempt < MaxAttempts
         /\ run' = [run EXCEPT !.attempt = @ + 1, !.seed = NextSeed(@, run.attempt)]
      \/ run' = [run EXCEPT !.pc = "rejecting"]
  <2>1. \/ action = "accept" /\ Failures(image, Reference(run.frames)) = {}
        \/ action = "retry" /\ run.attempt < MaxAttempts
        \/ action = "give_up"
    BY Repairs
  <2>2. run' = CASE action = "accept" -> [run EXCEPT !.pc = "putting", !.image = image]
                 [] action = "retry" -> [run EXCEPT !.attempt = @ + 1,
                                                    !.seed = NextSeed(@, run.attempt)]
                 [] action = "give_up" -> [run EXCEPT !.pc = "rejecting"]
    BY <1>5
  <2> HIDE DEF action
  <2>3. QED BY <2>1, <2>2
<1> HIDE DEF action
<1>7. /\ DOMAIN run' = DOMAIN run /\ run'.frames = run.frames /\ run'.shot = run.shot
      /\ run'.pc \in {"putting", "shooting", "rejecting"}
  BY <1>1, <1>2, <1>6 DEF PipelineTyped
<1>8. PipelineTyped'
  <2>1. RowOfShot' = RowOfShot /\ SeedOfPlan' = SeedOfPlan
    BY <1>1 DEF RowOfShot, SeedOfPlan
  <2>2. QED BY <1>1, <1>2, <1>3, <1>7, <2>1 DEF PipelineTyped
<1>9. RunsAreSound'
  <2>1. RowsTellRun'
    BY <1>1, <1>2 DEF RunsAreSound, RowsTellRun
  <2>2. CompletedIsSound'
    BY <1>1, <1>2 DEF CompletedIsSound
  <2>3. PlanKeepsPrompt' /\ PlanVaries'
    BY <1>1, <1>2 DEF RunsAreSound, PlanKeepsPrompt, PlanVaries
  <2>4. QED BY <1>3, <2>1, <2>2, <2>3 DEF RunsAreSound
<1>10. FilesOfRun'
  BY <1>1, <1>2, <1>7 DEF FilesOfRun, Files, FrameKeys
<1>11. FramesPass'
  BY <1>1, <1>2, <1>7 DEF FramesPass
<1>12. GoodPlan(plan)'
  BY <1>1, <1>2
<1>13. Calls(run.shot)' = ImagesOf(plan[run.shot].id, called')
  BY <1>1, <1>7 DEF Calls
<1>14. ShotUnderWay' /\ (run'.pc = "putting" => ImagePasses')
  <2>1. CASE /\ Failures(image, Reference(run.frames)) = {}
             /\ run' = [run EXCEPT !.pc = "putting", !.image = image]
    <3>1. /\ run'.pc = "putting" /\ run'.image = image /\ run'.seed = run.seed
          /\ run'.attempt = run.attempt
      BY <1>2, <2>1 DEF PipelineTyped
    <3>2. ShotUnderWay'
      BY <1>1, <1>3, <1>4, <1>7, <1>13, <3>1 DEF ShotUnderWay, SeedOfPlan
    <3>3. ImagePasses'
      BY <1>7, <2>1, <3>1 DEF ImagePasses, Reference
    <3>4. QED BY <3>2, <3>3
  <2>2. CASE /\ run.attempt < MaxAttempts
             /\ run' = [run EXCEPT !.attempt = @ + 1, !.seed = NextSeed(@, run.attempt)]
    <3>1. /\ run'.pc = "shooting" /\ run'.attempt = run.attempt + 1
          /\ run'.seed = NextSeed(run.seed, run.attempt)
      BY <1>1, <1>2, <2>2 DEF PipelineTyped
    <3>2. /\ run'.seed \in SeedOfPlan /\ run'.seed.id = run.seed.id
          /\ run'.seed.moved = run.seed.moved + run.attempt
      <4>1. run.attempt \in Nat
        BY <1>4 DEF MaxAttempts
      <4>2. QED BY <1>4, <3>1, <4>1 DEF NextSeed, SeedOfPlan
    <3>3. \A c \in Calls(run.shot)' : called'[c].moved < run'.seed.moved
      <4>1. run.seed.moved \in Nat /\ run.attempt \in 1..3
        BY <1>4 DEF SeedOfPlan, MaxAttempts
      <4>2. \A c \in Calls(run.shot)' : called'[c].moved \in Nat
        <5>1. \A c \in DOMAIN called' : called'[c] \in SeedOfPlan
          BY <1>3
        <5>2. QED BY <1>13, <5>1 DEF ImagesOf, SeedOfPlan
      <4>3. QED BY <1>3, <1>13, <3>2, <4>1, <4>2
    <3>4. SeedOfPlan' = SeedOfPlan
      BY <1>1 DEF SeedOfPlan
    <3>5. /\ Cardinality(Calls(run.shot)') = run'.attempt - 1
          /\ run'.attempt \in 1..MaxAttempts
      BY <1>3, <1>4, <1>13, <2>2, <3>1 DEF MaxAttempts
    <3>6. QED
      BY <1>1, <1>4, <1>7, <3>1, <3>2, <3>3, <3>4, <3>5 DEF ShotUnderWay
  <2>3. CASE run' = [run EXCEPT !.pc = "rejecting"]
    <3>1. run'.pc = "rejecting" /\ run'.seed = run.seed /\ run'.attempt = run.attempt
      BY <1>2, <2>3 DEF PipelineTyped
    <3>2. ShotUnderWay'
      BY <1>1, <1>3, <1>4, <1>7, <1>13, <3>1 DEF ShotUnderWay, SeedOfPlan
    <3>3. QED BY <3>1, <3>2
  <2>4. QED BY <1>6, <2>1, <2>2, <2>3
<1>15. QED
  BY <1>1, <1>2, <1>7, <1>8, <1>9, <1>10, <1>11, <1>12, <1>14 DEF PipelineInv

\* A step that only files something keeps the properties if the files tell as they should.
LEMMA FilingStep ==
  ASSUME PipelineTyped, RunsAreSound, FramesPass, record.status # "completed",
         UNCHANGED <<plan, record, shots, emitted, called>>,
         FilesTell(1..Len(shots), assets', DOMAIN objects')
  PROVE  RunsAreSound'
<1>1. CompletedIsSound'
  BY DEF CompletedIsSound
<1>2. RowsTellRun'
  <2>1. RejectedIsLast /\ EventsTell
    BY RowsParts DEF RunsAreSound
  <2>2. RejectedIsLast' /\ EventsTell'
    BY <2>1 DEF RejectedIsLast, EventsTell, Accepted, Repaired
  <2>3. Accepted' = 1..Len(shots)
    <3>1. Accepted = 1..Len(shots)
      BY AllAccepted
    <3>2. QED BY <3>1 DEF Accepted
  <2>4. FilesTell(Accepted, assets, DOMAIN objects)'
    BY <2>3
  <2>5. QED BY <2>2, <2>4, RowsParts, PTL
<1>3. EveryImageCounts'
  BY DEF RunsAreSound, EveryImageCounts, Calls, ImagesOf
<1>4. PlanKeepsPrompt' /\ PlanVaries'
  BY DEF RunsAreSound, PlanKeepsPrompt, PlanVaries
<1>5. QED
  BY <1>1, <1>2, <1>3, <1>4 DEF RunsAreSound

\* Another frame has a key of its own.
LEMMA OneMoreKey ==
  ASSUME NEW n \in Nat
  PROVE  FrameKeys(n + 1) = FrameKeys(n) \cup {FrameKey(n + 1)}
<1>1. 1..(n + 1) = (1..n) \cup {n + 1}
  OBVIOUS
<1>2. ASSUME NEW k PROVE k \in FrameKeys(n + 1) <=> k \in FrameKeys(n) \cup {FrameKey(n + 1)}
  BY <1>1 DEF FrameKeys
<1>3. QED BY <1>2

\* What is put is at its key, and the rest stays where it is.
LEMMA PutAt ==
  ASSUME NEW key, NEW data, Put(key, data)
  PROVE  /\ DOMAIN objects' = DOMAIN objects \cup {key} /\ objects'[key] = data
         /\ \A k \in DOMAIN objects : k # key => objects'[k] = objects[k]
BY DEF Put

\* The frame of the shot under way is stored.
LEMMA PutFrameKeeps ==
  ASSUME PipelineInv, PutFrame
  PROVE  PipelineInv'
<1> USE DEF BeforeShots, InShot, Filing, AfterShots, VideoStored
<1> DEFINE n == Len(shots)
<1>1. /\ run.pc = "putting" /\ Put(FrameKey(run.shot), run.image) /\ MoveTo("registering")
      /\ UNCHANGED <<plan, record, shots, assets, emitted, called>>
  BY DEF PutFrame
<1>2. /\ PipelineTyped /\ GoodPlan(plan) /\ FilesOfRun /\ FramesPass /\ ShotUnderWay
      /\ RunsAreSound /\ record.status # "completed" /\ ImagePasses
  BY <1>1 DEF PipelineInv
<1>3. /\ DOMAIN run' = DOMAIN run /\ run'.pc = "registering"
      /\ run'.shot = run.shot /\ run'.attempt = run.attempt /\ run'.seed = run.seed
      /\ run'.frames = run.frames /\ run'.image = run.image
  BY <1>1, <1>2, MovedOn
<1>4. /\ n \in Nat /\ DOMAIN shots = 1..n /\ run.shot = n + 1
  BY <1>2, AllAccepted DEF ShotUnderWay
<1>5. /\ assets = FrameKeys(n) /\ DOMAIN objects = FrameKeys(n)
      /\ DOMAIN objects' = FrameKeys(n + 1) /\ objects'[FrameKey(n + 1)] = run.image
      /\ \A i \in 1..n : objects'[FrameKey(i)] = objects[FrameKey(i)]
  <2>1. assets = FrameKeys(n) /\ DOMAIN objects = FrameKeys(n)
    BY <1>1, <1>2 DEF FilesOfRun, Files
  <2>2. \A i \in 1..n : FrameKey(i) \in DOMAIN objects /\ FrameKey(i) # FrameKey(n + 1)
    BY <1>4, <2>1, KeysDiffer DEF FrameKeys
  <2>3. QED BY <1>1, <1>4, <2>1, <2>2, PutAt, OneMoreKey
<1>6. PipelineTyped'
  BY <1>1, <1>2, <1>3 DEF PipelineTyped, RowOfShot, SeedOfPlan
<1>7. RunsAreSound'
  <2>1. FilesTell(1..n, FrameKeys(n) \cup {}, FrameKeys(n) \cup {} \cup {FrameKey(n + 1)})
    BY <1>4, FilesUnderWay
  <2>2. FilesTell(1..n, assets', DOMAIN objects')
    BY <1>1, <1>4, <1>5, <2>1, OneMoreKey
  <2>3. QED BY <1>1, <1>2, <2>2, FilingStep
<1>8. FilesOfRun'
  BY <1>1, <1>3, <1>5 DEF FilesOfRun, Files, FrameKeys
<1>9. FramesPass'
  BY <1>1, <1>2, <1>3, <1>4, <1>5 DEF FramesPass
<1>10. ShotUnderWay'
  BY <1>1, <1>2, <1>3 DEF ShotUnderWay, Calls, SeedOfPlan
<1>11. ImagePasses'
  BY <1>2, <1>3, <1>4, <1>5 DEF ImagePasses
<1>12. QED
  BY <1>1, <1>2, <1>3, <1>6, <1>7, <1>8, <1>9, <1>10, <1>11 DEF PipelineInv

\* Then it is registered.
LEMMA RegisterFrameKeeps ==
  ASSUME PipelineInv, RegisterFrame
  PROVE  PipelineInv'
<1> USE DEF BeforeShots, InShot, Filing, AfterShots, VideoStored
<1> DEFINE n == Len(shots)
<1>1. /\ run.pc = "registering" /\ Register(FrameKey(run.shot)) /\ MoveTo("recording")
      /\ UNCHANGED <<plan, record, shots, objects, emitted, called>>
  BY DEF RegisterFrame
<1>2. /\ PipelineTyped /\ GoodPlan(plan) /\ FilesOfRun /\ FramesPass /\ ShotUnderWay
      /\ RunsAreSound /\ record.status # "completed" /\ ImagePasses
  BY <1>1 DEF PipelineInv
<1>3. /\ DOMAIN run' = DOMAIN run /\ run'.pc = "recording"
      /\ run'.shot = run.shot /\ run'.attempt = run.attempt /\ run'.seed = run.seed
      /\ run'.frames = run.frames /\ run'.image = run.image
  BY <1>1, <1>2, MovedOn
<1>4. n \in Nat /\ DOMAIN shots = 1..n /\ run.shot = n + 1
  BY <1>2, AllAccepted DEF ShotUnderWay
<1>5. assets' = FrameKeys(n + 1) /\ DOMAIN objects = FrameKeys(n + 1)
  <2>1. assets = FrameKeys(n) /\ DOMAIN objects = FrameKeys(n + 1)
    BY <1>1, <1>2 DEF FilesOfRun, Files
  <2>2. QED BY <1>1, <1>4, <2>1, OneMoreKey DEF Register
<1>6. PipelineTyped'
  BY <1>1, <1>2, <1>3 DEF PipelineTyped, RowOfShot, SeedOfPlan
<1>7. RunsAreSound'
  <2>1. FilesTell(1..n, FrameKeys(n + 1) \cup {}, FrameKeys(n + 1) \cup {})
    BY <1>4, FilesUnderWay
  <2>2. FilesTell(1..n, assets', DOMAIN objects')
    BY <1>1, <1>5, <2>1
  <2>3. QED BY <1>1, <1>2, <2>2, FilingStep
<1>8. FilesOfRun'
  BY <1>1, <1>3, <1>5 DEF FilesOfRun, Files, FrameKeys
<1>9. FramesPass'
  BY <1>1, <1>2, <1>3 DEF FramesPass
<1>10. ShotUnderWay'
  BY <1>1, <1>2, <1>3 DEF ShotUnderWay, Calls, SeedOfPlan
<1>11. ImagePasses'
  BY <1>1, <1>2, <1>3 DEF ImagePasses
<1>12. QED
  BY <1>1, <1>2, <1>3, <1>6, <1>7, <1>8, <1>9, <1>10, <1>11 DEF PipelineInv

\* The video of the accepted frames is stored.
LEMMA RenderVideoKeeps ==
  ASSUME PipelineInv, RenderVideo
  PROVE  PipelineInv'
<1> USE DEF BeforeShots, InShot, Filing, AfterShots, VideoStored
<1> DEFINE n == Len(shots)
<1>1. /\ run.pc = "rendering" /\ Put(VideoKey, run.frames) /\ MoveTo("rendered")
      /\ UNCHANGED <<plan, record, shots, assets, emitted, called>>
  BY DEF RenderVideo
<1>2. /\ PipelineTyped /\ GoodPlan(plan) /\ FilesOfRun /\ FramesPass
      /\ RunsAreSound /\ record.status # "completed"
      /\ Len(shots) = Len(plan) /\ TimelineHolds(run.frames)
  BY <1>1 DEF PipelineInv
<1>3. DOMAIN run' = DOMAIN run /\ run'.pc = "rendered" /\ run'.frames = run.frames
  BY <1>1, <1>2, MovedOn
<1>4. n \in Nat /\ DOMAIN shots = 1..n
  BY <1>2, AllAccepted
<1>5. /\ assets = FrameKeys(n)
      /\ DOMAIN objects' = FrameKeys(n) \cup {VideoKey} /\ objects'[VideoKey] = run.frames
      /\ \A i \in 1..n : objects'[FrameKey(i)] = objects[FrameKey(i)]
  <2>1. assets = FrameKeys(n) /\ DOMAIN objects = FrameKeys(n)
    BY <1>1, <1>2 DEF FilesOfRun, Files
  <2>2. \A i \in 1..n : FrameKey(i) \in DOMAIN objects /\ FrameKey(i) # VideoKey
    BY <2>1, KeysDiffer DEF FrameKeys
  <2>3. QED BY <1>1, <2>1, <2>2, PutAt
<1>6. PipelineTyped'
  BY <1>1, <1>2, <1>3 DEF PipelineTyped, RowOfShot, SeedOfPlan
<1>7. RunsAreSound'
  <2>1. FilesTell(1..n, FrameKeys(n) \cup {}, FrameKeys(n) \cup {} \cup {VideoKey})
    BY <1>4, FilesUnderWay
  <2>2. FilesTell(1..n, assets', DOMAIN objects')
    BY <1>1, <1>5, <2>1
  <2>3. QED BY <1>1, <1>2, <2>2, FilingStep
<1>8. FilesOfRun'
  BY <1>1, <1>3, <1>5 DEF FilesOfRun, Files, FrameKeys
<1>9. FramesPass'
  BY <1>1, <1>2, <1>3, <1>4, <1>5 DEF FramesPass
<1>10. (Len(shots) = Len(plan) /\ TimelineHolds(run.frames))'
  BY <1>1, <1>2, <1>3 DEF TimelineHolds
<1>11. QED
  BY <1>1, <1>2, <1>3, <1>5, <1>6, <1>7, <1>8, <1>9, <1>10 DEF PipelineInv

\* It is registered, and the probe decides.
LEMMA RegisterVideoKeeps ==
  ASSUME PipelineInv, RegisterVideo
  PROVE  PipelineInv'
<1> USE DEF BeforeShots, InShot, Filing, AfterShots, VideoStored
<1> DEFINE n == Len(shots)
           video == FrameKeys(n) \cup {VideoKey}
<1>1. /\ run.pc = "exporting" /\ Register(VideoKey)
      /\ UNCHANGED <<plan, record, shots, objects, emitted, called>>
  BY DEF RegisterVideo
<1>2. PICK l \in {"completing", "failing"} : MoveTo(l)
  BY DEF RegisterVideo
<1>3. /\ PipelineTyped /\ GoodPlan(plan) /\ FilesOfRun /\ FramesPass
      /\ RunsAreSound /\ record.status # "completed" /\ objects[VideoKey] = run.frames
      /\ Len(shots) = Len(plan) /\ TimelineHolds(run.frames)
  BY <1>1 DEF PipelineInv
<1>4. DOMAIN run' = DOMAIN run /\ run'.pc = l /\ run'.frames = run.frames
  BY <1>2, <1>3, MovedOn
<1>5. assets' = video /\ DOMAIN objects' = video /\ n \in Nat
  BY <1>1, <1>3, AllAccepted DEF FilesOfRun, Files, Register
<1>6. PipelineTyped'
  BY <1>1, <1>3, <1>4 DEF PipelineTyped, RowOfShot, SeedOfPlan
<1>7. RunsAreSound'
  <2>1. FilesTell(1..n, video, video)
    BY <1>5, FilesUnderWay
  <2>2. QED BY <1>1, <1>3, <1>5, <2>1, FilingStep
<1>8. CASE l = "completing"
  <2>1. FilesOfRun'
    BY <1>1, <1>4, <1>5, <1>8 DEF FilesOfRun, Files, FrameKeys
  <2>2. FramesPass'
    BY <1>1, <1>3, <1>4 DEF FramesPass
  <2>3. (Len(shots) = Len(plan) /\ TimelineHolds(run.frames))'
    BY <1>1, <1>3, <1>4 DEF TimelineHolds
  <2>4. QED BY <1>1, <1>3, <1>4, <1>6, <1>7, <1>8, <2>1, <2>2, <2>3 DEF PipelineInv
<1>9. CASE l = "failing"
  BY <1>1, <1>3, <1>4, <1>6, <1>7, <1>9 DEF PipelineInv
<1>10. QED BY <1>8, <1>9

\* What is completed is sound.
LEMMA CompleteRunKeeps ==
  ASSUME PipelineInv, CompleteRun
  PROVE  PipelineInv'
<1> USE DEF BeforeShots, InShot, Filing, AfterShots, VideoStored
<1> DEFINE n == Len(shots)
<1>1. /\ run.pc = "completing" /\ record' = [status |-> "completed", video |-> VideoKey]
      /\ Emit({"video_rendered", "export_completed"}) /\ MoveTo("ended")
      /\ UNCHANGED <<plan, shots, assets, objects, called>>
  BY DEF CompleteRun
<1>2. /\ PipelineTyped /\ FilesOfRun /\ FramesPass /\ RunsAreSound
      /\ objects[VideoKey] = run.frames
      /\ Len(shots) = Len(plan) /\ TimelineHolds(run.frames)
  BY <1>1 DEF PipelineInv
<1>3. DOMAIN run' = DOMAIN run /\ run'.pc = "ended" /\ run'.frames = run.frames
  BY <1>1, <1>2, MovedOn
<1>4. /\ DOMAIN record' = {"status", "video"} /\ record'.status = "completed"
      /\ record'.video = VideoKey
  BY <1>1
<1>5. /\ emitted' \in [Event -> Nat]
      /\ \A e \in Event \ {"video_rendered", "export_completed"} : emitted'[e] = emitted[e]
  BY <1>1, <1>2 DEF PipelineTyped, Emit
<1>6. PipelineTyped'
  BY <1>1, <1>2, <1>3, <1>4, <1>5 DEF PipelineTyped, RowOfShot, SeedOfPlan
<1>7. /\ n \in Nat /\ DOMAIN shots = 1..n /\ DOMAIN run.frames = 1..n
      /\ \A i \in 1..n : /\ shots[i].accepted /\ Frame(i) = run.frames[i]
                         /\ Failures(run.frames[i], IF i = 1 THEN Absent ELSE run.frames[1]) = {}
      /\ assets = FrameKeys(n) \cup {VideoKey} /\ run.frames \in Seq(Image)
  BY <1>1, <1>2, AllAccepted DEF FramesPass, Frame, FilesOfRun, Files, PipelineTyped
<1>8. CompletedIsSound'
  <2>1. Frame(1)' = Frame(1) /\ \A i \in 1..n : Frame(i)' = Frame(i)
    BY <1>1 DEF Frame
  <2>2. assets' = {FrameKey(i) : i \in DOMAIN shots'} \cup {record'.video}
    BY <1>1, <1>4, <1>7 DEF FrameKeys
  <2>3. objects'[record'.video] = [i \in DOMAIN shots' |-> Frame(i)']
    <3>1. run.frames = [i \in 1..n |-> run.frames[i]]
      BY <1>7
    <3>2. QED BY <1>1, <1>2, <1>4, <1>7, <2>1, <3>1
  <2>4. \A i \in DOMAIN shots' :
          Failures(Frame(i)', IF i = 1 THEN Absent ELSE Frame(1)') = {}
    <3> SUFFICES ASSUME NEW i \in 1..n
                 PROVE  Failures(Frame(i)', IF i = 1 THEN Absent ELSE Frame(1)') = {}
      BY <1>1, <1>7
    <3>1. Frame(i)' = run.frames[i] /\ Frame(1)' = run.frames[1]
      BY <1>7, <2>1
    <3>2. QED BY <1>7, <3>1
  <2>5. \A i, j \in DOMAIN shots' : Alike(Frame(i)', Frame(j)') => i = j
    BY <1>1, <1>2, <1>7, <2>1 DEF TimelineHolds
  <2>6. Len(shots') = Len(plan') /\ \A i \in DOMAIN shots' : shots'[i].accepted
    BY <1>1, <1>2, <1>7
  <2>7. QED
    BY <2>2, <2>3, <2>4, <2>5, <2>6 DEF CompletedIsSound
<1>9. RunsAreSound'
  <2>1. RejectedIsLast /\ EventsTell /\ FilesTell(Accepted, assets, DOMAIN objects)
    BY <1>2, RowsParts DEF RunsAreSound
  <2>2. EventsTell'
    BY <1>1, <1>5, <2>1 DEF EventsTell, Accepted, Repaired, Event
  <2>3. RejectedIsLast'
    <3>1. DOMAIN shots \ Accepted = {}
      BY <1>2, AllAccepted
    <3>2. QED BY <1>1, <3>1 DEF RejectedIsLast, Accepted
  <2>4. FilesTell(Accepted, assets, DOMAIN objects)'
    BY <1>1, <2>1 DEF FilesTell, ShotsIn, Accepted
  <2>5. RowsTellRun'
    BY <2>2, <2>3, <2>4, RowsParts, PTL
  <2>6. EveryImageCounts'
    BY <1>1, <1>2 DEF RunsAreSound, EveryImageCounts, Calls, ImagesOf
  <2>7. PlanKeepsPrompt' /\ PlanVaries'
    BY <1>1, <1>2 DEF RunsAreSound, PlanKeepsPrompt, PlanVaries
  <2>8. QED BY <1>8, <2>5, <2>6, <2>7 DEF RunsAreSound
<1>10. QED
  BY <1>3, <1>4, <1>6, <1>9 DEF PipelineInv

\* The row of the shot that is over has as many repairs as its images tell, whether it was
\* accepted or not.
LEMMA RowCounts ==
  ASSUME PipelineInv, run.pc \in {"recording", "rejecting"}, NEW accepted \in BOOLEAN,
         NEW rows, rows = Append(shots, ShotRow(accepted)),
         shots' = rows, UNCHANGED <<plan, called>>
  PROVE  /\ rows \in Seq(RowOfShot) /\ Len(rows) = Len(shots) + 1 /\ DOMAIN rows = 1..Len(rows)
         /\ rows[Len(rows)] = ShotRow(accepted) /\ \A i \in DOMAIN shots : rows[i] = shots[i]
         /\ EveryImageCounts'
         /\ Len(shots) + 2 \in DOMAIN plan => Calls(Len(shots) + 2) = {}
<1> USE DEF InShot, Filing
<1>1. /\ PipelineTyped /\ EveryImageCounts /\ GoodPlan(plan) /\ FramesPass /\ ShotUnderWay
  BY DEF PipelineInv, RunsAreSound
<1>2. /\ run.attempt \in 1..MaxAttempts /\ run.seed \in SeedOfPlan
      /\ run.shot = Len(shots) + 1 /\ run.shot \in DOMAIN plan
      /\ Cardinality(Calls(run.shot)) = run.attempt
  BY <1>1 DEF ShotUnderWay
<1>3. ShotRow(accepted) \in RowOfShot /\ ShotRow(accepted).repairs + 1 = run.attempt
  BY <1>2 DEF ShotRow, RowOfShot, MaxAttempts
<1>4. shots \in Seq(RowOfShot) /\ Len(shots) \in Nat /\ DOMAIN shots = 1..Len(shots)
  BY <1>1, AllAccepted DEF PipelineTyped
<1>5. /\ rows \in Seq(RowOfShot) /\ Len(rows) = Len(shots) + 1 /\ DOMAIN rows = 1..Len(rows)
      /\ rows[Len(rows)] = ShotRow(accepted) /\ \A i \in DOMAIN shots : rows[i] = shots[i]
  BY <1>3, <1>4
<1>6. \A i \in DOMAIN plan \ DOMAIN rows : Calls(i) = {}
  <2> SUFFICES ASSUME NEW i \in DOMAIN plan \ DOMAIN rows, Calls(i) # {} PROVE FALSE
    OBVIOUS
  <2>1. called # <<>>
    BY DEF Calls, ImagesOf
  <2>2. i \in DOMAIN plan \ DOMAIN shots
    BY <1>4, <1>5
  <2>3. i = Len(shots) + 1
    BY <1>1, <2>1, <2>2 DEF EveryImageCounts
  <2>4. QED BY <1>4, <1>5, <2>3
<1>7. EveryImageCounts'
  <2>1. \A i : Calls(i)' = Calls(i)
    BY DEF Calls, ImagesOf
  <2>2. \A i \in DOMAIN rows : Cardinality(Calls(i)) = rows[i].repairs + 1
    <3> TAKE i \in DOMAIN rows
    <3>1. CASE i \in DOMAIN shots
      BY <1>1, <1>5, <3>1 DEF EveryImageCounts
    <3>2. CASE i = Len(rows)
      BY <1>2, <1>3, <1>5, <3>2
    <3>3. QED BY <1>4, <1>5, <3>1, <3>2
  <2>3. /\ IsInjective(called)'
        /\ \A c \in DOMAIN called' : \E i \in DOMAIN plan' : called'[c].id = plan'[i].id
    BY <1>1 DEF EveryImageCounts, IsInjective
  <2>4. \A i \in DOMAIN shots' : Cardinality(Calls(i)') = shots'[i].repairs + 1
    BY <2>1, <2>2
  <2>5. \A i \in DOMAIN plan' \ DOMAIN shots' : Calls(i)' = {}
    BY <1>6, <2>1
  <2>6. QED BY <2>3, <2>4, <2>5 DEF EveryImageCounts
<1>8. Len(shots) + 2 \in DOMAIN plan => Calls(Len(shots) + 2) = {}
  BY <1>4, <1>5, <1>6
<1>9. QED BY <1>5, <1>7, <1>8

\* An accepted shot is announced, with a repair if it took one, and the loop goes on.
LEMMA AcceptedKeeps ==
  ASSUME PipelineInv, run.pc = "recording", RecordShot
  PROVE  PipelineInv'
<1> USE DEF BeforeShots, InShot, Filing, AfterShots, VideoStored
<1> DEFINE n == Len(shots)
           r == ShotRow(TRUE)
           frames == Append(run.frames, run.image)
<1>1. /\ shots' = Append(shots, r) /\ Emit(EventsOf(r)) /\ run' = Turn(frames)
      /\ UNCHANGED <<plan, record, assets, objects, called>>
  <2>1. r.accepted
    BY DEF ShotRow
  <2>2. ShotRow(run.pc = "recording") = r
    BY DEF ShotRow
  <2> HIDE DEF r, frames
  <2>3. QED BY <2>1, <2>2 DEF RecordShot, frames
<1>2. /\ PipelineTyped /\ GoodPlan(plan) /\ FilesOfRun /\ FramesPass /\ ShotUnderWay
      /\ RunsAreSound /\ record.status # "completed" /\ ImagePasses
  BY DEF PipelineInv
<1>3. /\ n \in Nat /\ DOMAIN shots = 1..n /\ Accepted = 1..n /\ DOMAIN shots \ Accepted = {}
      /\ run.shot = n + 1
  BY <1>2, AllAccepted DEF ShotUnderWay
<1>4. /\ shots' \in Seq(RowOfShot) /\ Len(shots') = n + 1 /\ DOMAIN shots' = 1..(n + 1)
      /\ shots'[n + 1] = r /\ \A i \in 1..n : shots'[i] = shots[i]
      /\ EveryImageCounts'
      /\ n + 2 \in DOMAIN plan => Calls(n + 2) = {}
  <2>1. PICK rows : rows = Append(shots, r) /\ shots' = rows
    BY <1>1
  <2> HIDE DEF r
  <2>2. rows = Append(shots, ShotRow(TRUE)) /\ r = ShotRow(TRUE)
    BY <2>1 DEF r
  <2>3. /\ rows \in Seq(RowOfShot) /\ Len(rows) = Len(shots) + 1 /\ DOMAIN rows = 1..Len(rows)
        /\ rows[Len(rows)] = ShotRow(TRUE) /\ \A i \in DOMAIN shots : rows[i] = shots[i]
        /\ EveryImageCounts'
        /\ Len(shots) + 2 \in DOMAIN plan => Calls(Len(shots) + 2) = {}
    BY <1>1, <2>1, <2>2, RowCounts
  <2>4. QED BY <1>3, <2>1, <2>2, <2>3
<1>5. /\ run.frames \in Seq(Image) /\ frames \in Seq(Image) /\ Len(frames) = n + 1
      /\ frames[n + 1] = run.image /\ \A i \in 1..n : frames[i] = run.frames[i]
      /\ Len(run.frames) = n
  BY <1>2, <1>3 DEF PipelineTyped, FramesPass, ImagePasses
<1>6. DOMAIN run' = DOMAIN run /\ run'.frames = frames
  <2> HIDE DEF frames
  <2>1. QED BY <1>1, <1>2, <1>5, TurnLeads
<1> DEFINE news == EventsOf(r)
<1>7. /\ emitted' \in [Event -> Nat]
      /\ emitted'["shot_generated"] = emitted["shot_generated"] + 1
      /\ emitted'["repair_succeeded"]
           = IF r.repairs > 0 THEN emitted["repair_succeeded"] + 1 ELSE emitted["repair_succeeded"]
      /\ emitted'["verification_failed"] = emitted["verification_failed"]
  <2>1. /\ "shot_generated" \in news /\ "verification_failed" \notin news
        /\ "repair_succeeded" \in news <=> r.repairs > 0
    BY DEF EventsOf, ShotRow
  <2> HIDE DEF news, r
  <2>2. \A e \in Event : emitted[e] \in Nat
    BY <1>2 DEF PipelineTyped
  <2>3. emitted' = [e \in Event |-> IF e \in news THEN emitted[e] + 1 ELSE emitted[e]]
    BY <1>1 DEF Emit, news
  <2>4. QED BY <2>1, <2>2, <2>3 DEF Event
<1>8. PipelineTyped'
  <2>1. RowOfShot' = RowOfShot /\ SeedOfPlan' = SeedOfPlan
    BY <1>1 DEF RowOfShot, SeedOfPlan
  <2> HIDE DEF frames, r
  <2>2. QED BY <1>1, <1>2, <1>4, <1>5, <1>6, <1>7, <2>1 DEF PipelineTyped
<1>9. r.accepted /\ r.repairs \in Nat
  BY <1>2 DEF ShotRow, ShotUnderWay, MaxAttempts
<1> HIDE DEF frames, r, news
<1>10. FramesPass'
  <2>1. ASSUME NEW i \in 1..(n + 1)
        PROVE  /\ shots'[i].accepted /\ objects'[FrameKey(i)] = frames[i]
               /\ Failures(frames[i], IF i = 1 THEN Absent ELSE frames[1]) = {}
    <3>1. CASE i \in 1..n
      <4>1. /\ shots[i].accepted /\ objects[FrameKey(i)] = run.frames[i]
            /\ Failures(run.frames[i], IF i = 1 THEN Absent ELSE run.frames[1]) = {}
        BY <1>2, <1>3, <3>1 DEF FramesPass
      <4>2. frames[i] = run.frames[i] /\ frames[1] = run.frames[1]
        BY <1>3, <1>5, <3>1
      <4>3. QED BY <1>1, <1>4, <3>1, <4>1, <4>2
    <3>2. CASE i = n + 1
      <4>1. objects'[FrameKey(i)] = frames[i] /\ Failures(frames[i], Reference(run.frames)) = {}
        BY <1>1, <1>2, <1>3, <1>5, <3>2 DEF ImagePasses
      <4>2. Reference(run.frames) = IF i = 1 THEN Absent ELSE frames[1]
        BY <1>3, <1>5, <3>2 DEF Reference
      <4>3. QED BY <1>4, <1>9, <3>2, <4>1, <4>2
    <3>3. QED BY <1>3, <3>1, <3>2
  <2>2. QED BY <1>4, <1>5, <1>6, <2>1 DEF FramesPass
<1>11. assets' = FrameKeys(n + 1) /\ DOMAIN objects' = FrameKeys(n + 1)
  BY <1>1, <1>2 DEF FilesOfRun, Files
<1>12. RowsTellRun'
  <2>1. EventsTell
    BY <1>2, RowsParts DEF RunsAreSound
  <2>2. Accepted' = 1..(n + 1)
    BY <1>3, <1>4, <1>8, <1>10, AllAccepted DEF Accepted, FramesPass
  <2>3. Repaired' = IF r.repairs > 0 THEN Repaired \cup {n + 1} ELSE Repaired
    BY <1>3, <1>4, <2>2 DEF Repaired
  <2>4. IsFiniteSet(Repaired) /\ n + 1 \notin Repaired /\ Cardinality(Repaired) \in Nat
    <3>1. Repaired \in SUBSET (1..n)
      BY <1>3 DEF Repaired
    <3>2. IsFiniteSet(1..n)
      BY <1>3, FS_Interval
    <3>3. IsFiniteSet(Repaired)
      BY <3>1, <3>2, FS_Subset
    <3>4. QED BY <1>3, <3>1, <3>3, FS_CardinalityType
  <2>5. Cardinality(Repaired')
          = IF r.repairs > 0 THEN Cardinality(Repaired) + 1 ELSE Cardinality(Repaired)
    BY <2>3, <2>4, FS_AddElement
  <2>6. Cardinality(1..n) = n /\ Cardinality(1..(n + 1)) = n + 1
    <3>1. \A k \in Nat : Cardinality(1..k) = k
      BY FS_Interval
    <3>2. QED BY <1>3, <3>1
  <2>7. DOMAIN shots' \ Accepted' = {}
    BY <1>4, <2>2
  <2>8. EventsTell'
    <3>1. /\ emitted["shot_generated"] = n
          /\ emitted["repair_succeeded"] = Cardinality(Repaired)
          /\ emitted["verification_failed"] = Cardinality({})
      BY <1>3, <2>1, <2>6 DEF EventsTell
    <3>2. QED BY <1>7, <2>2, <2>5, <2>6, <2>7, <3>1 DEF EventsTell
  <2>9. RejectedIsLast'
    BY <2>7 DEF RejectedIsLast
  <2>10. FilesTell(Accepted, assets, DOMAIN objects)'
    <3>1. \A k \in Nat : FilesTell(1..k, FrameKeys(k) \cup {}, FrameKeys(k) \cup {})
      BY FilesUnderWay
    <3>2. QED BY <1>11, <2>2, <3>1
  <2>11. QED BY <2>8, <2>9, <2>10, RowsParts, PTL
<1>13. RunsAreSound'
  BY <1>1, <1>2, <1>4, <1>12 DEF RunsAreSound, CompletedIsSound, PlanKeepsPrompt, PlanVaries
<1>14. Files(FrameKeys(Len(shots)), FrameKeys(Len(shots)))'
  BY <1>4, <1>11 DEF Files, FrameKeys
<1>15. Len(frames) + 1 \in DOMAIN plan => Calls(Len(frames) + 1) = {}
  <2>1. Len(frames) + 1 = n + 2
    BY <1>3, <1>5
  <2>2. QED BY <1>4, <2>1
<1>16. QED
  BY <1>1, <1>2, <1>5, <1>8, <1>10, <1>13, <1>14, <1>15, TurnKeeps

\* A rejected shot is announced as such, and fails the run.
LEMMA RejectedKeeps ==
  ASSUME PipelineInv, run.pc = "rejecting", RecordShot
  PROVE  PipelineInv'
<1> USE DEF BeforeShots, InShot, Filing, AfterShots, VideoStored
<1> DEFINE n == Len(shots)
           r == ShotRow(FALSE)
<1>1. /\ shots' = Append(shots, r) /\ Emit(EventsOf(r)) /\ run' = [run EXCEPT !.pc = "failing"]
      /\ UNCHANGED <<plan, record, assets, objects, called>>
  <2>1. ~r.accepted
    BY DEF ShotRow
  <2>2. ShotRow(run.pc = "recording") = r
    BY DEF ShotRow
  <2> HIDE DEF r
  <2>3. QED BY <2>1, <2>2 DEF RecordShot
<1>2. /\ PipelineTyped /\ FilesOfRun /\ FramesPass /\ RunsAreSound
      /\ record.status # "completed"
  BY DEF PipelineInv
<1>3. /\ n \in Nat /\ DOMAIN shots = 1..n /\ Accepted = 1..n /\ DOMAIN shots \ Accepted = {}
  BY <1>2, AllAccepted
<1>4. /\ shots' \in Seq(RowOfShot) /\ Len(shots') = n + 1 /\ DOMAIN shots' = 1..(n + 1)
      /\ shots'[n + 1] = r /\ \A i \in 1..n : shots'[i] = shots[i]
      /\ EveryImageCounts'
  <2>1. PICK rows : rows = Append(shots, r) /\ shots' = rows
    BY <1>1
  <2> HIDE DEF r
  <2>2. rows = Append(shots, ShotRow(FALSE)) /\ r = ShotRow(FALSE)
    BY <2>1 DEF r
  <2>3. /\ rows \in Seq(RowOfShot) /\ Len(rows) = Len(shots) + 1 /\ DOMAIN rows = 1..Len(rows)
        /\ rows[Len(rows)] = ShotRow(FALSE) /\ \A i \in DOMAIN shots : rows[i] = shots[i]
        /\ EveryImageCounts'
    BY <1>1, <2>1, <2>2, RowCounts
  <2>4. QED BY <1>3, <2>1, <2>2, <2>3
<1>5. run'.pc = "failing" /\ DOMAIN run' = DOMAIN run /\ run'.frames = run.frames
  BY <1>1, <1>2 DEF PipelineTyped
<1>6. /\ emitted' \in [Event -> Nat]
      /\ emitted'["verification_failed"] = emitted["verification_failed"] + 1
      /\ emitted'["shot_generated"] = emitted["shot_generated"]
      /\ emitted'["repair_succeeded"] = emitted["repair_succeeded"]
  <2>1. EventsOf(r) = {"verification_failed"}
    BY DEF EventsOf, ShotRow
  <2> HIDE DEF r
  <2>2. \A e \in Event : emitted[e] \in Nat
    BY <1>2 DEF PipelineTyped
  <2>3. emitted' = [e \in Event |-> IF e \in {"verification_failed"} THEN emitted[e] + 1
                                    ELSE emitted[e]]
    BY <1>1, <2>1 DEF Emit
  <2>4. QED BY <2>2, <2>3 DEF Event
<1>7. PipelineTyped'
  <2>1. RowOfShot' = RowOfShot /\ SeedOfPlan' = SeedOfPlan
    BY <1>1 DEF RowOfShot, SeedOfPlan
  <2> HIDE DEF r
  <2>2. QED BY <1>1, <1>2, <1>4, <1>5, <1>6, <2>1 DEF PipelineTyped
<1>8. ~r.accepted
  BY DEF ShotRow
<1> HIDE DEF r
<1>9. RowsTellRun'
  <2>1. EventsTell /\ FilesTell(Accepted, assets, DOMAIN objects)
    BY <1>2, RowsParts DEF RunsAreSound
  <2>2. Accepted' = Accepted
    <3>1. \A i \in 1..(n + 1) : shots'[i].accepted <=> i \in 1..n
      BY <1>3, <1>4, <1>8 DEF Accepted
    <3>2. QED BY <1>3, <1>4, <3>1 DEF Accepted
  <2>3. Repaired' = Repaired
    BY <1>3, <1>4, <2>2 DEF Repaired
  <2>4. DOMAIN shots' \ Accepted' = {n + 1}
    BY <1>3, <1>4, <2>2
  <2>5. EventsTell'
    <3>1. Cardinality({}) = 0 /\ Cardinality({n + 1}) = 1
      BY FS_EmptySet, FS_Singleton
    <3>2. emitted["verification_failed"] = 0 /\ emitted'["verification_failed"] = 1
      <4>1. emitted["verification_failed"] = Cardinality({})
        BY <1>3, <2>1 DEF EventsTell
      <4>2. QED BY <1>6, <3>1, <4>1
    <3>3. /\ emitted'["shot_generated"] = Cardinality(Accepted')
          /\ emitted'["repair_succeeded"] = Cardinality(Repaired')
      BY <1>6, <2>1, <2>2, <2>3 DEF EventsTell
    <3>4. QED BY <2>4, <3>1, <3>2, <3>3 DEF EventsTell
  <2>6. RejectedIsLast'
    BY <1>1, <1>2, <1>4, <2>4 DEF RejectedIsLast
  <2>7. FilesTell(Accepted, assets, DOMAIN objects)'
    BY <1>1, <2>1, <2>2
  <2>8. QED BY <2>5, <2>6, <2>7, RowsParts, PTL
<1>10. RunsAreSound'
  BY <1>1, <1>2, <1>4, <1>9 DEF RunsAreSound, CompletedIsSound, PlanKeepsPrompt, PlanVaries
<1>11. QED
  BY <1>1, <1>2, <1>5, <1>7, <1>10 DEF PipelineInv

\* Every step of a run keeps the invariant.
LEMMA PipelineKeeps ==
  ASSUME PipelineInv, [PipelineNext]_pipelineVars
  PROVE  PipelineInv'
<1>1. CASE Begin
  BY <1>1, BeginKeeps
<1>2. CASE RecordResolution
  BY <1>2, RecordResolutionKeeps
<1>3. CASE StartShots
  BY <1>3, StartShotsKeeps
<1>4. CASE Shoot
  BY <1>4, ShootKeeps
<1>5. CASE PutFrame
  BY <1>5, PutFrameKeeps
<1>6. CASE RegisterFrame
  BY <1>6, RegisterFrameKeeps
<1>7. CASE RecordShot
  <2>1. run.pc \in {"recording", "rejecting"}
    BY <1>7 DEF RecordShot
  <2>2. QED BY <1>7, <2>1, AcceptedKeeps, RejectedKeeps
<1>8. CASE RenderVideo
  BY <1>8, RenderVideoKeeps
<1>9. CASE RegisterVideo
  BY <1>9, RegisterVideoKeeps
<1>10. CASE CompleteRun
  BY <1>10, CompleteRunKeeps
<1>11. CASE Fail \/ Raise \/ Die
  BY <1>11, EndKeeps
<1>12. CASE ReapRun
  BY <1>12, ReapKeeps
<1>13. CASE Advance("planned", "resolving", "resolving")
  BY <1>13, AdvanceKeeps
<1>14. CASE Advance("assembling", "rendering", "rendering")
  BY <1>14, AdvanceKeeps
<1>15. CASE Advance("rendered", "exporting", "exporting")
  BY <1>15, AdvanceKeeps
<1>16. CASE UNCHANGED pipelineVars
  <2>1. UNCHANGED <<plan, run, record, shots, assets, objects, emitted, called>>
    BY <1>16 DEF pipelineVars
  <2>2. RunsAreSound'
    BY <2>1, QuietStep DEF PipelineInv
  <2>3. PipelineTyped'
    BY <2>1 DEF PipelineInv, PipelineTyped, RowOfShot, SeedOfPlan
  <2>4. /\ NothingYet => NothingYet'
        /\ FilesOfRun => FilesOfRun'
        /\ FramesPass => FramesPass'
        /\ ShotUnderWay => ShotUnderWay'
        /\ ImagePasses => ImagePasses'
        /\ TimelineHolds(run.frames) => TimelineHolds(run.frames)'
    BY <2>1 DEF NothingYet, FilesOfRun, Files, FrameKeys, FramesPass, ShotUnderWay, Calls,
                ImagesOf, SeedOfPlan, ImagePasses, TimelineHolds
  <2>5. QED BY <2>1, <2>2, <2>3, <2>4 DEF PipelineInv
<1>17. QED
  BY <1>1, <1>2, <1>3, <1>4, <1>5, <1>6, <1>7, <1>8, <1>9, <1>10, <1>11, <1>12, <1>13, <1>14,
     <1>15, <1>16 DEF PipelineNext

\* Whatever stops a run, and wherever: what it calls completed is sound, the tables tell
\* what it did, and every image it paid for counts.
THEOREM RunsProven == PipelineSpec => []RunsAreSound
<1>1. PipelineInv => RunsAreSound
  BY DEF PipelineInv
<1>2. QED
  BY <1>1, PipelineStarts, PipelineKeeps, PTL DEF PipelineSpec
=============================================================================
