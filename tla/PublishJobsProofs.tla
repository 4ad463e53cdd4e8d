------------------------- MODULE PublishJobsProofs -------------------------
(***************************************************************************)
(* Theorems about publish jobs, for every set of jobs, accounts and        *)
(* workers, however often leases lapse, workers die and tokens rotate.     *)
(***************************************************************************)
EXTENDS PublishJobs, FiniteSetTheorems, TLAPS

\* Where a worker has yet to give the platform anything.
BeforeAccept == {"authorize", "refresh", "prepare", "transmit", "retry"}

\* A worker that is not scanning has a job.
HasJob == \A w \in Worker : pc[w] # "scanning" => at[w] \in Publish

\* A job somebody works on is running, and nobody else works on it: the claim is
\* exclusive whatever became of the leases.
OneWorker ==
  \A w \in Worker : pc[w] \in AtWork =>
    /\ status[at[w]] = "running"
    /\ \A v \in Worker \ {w} : pc[v] \in AtWork => at[v] # at[w]

\* Before it transmits, and whenever it means to try again, a worker has uploaded
\* nothing, and so had every worker before it.
NothingSent ==
  /\ \A w \in Worker : pc[w] \in BeforeAccept => accepted[at[w]] = 0
  /\ \A j \in Publish : status[j] \in {"absent", "queued"} => accepted[j] = 0

\* With the types, the inductive invariant.
IInv == HasJob /\ OneWorker /\ NothingSent /\ NeverDoublePost /\ AttemptBudget
-----------------------------------------------------------------------------
\* The places are told apart by these sets.
LEMMA Places ==
  /\ BeforeAccept \subseteq AtWork /\ AtWork \subseteq Location
  /\ {"scanning", "project", "claim", "unproject", "unjob"} \cap AtWork = {}
  /\ {"scanning", "project", "claim", "unproject", "unjob"} \subseteq Location
  /\ {"confirm", "settle", "fail"} \cap BeforeAccept = {}
BY DEF BeforeAccept, AtWork, Location

\* A worker changes places.
LEMMA MovesTyped ==
  ASSUME TypeOK, NEW w \in Worker, NEW l \in Location, Goto(w, l)
  PROVE  /\ pc' \in [Worker -> Location]
         /\ pc'[w] = l
         /\ \A v \in Worker \ {w} : pc'[v] = pc[v]
BY DEF TypeOK, Goto

\* An announced and a silent change of the status of one job.
LEMMA JobTyped ==
  ASSUME TypeOK, NEW j \in Publish, NEW s \in Life!Status, NEW k \in Life!Kind,
         Life!Announce(j, s, k) \/ Life!Quietly(j, s)
  PROVE  /\ Life!TypeOK'
         /\ status'[j] = s
         /\ \A i \in Publish \ {j} : status'[i] = status[i]
<1>1. status' = [status EXCEPT ![j] = s]
  BY DEF Life!Announce, Life!Quietly
<1>2. status' \in [Publish -> Life!Status]
  BY <1>1 DEF TypeOK, Life!TypeOK
<1>3. events' \in [Publish -> [Life!Kind -> Nat]]
  <2>1. CASE Life!Quietly(j, s)
    BY <2>1 DEF Life!Quietly, TypeOK, Life!TypeOK
  <2>2. CASE Life!Announce(j, s, k)
    <3>1. events' = [events EXCEPT ![j][k] = @ + 1]
      BY <2>2 DEF Life!Announce
    <3>2. events \in [Publish -> [Life!Kind -> Nat]]
      BY DEF TypeOK, Life!TypeOK
    <3>3. [events[j] EXCEPT ![k] = @ + 1] \in [Life!Kind -> Nat]
      BY <3>2
    <3>4. QED
      BY <3>1, <3>2, <3>3
  <2>3. QED
    BY <2>1, <2>2
<1>4. QED
  BY <1>1, <1>2, <1>3 DEF TypeOK, Life!TypeOK

\* The lease rows stay well typed.
LEMMA LeaseTyped ==
  ASSUME TypeOK, NEW k, NEW w \in Worker,
         Locks!Take(k, w) \/ Locks!Drop(k, w) \/ Locks!Lapse({k}) \/ UNCHANGED leaseVars
  PROVE  /\ holder' \in [Publish \cup Project -> Worker \cup {Nobody}]
         /\ live' \in [Publish \cup Project -> BOOLEAN]
BY DEF TypeOK, Locks!Take, Locks!Drop, Locks!Lapse, Locks!leaseVars, leaseVars

\* The account rows stay well typed, by steps of their own ...
LEMMA AccountTyped ==
  ASSUME TypeOK, Accounts!Next \/ UNCHANGED accountVars
  PROVE  Accounts!TypeOK'
<1> USE DEF TypeOK, Accounts!TypeOK, Accounts!AccountStatus, Accounts!Credential,
            Accounts!processVars, Accounts!rowVars
<1>1. CASE UNCHANGED accountVars
  BY <1>1 DEF accountVars, tokenVars
<1>2. CASE Accounts!Next
  <2>1. PICK a \in Account :
          \/ Accounts!Connect(a) \/ Accounts!Store(a) \/ Accounts!StoreFails(a)
          \/ Accounts!RevokeCredential(a) \/ Accounts!MarkRevoked(a) \/ Accounts!Ages(a)
    BY <1>2 DEF Accounts!Next
  <2>2. CASE Accounts!Connect(a)
    BY <2>2, PublishAssumption DEF Accounts!Connect
  <2>3. CASE ~Accounts!Connect(a)
    BY <2>1, <2>3 DEF Accounts!Store, Accounts!StoreFails, Accounts!RevokeCredential,
       Accounts!MarkRevoked, Accounts!Ages
  <2>4. QED
    BY <2>2, <2>3
<1>3. QED
  BY <1>1, <1>2

\* ... and by those of a worker that loads the row of a credential, writes it, or leaves it.
LoadMoves ==
  UNCHANGED loaded \/ \E w \in Worker : Accounts!Forget(w) \/ \E a : Accounts!Load(a, w)

LEMMA LoadTyped ==
  ASSUME TypeOK, LoadMoves, UNCHANGED tokenVars \/ \E a : Accounts!Rotate(a)
  PROVE  Accounts!TypeOK'
<1> USE DEF TypeOK, Accounts!TypeOK, Accounts!AccountStatus, Accounts!Credential,
            Accounts!processVars
<1>1. loaded' \in [Account -> SUBSET Worker]
  BY DEF LoadMoves, Accounts!Forget, Accounts!Load
<1>2. UNCHANGED <<account, connecting, revoking, connects>>
  BY DEF tokenVars, Accounts!Rotate
<1>3. credential' \in [Account -> Accounts!Credential]
  BY DEF tokenVars, Accounts!Rotate
<1>4. QED
  BY <1>1, <1>2, <1>3
-----------------------------------------------------------------------------
\* A worker moves on without any write to jobs or uploads.
LEMMA MoveSafe ==
  ASSUME TypeOK, IInv, NEW w \in Worker, NEW l \in Location, Goto(w, l),
         UNCHANGED <<status, attempt, accepted>>,
         l \in AtWork => pc[w] \in AtWork /\ at'[w] = at[w],
         l \in BeforeAccept => pc[w] \in BeforeAccept,
         \A v \in Worker \ {w} : at'[v] = at[v],
         l # "scanning" => at'[w] \in Publish
  PROVE  IInv'
<1>1. pc'[w] = l /\ \A v \in Worker \ {w} : pc'[v] = pc[v]
  BY MovesTyped
<1>2. HasJob'
  BY <1>1 DEF IInv, HasJob
<1>3. OneWorker'
  BY <1>1 DEF IInv, OneWorker
<1>4. NothingSent'
  BY <1>1, Places DEF IInv, NothingSent
<1>5. NeverDoublePost' /\ AttemptBudget'
  BY DEF IInv, NeverDoublePost, AttemptBudget
<1>6. QED
  BY <1>2, <1>3, <1>4, <1>5 DEF IInv

\* A step that touches neither jobs nor uploads nor workers' places.
LEMMA QuietSafe ==
  ASSUME IInv, UNCHANGED <<status, attempt, accepted, pc, at>>
  PROVE  IInv'
BY DEF IInv, HasJob, OneWorker, NothingSent, NeverDoublePost, AttemptBudget

\* The worker of a job ends its attempt: the job is settled, or is queued again
\* with nothing uploaded and attempts left.
LEMMA AttemptEnds ==
  ASSUME TypeOK, IInv, NEW w \in Worker, pc[w] \in AtWork, Goto(w, "unproject"),
         NEW s \in {"succeeded", "failed", "queued"},
         status' = [status EXCEPT ![at[w]] = s],
         UNCHANGED <<attempt, accepted, at>>,
         s = "queued" => attempt[at[w]] < MaxAttempts /\ accepted[at[w]] = 0
  PROVE  IInv'
<1>1. pc'[w] = "unproject" /\ \A v \in Worker \ {w} : pc'[v] = pc[v]
  BY MovesTyped, Places
<1>2. at[w] \in Publish /\ status[at[w]] = "running"
  BY Places DEF IInv, HasJob, OneWorker
<1>3. status'[at[w]] = s /\ \A j \in Publish \ {at[w]} : status'[j] = status[j]
  BY <1>2 DEF TypeOK, Life!TypeOK
<1>4. HasJob'
  BY <1>1, <1>2 DEF IInv, HasJob
<1>5. OneWorker'
  <2> SUFFICES ASSUME NEW v \in Worker, pc'[v] \in AtWork
               PROVE  /\ status'[at[v]] = "running"
                      /\ \A u \in Worker \ {v} : pc'[u] \in AtWork => at[u] # at[v]
    BY DEF OneWorker
  <2>1. v # w /\ pc[v] \in AtWork
    BY <1>1, Places
  <2>2. at[v] \in Publish /\ at[v] # at[w]
    BY <2>1, Places DEF IInv, HasJob, OneWorker
  <2>3. QED
    BY <1>1, <1>3, <2>1, <2>2, Places DEF IInv, OneWorker
<1>6. NothingSent'
  BY <1>1, <1>2, <1>3, Places DEF IInv, NothingSent
<1>7. NeverDoublePost'
  BY DEF IInv, NeverDoublePost
<1>8. AttemptBudget'
  BY <1>2, <1>3 DEF IInv, AttemptBudget
<1>9. QED
  BY <1>4, <1>5, <1>6, <1>7, <1>8 DEF IInv
-----------------------------------------------------------------------------
\* Creating a job.
LEMMA CreateSafe ==
  ASSUME TypeOK, IInv, NEW j \in Publish, NEW t \in Target, CreatePublishJob(j, t)
  PROVE  TypeOK' /\ IInv'
<1>1. /\ status[j] = "absent" /\ Life!Announce(j, "queued", "created")
      /\ due' = [due EXCEPT ![j] = TRUE] /\ target' = [target EXCEPT ![j] = t]
      /\ UNCHANGED <<attempt, accepted, accountVars, pc, at, todo, holder, live, lost, faults>>
  BY DEF CreatePublishJob, AddJob, Life!Create, workerVars, leaseVars, countVars
<1>2. /\ Life!TypeOK' /\ status'[j] = "queued"
      /\ \A i \in Publish \ {j} : status'[i] = status[i]
  BY <1>1, JobTyped, "queued" \in Life!Status, "created" \in Life!Kind DEF Life!Status, Life!Kind
<1>3. TypeOK'
  BY <1>1, <1>2, AccountTyped DEF TypeOK
<1>4. \A w \in Worker : pc[w] \in AtWork => at[w] # j
  BY <1>1 DEF IInv, OneWorker
<1>5. HasJob' /\ NeverDoublePost'
  BY <1>1 DEF IInv, HasJob, NeverDoublePost
<1>6. OneWorker'
  BY <1>1, <1>2, <1>4, Places DEF IInv, OneWorker, HasJob
<1>7. NothingSent'
  BY <1>1, <1>2 DEF IInv, NothingSent
<1>8. AttemptBudget'
  <2>1. attempt[j] \in Nat /\ ~(attempt[j] > 0)
    BY <1>1 DEF IInv, AttemptBudget, TypeOK
  <2>2. attempt[j] < MaxAttempts
    BY <2>1, PublishAssumption
  <2>3. QED
    BY <1>1, <1>2, <2>1, <2>2 DEF IInv, AttemptBudget
<1>9. QED
  BY <1>3, <1>5, <1>6, <1>7, <1>8 DEF IInv

\* The claim, or the discovery that there is nothing to claim.
LEMMA ClaimSafe ==
  ASSUME TypeOK, IInv, NEW w \in Worker, Claim(w)
  PROVE  TypeOK' /\ IInv'
<1> DEFINE j == at[w]
<1>1. /\ pc[w] = "claim" /\ j \in Publish
      /\ UNCHANGED <<target, accepted, accountVars, at, todo, holder, live, lost, faults>>
  BY DEF Claim, IInv, HasJob, leaseVars, countVars
<1>2. CASE status[j] # "queued" /\ Goto(w, "unproject") /\ UNCHANGED jobVars
  <2>1. UNCHANGED <<status, events, attempt, due>>
    BY <1>2 DEF jobVars
  <2>2. IInv'
    BY <1>1, <1>2, <2>1, MoveSafe, Places
  <2>3. TypeOK'
    BY <1>1, <1>2, <2>1, MovesTyped, AccountTyped, Places DEF TypeOK, Life!TypeOK
  <2>4. QED
    BY <2>2, <2>3
<1>3. CASE MarkRunning(j) /\ Goto(w, "authorize")
  <2>1. /\ status[j] = "queued" /\ Life!Quietly(j, "running")
        /\ attempt' = [attempt EXCEPT ![j] = @ + 1] /\ UNCHANGED due
    BY <1>3 DEF MarkRunning, Life!Claim
  <2>2. /\ Life!TypeOK' /\ status'[j] = "running"
        /\ \A i \in Publish \ {j} : status'[i] = status[i]
    BY <1>1, <2>1, JobTyped, "running" \in Life!Status, "created" \in Life!Kind
       DEF Life!Status, Life!Kind
  <2>3. pc'[w] = "authorize" /\ \A v \in Worker \ {w} : pc'[v] = pc[v]
    BY <1>3, MovesTyped, "authorize" \in Location DEF Location, AtWork
  <2>4. pc' \in [Worker -> Location]
    BY <1>3, MovesTyped, "authorize" \in Location DEF Location, AtWork
  <2>5. attempt' \in [Publish -> Nat]
    BY <1>1, <2>1 DEF TypeOK
  <2>6. TypeOK'
    BY <1>1, <2>1, <2>2, <2>4, <2>5, AccountTyped DEF TypeOK
  <2>7. \A v \in Worker : pc[v] \in AtWork => at[v] # j
    BY <2>1 DEF IInv, OneWorker
  <2>8. HasJob' /\ NeverDoublePost'
    BY <1>1, <2>3 DEF IInv, HasJob, NeverDoublePost
  <2>9. OneWorker'
    <3> SUFFICES ASSUME NEW v \in Worker, pc'[v] \in AtWork
                 PROVE  /\ status'[at[v]] = "running"
                        /\ \A u \in Worker \ {v} : pc'[u] \in AtWork => at[u] # at[v]
      BY <1>1 DEF OneWorker
    <3>1. CASE v = w
      BY <2>2, <2>3, <2>7, <3>1
    <3>2. CASE v # w
      BY <2>2, <2>3, <2>7, <3>2, Places DEF IInv, OneWorker, HasJob
    <3>3. QED
      BY <3>1, <3>2
  <2>10. NothingSent'
    BY <1>1, <2>1, <2>2, <2>3 DEF IInv, NothingSent
  <2>11. AttemptBudget'
    <3>1. attempt[j] \in Nat /\ attempt[j] < MaxAttempts
      BY <1>1, <2>1 DEF IInv, AttemptBudget, TypeOK
    <3>2. attempt'[j] = attempt[j] + 1 /\ \A i \in Publish \ {j} : attempt'[i] = attempt[i]
      BY <1>1, <2>1 DEF TypeOK
    <3>3. attempt'[j] <= MaxAttempts /\ attempt'[j] > 0
      BY <3>1, <3>2, PublishAssumption
    <3>4. QED
      BY <2>2, <3>2, <3>3 DEF IInv, AttemptBudget
  <2>12. QED
    BY <2>6, <2>8, <2>9, <2>10, <2>11 DEF IInv
<1>4. QED
  BY <1>2, <1>3 DEF Claim

\* The steps that only move the worker, before the claim and after it.
LEMMA ProceedSafe ==
  ASSUME TypeOK, IInv, NEW w \in Worker, NEW from, NEW to \in AtWork \cup {"unproject"},
         Proceed(w, from, to), from \in AtWork, to \in BeforeAccept => from \in BeforeAccept
  PROVE  TypeOK' /\ IInv'
<1>1. /\ pc[w] = from /\ Goto(w, to) /\ to \in Location
      /\ LoadMoves
      /\ UNCHANGED <<status, events, attempt, due, target, accepted, tokenVars, at, todo,
                     holder, live, lost, faults>>
  BY Places DEF Proceed, LoadMoves, jobVars, leaseVars, countVars
<1>2. at[w] \in Publish
  BY <1>1, Places DEF IInv, HasJob
<1>3. IInv'
  <2>1. to \in AtWork => pc[w] \in AtWork /\ at'[w] = at[w]
    BY <1>1
  <2>2. to \in BeforeAccept => pc[w] \in BeforeAccept
    BY <1>1
  <2>3. QED
    BY <1>1, <1>2, <2>1, <2>2, MoveSafe
<1>4. TypeOK'
  BY <1>1, MovesTyped, LoadTyped DEF TypeOK, Life!TypeOK
<1>5. QED
  BY <1>3, <1>4

\* Scanning, and taking the two leases.
LEMMA LockSafe ==
  ASSUME TypeOK, IInv, NEW w \in Worker, Scan(w) \/ LockJob(w) \/ LockProject(w)
  PROVE  TypeOK' /\ IInv'
<1>1. UNCHANGED <<status, events, attempt, due, target, accepted, accountVars, lost, faults>>
  BY DEF Scan, LockJob, LockProject, jobVars, countVars
<1>2. CASE Scan(w)
  <2>1. UNCHANGED <<pc, at, holder, live>> /\ todo' \in [Worker -> SUBSET Publish]
    BY <1>2 DEF Scan, leaseVars, ListClaimable, TypeOK
  <2>2. TypeOK'
    BY <1>1, <2>1, AccountTyped DEF TypeOK, Life!TypeOK
  <2>3. QED
    BY <1>1, <2>1, <2>2, QuietSafe
<1>3. CASE LockJob(w)
  <2>1. PICK j \in todo[w] :
          /\ pc[w] = "scanning" /\ todo' = [todo EXCEPT ![w] = @ \ {j}]
          /\ \/ Locks!Take(j, w) /\ at' = [at EXCEPT ![w] = j] /\ Goto(w, "project")
             \/ UNCHANGED <<at, pc, leaseVars>>
    BY <1>3 DEF LockJob
  <2>2. j \in Publish /\ todo' \in [Worker -> SUBSET Publish]
    BY <2>1 DEF TypeOK
  <2>3. CASE UNCHANGED <<at, pc, leaseVars>>
    <3>1. TypeOK'
      BY <1>1, <2>2, <2>3, AccountTyped, LeaseTyped DEF TypeOK, Life!TypeOK
    <3>2. QED
      BY <1>1, <2>3, <3>1, QuietSafe
  <2>4. CASE Locks!Take(j, w) /\ at' = [at EXCEPT ![w] = j] /\ Goto(w, "project")
    <3>1. /\ at' \in [Worker -> Publish \cup {Nothing}] /\ at'[w] = j
          /\ \A v \in Worker \ {w} : at'[v] = at[v]
      BY <2>2, <2>4 DEF TypeOK
    <3>2. pc' \in [Worker -> Location]
      BY <2>4, MovesTyped, Places
    <3>3. TypeOK'
      BY <1>1, <2>2, <2>4, <3>1, <3>2, AccountTyped, LeaseTyped DEF TypeOK, Life!TypeOK
    <3>4. IInv'
      BY <1>1, <2>2, <2>4, <3>1, MoveSafe, Places
    <3>5. QED
      BY <3>3, <3>4
  <2>5. QED
    BY <2>1, <2>3, <2>4
<1>4. CASE LockProject(w)
  <2>1. /\ pc[w] = "project" /\ UNCHANGED <<at, todo>>
        /\ \E l \in {"claim", "unjob"} : Goto(w, l)
        /\ Locks!Take(target[at[w]].project, w) \/ UNCHANGED leaseVars
    BY <1>4 DEF LockProject
  <2>2. at[w] \in Publish
    BY <2>1 DEF IInv, HasJob
  <2>3. TypeOK'
    BY <1>1, <2>1, AccountTyped, LeaseTyped, MovesTyped, Places DEF TypeOK, Life!TypeOK
  <2>4. IInv'
    BY <1>1, <2>1, <2>2, MoveSafe, Places
  <2>5. QED
    BY <2>3, <2>4
<1>5. QED
  BY <1>2, <1>3, <1>4

\* Giving the two leases back.
LEMMA UnlockSafe ==
  ASSUME TypeOK, IInv, NEW w \in Worker, UnlockProject(w) \/ UnlockJob(w)
  PROVE  TypeOK' /\ IInv'
<1>1. /\ pc[w] \in {"unproject", "unjob"} /\ at[w] \in Publish
      /\ UNCHANGED <<status, events, attempt, due, target, accepted, accountVars, todo,
                     lost, faults>>
  BY DEF UnlockProject, UnlockJob, jobVars, countVars, IInv, HasJob
<1>2. PICK k : Locks!Drop(k, w)
  BY DEF UnlockProject, UnlockJob
<1>3. PICK l \in {"unjob", "scanning"} :
        /\ Goto(w, l)
        /\ IF l = "unjob" THEN UNCHANGED at ELSE at' = [at EXCEPT ![w] = Nothing]
  BY DEF UnlockProject, UnlockJob
<1>4. /\ at' \in [Worker -> Publish \cup {Nothing}]
      /\ l = "unjob" => at'[w] = at[w]
      /\ \A v \in Worker \ {w} : at'[v] = at[v]
  BY <1>3 DEF TypeOK
<1>5. TypeOK'
  BY <1>1, <1>2, <1>3, <1>4, AccountTyped, LeaseTyped, MovesTyped, Places DEF TypeOK, Life!TypeOK
<1>6. IInv'
  BY <1>1, <1>3, <1>4, MoveSafe, Places
<1>7. QED
  BY <1>5, <1>6
-----------------------------------------------------------------------------
\* Phase 2, its rotation and its upload apart, only moves the worker.
LEMMA PublishStepSafe ==
  ASSUME TypeOK, IInv, NEW w \in Worker, PublishSteps(w)
  PROVE  TypeOK' /\ IInv'
<1> USE DEF AtWork, BeforeAccept
<1>1. CASE Authorize(w)
  <2>1. \E to \in {"fail", "refresh", "prepare"} : Proceed(w, "authorize", to)
    BY <1>1 DEF Authorize
  <2>2. QED
    BY <2>1, ProceedSafe
<1>2. CASE Rotate(w)
  <2>1. /\ pc[w] = "refresh" /\ \E l \in {"unproject", "prepare"} : Goto(w, l)
        /\ LoadMoves /\ (UNCHANGED tokenVars \/ \E a : Accounts!Rotate(a))
        /\ lost' \in Nat
        /\ UNCHANGED <<status, events, attempt, due, target, accepted, at, todo, holder, live,
                       faults>>
    <3>1. lost \in Nat
      BY DEF TypeOK
    <3>2. QED
      BY <1>2, <3>1 DEF Rotate, LoadMoves, jobVars, leaseVars
  <2>2. at[w] \in Publish
    BY <2>1 DEF IInv, HasJob
  <2>3. IInv'
    BY <2>1, <2>2, MoveSafe, Places
  <2>4. TypeOK'
    BY <2>1, MovesTyped, LoadTyped, Places DEF TypeOK, Life!TypeOK
  <2>5. QED
    BY <2>3, <2>4
<1>3. CASE KeepToken(w)
  BY <1>3, ProceedSafe DEF KeepToken
<1>4. CASE Resolve(w) \/ Initiate(w)
  BY <1>4, ProceedSafe DEF Resolve, Initiate
<1>5. CASE Transmit(w)
  <2>1. CASE Proceed(w, "transmit", "retry") \/ Proceed(w, "transmit", "fail")
    BY <2>1, ProceedSafe
  <2>2. CASE Accept(w, "fail") \/ Accept(w, "confirm")
    <3>1. PICK to \in {"fail", "confirm"} : Accept(w, to)
      BY <2>2
    <3>2. /\ pc[w] = "transmit" /\ Goto(w, to) /\ accepted' = [accepted EXCEPT ![at[w]] = @ + 1]
          /\ UNCHANGED <<status, events, attempt, due, target, accountVars, at, todo,
                         holder, live, lost, faults>>
      BY <3>1 DEF Accept, jobVars, leaseVars, countVars
    <3>3. /\ at[w] \in Publish /\ status[at[w]] = "running" /\ accepted[at[w]] = 0
          /\ \A v \in Worker \ {w} : pc[v] \in AtWork => at[v] # at[w]
      BY <3>2 DEF IInv, HasJob, OneWorker, NothingSent
    <3>4. /\ accepted' \in [Publish -> Nat] /\ accepted'[at[w]] = 1
          /\ \A j \in Publish \ {at[w]} : accepted'[j] = accepted[j]
      BY <3>2, <3>3 DEF TypeOK
    <3>5. /\ pc' \in [Worker -> Location] /\ pc'[w] = to
          /\ \A v \in Worker \ {w} : pc'[v] = pc[v]
      BY <3>2, MovesTyped, Places
    <3>6. TypeOK'
      BY <3>2, <3>4, <3>5, AccountTyped DEF TypeOK, Life!TypeOK
    <3>7. HasJob' /\ OneWorker'
      BY <3>2, <3>3, <3>5 DEF IInv, HasJob, OneWorker
    <3>8. NothingSent'
      <4>1. \A v \in Worker : pc'[v] \in BeforeAccept => accepted'[at'[v]] = 0
        BY <3>2, <3>3, <3>4, <3>5, Places DEF IInv, HasJob, NothingSent
      <4>2. \A j \in Publish : status'[j] \in {"absent", "queued"} => accepted'[j] = 0
        BY <3>2, <3>3, <3>4 DEF IInv, NothingSent
      <4>3. QED
        BY <4>1, <4>2 DEF NothingSent
    <3>9. NeverDoublePost' /\ AttemptBudget'
      BY <3>2, <3>4 DEF IInv, NeverDoublePost, AttemptBudget
    <3>10. QED
      BY <3>6, <3>7, <3>8, <3>9 DEF IInv
  <2>3. QED
    BY <1>5, <2>1, <2>2 DEF Transmit
<1>6. CASE Confirm(w)
  BY <1>6, ProceedSafe DEF Confirm
<1>7. QED
  BY <1>1, <1>2, <1>3, <1>4, <1>5, <1>6 DEF PublishSteps

\* Phase 3, and a retry: the job of a worker is running, so its write happens.
LEMMA SettleSafe ==
  ASSUME TypeOK, IInv, NEW w \in Worker, Settle(w) \/ SettleRetry(w) \/ SettleFailed(w)
  PROVE  TypeOK' /\ IInv'
<1> DEFINE j == at[w]
<1>1. /\ pc[w] \in {"settle", "retry", "fail"} /\ j \in Publish /\ status[j] = "running"
      /\ pc[w] = "retry" => accepted[j] = 0
      /\ UNCHANGED <<target, accepted, accountVars, at, todo, holder, live, lost, faults>>
  BY DEF Settle, SettleRetry, SettleFailed, leaseVars, countVars, IInv, HasJob, OneWorker,
     NothingSent, AtWork, BeforeAccept
<1>2. CASE pc[w] = "retry" /\ ~RetriesLeft(j)
  <2>1. Goto(w, "fail") /\ UNCHANGED <<status, events, attempt, due>>
    BY <1>2 DEF SettleRetry, Settle, SettleFailed, jobVars
  <2>2. "fail" \in Location /\ "fail" \in AtWork /\ "fail" \notin BeforeAccept
        /\ pc[w] \in AtWork
    BY <1>1 DEF Location, AtWork, BeforeAccept
  <2>3. IInv'
    BY <1>1, <2>1, <2>2, MoveSafe
  <2>4. TypeOK'
    BY <1>1, <2>1, <2>2, MovesTyped, AccountTyped DEF TypeOK, Life!TypeOK
  <2>5. QED
    BY <2>3, <2>4
<1>3. CASE ~(pc[w] = "retry" /\ ~RetriesLeft(j))
  <2>1. PICK s \in {"succeeded", "failed", "queued"} :
          /\ Goto(w, "unproject")
          /\ (Life!Announce(j, s, s) /\ s # "queued") \/ Life!Quietly(j, s)
          /\ s = "queued" => RetriesLeft(j) /\ accepted[j] = 0
          /\ attempt' = attempt /\ due' \in [Publish -> BOOLEAN]
    <3>1. due \in [Publish -> BOOLEAN]
      BY DEF TypeOK
    <3>2. CASE Settle(w)
      BY <1>1, <3>1, <3>2 DEF Settle, MarkSucceeded, Life!Settle
    <3>3. CASE SettleFailed(w)
      BY <1>1, <3>1, <3>3 DEF SettleFailed, MarkFailed, Life!Settle
    <3>4. CASE SettleRetry(w)
      BY <1>1, <1>3, <3>1, <3>4 DEF SettleRetry, RescheduleForRetry, Life!Requeue
    <3>5. QED
      BY <3>2, <3>3, <3>4
  <2>2. s \in Life!Status /\ (s # "queued" => s \in Life!Kind) /\ "created" \in Life!Kind
    BY DEF Life!Status, Life!Kind, Life!Settled
  <2>3. Life!TypeOK'
    BY <1>1, <2>1, <2>2, JobTyped
  <2>4. status' = [status EXCEPT ![j] = s]
    BY <2>1 DEF Life!Announce, Life!Quietly
  <2>5. TypeOK'
    BY <1>1, <2>1, <2>3, MovesTyped, AccountTyped, Places DEF TypeOK
  <2>6. pc[w] \in AtWork
    BY <1>1 DEF AtWork
  <2>7. IInv'
    BY <1>1, <2>1, <2>4, <2>6, AttemptEnds DEF RetriesLeft
  <2>8. QED
    BY <2>5, <2>7
<1>4. QED
  BY <1>2, <1>3

\* Faults, expiring leases, backoff and account traffic.
LEMMA FaultSafe ==
  ASSUME TypeOK, IInv, NEW w \in Worker, Crash(w) \/ Escapes(w)
  PROVE  TypeOK' /\ IInv'
<1>1. /\ UNCHANGED <<status, events, attempt, due, target, accepted, tokenVars, holder, live,
                     lost>>
      /\ LoadMoves
      /\ faults' \in 0..MaxFaults
  <2>1. /\ faults \in 0..MaxFaults /\ faults < MaxFaults /\ faults' = faults + 1
    BY DEF Crash, Escapes, Fault, TypeOK
  <2>2. faults' \in 0..MaxFaults
    BY <2>1, PublishAssumption
  <2>3. QED
    BY <2>2 DEF Crash, Escapes, Fault, LoadMoves, jobVars, leaseVars
<1>2. CASE Escapes(w)
  <2>1. pc[w] \in AtWork /\ Goto(w, "unproject") /\ UNCHANGED <<at, todo>> /\ at[w] \in Publish
    BY <1>2, Places DEF Escapes, IInv, HasJob
  <2>2. IInv'
    BY <1>1, <2>1, MoveSafe, Places
  <2>3. TypeOK'
    BY <1>1, <2>1, MovesTyped, LoadTyped, Places DEF TypeOK, Life!TypeOK
  <2>4. QED
    BY <2>2, <2>3
<1>3. CASE Crash(w)
  <2>1. /\ Goto(w, "scanning") /\ at' \in [Worker -> Publish \cup {Nothing}]
        /\ todo' \in [Worker -> SUBSET Publish]
        /\ \A v \in Worker \ {w} : at'[v] = at[v]
    BY <1>3 DEF Crash, TypeOK
  <2>2. IInv'
    BY <1>1, <2>1, MoveSafe, Places
  <2>3. TypeOK'
    BY <1>1, <2>1, MovesTyped, LoadTyped, Places DEF TypeOK, Life!TypeOK
  <2>4. QED
    BY <2>2, <2>3
<1>4. QED
  BY <1>2, <1>3

LEMMA TimeSafe ==
  ASSUME TypeOK, IInv,
         \/ AccountStep
         \/ \E k \in Publish \cup Project : LeaseLapses(k)
         \/ \E j \in Publish : BackoffEnds(j)
  PROVE  TypeOK' /\ IInv'
<1>1. UNCHANGED <<status, events, attempt, target, accepted, pc, at, todo, lost, faults>>
  BY DEF AccountStep, LeaseLapses, BackoffEnds, jobVars, workerVars, countVars
<1>2. Accounts!Next \/ UNCHANGED accountVars
  BY DEF AccountStep, LeaseLapses, BackoffEnds
<1>3. due' \in [Publish -> BOOLEAN]
  BY DEF AccountStep, LeaseLapses, BackoffEnds, jobVars, TypeOK
<1>4. (\E k : Locks!Lapse({k})) \/ UNCHANGED leaseVars
  BY DEF AccountStep, LeaseLapses, BackoffEnds
<1>5. /\ holder' \in [Publish \cup Project -> Worker \cup {Nobody}]
      /\ live' \in [Publish \cup Project -> BOOLEAN]
  BY <1>4 DEF TypeOK, Locks!Lapse, leaseVars
<1>6. QED
  BY <1>1, <1>2, <1>3, <1>5, AccountTyped, QuietSafe DEF TypeOK, Life!TypeOK
-----------------------------------------------------------------------------
LEMMA StepSafe ==
  ASSUME TypeOK, IInv, [Next]_vars
  PROVE  TypeOK' /\ IInv'
<1>1. CASE \E j \in Publish, t \in Target : CreatePublishJob(j, t)
  BY <1>1, CreateSafe
<1>2. CASE \E w \in Worker : WorkerStep(w)
  BY <1>2, LockSafe, ClaimSafe, PublishStepSafe, SettleSafe, UnlockSafe DEF WorkerStep
<1>3. CASE \E w \in Worker : Crash(w) \/ Escapes(w)
  BY <1>3, FaultSafe
<1>4. CASE \/ AccountStep
           \/ \E k \in Publish \cup Project : LeaseLapses(k)
           \/ \E j \in Publish : BackoffEnds(j)
  BY <1>4, TimeSafe
<1>5. CASE UNCHANGED vars
  BY <1>5, AccountTyped, QuietSafe DEF vars, jobVars, workerVars, leaseVars, countVars, TypeOK,
     Life!TypeOK
<1>6. QED
  BY <1>1, <1>2, <1>3, <1>4, <1>5 DEF Next

LEMMA InitSafe == Init => TypeOK /\ IInv
<1> SUFFICES ASSUME Init PROVE TypeOK /\ IInv
  OBVIOUS
<1>1. Life!TypeOK
  BY DEF Init, Life!Init, Life!TypeOK, Life!Status
<1>2. Accounts!TypeOK
  BY PublishAssumption DEF Init, Accounts!Init, Accounts!TypeOK, Accounts!AccountStatus,
     Accounts!Credential
<1>3. TypeOK
  BY <1>1, <1>2, PublishAssumption DEF Init, Locks!Init, TypeOK, Location
<1>4. IInv
  BY PublishAssumption, Places DEF Init, Life!Init, IInv, HasJob, OneWorker, NothingSent,
     NeverDoublePost, AttemptBudget, BeforeAccept, AtWork
<1>5. QED
  BY <1>3, <1>4

\* A job has a single worker between claim and settlement, and until the platform has
\* accepted nothing is recorded as sent: the types and these facts are inductive.
THEOREM Inductive == Spec => [](TypeOK /\ IInv)
  BY InitSafe, StepSafe, PTL DEF Spec

\* Every variable keeps its type.
THEOREM PublishTyped == Spec => []TypeOK
  BY Inductive, PTL

\* "Never double-post" (PUB-11): the platform takes the upload of a job at most once,
\* whatever fails, lapses, crashes or is retried.
THEOREM PostedOnce == Spec => []NeverDoublePost
<1>1. IInv => NeverDoublePost
  BY DEF IInv
<1>2. QED
  BY <1>1, Inductive, PTL

\* A job is attempted at most max_attempts times, and one that waits in the queue can
\* still be attempted.
THEOREM AttemptsBounded == Spec => []AttemptBudget
<1>1. IInv => AttemptBudget
  BY DEF IInv
<1>2. QED
  BY <1>1, Inductive, PTL
-----------------------------------------------------------------------------
\* The life of a job is changed by the operations of JobLifecycle only.
LEMMA StepFollowsLife ==
  ASSUME TypeOK, IInv, [Next]_vars
  PROVE  [Life!Next]_Life!jobVars
<1> USE DEF Life!jobVars
<1>1. CASE \E j \in Publish, t \in Target : CreatePublishJob(j, t)
  BY <1>1 DEF CreatePublishJob, AddJob, Life!Next
<1>2. CASE \E w \in Worker : Claim(w)
  <2>1. PICK w \in Worker : Claim(w)
    BY <1>2
  <2>2. at[w] \in Publish
    BY <2>1 DEF Claim, IInv, HasJob
  <2>3. QED
    BY <2>1, <2>2 DEF Claim, MarkRunning, jobVars, Life!Next
<1>3. CASE \E w \in Worker : Settle(w) \/ SettleFailed(w) \/ SettleRetry(w)
  <2>1. PICK w \in Worker : Settle(w) \/ SettleFailed(w) \/ SettleRetry(w)
    BY <1>3
  <2>2. at[w] \in Publish
    BY <2>1 DEF Settle, SettleFailed, SettleRetry, IInv, HasJob
  <2>3. QED
    BY <2>1, <2>2 DEF Settle, SettleFailed, SettleRetry, MarkSucceeded, MarkFailed,
       RescheduleForRetry, jobVars, Life!Next
<1>4. CASE \E w \in Worker : \/ Scan(w) \/ LockJob(w) \/ LockProject(w) \/ PublishSteps(w)
                             \/ UnlockProject(w) \/ UnlockJob(w) \/ Crash(w) \/ Escapes(w)
  BY <1>4 DEF Scan, LockJob, LockProject, PublishSteps, Authorize, Rotate, KeepToken, Resolve,
     Initiate, Transmit, Accept, Confirm, Proceed, UnlockProject, UnlockJob, Crash, Escapes, jobVars
<1>5. CASE \/ AccountStep \/ UNCHANGED vars
           \/ \E k \in Publish \cup Project : LeaseLapses(k)
           \/ \E j \in Publish : BackoffEnds(j)
  BY <1>5 DEF AccountStep, LeaseLapses, BackoffEnds, vars, jobVars
<1>6. QED
  BY <1>1, <1>2, <1>3, <1>4, <1>5 DEF Next, WorkerStep

\* A publish job is a job of JobLifecycle: a retry is silent, the end is announced in
\* the step that brings it, once, and nothing follows it.
THEOREM LifecycleFollowed == Spec => PublishFollowsLifecycle
<1>1. Init => Life!Init
  BY DEF Init
<1>2. TypeOK /\ IInv /\ [Next]_vars => [Life!Next]_Life!jobVars
  BY StepFollowsLife
<1>3. QED
  BY <1>1, <1>2, Inductive, PTL DEF Spec, PublishFollowsLifecycle, Life!Spec
-----------------------------------------------------------------------------
(***************************************************************************)
(* Stranded jobs.  A job runs with nobody on it when its worker left it    *)
(* running, and there is a fault or a lost rotation to answer for each.    *)
(***************************************************************************)
Stranded == {j \in Publish : status[j] = "running" /\ ~Attended(j)}

Accounted == IsFiniteSet(Stranded) /\ Cardinality(Stranded) <= faults + lost

\* What a step may do to the count: nothing, or one job against one more fault.
NoMore == Stranded' \subseteq Stranded /\ UNCHANGED <<faults, lost>>
OneMore == \E j \in Publish : /\ Stranded' \subseteq Stranded \cup {j}
                              /\ faults' + lost' = faults + lost + 1

\* One worker moves: at most its own job is stranded, and none if it works on.
LEMMA OneLeaves ==
  ASSUME TypeOK, NEW w \in Worker, UNCHANGED status,
         \A v \in Worker \ {w} : pc'[v] = pc[v] /\ at'[v] = at[v]
  PROVE  /\ Stranded' \subseteq Stranded \cup {at[w]}
         /\ (pc[w] \in AtWork => pc'[w] \in AtWork /\ at'[w] = at[w]) => Stranded' \subseteq Stranded
BY DEF Stranded, Attended

\* A job whose worker settles it or puts it back is not running any more.
LEMMA OneEnds ==
  ASSUME TypeOK, NEW w \in Worker, at[w] \in Publish,
         status'[at[w]] # "running",
         \A i \in Publish \ {at[w]} : status'[i] = status[i],
         \A v \in Worker \ {w} : pc'[v] = pc[v] /\ at'[v] = at[v]
  PROVE  Stranded' \subseteq Stranded
BY DEF Stranded, Attended

\* Where the steps of a worker take it.
LEMMA WorkerMoves ==
  ASSUME TypeOK, NEW w \in Worker, NEW l \in Location, Goto(w, l),
         UNCHANGED at \/ \E x : at' = [at EXCEPT ![w] = x]
  PROVE  /\ pc'[w] = l
         /\ \A v \in Worker \ {w} : pc'[v] = pc[v] /\ at'[v] = at[v]
<1>1. pc'[w] = l /\ \A v \in Worker \ {w} : pc'[v] = pc[v]
  BY MovesTyped
<1>2. \A v \in Worker \ {w} : at'[v] = at[v]
  BY DEF TypeOK
<1>3. QED
  BY <1>1, <1>2

\* Nobody is left behind by a step outside an attempt, nor by one within it.
LEMMA WorkerStrands ==
  ASSUME TypeOK, IInv, NEW w \in Worker, WorkerStep(w)
  PROVE  NoMore \/ OneMore
<1>1. CASE Scan(w)
  BY <1>1 DEF Scan, jobVars, countVars, NoMore, Stranded, Attended
<1>2. CASE LockJob(w) \/ LockProject(w) \/ UnlockProject(w) \/ UnlockJob(w)
  <2>1. UNCHANGED <<status, faults, lost>> /\ pc[w] \notin AtWork
    BY <1>2 DEF LockJob, LockProject, UnlockProject, UnlockJob, jobVars, countVars, AtWork
  <2>2. CASE UNCHANGED <<pc, at>>
    BY <2>1, <2>2 DEF NoMore, Stranded, Attended
  <2>3. CASE ~UNCHANGED <<pc, at>>
    <3>1. \E l \in {"project", "claim", "unjob", "scanning"} : Goto(w, l)
      BY <1>2, <2>3 DEF LockJob, LockProject, UnlockProject, UnlockJob
    <3>2. UNCHANGED at \/ \E x : at' = [at EXCEPT ![w] = x]
      BY <1>2 DEF LockJob, LockProject, UnlockProject, UnlockJob
    <3>3. \A v \in Worker \ {w} : pc'[v] = pc[v] /\ at'[v] = at[v]
      BY <3>1, <3>2, WorkerMoves, Places
    <3>4. QED
      BY <2>1, <3>3, OneLeaves DEF NoMore
  <2>4. QED
    BY <2>2, <2>3
<1>3. CASE Claim(w)
  <2>1. /\ pc[w] = "claim" /\ at[w] \in Publish /\ UNCHANGED <<at, faults, lost>>
    BY <1>3 DEF Claim, countVars, IInv, HasJob
  <2>2. CASE status[at[w]] # "queued" /\ Goto(w, "unproject") /\ UNCHANGED jobVars
    <3>1. \A v \in Worker \ {w} : pc'[v] = pc[v] /\ at'[v] = at[v]
      BY <2>1, <2>2, WorkerMoves, Places
    <3>2. QED
      BY <2>1, <2>2, <3>1, OneLeaves, Places DEF NoMore, jobVars
  <2>3. CASE MarkRunning(at[w]) /\ Goto(w, "authorize")
    <3>1. /\ pc'[w] = "authorize" /\ "authorize" \in AtWork
          /\ \A v \in Worker \ {w} : pc'[v] = pc[v] /\ at'[v] = at[v]
      BY <2>1, <2>3, WorkerMoves, Places DEF AtWork
    <3>2. status' = [status EXCEPT ![at[w]] = "running"]
      BY <2>3 DEF MarkRunning, Life!Claim, Life!Quietly
    <3>3. \A i \in Publish \ {at[w]} : status'[i] = status[i]
      BY <2>1, <3>2 DEF TypeOK, Life!TypeOK
    <3>4. Stranded' \subseteq Stranded
      BY <2>1, <3>1, <3>3, Places DEF Stranded, Attended
    <3>5. QED
      BY <2>1, <3>4 DEF NoMore
  <2>4. QED
    BY <1>3, <2>2, <2>3 DEF Claim
<1>4. ASSUME NEW from \in AtWork, NEW to \in AtWork, Proceed(w, from, to)
      PROVE  NoMore
  <2>1. /\ pc'[w] = to /\ UNCHANGED <<status, at, faults, lost>>
        /\ \A v \in Worker \ {w} : pc'[v] = pc[v] /\ at'[v] = at[v]
    BY <1>4, WorkerMoves, Places DEF Proceed, jobVars, countVars
  <2>2. QED
    BY <1>4, <2>1, OneLeaves DEF NoMore
<1>5. CASE Authorize(w) \/ KeepToken(w) \/ Resolve(w) \/ Initiate(w) \/ Confirm(w)
  <2>1. \E from, to \in AtWork : Proceed(w, from, to)
    BY <1>5 DEF Authorize, KeepToken, Resolve, Initiate, Confirm, AtWork
  <2>2. QED
    BY <1>4, <2>1
<1>6. CASE Rotate(w)
  <2>1. /\ pc[w] = "refresh" /\ at[w] \in Publish /\ UNCHANGED <<status, at, faults>>
    BY <1>6 DEF Rotate, jobVars, IInv, HasJob
  <2>2. CASE Goto(w, "prepare") /\ UNCHANGED lost
    <3>1. /\ pc'[w] = "prepare" /\ "prepare" \in AtWork
          /\ \A v \in Worker \ {w} : pc'[v] = pc[v] /\ at'[v] = at[v]
      BY <2>1, <2>2, WorkerMoves, Places DEF AtWork
    <3>2. QED
      BY <2>1, <2>2, <3>1, OneLeaves DEF NoMore
  <2>3. CASE Goto(w, "unproject") /\ lost' = lost + 1
    <3>1. \A v \in Worker \ {w} : pc'[v] = pc[v] /\ at'[v] = at[v]
      BY <2>1, <2>3, WorkerMoves, Places
    <3>2. Stranded' \subseteq Stranded \cup {at[w]}
      BY <2>1, <3>1, OneLeaves
    <3>3. faults' + lost' = faults + lost + 1
      BY <2>1, <2>3 DEF TypeOK
    <3>4. QED
      BY <2>1, <3>2, <3>3 DEF OneMore
  <2>4. QED
    BY <1>6, <2>2, <2>3 DEF Rotate
<1>7. CASE Transmit(w)
  <2>1. CASE \E to : Accept(w, to) /\ to \in {"fail", "confirm"}
    <3>1. PICK to \in {"fail", "confirm"} : Accept(w, to)
      BY <2>1
    <3>2. /\ pc'[w] = to /\ to \in AtWork /\ UNCHANGED <<status, at, faults, lost>>
          /\ \A v \in Worker \ {w} : pc'[v] = pc[v] /\ at'[v] = at[v]
      BY <3>1, WorkerMoves, Places DEF Accept, jobVars, countVars, AtWork
    <3>3. QED
      BY <3>2, OneLeaves DEF NoMore
  <2>2. CASE Proceed(w, "transmit", "retry") \/ Proceed(w, "transmit", "fail")
    BY <1>4, <2>2 DEF AtWork
  <2>3. QED
    BY <1>7, <2>1, <2>2 DEF Transmit
<1>8. CASE Settle(w) \/ SettleRetry(w) \/ SettleFailed(w)
  <2>1. /\ pc[w] \in {"settle", "retry", "fail"} /\ at[w] \in Publish
        /\ status[at[w]] = "running" /\ UNCHANGED <<at, faults, lost>>
    BY <1>8 DEF Settle, SettleRetry, SettleFailed, countVars, IInv, HasJob, OneWorker, AtWork
  <2>2. CASE Goto(w, "fail") /\ UNCHANGED jobVars
    <3>1. /\ pc'[w] = "fail" /\ "fail" \in AtWork
          /\ \A v \in Worker \ {w} : pc'[v] = pc[v] /\ at'[v] = at[v]
      BY <2>1, <2>2, WorkerMoves, Places DEF AtWork
    <3>2. QED
      BY <2>1, <2>2, <3>1, OneLeaves DEF NoMore, jobVars
  <2>3. CASE /\ Goto(w, "unproject")
             /\ \E s \in {"succeeded", "failed", "queued"} : status' = [status EXCEPT ![at[w]] = s]
    <3>1. \A v \in Worker \ {w} : pc'[v] = pc[v] /\ at'[v] = at[v]
      BY <2>1, <2>3, WorkerMoves, Places
    <3>2. /\ status'[at[w]] # "running"
          /\ \A i \in Publish \ {at[w]} : status'[i] = status[i]
      BY <2>1, <2>3 DEF TypeOK, Life!TypeOK
    <3>3. QED
      BY <2>1, <3>1, <3>2, OneEnds DEF NoMore
  <2>4. QED
    BY <1>8, <2>1, <2>2, <2>3 DEF Settle, SettleRetry, SettleFailed, MarkSucceeded, MarkFailed,
       RescheduleForRetry, Life!Settle, Life!Requeue, Life!Announce, Life!Quietly
<1>9. QED
  BY <1>1, <1>2, <1>3, <1>5, <1>6, <1>7, <1>8 DEF WorkerStep, PublishSteps

\* Every step strands nobody, or one job for one more fault.
LEMMA StepStrands ==
  ASSUME TypeOK, IInv, [Next]_vars
  PROVE  NoMore \/ OneMore
<1>1. ASSUME NEW j \in Publish, NEW t \in Target, CreatePublishJob(j, t) PROVE NoMore
  <2>1. /\ status' = [status EXCEPT ![j] = "queued"] /\ UNCHANGED <<pc, at, faults, lost>>
    BY <1>1 DEF CreatePublishJob, AddJob, Life!Create, Life!Announce, workerVars, countVars
  <2>2. QED
    BY <2>1 DEF TypeOK, Life!TypeOK, NoMore, Stranded, Attended
<1>2. CASE \/ AccountStep \/ UNCHANGED vars
           \/ \E k \in Publish \cup Project : LeaseLapses(k)
           \/ \E j \in Publish : BackoffEnds(j)
  BY <1>2 DEF AccountStep, LeaseLapses, BackoffEnds, vars, jobVars, workerVars, countVars, NoMore,
     Stranded, Attended
<1>3. ASSUME NEW w \in Worker, Crash(w) \/ Escapes(w) PROVE NoMore \/ OneMore
  <2>1. /\ UNCHANGED status /\ faults' = faults + 1 /\ lost' = lost
        /\ \E l \in {"scanning", "unproject"} : Goto(w, l)
        /\ UNCHANGED at \/ \E x : at' = [at EXCEPT ![w] = x]
        /\ at[w] \in Publish
    BY <1>3, Places DEF Crash, Escapes, Fault, jobVars, IInv, HasJob
  <2>2. \A v \in Worker \ {w} : pc'[v] = pc[v] /\ at'[v] = at[v]
    BY <2>1, WorkerMoves, Places
  <2>3. Stranded' \subseteq Stranded \cup {at[w]}
    BY <2>1, <2>2, OneLeaves
  <2>4. faults' + lost' = faults + lost + 1
    BY <2>1 DEF TypeOK
  <2>5. QED
    BY <2>1, <2>3, <2>4 DEF OneMore
<1>4. QED
  BY <1>1, <1>2, <1>3, WorkerStrands DEF Next

\* The count is kept.
LEMMA AccountedStep == TypeOK /\ IInv /\ Accounted /\ [Next]_vars => Accounted'
<1> SUFFICES ASSUME TypeOK, IInv, Accounted, [Next]_vars
             PROVE  Accounted'
  OBVIOUS
<1>1. /\ IsFiniteSet(Stranded) /\ Cardinality(Stranded) \in Nat
      /\ Cardinality(Stranded) <= faults + lost /\ faults \in Nat /\ lost \in Nat
  BY FS_CardinalityType DEF Accounted, TypeOK
<1>2. CASE NoMore
  <2>1. IsFiniteSet(Stranded') /\ Cardinality(Stranded') <= Cardinality(Stranded)
        /\ Cardinality(Stranded') \in Nat
    BY <1>1, <1>2, FS_Subset, FS_CardinalityType DEF NoMore
  <2>2. QED
    BY <1>1, <1>2, <2>1 DEF NoMore, Accounted
<1>3. CASE OneMore
  <2>1. PICK j \in Publish : /\ Stranded' \subseteq Stranded \cup {j}
                             /\ faults' + lost' = faults + lost + 1
    BY <1>3 DEF OneMore
  <2>2. /\ IsFiniteSet(Stranded \cup {j})
        /\ Cardinality(Stranded \cup {j}) <= Cardinality(Stranded) + 1
        /\ Cardinality(Stranded \cup {j}) \in Nat
    <3>1. /\ IsFiniteSet(Stranded \cup {j})
          /\ Cardinality(Stranded \cup {j}) \in {Cardinality(Stranded), Cardinality(Stranded) + 1}
      BY <1>1, FS_AddElement
    <3>2. QED
      BY <1>1, <3>1
  <2>3. IsFiniteSet(Stranded') /\ Cardinality(Stranded') <= Cardinality(Stranded \cup {j})
        /\ Cardinality(Stranded') \in Nat
    BY <2>1, <2>2, FS_Subset, FS_CardinalityType
  <2>4. QED
    BY <1>1, <2>1, <2>2, <2>3 DEF Accounted
<1>4. QED
  BY <1>2, <1>3, StepStrands

\* A job runs with nobody on it only by a fault, or by a rotation whose row a revocation
\* has deleted, whether or not the account has been connected anew; each strands at most
\* one, for any jobs, accounts and workers.
THEOREM StrandedAccounted == Spec => []StrandedByFault
<1>1. Init => Accounted
  <2> SUFFICES ASSUME Init
               PROVE  Accounted
    OBVIOUS
  <2>1. Stranded = {} /\ faults = 0 /\ lost = 0
    BY DEF Init, Life!Init, Stranded
  <2>2. QED
    BY <2>1, FS_EmptySet DEF Accounted
<1>2. Accounted => StrandedByFault
  BY DEF Accounted, StrandedByFault, Stranded
<1>3. QED
  BY <1>1, <1>2, AccountedStep, Inductive, PTL DEF Spec
-----------------------------------------------------------------------------
(***************************************************************************)
(* A refresh and a revocation.  The row a refresh has loaded is there, so  *)
(* that what it writes is never a credential that has been deleted.        *)
(***************************************************************************)
RowsLoaded == \A a \in Account : loaded[a] # {} => credential[a] # "none"

\* A revoked credential stays away until a new connection stores one.
OnlyStored ==
  \A a \in Account : (credential[a] = "none" /\ credential'[a] # "none") => connecting[a]

\* The steps of connections and revocations: the last deletes the row for everybody.
LEMMA AccountRows ==
  ASSUME TypeOK, RowsLoaded, Accounts!Next
  PROVE  RowsLoaded' /\ OnlyStored
<1> USE DEF TypeOK, Accounts!TypeOK, RowsLoaded, OnlyStored, Accounts!rowVars,
            Accounts!processVars
<1>1. PICK a \in Account :
        \/ Accounts!Connect(a) \/ Accounts!Store(a) \/ Accounts!StoreFails(a)
        \/ Accounts!RevokeCredential(a) \/ Accounts!MarkRevoked(a) \/ Accounts!Ages(a)
  BY DEF Accounts!Next
<1>2. CASE Accounts!Store(a)
  BY <1>2 DEF Accounts!Store
<1>3. CASE Accounts!RevokeCredential(a)
  BY <1>3 DEF Accounts!RevokeCredential
<1>4. CASE Accounts!Ages(a)
  BY <1>4 DEF Accounts!Ages
<1>5. CASE Accounts!Connect(a) \/ Accounts!StoreFails(a) \/ Accounts!MarkRevoked(a)
  BY <1>5 DEF Accounts!Connect, Accounts!StoreFails, Accounts!MarkRevoked
<1>6. QED
  BY <1>1, <1>2, <1>3, <1>4, <1>5

\* A worker loads a row only when there is one, and leaves a row as it is.
LEMMA ProceedRows ==
  ASSUME TypeOK, RowsLoaded, NEW w \in Worker, NEW from, NEW to, Proceed(w, from, to),
         to = "refresh" => Accounts!NeedsRefresh(target[at[w]].account)
  PROVE  RowsLoaded' /\ OnlyStored
<1> USE DEF TypeOK, Accounts!TypeOK, RowsLoaded, OnlyStored
<1>1. UNCHANGED credential
  BY DEF Proceed, tokenVars
<1>2. CASE to # "refresh"
  BY <1>1, <1>2 DEF Proceed, Accounts!Forget
<1>3. CASE to = "refresh"
  BY <1>1, <1>3 DEF Proceed, Accounts!Load, Accounts!NeedsRefresh
<1>4. QED
  BY <1>2, <1>3

\* A rotation writes the row it has loaded, which nobody has deleted.
LEMMA RotateRows ==
  ASSUME TypeOK, RowsLoaded, NEW w \in Worker, Rotate(w)
  PROVE  RowsLoaded' /\ OnlyStored
<1> USE DEF TypeOK, Accounts!TypeOK, RowsLoaded, OnlyStored
<1> DEFINE b == target[at[w]].account
<1>1. /\ \A a \in Account : loaded'[a] \subseteq loaded[a]
      /\ \/ UNCHANGED credential
         \/ w \in loaded[b] /\ credential' = [credential EXCEPT ![b] = "fresh"]
  BY DEF Rotate, tokenVars, Accounts!Forget, Accounts!Rotate, Accounts!RotationLost
<1>2. CASE UNCHANGED credential
  BY <1>1, <1>2
<1>3. CASE w \in loaded[b] /\ credential' = [credential EXCEPT ![b] = "fresh"]
  BY <1>1, <1>3
<1>4. QED
  BY <1>1, <1>2, <1>3

LEMMA StepRows ==
  ASSUME TypeOK, RowsLoaded, [Next]_vars
  PROVE  RowsLoaded' /\ OnlyStored
<1>1. CASE UNCHANGED accountVars
  BY <1>1 DEF accountVars, tokenVars, RowsLoaded, OnlyStored
<1>2. CASE AccountStep
  BY <1>2, AccountRows DEF AccountStep
<1>3. CASE \E w \in Worker : PublishSteps(w)
  <2>1. PICK w \in Worker : PublishSteps(w)
    BY <1>3
  <2>2. CASE Authorize(w)
    BY <2>2, ProceedRows DEF Authorize
  <2>3. CASE Rotate(w)
    BY <2>3, RotateRows
  <2>4. CASE KeepToken(w) \/ Resolve(w) \/ Initiate(w) \/ Confirm(w)
    BY <2>4, ProceedRows DEF KeepToken, Resolve, Initiate, Confirm
  <2>5. CASE Transmit(w)
    BY <1>1, <2>5, ProceedRows DEF Transmit, Accept
  <2>6. QED
    BY <2>1, <2>2, <2>3, <2>4, <2>5 DEF PublishSteps
<1>4. CASE \E w \in Worker : Crash(w) \/ Escapes(w)
  BY <1>4 DEF Crash, Escapes, tokenVars, Accounts!Forget, RowsLoaded, OnlyStored, TypeOK,
     Accounts!TypeOK
<1>5. QED
  BY <1>1, <1>2, <1>3, <1>4 DEF Next, vars, WorkerStep, CreatePublishJob, LeaseLapses, BackoffEnds,
     Scan, LockJob, LockProject, Claim, Settle, SettleRetry, SettleFailed, UnlockProject, UnlockJob

\* A token refresh never brings back a credential that a revocation has deleted: for any
\* workers and accounts, only a connection that is under way stores one anew.
THEOREM RevokedStaysRevoked == Spec => [][OnlyStored]_vars
<1>1. Init => RowsLoaded
  BY DEF Init, Accounts!Init, RowsLoaded
<1>2. TypeOK /\ RowsLoaded /\ [Next]_vars => RowsLoaded' /\ [OnlyStored]_vars
  BY StepRows
<1>3. QED
  BY <1>1, <1>2, PublishTyped, PTL DEF Spec
=============================================================================
