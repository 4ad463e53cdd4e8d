---------------------------- MODULE PublishJobs ----------------------------
(***************************************************************************)
(* Publish jobs: exported videos uploaded to the accounts of SocialAccounts*)
(* by poll workers (application/use_cases/publishing/, the publish job     *)
(* repository, and the destination adapters they upload through).          *)
(*                                                                         *)
(* A worker holds two leases, the job's and its project's, claims the job  *)
(* (which counts an attempt), and then works outside any transaction:      *)
(* authorize, fetch the artifact, open an upload session, transmit, learn  *)
(* the outcome.  Failures before the first byte are retried with backoff;  *)
(* once the platform may have accepted the video they never are.           *)
(***************************************************************************)
EXTENDS Naturals, FiniteSets

CONSTANTS
  Publish,      \* publish jobs, numbers in the order (created_at, id)
  Project,      \* projects
  Source,       \* exported artifacts
  Account, MaxConnects,   \* see SocialAccounts
  Worker,       \* instances of the publish poll loop
  Batch,        \* batch_size of a poll
  Nobody,       \* no lease row
  Nothing,      \* no job, no columns
  MaxAttempts,  \* max_attempts of a job
  MaxFaults     \* bound on crashes and unclassified exceptions

ASSUME PublishAssumption ==
  /\ Publish \subseteq Nat /\ Publish \cap Project = {} /\ Batch \in Nat \ {0}
  /\ Nobody \notin Worker /\ Nothing \notin Publish
  /\ MaxAttempts \in Nat \ {0} /\ MaxFaults \in Nat /\ MaxConnects \in Nat

VARIABLES
  status,        \* status[j], "absent" before the job is created
  events,        \* events[j][k]: events of kind k in the outbox
  attempt,       \* attempt[j]: the attempts claimed so far
  due,           \* due[j]: scheduled_at is null or has come
  target,        \* target[j]: the job's project, artifact and account
  accepted,      \* accepted[j]: uploads of j the platform took
  account, credential, loaded, connecting, revoking, connects,  \* SocialAccounts
  pc, at, todo,  \* where each worker is, its job, the rest of its scan
  holder, live,  \* the lease rows (Lease)
  lost,          \* token rotations that found their credential row gone
  faults

jobVars == <<status, events, attempt, due>>
tokenVars == <<account, credential, connecting, revoking, connects>>
accountVars == <<tokenVars, loaded>>
workerVars == <<pc, at, todo>>
leaseVars == <<holder, live>>
countVars == <<lost, faults>>
vars == <<jobVars, target, accepted, accountVars, workerVars, leaseVars, countVars>>

Locks == INSTANCE Lease WITH Key <- Publish \cup Project, Owner <- Worker
Life == INSTANCE JobLifecycle WITH Job <- Publish, Cancelable <- {}, Retried <- Publish
Accounts == INSTANCE SocialAccounts

PublishStatus == {"queued", "running", "succeeded", "failed"}
ActiveStatus == {"queued", "running", "succeeded"}
Target == [project : Project, source : Source, account : Account]

\* After the claim a worker is at work until it has settled the job.
AtWork == {"authorize", "refresh", "prepare", "transmit", "confirm",
           "settle", "retry", "fail"}
Location == {"scanning", "project", "claim", "unproject", "unjob"} \cup AtWork

Init == /\ Life!Init
        /\ attempt = [j \in Publish |-> 0]
        /\ due = [j \in Publish |-> FALSE]
        /\ target = [j \in Publish |-> Nothing]
        /\ accepted = [j \in Publish |-> 0]
        /\ Accounts!Init
        /\ pc = [w \in Worker |-> "scanning"]
        /\ at = [w \in Worker |-> Nothing]
        /\ todo = [w \in Worker |-> {}]
        /\ Locks!Init
        /\ lost = 0 /\ faults = 0

Goto(w, l) == pc' = [pc EXCEPT ![w] = l]
-----------------------------------------------------------------------------
(***************************************************************************)
(* The repository, one operator per statement, with the event its caller   *)
(* emits in the same transaction.                                          *)
(***************************************************************************)
\* get_active, and the partial unique index on the same predicate.
ActivePublishes(s, a) ==
  {j \in Publish : /\ status[j] \in ActiveStatus
                   /\ target[j].source = s /\ target[j].account = a}

\* add, with emit_publish_job_created.
AddJob(j, t) ==
  /\ Life!Create(j)
  /\ due' = [due EXCEPT ![j] = TRUE]
  /\ target' = [target EXCEPT ![j] = t]
  /\ UNCHANGED attempt

\* list_claimable: the oldest of the queued jobs that are due, a batch of them.
ListClaimable ==
  LET claimable == {j \in Publish : status[j] = "queued" /\ due[j]}
  IN {j \in claimable : Cardinality({i \in claimable : i < j}) < Batch}

\* mark_running: queued -> running, and one more attempt.
MarkRunning(j) ==
  /\ Life!Claim(j)
  /\ attempt' = [attempt EXCEPT ![j] = @ + 1]
  /\ UNCHANGED due

\* mark_succeeded: running -> succeeded.
MarkSucceeded(j) == Life!Settle(j, "succeeded") /\ UNCHANGED <<attempt, due>>

\* mark_failed: running -> failed.
MarkFailed(j) == Life!Settle(j, "failed") /\ UNCHANGED <<attempt, due>>

\* reschedule_for_retry: running -> queued, in the future, without an event.
\* (Mutant: announced like a failure.)
RescheduleAnnounced(j) ==
  /\ status[j] = "running"
  /\ Life!Announce(j, "queued", "failed")
  /\ due' = [due EXCEPT ![j] = FALSE]
  /\ UNCHANGED attempt

RescheduleForRetry(j) ==
  /\ Life!Requeue(j)
  /\ due' = [due EXCEPT ![j] = FALSE]
  /\ UNCHANGED attempt
-----------------------------------------------------------------------------
(***************************************************************************)
(* The API.                                                                *)
(***************************************************************************)
\* CreatePublishJob.execute for a connected account and a fulfilled export that
\* have no active job yet; CreatePublishJobs.execute calls it once per account.
CreatePublishJob(j, t) ==
  /\ account[t.account] = "connected"
  /\ ActivePublishes(t.source, t.account) = {}
  /\ AddJob(j, t)
  /\ UNCHANGED <<accepted, accountVars, workerVars, leaseVars, countVars>>

\* The steps of connections and revocations, and of time over tokens.
AccountStep ==
  /\ Accounts!Next
  /\ UNCHANGED <<jobVars, target, accepted, workerVars, leaseVars, countVars>>
-----------------------------------------------------------------------------
(***************************************************************************)
(* PublishWorker.run_once and ProcessPublishJob.process.                   *)
(***************************************************************************)
Scan(w) ==
  /\ pc[w] = "scanning" /\ todo[w] = {}
  /\ todo' = [todo EXCEPT ![w] = ListClaimable]
  /\ UNCHANGED <<jobVars, target, accepted, accountVars, pc, at, leaseVars, countVars>>

\* Lock 1: the job's, oldest first.
LockJob(w) ==
  /\ pc[w] = "scanning"
  /\ \E j \in todo[w] :
       /\ \A i \in todo[w] : j <= i
       /\ todo' = [todo EXCEPT ![w] = @ \ {j}]
       /\ \/ Locks!Take(j, w) /\ at' = [at EXCEPT ![w] = j] /\ Goto(w, "project")
          \/ ~Locks!Free(j) /\ UNCHANGED <<at, pc, leaseVars>>
  /\ UNCHANGED <<jobVars, target, accepted, accountVars, countVars>>

\* Lock 2: the project's; without it the job is put back and no attempt is spent.
LockProject(w) ==
  LET p == target[at[w]].project IN
  /\ pc[w] = "project"
  /\ \/ Locks!Take(p, w) /\ Goto(w, "claim")
     \/ ~Locks!Free(p) /\ Goto(w, "unjob") /\ UNCHANGED leaseVars
  /\ UNCHANGED <<jobVars, target, accepted, accountVars, at, todo, countVars>>

\* Phase 1.
Claim(w) ==
  LET j == at[w] IN
  /\ pc[w] = "claim"
  /\ \/ MarkRunning(j) /\ Goto(w, "authorize")
     \/ status[j] # "queued" /\ Goto(w, "unproject") /\ UNCHANGED jobVars
  /\ UNCHANGED <<target, accepted, accountVars, at, todo, leaseVars, countVars>>

\* A step of phase 2 that writes no row.  A refresh begins with the row it has loaded.
Proceed(w, from, to) ==
  /\ pc[w] = from
  /\ Goto(w, to)
  /\ IF to = "refresh" THEN Accounts!Load(target[at[w]].account, w) ELSE Accounts!Forget(w)
  /\ UNCHANGED <<jobVars, target, accepted, tokenVars, at, todo, leaseVars, countVars>>

\* Phase 2a, authorize: it fails closed, or asks the provider for a new token.
\* (Mutant: the failure is not caught.)
AuthorizeEscapes(w) ==
  LET a == target[at[w]].account IN
  Proceed(w, "authorize", IF ~Accounts!Authorizable(a) THEN "unproject"
                          ELSE IF Accounts!NeedsRefresh(a) THEN "refresh"
                          ELSE "prepare")

Authorize(w) ==
  LET a == target[at[w]].account IN
  Proceed(w, "authorize", IF ~Accounts!Authorizable(a) THEN "fail"
                          ELSE IF Accounts!NeedsRefresh(a) THEN "refresh"
                          ELSE "prepare")

\* The provider granted a new token: it is written back to the row that was loaded,
\* unless a revocation has deleted it, which nothing on the way up classifies.
Rotate(w) ==
  LET a == target[at[w]].account IN
  /\ pc[w] = "refresh"
  /\ IF Accounts!RotationLost(a, w)
       THEN Goto(w, "unproject") /\ lost' = lost + 1 /\ UNCHANGED tokenVars
       ELSE Goto(w, "prepare") /\ Accounts!Rotate(a) /\ UNCHANGED lost
  /\ Accounts!Forget(w)
  /\ UNCHANGED <<jobVars, target, accepted, at, todo, leaseVars, faults>>

\* The provider granted none: the old token serves while it lasts.
KeepToken(w) ==
  \/ Proceed(w, "refresh", "prepare")
  \/ Proceed(w, "refresh", "fail")

\* Phase 2b and 2c: the artifact has been deleted, or the object store fails, which
\* is retried; a missing thumbnail stops nobody.
Resolve(w) ==
  \/ Proceed(w, "prepare", "fail")
  \/ Proceed(w, "prepare", "retry")

\* With the artifact at hand the adapter opens an upload session: a rejection is
\* permanent, trouble is not, no byte having been sent.
Initiate(w) ==
  \/ Proceed(w, "prepare", "transmit")
  \/ Proceed(w, "prepare", "fail")
  \/ Proceed(w, "prepare", "retry")

\* The platform takes the upload, whether or not the worker ever learns it.
Accept(w, to) ==
  /\ pc[w] = "transmit"
  /\ accepted' = [accepted EXCEPT ![at[w]] = @ + 1]
  /\ Goto(w, to)
  /\ UNCHANGED <<jobVars, target, accountVars, at, todo, leaseVars, countVars>>

\* _transmit: no connection was ever made, the upload was refused, the outcome is
\* ambiguous, or the platform confirmed it has the bytes.
\* (Mutant: an ambiguous outcome is retried.)
TransmitAgain(w) ==
  \/ Proceed(w, "transmit", "retry")
  \/ Proceed(w, "transmit", "fail")
  \/ Accept(w, "retry")
  \/ Accept(w, "confirm")

Transmit(w) ==
  \/ Proceed(w, "transmit", "retry")
  \/ Proceed(w, "transmit", "fail")
  \/ Accept(w, "fail")
  \/ Accept(w, "confirm")

\* The post's id is read from the response, or polled for until the platform is done
\* or the budget is spent; polls that fail are absorbed.
Confirm(w) ==
  \/ Proceed(w, "confirm", "settle")
  \/ Proceed(w, "confirm", "fail")

\* Phase 3.
Settle(w) ==
  LET j == at[w] IN
  /\ pc[w] = "settle"
  /\ \/ MarkSucceeded(j)
     \/ status[j] # "running" /\ UNCHANGED jobVars
  /\ Goto(w, "unproject")
  /\ UNCHANGED <<target, accepted, accountVars, at, todo, leaseVars, countVars>>

\* _settle_retry_or_fail: the last attempt fails for good.  (Mutant: one too many.)
RetriesLeftAtMax(j) == attempt[j] <= MaxAttempts
RetriesLeft(j) == attempt[j] < MaxAttempts

SettleRetry(w) ==
  LET j == at[w] IN
  /\ pc[w] = "retry"
  /\ IF RetriesLeft(j)
       THEN /\ \/ RescheduleForRetry(j)
               \/ status[j] # "running" /\ UNCHANGED jobVars
            /\ Goto(w, "unproject")
       ELSE Goto(w, "fail") /\ UNCHANGED jobVars
  /\ UNCHANGED <<target, accepted, accountVars, at, todo, leaseVars, countVars>>

\* _settle_failed.
SettleFailed(w) ==
  LET j == at[w] IN
  /\ pc[w] = "fail"
  /\ \/ MarkFailed(j)
     \/ status[j] # "running" /\ UNCHANGED jobVars
  /\ Goto(w, "unproject")
  /\ UNCHANGED <<target, accepted, accountVars, at, todo, leaseVars, countVars>>

\* The two finally blocks.
UnlockProject(w) ==
  /\ pc[w] = "unproject"
  /\ Locks!Drop(target[at[w]].project, w)
  /\ Goto(w, "unjob")
  /\ UNCHANGED <<jobVars, target, accepted, accountVars, at, todo, countVars>>

UnlockJob(w) ==
  /\ pc[w] = "unjob"
  /\ Locks!Drop(at[w], w)
  /\ at' = [at EXCEPT ![w] = Nothing]
  /\ Goto(w, "scanning")
  /\ UNCHANGED <<jobVars, target, accepted, accountVars, todo, countVars>>
-----------------------------------------------------------------------------
(***************************************************************************)
(* Time and faults.                                                        *)
(***************************************************************************)
\* No lease is renewed, whatever the upload takes.
LeaseLapses(k) ==
  /\ live[k]
  /\ Locks!Lapse({k})
  /\ UNCHANGED <<jobVars, target, accepted, accountVars, workerVars, countVars>>

\* The backoff of a retry is over.
BackoffEnds(j) ==
  /\ status[j] = "queued" /\ ~due[j]
  /\ due' = [due EXCEPT ![j] = TRUE]
  /\ UNCHANGED <<status, events, attempt, target, accepted, accountVars, workerVars,
                 leaseVars, countVars>>

Fault == faults < MaxFaults /\ faults' = faults + 1 /\ UNCHANGED lost

\* An exception none of the except clauses names.
Escapes(w) ==
  /\ pc[w] \in AtWork
  /\ Fault
  /\ Goto(w, "unproject")
  /\ Accounts!Forget(w)
  /\ UNCHANGED <<jobVars, target, accepted, tokenVars, at, todo, leaseVars>>

Crash(w) ==
  /\ pc[w] # "scanning"
  /\ Fault
  /\ Goto(w, "scanning")
  /\ at' = [at EXCEPT ![w] = Nothing]
  /\ todo' = [todo EXCEPT ![w] = {}]
  /\ Accounts!Forget(w)
  /\ UNCHANGED <<jobVars, target, accepted, tokenVars, leaseVars>>
-----------------------------------------------------------------------------
PublishSteps(w) ==
  \/ Authorize(w) \/ Rotate(w) \/ KeepToken(w) \/ Resolve(w)
  \/ Initiate(w) \/ Transmit(w) \/ Confirm(w)

WorkerStep(w) ==
  \/ Scan(w) \/ LockJob(w) \/ LockProject(w) \/ Claim(w)
  \/ PublishSteps(w)
  \/ Settle(w) \/ SettleRetry(w) \/ SettleFailed(w)
  \/ UnlockProject(w) \/ UnlockJob(w)

Next == \/ \E j \in Publish, t \in Target : CreatePublishJob(j, t)
        \/ AccountStep
        \/ \E w \in Worker : WorkerStep(w)
        \/ \E k \in Publish \cup Project : LeaseLapses(k)
        \/ \E j \in Publish : BackoffEnds(j)
        \/ \E w \in Worker : Crash(w) \/ Escapes(w)

Spec == Init /\ [][Next]_vars

\* The worker host calls run_once again and again, and time passes.
Fairness == /\ \A w \in Worker : WF_vars(WorkerStep(w))
            /\ \A k \in Publish \cup Project : WF_vars(LeaseLapses(k))
            /\ \A j \in Publish : WF_vars(BackoffEnds(j))

FairSpec == Spec /\ Fairness
-----------------------------------------------------------------------------
(***************************************************************************)
(* Properties                                                              *)
(***************************************************************************)
\* Every variable has its type.
TypeOK ==
  /\ Life!TypeOK
  /\ attempt \in [Publish -> Nat]
  /\ due \in [Publish -> BOOLEAN]
  /\ target \in [Publish -> Target \cup {Nothing}]
  /\ accepted \in [Publish -> Nat]
  /\ Accounts!TypeOK
  /\ pc \in [Worker -> Location]
  /\ at \in [Worker -> Publish \cup {Nothing}]
  /\ todo \in [Worker -> SUBSET Publish]
  /\ holder \in [Publish \cup Project -> Worker \cup {Nobody}]
  /\ live \in [Publish \cup Project -> BOOLEAN]
  /\ lost \in Nat /\ faults \in 0..MaxFaults

\* Publish jobs live the life of JobLifecycle: a retry goes back to the queue in
\* silence, and the end is announced once and is final.
PublishFollowsLifecycle == Life!Spec

\* PUB-11, "never double-post": whatever fails, lapses, crashes or is retried, the
\* platform takes the upload of a job at most once.
NeverDoublePost == \A j \in Publish : accepted[j] <= 1

\* A job has max_attempts attempts and no more: one waiting for a retry has some
\* left, and none is spent on a project that is busy.
AttemptBudget ==
  \A j \in Publish :
    /\ attempt[j] <= MaxAttempts
    /\ status[j] = "queued" => attempt[j] < MaxAttempts
    /\ status[j] \in {"running", "succeeded", "failed"} <=> attempt[j] > 0 /\ status[j] # "queued"

\* A job is left running with nobody on it only by a fault, or by a revocation that
\* deleted the credential row its worker was refreshing, whether or not the account has
\* been connected anew by then: each strands at most one.
Attended(j) == \E w \in Worker : at[w] = j /\ pc[w] \in AtWork

StrandedByFault ==
  Cardinality({j \in Publish : status[j] = "running" /\ ~Attended(j)}) <= faults + lost

\* A queued job is taken up in the end: backoff, busy projects and dead workers'
\* leases do not keep it waiting for ever.
QueuedPublishIsTaken == \A j \in Publish : status[j] = "queued" ~> status[j] # "queued"
=============================================================================
