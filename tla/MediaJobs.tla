----------------------------- MODULE MediaJobs -----------------------------
(***************************************************************************)
(* Render jobs of some projects, the exports of their masters, and the     *)
(* media assets and stored objects both produce (application/use_cases/    *)
(* render, /export and /media, and their repositories).                    *)
(*                                                                         *)
(* Poll workers take queued jobs under a <kind>_job:<id> lease that is     *)
(* never renewed, work outside any transaction, put the result in the      *)
(* object store, and then register the asset and settle the job in one     *)
(* transaction.  Clients create, cancel, export, download and delete       *)
(* meanwhile.                                                              *)
(***************************************************************************)
EXTENDS Naturals, FiniteSets

CONSTANTS
  Render,        \* render jobs; the ids stand for the idempotency keys
  Export,        \* export jobs
  Project,       \* projects
  ProjectOf,     \* the project of each render
  Batch,         \* batch_size of a poll
  Encoding,      \* (format, quality, orientation) of an export
  RenderWorker,  \* instances of the render poll loop
  ExportWorker,  \* instances of the export poll loop
  Client,        \* concurrent API requests
  NoLessee,      \* no lease row
  Nothing,       \* no job, no request, no columns
  MaxMishaps,    \* bound on crashes and unclassified exceptions
  MaxDownloads   \* bound on the download counter

Job == Render \cup Export
JobWorker == RenderWorker \cup ExportWorker
MasterOf == [render : Render, encoding : Encoding]

\* What the theorems assume of the constants.  The jobs are numbers in the order (created_at,
\* id); created_at is when the transaction began, so that a job may appear after one with a
\* larger number.
ASSUME MediaAssumption ==
  /\ Render \subseteq Nat /\ Export \subseteq Nat /\ Batch \in Nat \ {0}
  /\ ProjectOf \in [Render -> Project]
  /\ Render \cap Export = {} /\ RenderWorker \cap ExportWorker = {}
  /\ NoLessee \notin JobWorker /\ Nothing \notin Job \cup MasterOf
  /\ MaxMishaps \in Nat /\ MaxDownloads \in Nat

VARIABLES
  projects,      \* the projects that are not soft-deleted
  status,        \* status[j], "absent" before the job is created
  version,       \* version[j], what a cancel is fenced on
  master,        \* master[e], columns of an export: its render and its encoding
  output,        \* output[j]: output_media_asset_id is set
  downloads,     \* downloads[e]: download_count
  events,        \* events[j][k]: events of kind k in the outbox
  asset,         \* asset[j]: the media_assets row of j's output
  stored,        \* jobs whose output is in the object store
  request,       \* request[c]: what an API request has read and will act on
  pc, job, todo, \* where each worker is, its job, and the rest of its scan
  lessee, leased, \* the lease rows (Lease)
  mishaps        \* faults so far

jobVars == <<status, version, events, output>>
exportVars == <<master, downloads>>
assetVars == <<asset, stored>>
workerVars == <<pc, job, todo>>
jobLeaseVars == <<lessee, leased>>
mediaVars ==
  <<projects, jobVars, exportVars, assetVars, request, workerVars, jobLeaseVars, mishaps>>

JobLocks == INSTANCE Lease
              WITH Key <- Job, Owner <- JobWorker, Nobody <- NoLessee,
                   holder <- lessee, live <- leased
Life == INSTANCE JobLifecycle WITH Cancelable <- Render, Retried <- {}

RenderStatus == {"queued", "running", "succeeded", "failed", "canceled"}
ExportStatus == {"queued", "running", "succeeded", "failed", "canceled"}
CancelableStatus == {"queued", "running"}
ActiveStatus == {"queued", "running", "succeeded"}
Location == {"scanning", "claim", "working", "settling", "failing", "release"}
Attending == {"working", "settling", "failing"}

Request == [op : {"export"}, render : Render, encoding : Encoding]
             \cup [op : {"cancel"}, job : Render, version : Nat]

MediaInit == /\ projects = Project
             /\ Life!Init
             /\ version = [j \in Job |-> 0]
             /\ master = [e \in Export |-> Nothing]
             /\ output = [j \in Job |-> FALSE]
             /\ downloads = [e \in Export |-> 0]
             /\ asset = [j \in Job |-> "none"]
             /\ stored = {}
             /\ request = [c \in Client |-> Nothing]
             /\ pc = [w \in JobWorker |-> "scanning"]
             /\ job = [w \in JobWorker |-> Nothing]
             /\ todo = [w \in JobWorker |-> {}]
             /\ JobLocks!Init
             /\ mishaps = 0

Goto(w, l) == pc' = [pc EXCEPT ![w] = l]
Answered(c) == request' = [request EXCEPT ![c] = Nothing]
-----------------------------------------------------------------------------
(***************************************************************************)
(* The repositories: one operator per statement.  Each is a compare-and-   *)
(* set that bumps the version, together with the event its caller emits in *)
(* the same transaction; FALSE when no row matches.                        *)
(***************************************************************************)
Bump(j) == version' = [version EXCEPT ![j] = @ + 1]

\* add, for either table, with emit_*_job_created.
AddJob(j) == Life!Create(j) /\ Bump(j) /\ UNCHANGED output

\* get_active, and the partial unique index on the same predicate, which refuses the
\* insert of a request that passed the pre-check.  (Mutant: there is no index.)
ActiveExports(r, n) ==
  {e \in Export : master[e] = [render |-> r, encoding |-> n] /\ status[e] \in ActiveStatus}
SlotTaken(r, n) == ActiveExports(r, n) # {}
RefusedByNobody(q) == FALSE
RefusedByIndex(q) == SlotTaken(q.render, q.encoding)

\* list_claimable: the oldest queued jobs, a batch of them, whosoever they are.
ListClaimable(kind) ==
  LET queued == {j \in kind : status[j] = "queued"}
  IN {j \in queued : Cardinality({i \in queued : i < j}) < Batch}

\* mark_running: queued -> running.
MarkRunning(j) == Life!Claim(j) /\ Bump(j) /\ UNCHANGED output

\* mark_succeeded: running -> succeeded.  (Mutant: whatever the status is.)
MarkSucceededBlindly(j) ==
  /\ Life!Announce(j, "succeeded", "succeeded")
  /\ Bump(j)
  /\ output' = [output EXCEPT ![j] = TRUE]

MarkSucceeded(j) ==
  /\ Life!Settle(j, "succeeded")
  /\ Bump(j)
  /\ output' = [output EXCEPT ![j] = TRUE]

\* mark_failed: running -> failed.
MarkFailed(j) == Life!Settle(j, "failed") /\ Bump(j) /\ UNCHANGED output

\* RenderJobRepository.cancel: fenced on the version and on the status.
Cancels(q) == version[q.job] = q.version /\ status[q.job] \in CancelableStatus
CancelRow(r) == Life!Cancel(r) /\ Bump(r) /\ UNCHANGED output

\* MediaRepository.add under the job's deterministic storage key: the unique
\* constraint on the coordinates counts deleted rows too.
AddAsset(j) == asset[j] = "none" /\ asset' = [asset EXCEPT ![j] = "live"]

\* get_owned of the master an export is made from.
MasterAvailable(r) == status[r] = "succeeded" /\ output[r]

\* get_ownership: a soft-deleted project has none.  An export's is its master's.
RenderOf(j) == IF j \in Render THEN j ELSE master[j].render
Owned(j) == ProjectOf[RenderOf(j)] \in projects
-----------------------------------------------------------------------------
(***************************************************************************)
(* The API.                                                                *)
(***************************************************************************)
\* CreateRenderJob.execute, for a key that has no job yet: with one, it answers
\* with that job.
CreateRenderJob(r) ==
  /\ Owned(r)
  /\ AddJob(r)
  /\ UNCHANGED <<projects, exportVars, assetVars, request, workerVars, jobLeaseVars, mishaps>>

\* CancelRenderJob.execute reads the job and compares the client's version ...
ReadForCancel(c, r) ==
  /\ request[c] = Nothing
  /\ Owned(r)
  /\ status[r] \in CancelableStatus
  /\ request' = [request EXCEPT ![c] = [op |-> "cancel", job |-> r, version |-> version[r]]]
  /\ UNCHANGED <<projects, jobVars, exportVars, assetVars, workerVars, jobLeaseVars, mishaps>>

\* ... and cancels.  When the row has moved on it only classifies the refusal.
CancelRenderJob(c) ==
  /\ request[c] # Nothing /\ request[c].op = "cancel"
  /\ \/ Cancels(request[c]) /\ CancelRow(request[c].job)
     \/ ~Cancels(request[c]) /\ UNCHANGED jobVars
  /\ Answered(c)
  /\ UNCHANGED <<projects, exportVars, assetVars, workerVars, jobLeaseVars, mishaps>>

\* CreateExportJob.execute: everything it looks at before the insert.
CheckExport(c, r, n) ==
  /\ request[c] = Nothing
  /\ Owned(r)
  /\ MasterAvailable(r) /\ asset[r] = "live"
  /\ ~SlotTaken(r, n)
  /\ request' = [request EXCEPT ![c] = [op |-> "export", render |-> r, encoding |-> n]]
  /\ UNCHANGED <<projects, jobVars, exportVars, assetVars, workerVars, jobLeaseVars, mishaps>>

\* ... and the insert.  Losing a race on the index aborts the transaction.
CreateExportJob(c, e) ==
  LET q == request[c] IN
  /\ q # Nothing /\ q.op = "export"
  /\ status[e] = "absent"
  /\ IF RefusedByIndex(q)
       THEN UNCHANGED <<jobVars, master>>
       ELSE /\ AddJob(e)
            /\ master' = [master EXCEPT ![e] = [render |-> q.render, encoding |-> q.encoding]]
  /\ Answered(c)
  /\ UNCHANGED <<projects, downloads, assetVars, workerVars, jobLeaseVars, mishaps>>

\* DownloadExport.execute: a fulfilled export whose asset is live and whose object
\* can be delivered is counted, best effort: record_download.
DownloadExport(e) ==
  /\ status[e] = "succeeded" /\ Owned(e) /\ output[e] /\ asset[e] = "live" /\ e \in stored
  /\ downloads[e] < MaxDownloads
  /\ downloads' = [downloads EXCEPT ![e] = @ + 1]
  /\ UNCHANGED <<projects, jobVars, master, assetVars, request, workerVars, jobLeaseVars, mishaps>>

\* DeleteMedia.execute: a soft delete that looks at nobody who uses the asset.
\* (Mutant: a hard delete.)
DeleteMediaHard(j) ==
  /\ asset[j] = "live"
  /\ asset' = [asset EXCEPT ![j] = "none"]
  /\ UNCHANGED <<projects, jobVars, exportVars, stored, request, workerVars, jobLeaseVars, mishaps>>

DeleteMedia(j) ==
  /\ asset[j] = "live"
  /\ asset' = [asset EXCEPT ![j] = "deleted"]
  /\ UNCHANGED <<projects, jobVars, exportVars, stored, request, workerVars, jobLeaseVars, mishaps>>

\* DeleteProject.execute: its jobs stay as they are.
RetireProject(p) ==
  /\ p \in projects
  /\ projects' = projects \ {p}
  /\ UNCHANGED <<jobVars, exportVars, assetVars, request, workerVars, jobLeaseVars, mishaps>>
-----------------------------------------------------------------------------
(***************************************************************************)
(* The workers: RenderWorker.run_once with ProcessRenderJob.process, and   *)
(* ExportWorker.run_once with ProcessExportJob.process.                    *)
(***************************************************************************)
JobKind(w) == IF w \in RenderWorker THEN Render ELSE Export

\* list_claimable when the last pass has ended.
Scan(w) ==
  /\ pc[w] = "scanning" /\ todo[w] = {}
  /\ todo' = [todo EXCEPT ![w] = ListClaimable(JobKind(w))]
  /\ UNCHANGED <<projects, jobVars, exportVars, assetVars, request, pc, job, jobLeaseVars, mishaps>>

\* The lease of the next job of the scan, oldest first; a live lease of another worker
\* skips it.
Lock(w) ==
  /\ pc[w] = "scanning"
  /\ \E j \in todo[w] :
       /\ \A i \in todo[w] : j <= i
       /\ todo' = [todo EXCEPT ![w] = @ \ {j}]
       /\ \/ JobLocks!Take(j, w) /\ job' = [job EXCEPT ![w] = j] /\ Goto(w, "claim")
          \/ ~JobLocks!Free(j) /\ UNCHANGED <<job, pc, jobLeaseVars>>
  /\ UNCHANGED <<projects, jobVars, exportVars, assetVars, request, mishaps>>

\* An export whose master is not there is claimed as well, to be failed.
HasMaster(j) == j \in Render \/ MasterAvailable(master[j].render)

\* Phase 1.  A job that is no longer queued, or whose project is gone, is left as
\* it is.  (Mutant: claimed before the project is looked up.)
ClaimBeforeOwnership(w) ==
  LET j == job[w] IN
  /\ pc[w] = "claim"
  /\ IF status[j] = "queued"
       THEN MarkRunning(j) /\ Goto(w, IF Owned(j) THEN "working" ELSE "release")
       ELSE Goto(w, "release") /\ UNCHANGED jobVars
  /\ UNCHANGED <<projects, exportVars, assetVars, request, job, todo, jobLeaseVars, mishaps>>

ClaimJob(w) ==
  LET j == job[w] IN
  /\ pc[w] = "claim"
  /\ IF status[j] = "queued" /\ (Owned(j) \/ ~HasMaster(j))
       THEN MarkRunning(j) /\ Goto(w, IF HasMaster(j) THEN "working" ELSE "failing")
       ELSE Goto(w, "release") /\ UNCHANGED jobVars
  /\ UNCHANGED <<projects, exportVars, assetVars, request, job, todo, jobLeaseVars, mishaps>>

\* Phase 2, outside any transaction: read the sources, compose or transcode, put
\* the object under the job's own key.
Produce(w) ==
  LET j == job[w] IN
  /\ pc[w] = "working"
  /\ j \in Export => asset[master[j].render] = "live"
  /\ stored' = stored \cup {j}
  /\ Goto(w, "settling")
  /\ UNCHANGED <<projects, jobVars, exportVars, asset, request, job, todo, jobLeaseVars, mishaps>>

\* ... or a RenderError, ExportError or ObjectStorageError on the way: nothing to
\* render, a source that is gone or elsewhere, a tool or a store that fails.
ProduceFails(w) ==
  /\ pc[w] = "working"
  /\ Goto(w, "failing")
  /\ UNCHANGED <<projects, jobVars, exportVars, assetVars, request, job, todo, jobLeaseVars, mishaps>>

\* Phase 3: the asset and the job's success in one transaction.  A job that was
\* cancelled meanwhile keeps its status; the asset is registered all the same.
Settle(w) ==
  LET j == job[w] IN
  /\ pc[w] = "settling"
  /\ AddAsset(j)
  /\ \/ MarkSucceeded(j)
     \/ status[j] # "running" /\ UNCHANGED jobVars
  /\ Goto(w, "release")
  /\ UNCHANGED <<projects, exportVars, stored, request, job, todo, jobLeaseVars, mishaps>>

\* _settle_failed.
SettleFailed(w) ==
  LET j == job[w] IN
  /\ pc[w] = "failing"
  /\ \/ MarkFailed(j)
     \/ status[j] # "running" /\ UNCHANGED jobVars
  /\ Goto(w, "release")
  /\ UNCHANGED <<projects, exportVars, assetVars, request, job, todo, jobLeaseVars, mishaps>>

\* The finally block.
Unlock(w) ==
  /\ pc[w] = "release"
  /\ JobLocks!Drop(job[w], w)
  /\ job' = [job EXCEPT ![w] = Nothing]
  /\ Goto(w, "scanning")
  /\ UNCHANGED <<projects, jobVars, exportVars, assetVars, request, todo, mishaps>>
-----------------------------------------------------------------------------
(***************************************************************************)
(* Time and faults.                                                        *)
(***************************************************************************)
JobLeaseLapses(j) ==
  /\ leased[j]
  /\ JobLocks!Lapse({j})
  /\ UNCHANGED <<projects, jobVars, exportVars, assetVars, request, workerVars, mishaps>>

Mishap == mishaps < MaxMishaps /\ mishaps' = mishaps + 1

\* Any other exception passes the except clause by: the finally block releases the
\* lease, run_once logs the error, and the job stays as it is.
Escapes(w) ==
  /\ pc[w] \in Attending
  /\ Mishap
  /\ Goto(w, "release")
  /\ UNCHANGED <<projects, jobVars, exportVars, assetVars, request, job, todo, jobLeaseVars>>

WorkerDies(w) ==
  /\ pc[w] # "scanning"
  /\ Mishap
  /\ Goto(w, "scanning")
  /\ job' = [job EXCEPT ![w] = Nothing]
  /\ todo' = [todo EXCEPT ![w] = {}]
  /\ UNCHANGED <<projects, jobVars, exportVars, assetVars, request, jobLeaseVars>>
-----------------------------------------------------------------------------
ClientStep(c) ==
  \/ \E r \in Render : ReadForCancel(c, r) \/ \E n \in Encoding : CheckExport(c, r, n)
  \/ CancelRenderJob(c)
  \/ \E e \in Export : CreateExportJob(c, e)

WorkerStep(w) ==
  \/ Scan(w) \/ Lock(w) \/ ClaimJob(w)
  \/ Produce(w) \/ ProduceFails(w) \/ Settle(w) \/ SettleFailed(w) \/ Unlock(w)

MediaNext == \/ \E r \in Render : CreateRenderJob(r)
             \/ \E c \in Client : ClientStep(c)
             \/ \E e \in Export : DownloadExport(e)
             \/ \E j \in Job : DeleteMedia(j)
             \/ \E p \in Project : RetireProject(p)
             \/ \E w \in JobWorker : WorkerStep(w)
             \/ \E j \in Job : JobLeaseLapses(j)
             \/ \E w \in JobWorker : WorkerDies(w) \/ Escapes(w)

MediaSpec == MediaInit /\ [][MediaNext]_mediaVars

\* The worker host calls run_once again and again, and time passes.
MediaFairness == /\ \A w \in JobWorker : WF_mediaVars(WorkerStep(w))
                 /\ \A j \in Job : WF_mediaVars(JobLeaseLapses(j))

MediaFairSpec == MediaSpec /\ MediaFairness
-----------------------------------------------------------------------------
(***************************************************************************)
(* Properties                                                              *)
(***************************************************************************)
\* Every variable has its type.
MediaTypeOK ==
  /\ projects \subseteq Project
  /\ Life!TypeOK
  /\ version \in [Job -> Nat]
  /\ master \in [Export -> MasterOf \cup {Nothing}]
  /\ output \in [Job -> BOOLEAN]
  /\ downloads \in [Export -> Nat]
  /\ asset \in [Job -> {"none", "live", "deleted"}]
  /\ stored \subseteq Job
  /\ request \in [Client -> Request \cup {Nothing}]
  /\ pc \in [JobWorker -> Location]
  /\ job \in [JobWorker -> Job \cup {Nothing}]
  /\ todo \in [JobWorker -> SUBSET Job]
  /\ lessee \in [Job -> JobWorker \cup {NoLessee}]
  /\ leased \in [Job -> BOOLEAN]
  /\ mishaps \in 0..MaxMishaps

\* Renders and exports live the life of JobLifecycle: however workers, leases,
\* cancels and crashes interleave, a job is claimed once, ends once, announces
\* just that, and a cancelled render is never resurrected by its late worker.
JobsFollowLifecycle == Life!Spec

\* A succeeded job has its output registered over an object that was stored
\* first, nobody else has an output, and only exports of finished masters exist.
OutputBehindSuccess ==
  /\ \A j \in Job :
       /\ output[j] <=> status[j] = "succeeded"
       /\ asset[j] # "none" => j \in stored
       /\ output[j] => asset[j] # "none"
  /\ \A e \in Export :
       /\ status[e] # "absent" => master[e] # Nothing /\ MasterAvailable(master[e].render)
       /\ downloads[e] > 0 => status[e] = "succeeded"

\* "An active export already exists for this render + encoding": concurrent
\* requests that both passed the pre-check never yield two active exports.
OneActiveExport ==
  \A r \in Render, n \in Encoding : Cardinality(ActiveExports(r, n)) <= 1

\* A job can be left running with no worker on it, which nobody ever repairs, but
\* only by a crash or an unclassified exception: each fault strands at most one.
Attended(j) == \E w \in JobWorker : job[w] = j /\ pc[w] \in Attending

StrandedByFault ==
  Cardinality({j \in Job : status[j] = "running" /\ ~Attended(j)}) <= mishaps

\* A queued render of a live project is taken up, or cancelled, in the end: leases of dead
\* workers and passes that skipped it do not keep it waiting for ever.  What may is a batch
\* of older renders of deleted projects, which every pass lists and leaves as they are.
Blocked(r) ==
  Cardinality({i \in Render : i < r /\ status[i] = "queued" /\ ~Owned(i)}) >= Batch

QueuedRenderIsTaken ==
  \A r \in Render : (status[r] = "queued" /\ Owned(r))
                      ~> (status[r] # "queued" \/ ~Owned(r) \/ Blocked(r))

\* render_worker.py, of what no except clause names: "The job keeps its own state - its
\* lease expires and it is retried on a later pass".
EscapedIsRetried ==
  \A j \in Job : (status[j] = "running" /\ ~Attended(j))
                   ~> (status[j] # "running" \/ Attended(j))
=============================================================================
