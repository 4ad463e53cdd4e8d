# A verification development for the AI video platform

TLA+ models of the backend (`src/backend`), TLC configurations that check them on
small instances, and TLAPS proofs that hold for every value of the constants. Paths
below are relative to `src/backend/app` unless they begin with `docs/`, `scripts/`,
`alembic/` or `src/`.

To check: `tlc -config MCPublishJobs.cfg MCPublishJobs` (and so on, see *Runs*),
`tlapm WorkflowRunsProofs.tla` (and the other `*Proofs`). `PROJECT.json` says for each
definition which lines it models, for each property which change of the code would
break it, and for each hazard which property is aimed at it.

| module | kind | models |
|---|---|---|
| `Lease` | abstract specification | what a distributed lock promises, without a clock |
| `DistributedLocks` | component | the lock manager over the database clock; implements `Lease` |
| `RunLifecycle` | abstract specification | what clients and event consumers see of a workflow run |
| `WorkflowRuns` | component, over `Lease` | create, advance, cancel, webhook, poll, completion engine, resume; implements `RunLifecycle` |
| `GenerationJobs` | component, over `Lease` | the queue of generations: create, cancel, reap, claim, heartbeat, status writes |
| `Pipeline` | component | one run of one generation: plan, adapter, shots with verification and repair, video |
| `Manifests`, `Resolver` | pure algorithms | provider manifests, their validator, the rows they ask for; eligibility, score, ranking |
| `Catalogue` | component, over both | seeders and resolving readers on the catalogue tables |
| `ProviderManifests` | instances | the manifests TLC seeds and judges |
| `JobLifecycle` | abstract specification | what clients and consumers see of a render, export or publish job |
| `MediaJobs` | component, over `Lease` | renders, their exports, media assets and stored objects; implements `JobLifecycle` |
| `SocialAccounts` | component | connections, revocations, refreshes of publishing credentials |
| `PublishJobs` | component, over `SocialAccounts`, `Lease` | uploads with two leases, attempts and backoff; implements `JobLifecycle` |
| `WorkerHost` | component | supervision, restarts, drain and escalation of the workers |
| `EventDelivery` | component, over `WorkerHost`, `Lease` | outbox, relay, consumers, e-mail |
| `Timeline` | component | root, tracks and clips under one version |
| `Editing` | component, over `Timeline` | projects, scenes, versions |
| `Worlds`, `Library`, `MediaAssets`, `Accounts` | components | identity worlds; folders and entries; promotion, enrichment and edits of a video; users and sessions |
| `Studio` | composition | the four above, one at a time |
| `Schema` | data and operators | the seventeen alembic revisions as statements over the catalogue's objects; the schema validator |
| `Migrations`, `CiGate` | component; component over it | alembic runs on one database; the merge gate's stages and its restoration guard |
| `MC*` | model checking | constants and, where a run follows one of several parts, their composition |
| `*Proofs` | proofs | TLAPS proofs about the modules they are named for |

## 1. The system

A FastAPI backend over PostgreSQL (READ COMMITTED). A *use case* runs in one unit of
work: one session, one transaction, rolled back unless it commits
(`infrastructure/uow/sqlalchemy_unit_of_work.py`). Processes share nothing but the
database and the object store. Five mechanisms make them cooperate:

- **compare-and-set statements** on a status or version column (`UPDATE ... WHERE
  status = ... RETURNING`): two writers are ordered by the row lock, and the later
  re-evaluates the condition and loses;
- **checks before a write** that nothing holds true until the write: library folders,
  sign-ups, exports before their index;
- **leases** in `distributed_locks` for work that outlasts a transaction (provider calls,
  ffmpeg, uploads). A holder can be late, its key stolen, and it does not notice;
- the **transactional outbox**: events are rows written with the change they tell of
  and published later, at least once;
- **polling workers** (`runtime/worker_host.py`): `run_once` again and again.

### Inventory

| component | state | operations | hard because | correct when |
|---|---|---|---|---|
| Distributed locks | lease rows; the `Lease` value each caller keeps | acquire with steal, renew, release, reclaim | clocks, late holders, comparisons at the boundary | one live holder per key; live leases are not stolen |
| Workflow runs | run, step, checkpoint, usage rows; events | create, advance, cancel, resume | three use cases race by status; crash after a provider call; retries; pauses | no run stranded; terminal is final; events tell the story; no media without accounting |
| Completion engine | a lease, then transactions | complete, poll_once, webhook | lost, early, duplicate webhooks; lapsed leases | one resume; a paused run ends |
| Generation jobs | `generations` rows, lease, events | create, cancel, reap, claim, heartbeat, status writes | slow or dead workers, reaping, unguarded writes | one spend; announced once; always ends |
| Generation pipeline | shots, attempts, assets, objects | plan, generate, verify, repair, render | errors and crashes between its many transactions | completed means complete; tables tell what was done |
| Provider catalogue | seven tables and a digest | validate, seed, read, resolve | statements of their own on both sides; a schema the validator does not know | the catalogue is a manifest; what was resolved can be resolved again |
| Render, export jobs | job rows, assets, objects, lease | create, cancel, claim, settle, download, delete | cancel during work; escaping exceptions; a scan of the ten oldest | canceled stays canceled; a real output per success |
| Publish jobs | job rows, two leases | create, claim, upload, retry, settle | lost answers; retry budget; credentials revoked or replaced in between | never posted twice; bounded attempts |
| Outbox, relay, consumers, e-mail | `event_outbox`, consumer tables, notifications | add, fetch (SKIP LOCKED), publish, stamp, send | crash between publish and commit; poison events | effects once; nothing deliverable parked; no mail lost |
| Worker host | counters, stop flag | supervise, restart, escalate, drain | restart bound, drain budget | no worker quietly absent |
| Projects, scenes, versions, timeline | rows under two tokens | edit, move, capture, restore | lock orders, sparse numbers, several writes per token | a token names its content; the ledger is true; moves do as asked |
| Library | folders, entries | create, move, rename, delete, file | checks before writes; a deletion in two statements | the folders are a forest, but for overtaken requests |
| Media assets | asset rows, objects, marker | promote, enrich, edit, delete | long passes over stale rows; metadata that clients write | one promotion wins; a pass writes no untrue marker |
| Identity worlds | root, children, snapshots | create, edit, add, remove, bind | caps counted before the write; snapshots in four statements | caps hold; a quiet snapshot is its version |
| Accounts | users, session families | register, login, refresh, logout, edit | rotation races reuse and logout | one live session of a family, none once it is revoked; edits are fenced |
| Migrations, merge gate | the schema, `alembic_version`, rows in the way; a gate's run | upgrade, downgrade, restore | a way back that must undo exactly the way there; failures and others between two stages | the schema is what its version names; the gate says only what it saw |
| Prompts, model cache, adapters, rendering, storage, API | – | – | – | not modelled, see section 6 |

`PROJECT.json` lists every component with its status, and under `hazards` each thing
here that is hard to test, at its line.

## 2. How the models correspond to the code

**Grain of atomicity.** One action is one database statement, one transaction or one
call of an external service, whichever is the unit at which other processes can
interleave. A read followed by a compare-and-set in the same transaction is two actions
(`AdvanceRead`, `AdvanceStart`; `BeginRefresh`, `Rotate`), because READ COMMITTED lets
others commit in between. Actions are named after the method or use case they model.

**Time.** Only `DistributedLocks` has a clock. `Lease` forgets it: a key has a holder,
and a `live` bit that may drop at any moment, which covers every duration, delay and
missed heartbeat. `DistributedLocks` is shown, by TLC and by TLAPS, to implement it with
`live` mapped to "has a row that has not expired"; every other module uses `Lease`.

**Faults.** A crash, a shutdown, or an exception no `except` clause names is an action,
bounded by `MaxFaults` and enabled at every place where the code would be left halfway.
It ends the process's work and, where a transaction is open, rolls it back.

**Data.** Names, texts, payloads, prices and prompts are members of small sets, as far
as a property tells them apart. Durations of the planner are in hundredths of a second,
scores of the resolver in hundredths, so that rounding is modelled as it is done.

The modules one by one:

- `WorkflowRuns`. `db[r]` is what other transactions see of a run: status, steps with
  retry counts, the job of its `_paused` checkpoint, usage rows, events. `txn[r]` is the
  working copy of the transaction holding the run's row lock (`writer[r]`): the lock is
  taken by the first compare-and-set and kept to the commit, *across the provider calls*,
  as in the code. `call[r][s][n]` is the provider's record of the n-th call for a step
  and survives a rollback. A step is its kind: `echo`, `flaky`, `sync`, `async`, which is
  how the registered definitions differ; only a first step is deferred
  (`WorkflowAssumption`), so a run pauses at most once.
- `GenerationJobs`. Every statement is a transaction. `quiet` says that `updated_at` is
  older than the reaper's cutoff. A worker keeps the ids of its last scan (`todo`), which
  grow stale, and the generation it holds (`at`). The pipeline's status writes are by id
  whatever the row's status, as in the code.
- `Pipeline`. What happens inside: `PlanOf` is the planner with its clamps, integer
  divisions and rounding; a frame is stored, inserted and recorded in turn, measured
  against the first, and repaired with a moved seed; the timeline and the video are
  checked. Reapers and errors may come anywhere.
- `Manifests`, `Resolver`, `Catalogue`. `Valid` is the conjunction of the validator's
  rules, `RowsOf` the builders of rows; a seeder reads table by table, diffs, and writes
  upserts before deletions under the unique indexes of the schema; a reader reads table
  by table and resolves. `LedgerReplays` resolves once more from the manifest on record.
  What is written is stated by what it is, not by the loop that writes it: a row meets a
  unique index if it does so among the rows written before it, and an adapter is eligible
  if none of the constraints fails, of which the first that does is reported.
- `MediaJobs`. `asset` and `stored` are the rows and objects a success stands on;
  a client's request is read, then fenced by version or by the partial unique index. A
  render belongs to a project, and `ListClaimable` lists the `Batch` oldest queued renders
  whether or not their projects are still there (10 in `render_job_repository.py:164`);
  taking up one of a deleted project leaves it queued.
- `SocialAccounts`. `loaded[a]` is the set of workers that refresh the very row the
  account's credentials are in. A revocation deletes that row and empties the set, and a
  reconnection makes another row, so a refresh is lost (`RotationLost`) when the row it
  loaded is gone, whatever the account has by then.
- `PublishJobs`. `pc` is where a worker is between its two leases and the platform;
  `accepted` counts what the platform took, including uploads whose answer was lost.
- `EventDelivery`. A relay's pass is one transaction over the batch it locked
  (`mark[w]`), while each consumer commits on its own. `rows[x]` counts an effect's rows.
- `Editing`, `Timeline`. `project.token` is `projects.version`; `tx[c]` is the open
  transaction of a client with the lock it waits for, in the lock order of the code.
  `scenes[s].number` are the sparse numbers, with the step, the midpoint, the clamp and
  the rebalance of `scene_repository.py`. `ledger` is `project_versions`.
- `Worlds`, `Library`, `MediaAssets`, `Accounts`. An open request is a record of what
  it has read; the write comes later. `races` and `signUps` record which requests were
  overtaken between check and write, so that a property can say that *only* they do harm.
  Deleting a folder is two statements, `Detach` and `DeleteFolder`, and what is filed
  between them stays in a folder that is then deleted. A client's edit of a video writes
  what it likes under the marker's key (`UpdateMedia`, `Claim`), `claimed` says that the
  marker on record is a client's. A revocation of a family revokes what it has listed;
  `missed` says that a session was rotated in behind the list, `swept` holds the families
  whose revocation missed nothing.
- `Schema`, `Migrations`, `CiGate`. An object of the database's catalogue is a tuple that
  names what it rests on; a revision is a sequence of statements, and `Then` says whether
  one can follow another and what both do, so that a script from any revision to any other
  is one record of what it needs, cannot bear, adds and drops. `mig[m]` is an alembic run,
  which reads the version first and applies everything in one transaction: `env.py` does
  not set `transaction_per_migration`. `holders` and `flaws` are the rows a revision can
  find in its way. `gate` is the run of `main`, with the guard that is due once stage 6 may
  have run; every other stage may pass or fail.

## 3. Runs

| run | module / cfg | question | bounds |
|---|---|---|---|
| `workflow_runs` | `MCRunsAndGate` | do the promises about runs hold with every use case racing? does every migration find and leave the schema its version names, and does the gate bring it back? | 1 run of each registered shape, 2 requests, 2 engines with one token, 2 calls per step, 1 fault; the gate and 1 more alembic over revisions 0, 2 and 17, 3 selections of stages, 2 tries of the guard, 1 flaw at a time; 464,667 states |
| `generation` | `MCGenerationJobs` | is a generation spent on once, announced once, ended; is the catalogue a manifest; is a completed run complete? is the lock a mutex that implements `Lease`? | 1 generation, 3 workers, 2 faults; 2 seeders, 1 reader, 4 manifests, 3 seedings; 1 run with 5 images, plans up to 15 shots; every document of `ProviderManifests`; 3 processes, 2 keys, leases of 1 and 2 ticks, clock to 5; 542,086 states |
| `publishing` | `MCPublishJobs` | is a video posted at most once? | 1 job, 2 workers, 2 attempts, 2 connections, 1 fault; 543,208 states |
| `delivery` | `MCEventDelivery` | is every event's effect applied once, and every event settled? are outputs behind successes, whatever clients do meanwhile? | 2 events, 1 relay, 1 mailer, 2 attempts, 1 fault; 1 render, 2 exports of it, 2 clients; 2 renders of 2 projects in batches of 1, 2 workers; 1 fault; 249,571 states |
| `studio` | `MCStudio` | what do overlapping requests break in library, media, worlds and accounts? do tokens, ledger and moves hold with overlapping editors? | 2 clients, 3 items, 2 overlapping library calls, 6 account calls, 1 client's edit of a video, world to version 3; 3 scenes, step 2, 4 edits, 3 versions, 2 tracks, 1 clip; 727,732 states |
| `shared_token` | `MCWorkflowRuns`, `MCSharedToken.cfg` | does one configured token keep engines apart? (no) | 2 engines, no fault |
| `lost_webhook` | `MCWorkflowRuns`, `MCLostWebhook.cfg` | does a paused run end if nothing polls? (no) | no fault |
| `stranded_job` | `MCStrandedJob` | is a job retried after an exception nobody names? (no) | 1 render, 1 worker of each kind, 1 exception, no crash |
| `rebalance` | `Editing`, `MCRebalance.cfg` | does the offset clear the slots? (no) | 1 client, 3 scenes, step 8 |
| `broken_promises` | `MCBrokenPromises` | is a snapshot of one world, a revocation complete, the library a forest without orphans? (none of them) | 1 client at the world, 2 at accounts and library, 3 sessions, 3 folders |
| `stuck_enrichment` | `MediaAssets`, `MCStuckEnrichment.cfg` | does enrichment recover from one failure? (no) | 1 worker, 1 failure |
| `stuck_seeding` | `MCCatalogue`, `MCStuckSeeding.cfg` | can every valid manifest be seeded? (no) | 1 seeder |

*Several parts in one run.* `workflow_runs`, `generation`, `delivery` and `studio` check
components that share no rows. Each behaviour follows one part, the others stay as they
began, so the states add and do not multiply, and no interaction is lost because there is
none. `delivery` follows renders and exports in two settings: one render with its exports
and clients, and a backlog of two renders without them.

*Why these bounds are enough to be interesting.* Three processes are the least with which
a lock is held, stolen and then released late, and clock 5 lets a lease of 2 expire twice.
Runs, generations and jobs share no rows with their like, so one of each shows all races
*about* one; two requests and two engines give every pairwise race of advance, cancel and
resume, and an engine whose lease is stolen while it works; two calls per step are the
least with which an attempt is rolled back and tried again. Three generation workers are
the least for an old worker, its reaper, and a third that claims. Two exports of one
master are the least for the partial unique index to matter; two renders of two projects,
in batches of one, are the least with which a batch is filled by a render of a deleted
project and another waits behind it. Two connections are the least for a refresh to come
back to an account that has credentials again, but not the row it loaded. One edit of a
client is the least that writes a marker before, during or after an enrichment. Two
attempts are the least for a retry and for its budget to end. Two events and a batch of
two are the least for a batch that is half delivered. Three scenes are the least for a
move between two others, and a step of 2 uses up a gap after one move. Two overlapping
moves of two folders are the least that close a cycle; a third folder lets a cycle pass
through one that did not move. Revision 2 is the earliest at which rows can refer to
seeded ones, and every path between 0, 2 and 17 runs all seventeen scripts both ways. The
proofs remove the bounds for the safety properties they cover.

`CHECK_DEADLOCK FALSE` stands where the system may stop: runs, generations and edits that
have ended or reached their bound. The hosts and workers of `delivery` and `publishing`
scan for ever, and these runs are checked for deadlock.

SYMMETRY is used in `studio`, over clients, items and texts of which no property and no
fairness condition names one; the run checks no liveness property.

### Properties

| property | says |
|---|---|
| `AtMostOneLiveHolder`, `ImplementsLease` | the lock is a mutex in time, and the untimed `Lease` is a sound abstraction of it |
| `ImplementsLifecycle` | commits of runs map to steps of `RunLifecycle`: terminal is final, an event per change, one resume per pause |
| `LogTellsStory` | the events in the outbox match status, pauses and completed steps |
| `UsageMatchesCalls` | success implies usage of every provider step; nothing is billed that no provider answered |
| `DeferredResultIsOwn` | a deferred step ends as its own job did, not as a rolled-back attempt's |
| `DispatchedOnce` | a provider takes one call of a step, and one more for each fault at most |
| `PausedRunIsCompleted` | a paused run ends, given polling |
| `SpendOnce`, `AnnouncedIfCompleted` | one run of a generation goes to the providers; one export event exactly when completed |
| `LiveRunNotReaped`, `OnlyItsRunRevives` | a reaper spares a run under a live lease; a failed generation is changed only by the run that outlived its lease |
| `ClaimedEnds` | a claimed generation ends |
| `CatalogueIsSound` | overlapping seeders leave a manifest's rows or are known to have overlapped; what was resolved is the best of what mode and budget allow, and replays from the manifest on record |
| `ManifestFits` | a manifest the validator passes has rows the schema takes, no cycles, and a free provider where routing asks for one |
| `RunsAreSound` | a plan loses no part of a prompt and repeats no neighbour; completed means complete, tables tell what was done, each image has its own seed and attempt |
| `OutputBehindSuccess`, `OneActiveExport`, `JobsFollowLifecycle` | a succeeded job has an asset that was registered over a stored object (and may have been deleted since); one active export per master and encoding; cancelled stays cancelled, announced once |
| `StrandedByFault` (delivery, publishing) | a job that is running with nobody on it is paid for by a fault of its own; or, for a publish job, by a refresh whose row of credentials was revoked under it, the account reconnected or not |
| `QueuedRenderIsTaken`, `QueuedPublishIsTaken` | a queued job is taken up, whatever leases and backoffs it waits behind; a render unless its project is deleted, or a full batch of older renders of deleted projects is before it |
| `NeverDoublePost`, `AttemptBudget`, `PublishFollowsLifecycle` | the platform takes a video once; attempts are bounded and a queued job has one left; the lifecycle with retries |
| `ProjectedOnce`, `StampedMeansProjected` | an effect has one row however often an event is delivered; a stamp means every consumer has projected |
| `NoMailLost`, `EveryEventSettles` | delivered mail was sent; every event is published or parked in the end |
| `SchemaIsOfRevision` | after any upgrades and downgrades, refused, cut off or raced, the objects are those its version would have built, every further path runs, and only the head validates |
| `GateKeepsItsWord` | a gate that was to go to base has tried to come back; it passes only over a database it saw at head, which is there until others move it |
| `TokenNamesContent` | no commit changes what a token's readers see without moving the token |
| `LedgerIsTrue` | the last version is the project until the token moves, a restored one is its source, live numbers are distinct |
| `MovesAsAsked` | a move puts its scene where it was asked and keeps the order of the others |
| `OnlyRacesHurt` | cycles, orphans, strays and twins in the library, and two accounts of one address, exist only through an overtaken request, which may be one that came between the two statements of a deletion |
| `OnceWon` | one promotion registers a video; one session of a family lives, and none once a reused token has ended it, unless a rotation slipped behind the revocation's list |
| `WorldsHold` | caps hold; a snapshot nobody edited under is the version it names |
| `EditsWhatWasSeen` | entries and profiles change only from the row their client saw |
| `EnrichmentIsHonest` | no step leaves a marker that tells of previews that are not there, unless a client wrote it; a pass overwrites only what changed after its read |

The seven properties that are to fail: `LeaseExclusive`, `PausedRunIsCompleted` (without
polling), `EscapedIsRetried`, `RebalanceFits`, `SomePromiseKept`, `EnrichmentConverges`,
`SeedingConverges`; section 4 says what each refutes.

Each of the table has a mutant of the code's definitions that breaks it; the mutated forms
stand next to the originals in the modules, marked *(Mutant: ...)*.

### Fairness

Liveness is checked where the code's scheduling gives it a ground. Workers: the host calls
`run_once` again and again (`runtime/worker_host.py`), so each worker's next step has weak
fairness, *per worker and not per action*: a pipeline may give up, raise or complete, an
upload may be refused for ever. Time passes: leases lapse, rows go quiet, backoffs end. In
`WorkflowRuns` a request or an engine under way runs on, the provider finishes its jobs
and delivers a webhook until it is acknowledged, and *if* `Polling` then `poll_once` is
driven again and again. `Polling` is a constant because it is an assumption about the
deployment that the code does not make true: the run `lost_webhook` shows what its absence
means. A run of several parts states the fairness of each for the behaviours that follow
it; in `MCEventDelivery` one condition joins a part of each, which in a behaviour that
follows one of them for ever is the condition of that one. Users and clients have no
fairness, and faults need not happen.

## 4. What the runs found

Ten statements of the repository's documents and comments are not what the code does.
Seven runs expect a violation (details and quotations in `PROJECT.json`).

1. *Crash recovery self-heals, polling is the backstop* (ADR-0042): nothing in the program
   drives `poll_once`. A webhook that arrives before the pause commits is acknowledged as
   unknown, and the run stays paused (`lost_webhook`).
2. *Two ingresses never resolve the same job concurrently* (`completion_engine.py`): all
   engines share one owner string, so a late release frees a successor's live row
   (`shared_token`). The compare-and-set behind it keeps the outcome right.
3. *The offset clears the slots we are about to assign* (`scene_repository.py:313`): not
   when earlier moves have left only low numbers; the move is then refused by the unique
   index, again and again (`rebalance`).
4. *A later pass retries, recovering already-registered artifacts*
   (`enrich_generated_media.py:25`): the recovery queries a transaction that the failed
   flush has aborted, so one failure leaves a video unenriched for ever (`stuck_enrichment`).
5. *Upsert converges DB to manifest* (`docs/engineering/PROVIDER_RUNTIME_DATA_MODEL.md:143`):
   upserts come before deletions, so a manifest that renumbers fallbacks is refused by
   `UNIQUE (adapter_id, ordinal)` on every run of the seeder (`stuck_seeding`).
6. *Its lease expires and it is retried on a later pass* (`render_worker.py:66-67`, and
   `export_worker.py:68`): a pass lists queued jobs only, and a job whose worker met an
   exception that no `except` names is running. Nothing ever looks at it again
   (`stranded_job`; `StrandedByFault` says that it takes one fault for each such job).

The run `broken_promises` goes on to four more, in one behaviour. Its property
`SomePromiseKept` is a disjunction, so the counterexample breaks all of them: first a world
is read while it is edited, then a family of sessions is revoked while one is rotated, then
folders are moved and one is deleted. The passing run `studio` says what of each does hold.

7. *A world must never be half-edited when a generation snapshots it*
   (`identity_repository.py:12-13`), *a snapshot must never straddle two states*
   (`identity_runtime/profile.py:6`, `docs/engineering/PHASE3_ALPHA10_0_PREFLIGHT.md:112-113`):
   the root and the children of each kind are read by statements of their own under READ
   COMMITTED, and an edit may commit between them. What does hold (`WorldsHold`): a
   snapshot that was not overtaken is the world its version names.
8. *Reuse detection revokes the entire family in one shot*, *is fatal to the whole family*
   (`docs/engineering/AUTH_TOKEN_LIFECYCLE.md:17`, `:200`, and what `:184` concludes from
   it): the revocation lists the live sessions and then revokes those, and a refresh that
   commits in between leaves one that lives on. `OnceWon` holds but for that window.
9. *Deeper cycles are prevented at the use-case layer on move* (`library_folder.py:14`): two
   moves that overlap pass each other's check.
10. *Folder deletion never orphans a library entry* (`library_repository.py:215-216`): an
    entry filed between the detachment and the deletion, or checked before and inserted
    after both, is in a folder that is gone. `OnlyRacesHurt` holds: nothing but overlaps
    does this, or the cycles of 9.

Other windows the models contain:

- a reading of the catalogue may mix two versions when a commit falls between its
  statements (`torn` in `Catalogue` marks them);
- ten queued renders of deleted projects that are the oldest fill every batch, are looked
  at and left queued by each pass, and no later render is ever taken (`Blocked` in
  `MediaJobs` is the exception `QueuedRenderIsTaken` makes); `render_worker.py:7-8` says
  that *one slow/stuck render never blocks the others*, which is so of fewer than ten;
- a publish job whose refresh finds its row of credentials gone, because the account was
  revoked or revoked and reconnected meanwhile, stays running: `StaleDataError` is no
  `except`'s;
- a client may write any enrichment marker into a video's metadata (`update_media.py:99-112`
  takes the dictionary as it comes), and the worker then takes the video for enriched;
- overlapping seeders may mix two manifests, and the digest then short-circuits the
  later runs that would repair it; retained routing outlives its manifest; a fallback
  listed twice takes its last ordinal; a capability named `default` would override the
  default routing policy;
- the planner's rounding can leave the 15–30 s band by hundredths (15 s in 7 shots is
  14.98 s, 30 s in 11 is 30.03 s), and `per_shot_seconds` has no lower bound;
- a promoted asset that was deleted makes every later promotion of its generation a
  conflict; a library entry once removed cannot be added again;
- overlapping sign-ups can give an address two accounts (accepted by
  `register_user.py:20`); a profile edit is refused after a login, which moves the same
  version;
- overlapping scans can send an e-mail twice; cancelling a paused run leaves its provider
  job running;
- the docstrings of 0008, 0009 and 0015 speak of a transaction for each migration, but a
  whole alembic run is one: what fails at the last revision undoes them all;
- `downgrade base` (`docs/engineering/RUNBOOK_WAVE.md:289`) is refused once a row that
  cannot be deleted, such as usage, refers to a seeded one (`Refused`), and the gate that
  tries it fails at stage 6; going below 0009 or 0015 and back forgets the source events
  of the rows that are there, and the guard restores a schema, not the rows lost with it;
- the guard tries eight times: a comment (`scripts/ci_gate.py:312`) says a network blip can
  no longer leave the database at base, a longer one can, and the gate then says so; after
  an interrupt it says nothing;
- capture and restore raise an `AssertionError` after a concurrent deletion
  (`project_version_repository.py:294`), modelled as a request that is declined.

## 5. Proofs

All proofs are of the specification without fairness, for every value of the constants
that the named assumption of the module allows; TLC evaluates those assumptions on every
run. An invariant is seldom inductive as it stands: each proof module defines the
strengthening, and TLC checked each of them on its run before it was proved.

**LocksAndGateProofs**, the locks (`LockAssumption`: durations are positive, `Nobody` owns
nothing). `LeaseBacked` is inductive with the types: an unexpired `Lease` value is backed
by a row of the client's own that lasts at least as long. With unique tokens only the
client itself shortens or deletes that row, and then replaces its value with it; a steal
takes expired rows only. Hence `LeaseExclusion`, under `TokensAreUnique`, which is what
`interfaces/locks.py` asks of callers; where it is not met, as in finding 2, nothing is
promised. `NeverStolen` and the refinement `LocksImplementLease` need no such hypothesis.

The gate (`CiAssumption`, `MigrationAssumption`). `GateInv` says that an alembic of the
gate's own belongs to the one stage that is due (`AlembicIsDue`), so that nothing of it is
under way once the guard has looked, and that what the guard said is said on the way out
only and still true (`WordStands`); `GateProven` follows for any others who migrate.
`SchemaProven` has a hypothesis, `ScriptsCompose`: from what a revision builds, each script
runs and leaves what its goal builds. It is a fact without state about seventeen literal
revisions, which the run evaluates; the theorem adds every interleaving of alembic runs.

**WorkflowRunsProofs** (`WorkflowAssumption`). The invariant starts from
`TransactionsIsolate`: the committed row does not move while somebody holds its lock, so a
commit overwrites exactly the state its transaction began from. With `RunningNeverCommitted`
and `JobKnown` it gives `Isolation`, `NoStrandedRun`, `TerminalFinal`; with `PausesOnce`
(only a run that was queued can come to rest paused) `LifecycleRefinement`. For the tables,
`RowsTrue` says that each committed row *and* each working copy is `Truthful`: it tells its
story, is billed and answered, and its results are its own jobs', `Awaits` that a paused
row is that of its job, `HoldsAnswer` that an engine between resolve and resume holds the
job's answer; `CallsGrow` that answers once given stay. They yield `StoryIsTold`,
`UsageProven` and `ResultIsOwn`. For `DispatchProven`, `CallsSpent` counts the calls of a
step: those the committed row accounts for, those the open transaction does, and those
that were rolled back, of which there are no more than faults.

**GenerationJobsProofs** (`GenerationAssumption`). `SpendOnce` and `AnnouncedIfCompleted`
need `HoldsOne` (a worker that is not scanning holds a generation), `OneRunner` (no two
workers are in the pipeline of one generation: a claim is the only way in), `Ledger` (what
a run has announced and spent follows from its place) and `Unstarted`. The lease plays no
part in these. It does in `LiveRunsSpared` and `RevivedByItsRun`, whose invariant `ReapInv`
says what a reaper has listed had begun, and that a run whose generation was failed under
it has outlived its lease.

The catalogue (`AskedAssumption`: a manifest's rows are finitely many, have keys of their
own and the schema's columns, and adapters name listed providers; `MeasuredAssumption`:
measurements are numbers). `CatalogueInv` is about isolation: a seeder nobody has overtaken
and a reader nobody has torn have read the committed tables, a revision is committed only
over the tables it was planned from unless `mixed` says otherwise, and rows keep the
schema's shape and name only known providers. `AppliedConverges` gives `Holds` for each of
the three ways a table treats stale rows. For the resolver, the ranking's first element is
a minimal one of a finite order, so nothing eligible of its tier scores better
(`RankedFirst`, `NothingPassedOver`); and two catalogues whose eligible adapters agree
resolve the same (`AgreeingCandidates`), although one still has the disabled rows of
earlier manifests, which is why an answer replays. Together they are `CatalogueProven`, for
all manifests, seeders and readers.

The pipeline (`RequestAssumption`: parts and durations are numbers, a shot's not zero).
Lemmas about the planner come first, for every prompt and number of shots: the shares
`Beats` deals out, by rounding or, where shots outnumber parts, in turn, cover all parts
and are never empty (`EdgesCover`, `BeatsKeep`), and neighbouring shots differ
(`PlansVary`). `PipelineInv` then says, place by place, which rows, files and events there
are, that accepted frames passed their checks, and that every paid image is a repair or an
attempt of one shot's row or of the shot under way. `RunsProven` follows wherever a run
dies, is reaped or given up.

**MediaJobsProofs, PublishJobsProofs.** Outputs: `HasJob`, `OneWorker` and `StoredFirst` for
the workers, `MasterSeen` and `ActiveIsUnique` for the rows, for any number of projects and
any size of the batch. Posting: `NothingSent` (before
`transmit` a job has sent nothing; what may have been accepted is never queued again).
`LifecycleFollowed` refines `JobLifecycle`. `StrandedAccounted`: the jobs that are running
with nobody on them are finitely many, each step adds at most one, and then counts a fault
or a refresh whose loaded row is gone, which is counted whether or not the account has
other credentials by then. `RevokedStaysRevoked`: a refresh that comes late never brings
revoked credentials back, only a connection under way stores some, because a row somebody
has loaded is there (`RowsLoaded`).

**EventDeliveryProofs.** `RelayInv`: what an open batch holds of an event is what its
committed consumers have done; `MailInv`: a mailer past `send` has sent. `OnceProjected`,
`StampProven` and `MailIsSent` hold for any number of relays and mailers, where the run
has one of each; `AbsenceIsLoud` is `Host!NeverQuietlyAbsent`.

**EditingProofs.** `TokenInv`: the rows have their shapes, and what a reader has seen is
the past of its token. `LedgerInv`: open transactions keep what they will fence. The moves
rest on lemmas about ranks: inserting an element into a finite set of numbered scenes moves
the ranks of exactly those behind it, and a renumbering that is strictly increasing keeps
ranks, whichever of midpoint, half, end or rebalance chose the numbers (`MovesProven`). A
move whose rebalance the index refuses is not committed (finding 3), so the theorem is
about moves that happen.

**StudioProofs.** One module for the composition: each component's invariant is inductive
on its part, and the other parts stutter. `AccountInv` says that what an open request has
read is the past (`SawThePast`) and that signing up twice is told by `signUps`;
`FamilyInv`, that a family which a revocation has swept has no live session, because
whatever was rotated in behind its list is told by `missed`. `AssetInv` says what a pass
has read and that a conflict it meets is a real row, and of a marker that it is true or a
client's. `LibraryInv` says of every open request which of the checks it made still
stands, unless it was overtaken; for a move, that the walk up the parents has passed a set
of folders closed under parents within an acyclic set, so that a write that was not
overtaken closes no cycle; and for a deletion, that what is in the folder after its first
statement was put there by a request that came between the two (`FreesAll`,
`FolderDetached`). With it come `CapsProven`, `WorldsProven`, `OnlyRacesProven`,
`OnceWonProven`, `EditsProven` and `EnrichmentProven`.

**Only model-checked.** Liveness (`PausedRunIsCompleted`, `ClaimedEnds`,
`QueuedRenderIsTaken`, `QueuedPublishIsTaken`, `EveryEventSettles`): fairness and `ENABLED`
are out of the prover's reach. `ManifestFits`: what the validator's sorts, folds and
search for cycles compute of a document. `ScriptsCompose` and `OnlyHeadValidates`: folds
over the literal revisions, of which TLC's evaluation is the proof. Where a fact about
finite data needs only a minimal element, as the ranking does, it is proved without
induction, from the library's well-foundedness of strict subset.

## 6. What is not modelled

Per component in `PROJECT.json`. In the modelled ones: the race of two creates with one
idempotency key (`create_workflow_run.py:132`); definitions that defer a later step; the
quantities and prices of usage; the signature check of webhooks; branching a version and
the diff of two; uploads and external URLs of media; encryption of tokens. Not at all:
prompts (an append-only list per scene), the model cache, provider adapters, ffmpeg,
object stores, SMTP, request parsing and wiring. Of the markers a client may write, those
whose version is no integer: the scan casts it in SQL (`media_repository.py:166`) and
fails. Of the schema, a table's ordinary columns, checks and indexes are part of the
table. What is left out is a nondeterministic choice of its outcomes where a modelled
component acts on it.
