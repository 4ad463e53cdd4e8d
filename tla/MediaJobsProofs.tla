-------------------------- MODULE MediaJobsProofs --------------------------
(***************************************************************************)
(* Theorems about render and export jobs, for every set of jobs, workers   *)
(* and requests, however often leases lapse and workers die.               *)
(***************************************************************************)
EXTENDS MediaJobs, FiniteSetTheorems, TLAPS

\* A worker that is not scanning has a job.
HasJob == \A w \in JobWorker : pc[w] # "scanning" => job[w] \in Job

\* A job somebody works on is running, or was cancelled under its worker, and nobody
\* else works on it.
OneWorker ==
  \A w \in JobWorker : pc[w] \in Attending =>
    /\ status[job[w]] \in {"running", "canceled"}
    /\ \A v \in JobWorker \ {w} : pc[v] \in Attending => job[v] # job[w]

\* A worker that is about to settle has stored its object.
StoredFirst == \A w \in JobWorker : pc[w] = "settling" => job[w] \in stored

\* A request to export has seen a finished master, which stays finished.
MasterSeen ==
  \A c \in Client : (request[c] # Nothing /\ request[c].op = "export")
                      => MasterAvailable(request[c].render)

\* No two exports of one master in one encoding are active.
ActiveIsUnique ==
  \A e, f \in Export :
    (/\ status[e] \in ActiveStatus /\ status[f] \in ActiveStatus
     /\ master[e] = master[f]) => e = f

WorkInv == HasJob /\ OneWorker /\ StoredFirst
DataInv == MasterSeen /\ OutputBehindSuccess /\ ActiveIsUnique

\* With the types, the inductive invariant.
IInv == WorkInv /\ DataInv
-----------------------------------------------------------------------------
LEMMA Places ==
  /\ Attending \subseteq Location
  /\ {"scanning", "claim", "release"} \cap Attending = {}
  /\ {"scanning", "claim", "release"} \subseteq Location
BY DEF Attending, Location

\* A worker changes places.
LEMMA MovesTyped ==
  ASSUME MediaTypeOK, NEW w \in JobWorker, NEW l \in Location, Goto(w, l)
  PROVE  /\ pc' \in [JobWorker -> Location]
         /\ pc'[w] = l
         /\ \A v \in JobWorker \ {w} : pc'[v] = pc[v]
BY DEF MediaTypeOK, Goto

\* An announced and a silent change of the status of one job.
LEMMA JobTyped ==
  ASSUME MediaTypeOK, NEW j \in Job, NEW s \in Life!Status, NEW k \in Life!Kind,
         Life!Announce(j, s, k) \/ Life!Quietly(j, s)
  PROVE  /\ Life!TypeOK'
         /\ status' = [status EXCEPT ![j] = s]
<1>1. status' = [status EXCEPT ![j] = s]
  BY DEF Life!Announce, Life!Quietly
<1>2. status' \in [Job -> Life!Status]
  BY <1>1 DEF MediaTypeOK, Life!TypeOK
<1>3. events' \in [Job -> [Life!Kind -> Nat]]
  <2>1. CASE Life!Quietly(j, s)
    BY <2>1 DEF Life!Quietly, MediaTypeOK, Life!TypeOK
  <2>2. CASE Life!Announce(j, s, k)
    <3>1. events' = [events EXCEPT ![j][k] = @ + 1]
      BY <2>2 DEF Life!Announce
    <3>2. events \in [Job -> [Life!Kind -> Nat]]
      BY DEF MediaTypeOK, Life!TypeOK
    <3>3. [events[j] EXCEPT ![k] = @ + 1] \in [Life!Kind -> Nat]
      BY <3>2
    <3>4. QED
      BY <3>1, <3>2, <3>3
  <2>3. QED
    BY <2>1, <2>2
<1>4. QED
  BY <1>1, <1>2, <1>3 DEF MediaTypeOK, Life!TypeOK

LEMMA VersionTyped ==
  ASSUME MediaTypeOK, NEW j \in Job, Bump(j)
  PROVE  version' \in [Job -> Nat]
<1>1. version' = [version EXCEPT ![j] = version[j] + 1] /\ version \in [Job -> Nat]
  BY DEF MediaTypeOK, Bump
<1>2. QED
  BY <1>1

\* The lease rows stay well typed.
LEMMA LeaseTyped ==
  ASSUME MediaTypeOK, NEW k, NEW w \in JobWorker,
         JobLocks!Take(k, w) \/ JobLocks!Drop(k, w) \/ JobLocks!Lapse({k}) \/ UNCHANGED jobLeaseVars
  PROVE  lessee' \in [Job -> JobWorker \cup {NoLessee}] /\ leased' \in [Job -> BOOLEAN]
BY DEF MediaTypeOK, JobLocks!Take, JobLocks!Drop, JobLocks!Lapse, JobLocks!leaseVars, jobLeaseVars
-----------------------------------------------------------------------------
\* A worker moves on, having stored its object before it settles.
LEMMA MoveSafe ==
  ASSUME MediaTypeOK, WorkInv, NEW w \in JobWorker, NEW l \in Location, Goto(w, l),
         UNCHANGED status, stored \subseteq stored',
         l \in Attending => pc[w] \in Attending /\ job'[w] = job[w],
         l = "settling" => job[w] \in stored',
         \A v \in JobWorker \ {w} : job'[v] = job[v],
         l # "scanning" => job'[w] \in Job
  PROVE  WorkInv'
<1>1. pc'[w] = l /\ \A v \in JobWorker \ {w} : pc'[v] = pc[v]
  BY MovesTyped
<1>2. HasJob' /\ OneWorker'
  BY <1>1 DEF WorkInv, HasJob, OneWorker
<1>3. StoredFirst'
  BY <1>1 DEF WorkInv, StoredFirst, Attending
<1>4. QED
  BY <1>2, <1>3 DEF WorkInv

\* The status of a job changes while nobody moves: it was not being worked on, or it
\* is cancelled.
LEMMA StatusSafe ==
  ASSUME MediaTypeOK, WorkInv, NEW j \in Job, NEW s, status' = [status EXCEPT ![j] = s],
         UNCHANGED <<pc, job, stored>>,
         status[j] \in {"absent", "queued"} \/ s = "canceled"
  PROVE  WorkInv'
<1>1. status'[j] = s /\ \A i \in Job \ {j} : status'[i] = status[i]
  BY DEF MediaTypeOK, Life!TypeOK
<1>2. QED
  BY <1>1, Places DEF WorkInv, HasJob, OneWorker, StoredFirst

\* The worker of a job leaves it, with a last write or with none.
LEMMA LeaveSafe ==
  ASSUME MediaTypeOK, WorkInv, NEW w \in JobWorker, pc[w] \in Attending, Goto(w, "release"),
         NEW s, status' = [status EXCEPT ![job[w]] = s] \/ UNCHANGED status,
         UNCHANGED <<job, stored>>
  PROVE  WorkInv'
<1>1. pc'[w] = "release" /\ \A v \in JobWorker \ {w} : pc'[v] = pc[v]
  BY MovesTyped, Places
<1>2. job[w] \in Job /\ \A j \in Job \ {job[w]} : status'[j] = status[j]
  BY Places DEF WorkInv, HasJob, MediaTypeOK, Life!TypeOK
<1>3. HasJob' /\ StoredFirst'
  BY <1>1, <1>2 DEF WorkInv, HasJob, StoredFirst
<1>4. OneWorker'
  <2> SUFFICES ASSUME NEW v \in JobWorker, pc'[v] \in Attending
               PROVE  /\ status'[job[v]] \in {"running", "canceled"}
                      /\ \A u \in JobWorker \ {v} : pc'[u] \in Attending => job[u] # job[v]
    BY DEF OneWorker
  <2>1. v # w /\ pc[v] \in Attending /\ job[v] \in Job /\ job[v] # job[w]
    BY <1>1, Places DEF WorkInv, HasJob, OneWorker
  <2>2. QED
    BY <1>1, <1>2, <2>1, Places DEF WorkInv, OneWorker
<1>5. QED
  BY <1>3, <1>4 DEF WorkInv
-----------------------------------------------------------------------------
\* A step that leaves jobs and requests alone, may store objects, and may delete
\* assets softly.
LEMMA MediaSafe ==
  ASSUME MediaTypeOK, DataInv, UNCHANGED <<status, output, master, request>>,
         stored \subseteq stored',
         \A j \in Job : asset'[j] = "none" <=> asset[j] = "none",
         \A e \in Export : downloads'[e] > 0 => downloads[e] > 0 \/ status[e] = "succeeded"
  PROVE  DataInv'
<1>1. MasterSeen' /\ ActiveIsUnique'
  BY DEF DataInv, MasterSeen, MasterAvailable, ActiveIsUnique
<1>2. OutputBehindSuccess'
  BY DEF DataInv, OutputBehindSuccess, MasterAvailable
<1>3. QED
  BY <1>1, <1>2 DEF DataInv

\* A queued or running job goes on: with an output registered over a stored object
\* if and only if it succeeds.
LEMMA ProgressSafe ==
  ASSUME MediaTypeOK, DataInv, NEW j \in Job,
         NEW s \in {"running", "succeeded", "failed", "canceled"},
         status[j] \in {"queued", "running"},
         status' = [status EXCEPT ![j] = s],
         output' = IF s = "succeeded" THEN [output EXCEPT ![j] = TRUE] ELSE output,
         UNCHANGED <<master, downloads, stored>>,
         \A c \in Client : request'[c] = request[c] \/ request'[c] = Nothing,
         \A i \in Job : /\ asset[i] # "none" => asset'[i] # "none"
                        /\ asset'[i] # "none" => i \in stored,
         s = "succeeded" => asset'[j] # "none"
  PROVE  DataInv'
<1>1. status'[j] = s /\ \A i \in Job \ {j} : status'[i] = status[i]
  BY DEF MediaTypeOK, Life!TypeOK
<1>2. /\ output'[j] = IF s = "succeeded" THEN TRUE ELSE output[j]
      /\ \A i \in Job \ {j} : output'[i] = output[i]
  BY DEF MediaTypeOK
<1>3. \A r \in Job : MasterAvailable(r) => status'[r] = "succeeded" /\ output'[r]
  BY <1>1, <1>2 DEF MasterAvailable
<1>4. MasterSeen'
  <2> SUFFICES ASSUME NEW c \in Client, request'[c] # Nothing, request'[c].op = "export"
               PROVE  MasterAvailable(request[c].render)'
    BY DEF MasterSeen
  <2>1. request'[c] = request[c] /\ request[c] \in Request
    BY DEF MediaTypeOK
  <2>2. request[c].render \in Job
    BY <2>1 DEF Request, Job
  <2>3. QED
    BY <1>3, <2>1, <2>2 DEF DataInv, MasterSeen, MasterAvailable
<1>5. OutputBehindSuccess'
  <2>1. \A i \in Job : /\ output'[i] <=> status'[i] = "succeeded"
                       /\ asset'[i] # "none" => i \in stored'
                       /\ output'[i] => asset'[i] # "none"
    <3>1. ~output[j]
      BY DEF DataInv, OutputBehindSuccess
    <3>2. QED
      BY <1>1, <1>2, <3>1 DEF DataInv, OutputBehindSuccess
  <2>2. ASSUME NEW e \in Export
        PROVE  /\ status'[e] # "absent" =>
                    master'[e] # Nothing /\ MasterAvailable(master[e].render)'
               /\ downloads'[e] > 0 => status'[e] = "succeeded"
    <3>1. e \in Job
      BY DEF Job
    <3>2. status[e] # "absent" => master[e] # Nothing /\ MasterAvailable(master[e].render)
      BY DEF DataInv, OutputBehindSuccess
    <3>3. master[e] # Nothing => master[e].render \in Job
      BY DEF MediaTypeOK, MasterOf, Job
    <3>4. status'[e] # "absent" => status[e] # "absent"
      BY <1>1, <3>1
    <3>5. downloads[e] > 0 => status[e] = "succeeded"
      BY DEF DataInv, OutputBehindSuccess
    <3>6. QED
      BY <1>1, <1>3, <3>1, <3>2, <3>3, <3>4, <3>5 DEF MasterAvailable
  <2>3. QED
    BY <2>1, <2>2 DEF OutputBehindSuccess
<1>6. ActiveIsUnique'
  <2> SUFFICES ASSUME NEW e \in Export, NEW f \in Export, status'[e] \in ActiveStatus,
                      status'[f] \in ActiveStatus, master[e] = master[f]
               PROVE  e = f
    BY DEF ActiveIsUnique
  <2>1. e \in Job /\ f \in Job
    BY DEF Job
  <2>2. status[e] \in ActiveStatus /\ status[f] \in ActiveStatus
    BY <1>1, <2>1 DEF ActiveStatus
  <2>3. QED
    BY <2>2 DEF DataInv, ActiveIsUnique
<1>7. QED
  BY <1>4, <1>5, <1>6 DEF DataInv

\* A job is created; an export only when it alone is active for its master and
\* encoding.
LEMMA BirthSafe ==
  ASSUME MediaTypeOK, DataInv, NEW j \in Job, status[j] = "absent",
         status' = [status EXCEPT ![j] = "queued"],
         UNCHANGED <<output, downloads, stored, asset>>,
         \A c \in Client : request'[c] = request[c] \/ request'[c] = Nothing,
         \/ j \in Render /\ UNCHANGED master
         \/ \E m \in MasterOf : /\ j \in Export /\ master' = [master EXCEPT ![j] = m]
                                /\ MasterAvailable(m.render) /\ m # Nothing
                                /\ ActiveExports(m.render, m.encoding) = {}
  PROVE  DataInv'
<1>1. status'[j] = "queued" /\ \A i \in Job \ {j} : status'[i] = status[i]
  BY DEF MediaTypeOK, Life!TypeOK
<1>2. \A r \in Job : MasterAvailable(r) => status'[r] = "succeeded" /\ output'[r]
  BY <1>1 DEF MasterAvailable
<1>3. MasterSeen'
  <2> SUFFICES ASSUME NEW c \in Client, request'[c] # Nothing, request'[c].op = "export"
               PROVE  MasterAvailable(request[c].render)'
    BY DEF MasterSeen
  <2>1. request'[c] = request[c] /\ request[c] \in Request
    BY DEF MediaTypeOK
  <2>2. request[c].render \in Job
    BY <2>1 DEF Request, Job
  <2>3. QED
    BY <1>2, <2>1, <2>2 DEF DataInv, MasterSeen, MasterAvailable
<1>4. \A e \in Export \ {j} : master'[e] = master[e]
  BY DEF MediaTypeOK
<1>5. \A e \in Export : status'[e] # "absent" =>
        master'[e] # Nothing /\ MasterAvailable(master[e].render)'
  <2> SUFFICES ASSUME NEW e \in Export, status'[e] # "absent"
               PROVE  master'[e] # Nothing /\ MasterAvailable(master[e].render)'
    OBVIOUS
  <2>1. CASE e = j
    <3>1. PICK m \in MasterOf : /\ master' = [master EXCEPT ![j] = m] /\ m # Nothing
                                /\ MasterAvailable(m.render)
      BY <2>1, MediaAssumption
    <3>2. master'[e] = m /\ m.render \in Job
      BY <2>1, <3>1 DEF MediaTypeOK, MasterOf, Job
    <3>3. QED
      BY <1>2, <3>1, <3>2 DEF MasterAvailable
  <2>2. CASE e # j
    <3>1. status[e] # "absent" /\ e \in Job
      BY <1>1, <2>2 DEF Job
    <3>2. master[e] # Nothing /\ MasterAvailable(master[e].render) /\ master[e].render \in Job
      BY <3>1 DEF DataInv, OutputBehindSuccess, MediaTypeOK, MasterOf, Job
    <3>3. QED
      BY <1>2, <1>4, <2>2, <3>2 DEF MasterAvailable
  <2>3. QED
    BY <2>1, <2>2
<1>6. OutputBehindSuccess'
  <2>1. \A i \in Job : status'[i] = "succeeded" <=> status[i] = "succeeded"
    BY <1>1
  <2>2. Export \subseteq Job
    BY DEF Job
  <2>3. QED
    BY <1>5, <2>1, <2>2 DEF DataInv, OutputBehindSuccess
<1>7. ActiveIsUnique'
  <2> SUFFICES ASSUME NEW e \in Export, NEW f \in Export, status'[e] \in ActiveStatus,
                      status'[f] \in ActiveStatus, master'[e] = master'[f]
               PROVE  e = f
    BY DEF ActiveIsUnique
  <2>1. e \in Job /\ f \in Job
    BY DEF Job
  <2>2. CASE e # j /\ f # j
    BY <1>1, <1>4, <2>1, <2>2 DEF DataInv, ActiveIsUnique
  <2>3. ASSUME NEW g \in Export \ {j}, status'[g] \in ActiveStatus, j \in Export,
               master'[j] = master'[g]
        PROVE  FALSE
    <3>1. PICK m \in MasterOf : /\ master' = [master EXCEPT ![j] = m]
                                /\ ActiveExports(m.render, m.encoding) = {}
      BY <2>3, MediaAssumption
    <3>2. master[g] = m /\ status[g] \in ActiveStatus
      BY <1>1, <1>4, <2>3, <3>1 DEF MediaTypeOK, Job
    <3>3. m = [render |-> m.render, encoding |-> m.encoding]
      BY DEF MasterOf
    <3>4. g \in ActiveExports(m.render, m.encoding)
      BY <3>2, <3>3 DEF ActiveExports
    <3>5. QED
      BY <3>1, <3>4
  <2>4. QED
    BY <2>2, <2>3
<1>8. QED
  BY <1>3, <1>6, <1>7 DEF DataInv
-----------------------------------------------------------------------------
LEMMA StatusNames ==
  /\ {"absent", "queued", "running", "succeeded", "failed", "canceled"} \subseteq Life!Status
  /\ {"created", "succeeded", "failed", "canceled"} \subseteq Life!Kind
BY DEF Life!Status, Life!Kind, Life!Settled

\* The API: creating jobs ...
LEMMA CreateSafe ==
  ASSUME MediaTypeOK, IInv,
         \/ \E r \in Render : CreateRenderJob(r)
         \/ \E c \in Client, e \in Export : CreateExportJob(c, e) /\ ~RefusedByIndex(request[c])
  PROVE  MediaTypeOK' /\ IInv'
<1>1. PICK j \in Job :
        /\ status[j] = "absent" /\ Life!Announce(j, "queued", "created") /\ Bump(j)
        /\ \A c \in Client : request'[c] = request[c] \/ request'[c] = Nothing
        /\ request' \in [Client -> Request \cup {Nothing}]
        /\ \/ j \in Render /\ UNCHANGED master
           \/ \E m \in MasterOf : /\ j \in Export /\ master' = [master EXCEPT ![j] = m]
                                  /\ MasterAvailable(m.render) /\ m # Nothing
                                  /\ ActiveExports(m.render, m.encoding) = {}
        /\ UNCHANGED <<projects, output, downloads, asset, stored, pc, job, todo, lessee, leased,
                       mishaps>>
  <2>1. CASE \E r \in Render : CreateRenderJob(r)
    <3>1. PICK r \in Render : CreateRenderJob(r)
      BY <2>1
    <3>2. r \in Job
      BY DEF Job
    <3>3. QED
      BY <3>1, <3>2 DEF CreateRenderJob, AddJob, Life!Create, exportVars, assetVars,
           workerVars, jobLeaseVars, MediaTypeOK
  <2>2. CASE \E c \in Client, e \in Export : CreateExportJob(c, e) /\ ~RefusedByIndex(request[c])
    <3>1. PICK c \in Client, e \in Export : CreateExportJob(c, e) /\ ~RefusedByIndex(request[c])
      BY <2>2
    <3> DEFINE m == [render |-> request[c].render, encoding |-> request[c].encoding]
    <3>2. e \in Job /\ request[c] \in Request /\ request[c].op = "export"
      BY <3>1 DEF Job, CreateExportJob, MediaTypeOK
    <3>3. m \in MasterOf
      BY <3>2 DEF Request, MasterOf
    <3>4. /\ status[e] = "absent" /\ AddJob(e) /\ master' = [master EXCEPT ![e] = m]
          /\ Answered(c)
          /\ UNCHANGED <<projects, downloads, asset, stored, pc, job, todo, lessee, leased,
                         mishaps>>
      BY <3>1 DEF CreateExportJob, assetVars, workerVars, jobLeaseVars
    <3>5. MasterAvailable(m.render) /\ ActiveExports(m.render, m.encoding) = {}
      BY <3>1, <3>2 DEF IInv, DataInv, MasterSeen, RefusedByIndex, SlotTaken, CreateExportJob
    <3>6. m # Nothing
      BY <3>3, MediaAssumption
    <3>7. QED
      BY <3>2, <3>3, <3>4, <3>5, <3>6 DEF AddJob, Life!Create, Answered, MediaTypeOK
  <2>3. QED
    BY <2>1, <2>2
<1>2. status' = [status EXCEPT ![j] = "queued"] /\ Life!TypeOK' /\ version' \in [Job -> Nat]
  BY <1>1, JobTyped, VersionTyped, StatusNames
<1>3. WorkInv'
  BY <1>1, <1>2, StatusSafe DEF IInv
<1>4. DataInv'
  BY <1>1, <1>2, BirthSafe DEF IInv
<1>5. MediaTypeOK'
  BY <1>1, <1>2 DEF MediaTypeOK
<1>6. QED
  BY <1>3, <1>4, <1>5 DEF IInv
\* ... cancelling renders, which may find that the row has moved on ...
LEMMA CancelSafe ==
  ASSUME MediaTypeOK, IInv, NEW c \in Client, CancelRenderJob(c)
  PROVE  MediaTypeOK' /\ IInv'
<1>1. /\ \A d \in Client : request'[d] = request[d] \/ request'[d] = Nothing
      /\ request' \in [Client -> Request \cup {Nothing}]
      /\ UNCHANGED <<projects, master, downloads, asset, stored, pc, job, todo, lessee, leased,
                     mishaps>>
  BY DEF CancelRenderJob, Answered, exportVars, assetVars, workerVars, jobLeaseVars, MediaTypeOK
<1> DEFINE j == request[c].job
<1>2. j \in Render /\ j \in Job
  BY DEF CancelRenderJob, MediaTypeOK, Request, Job
<1>3. CASE UNCHANGED jobVars
  <2>1. UNCHANGED <<status, version, events, output>>
    BY <1>3 DEF jobVars
  <2>2. WorkInv'
    BY <1>1, <2>1 DEF IInv, WorkInv, HasJob, OneWorker, StoredFirst
  <2>3. OutputBehindSuccess' /\ ActiveIsUnique'
    BY <1>1, <2>1 DEF IInv, DataInv, OutputBehindSuccess, ActiveIsUnique, MasterAvailable
  <2>4. MasterSeen'
    BY <1>1, <2>1 DEF IInv, DataInv, MasterSeen, MasterAvailable
  <2>5. MediaTypeOK'
    BY <1>1, <2>1 DEF MediaTypeOK, Life!TypeOK
  <2>6. QED
    BY <2>2, <2>3, <2>4, <2>5 DEF IInv, DataInv
<1>4. CASE Cancels(request[c]) /\ CancelRow(j)
  <2>1. /\ status[j] \in {"queued", "running"} /\ Life!Announce(j, "canceled", "canceled")
        /\ Bump(j) /\ UNCHANGED output
    BY <1>4 DEF CancelRow, Life!Cancel
  <2>2. status' = [status EXCEPT ![j] = "canceled"] /\ Life!TypeOK' /\ version' \in [Job -> Nat]
    BY <1>2, <2>1, JobTyped, VersionTyped, StatusNames
  <2>3. WorkInv'
    BY <1>1, <1>2, <2>2, StatusSafe DEF IInv
  <2>4. \A i \in Job : asset[i] # "none" => i \in stored
    BY DEF IInv, DataInv, OutputBehindSuccess
  <2>5. DataInv'
    BY <1>1, <1>2, <2>1, <2>2, <2>4, ProgressSafe DEF IInv
  <2>6. MediaTypeOK'
    BY <1>1, <2>1, <2>2 DEF MediaTypeOK
  <2>7. QED
    BY <2>3, <2>5, <2>6 DEF IInv
<1>5. QED
  BY <1>3, <1>4 DEF CancelRenderJob

\* ... reading before either, or losing the race for an export.
LEMMA ReadSafe ==
  ASSUME MediaTypeOK, IInv, NEW c \in Client,
         \/ \E r \in Render : ReadForCancel(c, r) \/ \E n \in Encoding : CheckExport(c, r, n)
         \/ \E e \in Export : CreateExportJob(c, e) /\ RefusedByIndex(request[c])
  PROVE  MediaTypeOK' /\ IInv'
<1>1. PICK q \in Request \cup {Nothing} :
        /\ request' = [request EXCEPT ![c] = q]
        /\ (q # Nothing /\ q.op = "export") => MasterAvailable(q.render)
        /\ UNCHANGED <<projects, status, version, events, output, master, downloads, asset,
                       stored, pc, job, todo, lessee, leased, mishaps>>
  <2>1. CASE \E r \in Render : ReadForCancel(c, r)
    <3>1. PICK r \in Render : ReadForCancel(c, r)
      BY <2>1
    <3>2. [op |-> "cancel", job |-> r, version |-> version[r]] \in Request
      BY DEF Request, MediaTypeOK, Job
    <3>3. QED
      BY <3>1, <3>2 DEF ReadForCancel, jobVars, exportVars, assetVars, workerVars, jobLeaseVars
  <2>2. CASE \E r \in Render, n \in Encoding : CheckExport(c, r, n)
    <3>1. PICK r \in Render, n \in Encoding : CheckExport(c, r, n)
      BY <2>2
    <3>2. [op |-> "export", render |-> r, encoding |-> n] \in Request
      BY DEF Request
    <3>3. QED
      BY <3>1, <3>2 DEF CheckExport, jobVars, exportVars, assetVars, workerVars, jobLeaseVars
  <2>3. CASE \E e \in Export : CreateExportJob(c, e) /\ RefusedByIndex(request[c])
    BY <2>3 DEF CreateExportJob, Answered, jobVars, assetVars, workerVars, jobLeaseVars
  <2>4. QED
    BY <2>1, <2>2, <2>3
<1>2. request' \in [Client -> Request \cup {Nothing}]
  BY <1>1 DEF MediaTypeOK
<1>3. MediaTypeOK'
  BY <1>1, <1>2 DEF MediaTypeOK, Life!TypeOK
<1>4. WorkInv'
  BY <1>1 DEF IInv, WorkInv, HasJob, OneWorker, StoredFirst
<1>5. OutputBehindSuccess' /\ ActiveIsUnique'
  BY <1>1 DEF IInv, DataInv, OutputBehindSuccess, ActiveIsUnique, MasterAvailable
<1>6. MasterSeen'
  <2> SUFFICES ASSUME NEW d \in Client, request'[d] # Nothing, request'[d].op = "export"
               PROVE  MasterAvailable(request'[d].render)
    BY <1>1 DEF MasterSeen, MasterAvailable
  <2>1. CASE d = c
    BY <1>1, <2>1 DEF MediaTypeOK
  <2>2. CASE d # c
    BY <1>1, <2>2 DEF MediaTypeOK, IInv, DataInv, MasterSeen
  <2>3. QED
    BY <2>1, <2>2
<1>7. QED
  BY <1>3, <1>4, <1>5, <1>6 DEF IInv, DataInv

\* Downloads and deletions.
LEMMA AccessSafe ==
  ASSUME MediaTypeOK, IInv,
         \/ \E e \in Export : DownloadExport(e)
         \/ \E j \in Job : DeleteMedia(j)
         \/ \E p \in Project : RetireProject(p)
  PROVE  MediaTypeOK' /\ IInv'
<1>1. /\ UNCHANGED <<status, version, events, output, master, request, stored, pc, job, todo,
                     lessee, leased, mishaps>>
      /\ projects' \subseteq Project
  BY DEF DownloadExport, DeleteMedia, RetireProject, jobVars, exportVars, assetVars,
       workerVars, jobLeaseVars, MediaTypeOK
<1>2. /\ downloads' \in [Export -> Nat]
      /\ \A e \in Export : downloads'[e] > 0 => downloads[e] > 0 \/ status[e] = "succeeded"
  <2>1. CASE \E e \in Export : DownloadExport(e)
    <3>1. PICK e \in Export : DownloadExport(e)
      BY <2>1
    <3>2. downloads' = [downloads EXCEPT ![e] = downloads[e] + 1] /\ status[e] = "succeeded"
      BY <3>1 DEF DownloadExport
    <3>3. QED
      BY <3>2 DEF MediaTypeOK
  <2>2. CASE ~\E e \in Export : DownloadExport(e)
    BY <2>2 DEF DeleteMedia, RetireProject, exportVars, MediaTypeOK
  <2>3. QED
    BY <2>1, <2>2
<1>3. /\ asset' \in [Job -> {"none", "live", "deleted"}]
      /\ \A j \in Job : asset'[j] = "none" <=> asset[j] = "none"
  BY DEF DownloadExport, DeleteMedia, RetireProject, assetVars, MediaTypeOK
<1>4. WorkInv'
  BY <1>1 DEF IInv, WorkInv, HasJob, OneWorker, StoredFirst
<1>5. DataInv'
  BY <1>1, <1>2, <1>3, MediaSafe DEF IInv
<1>6. MediaTypeOK'
  BY <1>1, <1>2, <1>3 DEF MediaTypeOK, Life!TypeOK
<1>7. QED
  BY <1>4, <1>5, <1>6 DEF IInv
-----------------------------------------------------------------------------
\* The steps of a worker around the claim and the work.
LEMMA ScanSafe ==
  ASSUME MediaTypeOK, IInv, NEW w \in JobWorker, Scan(w) \/ Lock(w) \/ Unlock(w)
  PROVE  MediaTypeOK' /\ IInv'
<1>1. UNCHANGED <<projects, status, version, events, output, master, downloads, asset, stored,
                  request, mishaps>>
  BY DEF Scan, Lock, Unlock, jobVars, exportVars, assetVars
<1>2. DataInv'
  BY <1>1, MediaSafe DEF IInv
<1>3. CASE Scan(w)
  <2>1. UNCHANGED <<pc, job, lessee, leased>> /\ todo' \in [JobWorker -> SUBSET Job]
    <3>1. JobKind(w) \subseteq Job
      BY DEF JobKind, Job
    <3>2. QED
      BY <1>3, <3>1 DEF Scan, jobLeaseVars, ListClaimable, MediaTypeOK
  <2>2. QED
    BY <1>1, <1>2, <2>1 DEF MediaTypeOK, Life!TypeOK, IInv, WorkInv, HasJob, OneWorker,
         StoredFirst
<1>4. CASE Lock(w)
  <2>1. PICK j \in todo[w] :
          /\ pc[w] = "scanning" /\ todo' = [todo EXCEPT ![w] = @ \ {j}]
          /\ \/ JobLocks!Take(j, w) /\ job' = [job EXCEPT ![w] = j] /\ Goto(w, "claim")
             \/ UNCHANGED <<job, pc, jobLeaseVars>>
    BY <1>4 DEF Lock
  <2>2. j \in Job /\ todo' \in [JobWorker -> SUBSET Job]
    BY <2>1 DEF MediaTypeOK
  <2>3. CASE UNCHANGED <<job, pc, jobLeaseVars>>
    <3>1. MediaTypeOK'
      BY <1>1, <2>2, <2>3, LeaseTyped DEF MediaTypeOK, Life!TypeOK
    <3>2. QED
      BY <1>1, <1>2, <2>3, <3>1 DEF IInv, WorkInv, HasJob, OneWorker, StoredFirst
  <2>4. CASE JobLocks!Take(j, w) /\ job' = [job EXCEPT ![w] = j] /\ Goto(w, "claim")
    <3>1. /\ job' \in [JobWorker -> Job \cup {Nothing}] /\ job'[w] = j
          /\ \A v \in JobWorker \ {w} : job'[v] = job[v]
      BY <2>2, <2>4 DEF MediaTypeOK
    <3>2. pc' \in [JobWorker -> Location]
      BY <2>4, MovesTyped, Places
    <3>3. MediaTypeOK'
      BY <1>1, <2>2, <2>4, <3>1, <3>2, LeaseTyped DEF MediaTypeOK, Life!TypeOK
    <3>4. WorkInv'
      BY <1>1, <2>2, <2>4, <3>1, MoveSafe, Places DEF IInv
    <3>5. QED
      BY <1>2, <3>3, <3>4 DEF IInv
  <2>5. QED
    BY <2>1, <2>3, <2>4
<1>5. CASE Unlock(w)
  <2>1. /\ job' \in [JobWorker -> Job \cup {Nothing}] /\ Goto(w, "scanning") /\ UNCHANGED todo
        /\ \A v \in JobWorker \ {w} : job'[v] = job[v]
        /\ JobLocks!Drop(job[w], w)
    BY <1>5 DEF Unlock, MediaTypeOK
  <2>2. MediaTypeOK'
    BY <1>1, <2>1, LeaseTyped, MovesTyped, Places DEF MediaTypeOK, Life!TypeOK
  <2>3. WorkInv'
    BY <1>1, <2>1, MoveSafe, Places DEF IInv
  <2>4. QED
    BY <1>2, <2>2, <2>3 DEF IInv
<1>6. QED
  BY <1>3, <1>4, <1>5

LEMMA ClaimSafe ==
  ASSUME MediaTypeOK, IInv, NEW w \in JobWorker, ClaimJob(w)
  PROVE  MediaTypeOK' /\ IInv'
<1> DEFINE j == job[w]
<1>1. /\ pc[w] = "claim" /\ j \in Job
      /\ UNCHANGED <<projects, master, downloads, asset, stored, request, job, todo, lessee, leased,
                     mishaps>>
  BY DEF ClaimJob, exportVars, assetVars, jobLeaseVars, IInv, WorkInv, HasJob
<1>2. CASE UNCHANGED jobVars /\ Goto(w, "release")
  <2>1. UNCHANGED <<status, version, events, output>>
    BY <1>2 DEF jobVars
  <2>2. WorkInv'
    BY <1>1, <1>2, <2>1, MoveSafe, Places DEF IInv
  <2>3. DataInv'
    BY <1>1, <2>1, MediaSafe DEF IInv
  <2>4. MediaTypeOK'
    BY <1>1, <1>2, <2>1, MovesTyped, Places DEF MediaTypeOK, Life!TypeOK
  <2>5. QED
    BY <2>2, <2>3, <2>4 DEF IInv
<1>3. CASE MarkRunning(j) /\ \E l \in {"working", "failing"} : Goto(w, l)
  <2>1. PICK l \in {"working", "failing"} : Goto(w, l)
    BY <1>3
  <2>2. /\ status[j] = "queued" /\ Life!Quietly(j, "running") /\ Bump(j) /\ UNCHANGED output
    BY <1>3 DEF MarkRunning, Life!Claim
  <2>3. status' = [status EXCEPT ![j] = "running"] /\ Life!TypeOK' /\ version' \in [Job -> Nat]
    BY <1>1, <2>2, JobTyped, VersionTyped, StatusNames
  <2>4. /\ pc' \in [JobWorker -> Location] /\ pc'[w] = l
        /\ \A v \in JobWorker \ {w} : pc'[v] = pc[v]
    BY <2>1, MovesTyped DEF Location
  <2>5. MediaTypeOK'
    BY <1>1, <2>2, <2>3, <2>4 DEF MediaTypeOK
  <2>6. \A i \in Job : asset[i] # "none" => i \in stored
    BY DEF IInv, DataInv, OutputBehindSuccess
  <2>7. DataInv'
    BY <1>1, <2>2, <2>3, <2>6, ProgressSafe DEF IInv
  <2>8. HasJob' /\ StoredFirst'
    BY <1>1, <2>4 DEF IInv, WorkInv, HasJob, StoredFirst
  <2>9. status'[j] = "running" /\ \A i \in Job \ {j} : status'[i] = status[i]
    BY <1>1, <2>3 DEF MediaTypeOK, Life!TypeOK
  <2>10. \A v \in JobWorker : pc[v] \in Attending => job[v] # j
    BY <2>2 DEF IInv, WorkInv, OneWorker
  <2>11. OneWorker'
    <3> SUFFICES ASSUME NEW v \in JobWorker, pc'[v] \in Attending
                 PROVE  /\ status'[job[v]] \in {"running", "canceled"}
                        /\ \A u \in JobWorker \ {v} : pc'[u] \in Attending => job[u] # job[v]
      BY <1>1 DEF OneWorker
    <3>1. CASE v = w
      BY <2>4, <2>9, <2>10, <3>1
    <3>2. CASE v # w
      BY <2>4, <2>9, <2>10, <3>2, Places DEF IInv, WorkInv, OneWorker, HasJob
    <3>3. QED
      BY <3>1, <3>2
  <2>12. QED
    BY <2>5, <2>7, <2>8, <2>11 DEF IInv, WorkInv
<1>4. QED
  BY <1>2, <1>3 DEF ClaimJob

\* Producing the object, or failing to.
LEMMA ProduceSafe ==
  ASSUME MediaTypeOK, IInv, NEW w \in JobWorker, Produce(w) \/ ProduceFails(w)
  PROVE  MediaTypeOK' /\ IInv'
<1>1. /\ pc[w] \in Attending /\ job[w] \in Job
      /\ UNCHANGED <<projects, status, version, events, output, master, downloads, asset, request,
                     job, todo, lessee, leased, mishaps>>
  BY Places DEF Produce, ProduceFails, jobVars, exportVars, assetVars, jobLeaseVars, IInv,
       WorkInv, HasJob, Attending
<1>2. /\ stored \subseteq stored' /\ stored' \subseteq Job
      /\ \E l \in {"settling", "failing"} : Goto(w, l) /\ (l = "settling" => job[w] \in stored')
  BY <1>1 DEF Produce, ProduceFails, assetVars, MediaTypeOK
<1>3. PICK l \in Location : Goto(w, l) /\ (l = "settling" => job[w] \in stored') /\ l # "scanning"
  BY <1>2 DEF Location
<1>4. WorkInv'
  BY <1>1, <1>2, <1>3, MoveSafe DEF IInv
<1>5. DataInv'
  BY <1>1, <1>2, MediaSafe DEF IInv
<1>6. MediaTypeOK'
  BY <1>1, <1>2, <1>3, MovesTyped DEF MediaTypeOK, Life!TypeOK
<1>7. QED
  BY <1>4, <1>5, <1>6 DEF IInv

\* Settling: with the asset, whether or not the job was cancelled; or as failed.
LEMMA SettleSafe ==
  ASSUME MediaTypeOK, IInv, NEW w \in JobWorker, Settle(w) \/ SettleFailed(w)
  PROVE  MediaTypeOK' /\ IInv'
<1> DEFINE j == job[w]
<1>1. /\ pc[w] \in Attending /\ Goto(w, "release") /\ j \in Job
      /\ UNCHANGED <<projects, master, downloads, stored, request, job, todo, lessee, leased,
                     mishaps>>
  BY Places DEF Settle, SettleFailed, exportVars, assetVars, jobLeaseVars, IInv, WorkInv,
       HasJob, Attending
<1>2. /\ asset' \in [Job -> {"none", "live", "deleted"}]
      /\ \A i \in Job : /\ asset[i] # "none" => asset'[i] # "none"
                        /\ asset'[i] # "none" => i \in stored
      /\ Settle(w) => asset'[j] = "live"
  <2>1. \A i \in Job : asset[i] # "none" => i \in stored
    BY DEF IInv, DataInv, OutputBehindSuccess
  <2>2. CASE Settle(w)
    <3>1. j \in stored /\ asset' = [asset EXCEPT ![j] = "live"]
      BY <2>2 DEF Settle, AddAsset, IInv, WorkInv, StoredFirst
    <3>2. QED
      BY <1>1, <2>1, <3>1 DEF MediaTypeOK
  <2>3. CASE SettleFailed(w) /\ ~Settle(w)
    BY <2>1, <2>3 DEF SettleFailed, assetVars, MediaTypeOK
  <2>4. QED
    BY <2>2, <2>3
<1>3. CASE UNCHANGED jobVars
  <2>1. UNCHANGED <<status, version, events, output>>
    BY <1>3 DEF jobVars
  <2>2. WorkInv'
    BY <1>1, <2>1, LeaveSafe DEF IInv
  <2>3. OutputBehindSuccess' /\ MasterSeen' /\ ActiveIsUnique'
    BY <1>1, <1>2, <2>1 DEF IInv, DataInv, OutputBehindSuccess, MasterSeen, ActiveIsUnique,
         MasterAvailable
  <2>4. MediaTypeOK'
    BY <1>1, <1>2, <2>1, MovesTyped, Places DEF MediaTypeOK, Life!TypeOK
  <2>5. QED
    BY <2>2, <2>3, <2>4 DEF IInv, DataInv
<1>4. CASE ~UNCHANGED jobVars
  <2>1. PICK s \in {"succeeded", "failed"} :
          /\ status[j] = "running" /\ Life!Announce(j, s, s) /\ Bump(j)
          /\ output' = IF s = "succeeded" THEN [output EXCEPT ![j] = TRUE] ELSE output
          /\ s = "succeeded" => Settle(w)
    BY <1>4 DEF Settle, SettleFailed, MarkSucceeded, MarkFailed, Life!Settle
  <2>2. status' = [status EXCEPT ![j] = s] /\ Life!TypeOK' /\ version' \in [Job -> Nat]
    BY <1>1, <2>1, JobTyped, VersionTyped, StatusNames
  <2>3. WorkInv'
    BY <1>1, <2>2, LeaveSafe DEF IInv
  <2>4. DataInv'
    BY <1>1, <1>2, <2>1, <2>2, ProgressSafe DEF IInv
  <2>5. output' \in [Job -> BOOLEAN]
    BY <2>1 DEF MediaTypeOK
  <2>6. MediaTypeOK'
    BY <1>1, <1>2, <2>2, <2>5, MovesTyped, Places DEF MediaTypeOK
  <2>7. QED
    BY <2>3, <2>4, <2>6 DEF IInv
<1>5. QED
  BY <1>3, <1>4

\* Faults and expiring leases.
LEMMA FaultSafe ==
  ASSUME MediaTypeOK, IInv,
         \/ \E w \in JobWorker : WorkerDies(w) \/ Escapes(w)
         \/ \E j \in Job : JobLeaseLapses(j)
  PROVE  MediaTypeOK' /\ IInv'
<1>1. /\ UNCHANGED <<projects, status, version, events, output, master, downloads, asset, stored,
                     request>>
  BY DEF WorkerDies, Escapes, JobLeaseLapses, jobVars, exportVars, assetVars
<1>2. DataInv'
  BY <1>1, MediaSafe DEF IInv
<1>3. CASE \E j \in Job : JobLeaseLapses(j)
  <2>1. /\ UNCHANGED <<pc, job, todo, mishaps>>
        /\ lessee' \in [Job -> JobWorker \cup {NoLessee}] /\ leased' \in [Job -> BOOLEAN]
    BY <1>3 DEF JobLeaseLapses, JobLocks!Lapse, workerVars, MediaTypeOK
  <2>2. QED
    BY <1>1, <1>2, <2>1 DEF MediaTypeOK, Life!TypeOK, IInv, WorkInv, HasJob, OneWorker,
         StoredFirst
<1>4. CASE \E w \in JobWorker : WorkerDies(w) \/ Escapes(w)
  <2>1. PICK w \in JobWorker : WorkerDies(w) \/ Escapes(w)
    BY <1>4
  <2>2. mishaps' \in 0..MaxMishaps /\ UNCHANGED <<lessee, leased>>
    <3>1. mishaps \in 0..MaxMishaps /\ mishaps < MaxMishaps /\ mishaps' = mishaps + 1
      BY <2>1 DEF WorkerDies, Escapes, Mishap, MediaTypeOK
    <3>2. mishaps' \in 0..MaxMishaps
      BY <3>1, MediaAssumption
    <3>3. QED
      BY <2>1, <3>2 DEF WorkerDies, Escapes, jobLeaseVars
  <2>3. PICK l \in {"release", "scanning"} :
          /\ Goto(w, l) /\ \A v \in JobWorker \ {w} : job'[v] = job[v]
          /\ l # "scanning" => job'[w] \in Job
          /\ job' \in [JobWorker -> Job \cup {Nothing}] /\ todo' \in [JobWorker -> SUBSET Job]
    <3>1. CASE WorkerDies(w)
      BY <3>1 DEF WorkerDies, MediaTypeOK
    <3>2. CASE Escapes(w)
      BY <3>2, Places DEF Escapes, MediaTypeOK, IInv, WorkInv, HasJob
    <3>3. QED
      BY <2>1, <3>1, <3>2
  <2>4. MediaTypeOK'
    BY <1>1, <2>2, <2>3, MovesTyped, Places DEF MediaTypeOK, Life!TypeOK
  <2>5. WorkInv'
    BY <1>1, <2>3, MoveSafe, Places DEF IInv
  <2>6. QED
    BY <1>2, <2>4, <2>5 DEF IInv
<1>5. QED
  BY <1>3, <1>4
-----------------------------------------------------------------------------
LEMMA StepSafe ==
  ASSUME MediaTypeOK, IInv, [MediaNext]_mediaVars
  PROVE  MediaTypeOK' /\ IInv'
<1>1. CASE \E r \in Render : CreateRenderJob(r)
  BY <1>1, CreateSafe
<1>2. CASE \E c \in Client : ClientStep(c)
  BY <1>2, CreateSafe, CancelSafe, ReadSafe DEF ClientStep
<1>3. CASE \/ \E e \in Export : DownloadExport(e)
           \/ \E j \in Job : DeleteMedia(j)
           \/ \E p \in Project : RetireProject(p)
  BY <1>3, AccessSafe
<1>4. CASE \E w \in JobWorker : WorkerStep(w)
  BY <1>4, ScanSafe, ClaimSafe, ProduceSafe, SettleSafe DEF WorkerStep
<1>5. CASE \/ \E w \in JobWorker : WorkerDies(w) \/ Escapes(w)
           \/ \E j \in Job : JobLeaseLapses(j)
  BY <1>5, FaultSafe
<1>6. CASE UNCHANGED mediaVars
  BY <1>6 DEF mediaVars, jobVars, exportVars, assetVars, workerVars, jobLeaseVars,
       MediaTypeOK, Life!TypeOK, IInv, WorkInv, HasJob, OneWorker, StoredFirst, DataInv,
       MasterSeen, MasterAvailable, OutputBehindSuccess, ActiveIsUnique
<1>7. QED
  BY <1>1, <1>2, <1>3, <1>4, <1>5, <1>6 DEF MediaNext

LEMMA InitSafe ==
  ASSUME MediaInit
  PROVE  MediaTypeOK /\ IInv
<1>1. Life!TypeOK
  BY DEF MediaInit, Life!Init, Life!TypeOK, Life!Status
<1>2. MediaTypeOK
  BY <1>1, MediaAssumption DEF MediaInit, JobLocks!Init, MediaTypeOK, Location
<1>3. WorkInv
  BY Places DEF MediaInit, WorkInv, HasJob, OneWorker, StoredFirst
<1>4. DataInv
  BY DEF MediaInit, Life!Init, DataInv, MasterSeen, OutputBehindSuccess, ActiveIsUnique,
       ActiveStatus, Job
<1>5. QED
  BY <1>2, <1>3, <1>4 DEF IInv

\* The types, who may work on a job, that objects are stored before they are registered,
\* and that only finished masters are exported, once at a time, are inductive together.
THEOREM Inductive == MediaSpec => [](MediaTypeOK /\ IInv)
<1>1. MediaInit => MediaTypeOK /\ IInv
  BY InitSafe
<1>2. MediaTypeOK /\ IInv /\ [MediaNext]_mediaVars => (MediaTypeOK /\ IInv)'
  BY StepSafe
<1>3. QED
  BY <1>1, <1>2, PTL DEF MediaSpec

\* Every variable keeps its type.
THEOREM MediaTyped == MediaSpec => []MediaTypeOK
  BY Inductive, PTL

\* Success and output go together: a succeeded job has its asset, registered over an
\* object that is in the store, nobody else has one, and only finished masters are
\* exported.
THEOREM OutputProven == MediaSpec => []OutputBehindSuccess
<1>1. IInv => OutputBehindSuccess
  BY DEF IInv, DataInv
<1>2. QED
  BY <1>1, Inductive, PTL

\* At most one export of a master in an encoding is active, whoever races for it.
THEOREM OneActive == MediaSpec => []OneActiveExport
<1>1. IInv => OneActiveExport
  <2> SUFFICES ASSUME IInv, NEW r \in Render, NEW n \in Encoding
               PROVE  Cardinality(ActiveExports(r, n)) <= 1
    BY DEF OneActiveExport
  <2>1. CASE ActiveExports(r, n) = {}
    BY <2>1, FS_EmptySet
  <2>2. CASE ActiveExports(r, n) # {}
    <3>1. PICK e : e \in ActiveExports(r, n)
      BY <2>2
    <3>2. ActiveExports(r, n) = {e}
      BY <3>1 DEF ActiveExports, IInv, DataInv, ActiveIsUnique
    <3>3. Cardinality({e}) = 1
      BY FS_Singleton, Zenon
    <3>4. QED
      BY <3>2, <3>3
  <2>3. QED
    BY <2>1, <2>2
<1>2. QED
  BY <1>1, Inductive, PTL
-----------------------------------------------------------------------------
\* The life of a job is changed by the operations of JobLifecycle only.
LEMMA StepFollowsLife ==
  ASSUME MediaTypeOK, IInv, [MediaNext]_mediaVars
  PROVE  [Life!Next]_Life!jobVars
<1> USE DEF Life!jobVars
<1>1. CASE \E r \in Render : CreateRenderJob(r)
  BY <1>1 DEF CreateRenderJob, AddJob, Life!Next, Job
<1>2. CASE \E c \in Client, e \in Export : CreateExportJob(c, e)
  BY <1>2 DEF CreateExportJob, AddJob, Life!Next, Job, jobVars
<1>3. CASE \E c \in Client : CancelRenderJob(c)
  <2>1. PICK c \in Client : CancelRenderJob(c)
    BY <1>3
  <2>2. request[c].job \in Render /\ request[c].job \in Job
    BY <2>1 DEF CancelRenderJob, MediaTypeOK, Request, Job
  <2>3. QED
    BY <2>1, <2>2 DEF CancelRenderJob, CancelRow, Life!Next, jobVars
<1>4. CASE \E w \in JobWorker : ClaimJob(w) \/ Settle(w) \/ SettleFailed(w)
  <2>1. PICK w \in JobWorker : ClaimJob(w) \/ Settle(w) \/ SettleFailed(w)
    BY <1>4
  <2>2. job[w] \in Job
    BY <2>1 DEF ClaimJob, Settle, SettleFailed, IInv, WorkInv, HasJob
  <2>3. CASE ClaimJob(w)
    BY <2>2, <2>3 DEF ClaimJob, MarkRunning, jobVars, Life!Next
  <2>4. CASE Settle(w) \/ SettleFailed(w)
    BY <2>2, <2>4 DEF Settle, SettleFailed, MarkSucceeded, MarkFailed, jobVars, Life!Next
  <2>5. QED
    BY <2>1, <2>3, <2>4
<1>5. CASE UNCHANGED jobVars
  BY <1>5 DEF jobVars
<1>6. QED
  BY <1>1, <1>2, <1>3, <1>4, <1>5 DEF MediaNext, ClientStep, ReadForCancel, CheckExport,
       DownloadExport, DeleteMedia, RetireProject, WorkerStep, Scan, Lock, Produce,
       ProduceFails, Unlock, JobLeaseLapses, WorkerDies, Escapes, mediaVars

\* Renders and exports are jobs of JobLifecycle: claimed once, ended once, announced in
\* the step that does it, and a cancelled render stays cancelled.
THEOREM LifecycleFollowed == MediaSpec => JobsFollowLifecycle
<1>1. MediaInit => Life!Init
  BY DEF MediaInit
<1>2. MediaTypeOK /\ IInv /\ [MediaNext]_mediaVars => [Life!Next]_Life!jobVars
  BY StepFollowsLife
<1>3. QED
  BY <1>1, <1>2, Inductive, PTL DEF MediaSpec, JobsFollowLifecycle, Life!Spec
-----------------------------------------------------------------------------
(***************************************************************************)
(* Stranded jobs.  A job runs with nobody on it when its worker left it    *)
(* running, and there is a fault to answer for each.                       *)
(***************************************************************************)
Stranded == {j \in Job : status[j] = "running" /\ ~Attended(j)}

Accounted == IsFiniteSet(Stranded) /\ Cardinality(Stranded) <= mishaps

\* What a step may do to the count: nothing, or one job against one more fault.
NoMore == Stranded' \subseteq Stranded /\ UNCHANGED mishaps
OneMore == \E j \in Job : Stranded' \subseteq Stranded \cup {j} /\ mishaps' = mishaps + 1

\* A worker moves: at most its own job is stranded, and none if it works on.
LEMMA OneLeaves ==
  ASSUME MediaTypeOK, NEW w \in JobWorker, UNCHANGED status,
         \A v \in JobWorker \ {w} : pc'[v] = pc[v] /\ job'[v] = job[v]
  PROVE  /\ Stranded' \subseteq Stranded \cup {job[w]}
         /\ (pc[w] \in Attending => pc'[w] \in Attending /\ job'[w] = job[w]) => Stranded' \subseteq Stranded
BY DEF Stranded, Attended

\* A job whose worker has settled it is not running any more.
LEMMA OneEnds ==
  ASSUME MediaTypeOK, NEW w \in JobWorker, job[w] \in Job,
         status'[job[w]] # "running",
         \A i \in Job \ {job[w]} : status'[i] = status[i],
         \A v \in JobWorker \ {w} : pc'[v] = pc[v] /\ job'[v] = job[v]
  PROVE  Stranded' \subseteq Stranded
BY DEF Stranded, Attended

\* A job whose status changes to another than running, with no worker moving, is not
\* stranded by it.
LEMMA OneRests ==
  ASSUME MediaTypeOK, NEW j \in Job, NEW s, s # "running", status' = [status EXCEPT ![j] = s],
         UNCHANGED <<pc, job, mishaps>>
  PROVE  NoMore
BY DEF MediaTypeOK, Life!TypeOK, NoMore, Stranded, Attended

\* One worker moves, the others stay.
LEMMA WorkerMoves ==
  ASSUME MediaTypeOK, NEW w \in JobWorker, NEW l \in Location, Goto(w, l),
         UNCHANGED job \/ \E x : job' = [job EXCEPT ![w] = x]
  PROVE  /\ pc'[w] = l
         /\ \A v \in JobWorker \ {w} : pc'[v] = pc[v] /\ job'[v] = job[v]
<1>1. pc'[w] = l /\ \A v \in JobWorker \ {w} : pc'[v] = pc[v]
  BY MovesTyped
<1>2. \A v \in JobWorker \ {w} : job'[v] = job[v]
  BY DEF MediaTypeOK
<1>3. QED
  BY <1>1, <1>2

\* A worker strands no job by its own steps.
LEMMA WorkerStrands ==
  ASSUME MediaTypeOK, IInv, NEW w \in JobWorker, WorkerStep(w)
  PROVE  NoMore
<1>1. CASE Scan(w)
  BY <1>1 DEF Scan, jobVars, NoMore, Stranded, Attended
<1>2. CASE Lock(w) \/ Unlock(w)
  <2>1. UNCHANGED <<status, mishaps>> /\ pc[w] \notin Attending
    BY <1>2 DEF Lock, Unlock, jobVars, Attending
  <2>2. CASE UNCHANGED <<pc, job>>
    BY <2>1, <2>2 DEF NoMore, Stranded, Attended
  <2>3. CASE ~UNCHANGED <<pc, job>>
    <3>1. \E l \in {"claim", "scanning"} : Goto(w, l)
      BY <1>2, <2>3 DEF Lock, Unlock
    <3>2. UNCHANGED job \/ \E x : job' = [job EXCEPT ![w] = x]
      BY <1>2 DEF Lock, Unlock
    <3>3. \A v \in JobWorker \ {w} : pc'[v] = pc[v] /\ job'[v] = job[v]
      BY <3>1, <3>2, WorkerMoves, Places
    <3>4. QED
      BY <2>1, <3>3, OneLeaves DEF NoMore
  <2>4. QED
    BY <2>2, <2>3
<1>3. CASE ClaimJob(w)
  <2>1. /\ pc[w] = "claim" /\ job[w] \in Job /\ UNCHANGED <<job, mishaps>>
    BY <1>3 DEF ClaimJob, IInv, WorkInv, HasJob
  <2>2. CASE Goto(w, "release") /\ UNCHANGED jobVars
    <3>1. \A v \in JobWorker \ {w} : pc'[v] = pc[v] /\ job'[v] = job[v]
      BY <2>1, <2>2, WorkerMoves, Places
    <3>2. QED
      BY <2>1, <2>2, <3>1, OneLeaves, Places DEF NoMore, jobVars
  <2>3. CASE MarkRunning(job[w]) /\ \E l \in {"working", "failing"} : Goto(w, l)
    <3>1. /\ pc'[w] \in Attending
          /\ \A v \in JobWorker \ {w} : pc'[v] = pc[v] /\ job'[v] = job[v]
      <4>1. {"working", "failing"} \subseteq Attending
        BY DEF Attending
      <4>2. QED
        BY <2>1, <2>3, <4>1, WorkerMoves, Places
    <3>2. status' = [status EXCEPT ![job[w]] = "running"]
      BY <2>3 DEF MarkRunning, Life!Claim, Life!Quietly
    <3>3. \A i \in Job \ {job[w]} : status'[i] = status[i]
      BY <2>1, <3>2 DEF MediaTypeOK, Life!TypeOK
    <3>4. Stranded' \subseteq Stranded
      BY <2>1, <3>1, <3>3, Places DEF Stranded, Attended
    <3>5. QED
      BY <2>1, <3>4 DEF NoMore
  <2>4. QED
    BY <1>3, <2>2, <2>3 DEF ClaimJob
<1>4. CASE Produce(w) \/ ProduceFails(w)
  <2>1. /\ \E l \in {"settling", "failing"} : Goto(w, l)
        /\ UNCHANGED <<status, job, mishaps>>
    BY <1>4 DEF Produce, ProduceFails, jobVars
  <2>2. {"settling", "failing"} \subseteq Attending
    BY DEF Attending
  <2>3. pc'[w] \in Attending /\ \A v \in JobWorker \ {w} : pc'[v] = pc[v] /\ job'[v] = job[v]
    BY <2>1, <2>2, WorkerMoves, Places
  <2>4. QED
    BY <2>1, <2>3, OneLeaves DEF NoMore
<1>5. CASE Settle(w) \/ SettleFailed(w)
  <2>1. /\ job[w] \in Job /\ Goto(w, "release") /\ UNCHANGED <<job, mishaps>>
        /\ \/ \E s \in {"succeeded", "failed"} : status' = [status EXCEPT ![job[w]] = s]
           \/ status[job[w]] # "running" /\ UNCHANGED status
    BY <1>5 DEF Settle, SettleFailed, MarkSucceeded, MarkFailed, Life!Settle, Life!Announce,
         jobVars, IInv, WorkInv, HasJob
  <2>2. \A v \in JobWorker \ {w} : pc'[v] = pc[v] /\ job'[v] = job[v]
    BY <2>1, WorkerMoves, Places
  <2>3. status'[job[w]] # "running" /\ \A i \in Job \ {job[w]} : status'[i] = status[i]
    BY <2>1 DEF MediaTypeOK, Life!TypeOK
  <2>4. QED
    BY <2>1, <2>2, <2>3, OneEnds DEF NoMore
<1>6. QED
  BY <1>1, <1>2, <1>3, <1>4, <1>5 DEF WorkerStep

\* Every step strands nobody, or one job for one more fault.
LEMMA StepStrands ==
  ASSUME MediaTypeOK, IInv, [MediaNext]_mediaVars
  PROVE  NoMore \/ OneMore
<1>1. ASSUME NEW r \in Render, CreateRenderJob(r) PROVE NoMore
  <2>1. r \in Job /\ status' = [status EXCEPT ![r] = "queued"] /\ UNCHANGED <<pc, job, mishaps>>
    BY <1>1 DEF CreateRenderJob, AddJob, Life!Create, Life!Announce, workerVars, Job
  <2>2. QED
    BY <2>1, OneRests
<1>2. ASSUME NEW c \in Client, NEW e \in Export, CreateExportJob(c, e) PROVE NoMore
  <2>1. CASE UNCHANGED status
    BY <1>2, <2>1 DEF CreateExportJob, workerVars, NoMore, Stranded, Attended
  <2>2. CASE AddJob(e)
    <3>1. e \in Job /\ status' = [status EXCEPT ![e] = "queued"] /\ UNCHANGED <<pc, job, mishaps>>
      BY <1>2, <2>2 DEF CreateExportJob, AddJob, Life!Create, Life!Announce, workerVars, Job
    <3>2. QED
      BY <3>1, OneRests
  <2>3. QED
    BY <1>2, <2>1, <2>2 DEF CreateExportJob, jobVars
<1>3. ASSUME NEW c \in Client, CancelRenderJob(c) PROVE NoMore
  <2>1. CASE UNCHANGED status
    BY <1>3, <2>1 DEF CancelRenderJob, workerVars, NoMore, Stranded, Attended
  <2>2. CASE CancelRow(request[c].job)
    <3>1. request[c].job \in Job
      BY <1>3 DEF CancelRenderJob, MediaTypeOK, Request, Job
    <3>2. status' = [status EXCEPT ![request[c].job] = "canceled"] /\ UNCHANGED <<pc, job, mishaps>>
      BY <1>3, <2>2 DEF CancelRenderJob, CancelRow, Life!Cancel, Life!Announce, workerVars
    <3>3. QED
      BY <3>1, <3>2, OneRests
  <2>3. QED
    BY <1>3, <2>1, <2>2 DEF CancelRenderJob, jobVars
<1>4. CASE \/ \E c \in Client, r \in Render :
                ReadForCancel(c, r) \/ \E n \in Encoding : CheckExport(c, r, n)
           \/ \E e \in Export : DownloadExport(e)
           \/ \E j \in Job : DeleteMedia(j) \/ JobLeaseLapses(j)
           \/ UNCHANGED mediaVars \/ \E p \in Project : RetireProject(p)
  BY <1>4 DEF ReadForCancel, CheckExport, DownloadExport, DeleteMedia, JobLeaseLapses,
       RetireProject, mediaVars, jobVars, workerVars, NoMore, Stranded, Attended
<1>5. ASSUME NEW w \in JobWorker, WorkerDies(w) \/ Escapes(w) PROVE OneMore
  <2>1. /\ UNCHANGED status /\ mishaps' = mishaps + 1
        /\ \E l \in {"scanning", "release"} : Goto(w, l)
        /\ UNCHANGED job \/ \E x : job' = [job EXCEPT ![w] = x]
        /\ job[w] \in Job
    BY <1>5, Places DEF WorkerDies, Escapes, Mishap, jobVars, IInv, WorkInv, HasJob
  <2>2. \A v \in JobWorker \ {w} : pc'[v] = pc[v] /\ job'[v] = job[v]
    BY <2>1, WorkerMoves, Places
  <2>3. Stranded' \subseteq Stranded \cup {job[w]}
    BY <2>1, <2>2, OneLeaves
  <2>4. QED
    BY <2>1, <2>3 DEF OneMore
<1>6. QED
  BY <1>1, <1>2, <1>3, <1>4, <1>5, WorkerStrands DEF MediaNext, ClientStep

\* The count is kept.
LEMMA AccountedStep == MediaTypeOK /\ IInv /\ Accounted /\ [MediaNext]_mediaVars => Accounted'
<1> SUFFICES ASSUME MediaTypeOK, IInv, Accounted, [MediaNext]_mediaVars
             PROVE  Accounted'
  OBVIOUS
<1>1. /\ IsFiniteSet(Stranded) /\ Cardinality(Stranded) \in Nat
      /\ Cardinality(Stranded) <= mishaps /\ mishaps \in Nat
  BY FS_CardinalityType DEF Accounted, MediaTypeOK
<1>2. CASE NoMore
  <2>1. /\ IsFiniteSet(Stranded') /\ Cardinality(Stranded') <= Cardinality(Stranded)
        /\ Cardinality(Stranded') \in Nat
    BY <1>1, <1>2, FS_Subset, FS_CardinalityType DEF NoMore
  <2>2. QED
    BY <1>1, <1>2, <2>1 DEF NoMore, Accounted
<1>3. CASE OneMore
  <2>1. PICK j \in Job : Stranded' \subseteq Stranded \cup {j} /\ mishaps' = mishaps + 1
    BY <1>3 DEF OneMore
  <2>2. /\ IsFiniteSet(Stranded \cup {j})
        /\ Cardinality(Stranded \cup {j}) <= Cardinality(Stranded) + 1
        /\ Cardinality(Stranded \cup {j}) \in Nat
    <3>1. /\ IsFiniteSet(Stranded \cup {j})
          /\ Cardinality(Stranded \cup {j}) \in {Cardinality(Stranded), Cardinality(Stranded) + 1}
      BY <1>1, FS_AddElement
    <3>2. QED
      BY <1>1, <3>1
  <2>3. /\ IsFiniteSet(Stranded') /\ Cardinality(Stranded') <= Cardinality(Stranded \cup {j})
        /\ Cardinality(Stranded') \in Nat
    BY <2>1, <2>2, FS_Subset, FS_CardinalityType
  <2>4. QED
    BY <1>1, <2>1, <2>2, <2>3 DEF Accounted
<1>4. QED
  BY <1>2, <1>3, StepStrands

\* A job runs with nobody on it only by a crash or an unclassified exception, and each
\* strands at most one, for any renders, exports and workers.
THEOREM StrandedAccounted == MediaSpec => []StrandedByFault
<1>1. MediaInit => Accounted
  <2> SUFFICES ASSUME MediaInit
               PROVE  Accounted
    OBVIOUS
  <2>1. Stranded = {} /\ mishaps = 0
    BY DEF MediaInit, Life!Init, Stranded
  <2>2. QED
    BY <2>1, FS_EmptySet DEF Accounted
<1>2. Accounted => StrandedByFault
  BY DEF Accounted, StrandedByFault, Stranded
<1>3. QED
  BY <1>1, <1>2, AccountedStep, Inductive, PTL DEF MediaSpec
=============================================================================
