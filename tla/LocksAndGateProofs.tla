------------------------- MODULE LocksAndGateProofs -------------------------
(***************************************************************************)
(* Theorems about two components that share nothing: the lock manager, and *)
(* the migrations with the merge gate.                                     *)
(*                                                                         *)
(* The locks: for every set of keys and clients and every choice of lease  *)
(* durations.  The exclusion theorem assumes what interfaces/locks.py asks *)
(* of callers: a unique token per holder.  The gate: for any others who    *)
(* run alembic, selections of stages and number of tries.                  *)
(***************************************************************************)
EXTENDS DistributedLocks, CiGate, TLAPS

\* The empty lock table is well typed.
LEMMA TypeInit == LockInit => LockTypeOK
  BY LockAssumption DEF LockInit, LockTypeOK

\* Every action keeps the types.
LEMMA TypeStep == LockTypeOK /\ [LockNext]_lockVars => LockTypeOK'
<1> SUFFICES ASSUME LockTypeOK, [LockNext]_lockVars
             PROVE  LockTypeOK'
  OBVIOUS
<1> USE LockAssumption DEF LockTypeOK
<1>1. ASSUME NEW c \in Process, NEW k \in LockKey, NEW d \in LeaseFor, Acquire(c, k, d)
      PROVE  LockTypeOK'
  <2>1. clock + d \in Nat /\ Token[c] \in Owner
    OBVIOUS
  <2>2. lease' \in [Process -> [LockKey -> Nat]]
    BY <1>1, <2>1 DEF Acquire
  <2>3. QED
    BY <1>1, <2>1, <2>2 DEF Acquire
<1>2. ASSUME NEW c \in Process, NEW k \in LockKey, NEW d \in LeaseFor, Renew(c, k, d)
      PROVE  LockTypeOK'
  <2>1. clock + d \in Nat
    OBVIOUS
  <2>2. lease' \in [Process -> [LockKey -> Nat]]
    BY <1>2, <2>1 DEF Renew
  <2>3. QED
    BY <1>2, <2>1, <2>2 DEF Renew
<1>3. ASSUME NEW c \in Process, NEW k \in LockKey, Release(c, k)
      PROVE  LockTypeOK'
  <2>1. lease' \in [Process -> [LockKey -> Nat]] /\ clock' = clock
    BY <1>3 DEF Release
  <2>2. CASE owner[k] = Token[c]
    BY <1>3, <2>1, <2>2 DEF Release
  <2>3. CASE owner[k] # Token[c]
    BY <1>3, <2>1, <2>3 DEF Release
  <2>4. QED
    BY <2>2, <2>3
<1>4. ASSUME NEW c \in Process, Forget(c)
      PROVE  LockTypeOK'
  BY <1>4 DEF Forget
<1>5. CASE ReclaimExpired
  BY <1>5 DEF ReclaimExpired
<1>6. CASE Tick
  BY <1>6 DEF Tick
<1>7. CASE UNCHANGED lockVars
  BY <1>7 DEF lockVars
<1>8. QED
  BY <1>1, <1>2, <1>3, <1>4, <1>5, <1>6, <1>7 DEF LockNext

\* Every reachable state of the lock table is well typed.
THEOREM TypeCorrect == LockSpec => []LockTypeOK
BY TypeInit, TypeStep, PTL DEF LockSpec
-----------------------------------------------------------------------------
\* With unique tokens, no step of another client can take away, shorten or
\* delete the row behind an unexpired lease.
LEMMA BackedStep ==
  ASSUME TokensAreUnique, LockTypeOK, LeaseBacked, [LockNext]_lockVars
  PROVE  LeaseBacked'
<1> SUFFICES ASSUME NEW e \in Process, NEW j \in LockKey, lease'[e][j] >= clock'
             PROVE  owner'[j] = Token[e] /\ until'[j] >= lease'[e][j]
  BY DEF LeaseBacked
<1> USE LockAssumption DEF LockTypeOK
<1>1. ASSUME NEW c \in Process, NEW k \in LockKey, NEW d \in LeaseFor, Acquire(c, k, d)
      PROVE  owner'[j] = Token[e] /\ until'[j] >= lease'[e][j]
  <2>1. CASE c = e /\ k = j
    BY <1>1, <2>1 DEF Acquire
  <2>2. CASE k # j
    BY <1>1, <2>2 DEF Acquire, LeaseBacked
  <2>3. CASE c # e /\ k = j
    <3>1. lease[e][j] >= clock
      BY <1>1, <2>3 DEF Acquire
    <3>2. owner[j] = Token[e] /\ until[j] >= clock
      BY <3>1 DEF LeaseBacked
    <3>3. QED
      BY <1>1, <2>3, <3>2 DEF Acquire, Acquirable
  <2>4. QED
    BY <2>1, <2>2, <2>3
<1>2. ASSUME NEW c \in Process, NEW k \in LockKey, NEW d \in LeaseFor, Renew(c, k, d)
      PROVE  owner'[j] = Token[e] /\ until'[j] >= lease'[e][j]
  <2>1. CASE c = e /\ k = j
    BY <1>2, <2>1 DEF Renew, Renewable
  <2>2. CASE k # j
    BY <1>2, <2>2 DEF Renew, LeaseBacked
  <2>3. CASE c # e /\ k = j
    <3>1. owner[j] = Token[e]
      BY <1>2, <2>3 DEF Renew, LeaseBacked
    <3>2. Token[c] # Token[e]
      BY <2>3 DEF TokensAreUnique
    <3>3. QED
      BY <1>2, <2>3, <3>1, <3>2 DEF Renew, Renewable
  <2>4. QED
    BY <2>1, <2>2, <2>3
<1>3. ASSUME NEW c \in Process, NEW k \in LockKey, Release(c, k)
      PROVE  owner'[j] = Token[e] /\ until'[j] >= lease'[e][j]
  <2>1. CASE c = e /\ k = j
    BY <1>3, <2>1 DEF Release
  <2>2. CASE k # j
    BY <1>3, <2>2 DEF Release, LeaseBacked
  <2>3. CASE c # e /\ k = j
    <3>1. owner[j] = Token[e] /\ until[j] >= lease[e][j]
      BY <1>3, <2>3 DEF Release, LeaseBacked
    <3>2. Token[c] # Token[e]
      BY <2>3 DEF TokensAreUnique
    <3>3. QED
      BY <1>3, <2>3, <3>1, <3>2 DEF Release
  <2>4. QED
    BY <2>1, <2>2, <2>3
<1>4. ASSUME NEW c \in Process, Forget(c)
      PROVE  owner'[j] = Token[e] /\ until'[j] >= lease'[e][j]
  BY <1>4 DEF Forget, LeaseBacked
<1>5. CASE ReclaimExpired
  BY <1>5 DEF ReclaimExpired, Expired, LeaseBacked
<1>6. CASE Tick
  BY <1>6 DEF Tick, LeaseBacked
<1>7. CASE UNCHANGED lockVars
  BY <1>7 DEF lockVars, LeaseBacked
<1>8. QED
  BY <1>1, <1>2, <1>3, <1>4, <1>5, <1>6, <1>7 DEF LockNext

\* With unique tokens one live row backs the lease of at most one client.
LEMMA BackedExcludes ==
  ASSUME TokensAreUnique, LockTypeOK, LeaseBacked
  PROVE  AtMostOneLiveHolder
BY DEF TokensAreUnique, LockTypeOK, LeaseBacked, AtMostOneLiveHolder

\* The lease is a mutex: with one token per holder, at most one client keeps a
\* live Lease value for a key, whatever the interleaving of steals, late
\* releases, renewals, janitor passes and crashes.
THEOREM LeaseExclusion == TokensAreUnique /\ LockSpec => []AtMostOneLiveHolder
<1> SUFFICES ASSUME TokensAreUnique
             PROVE  LockSpec => []AtMostOneLiveHolder
  OBVIOUS
<1>1. LockInit => LeaseBacked
  BY DEF LockInit, LeaseBacked
<1>2. LockTypeOK /\ LeaseBacked /\ [LockNext]_lockVars => LeaseBacked'
  BY BackedStep
<1>3. LockTypeOK /\ LeaseBacked => AtMostOneLiveHolder
  BY BackedExcludes
<1>4. QED
  BY <1>1, <1>2, <1>3, TypeCorrect, PTL DEF LockSpec
-----------------------------------------------------------------------------
\* No statement of the manager replaces the owner of a row that is still live.
THEOREM NeverStolen == LockSpec => LiveLeaseNeverStolen
<1> DEFINE Kept == \A k \in LockKey :
       (owner[k] # NoRow /\ until[k] > clock) => owner'[k] \in {owner[k], NoRow}
<1>1. LockTypeOK /\ [LockNext]_lockVars => [Kept]_lockVars
  <2> SUFFICES ASSUME LockTypeOK, LockNext, NEW j \in LockKey, owner[j] # NoRow, until[j] > clock
               PROVE  owner'[j] \in {owner[j], NoRow}
    OBVIOUS
  <2> USE LockAssumption DEF LockTypeOK
  <2>1. ASSUME NEW c \in Process, NEW k \in LockKey, NEW d \in LeaseFor, Acquire(c, k, d)
        PROVE  owner'[j] \in {owner[j], NoRow}
    BY <2>1 DEF Acquire, Acquirable
  <2>2. ASSUME NEW c \in Process, NEW k \in LockKey, NEW d \in LeaseFor, Renew(c, k, d)
        PROVE  owner'[j] \in {owner[j], NoRow}
    BY <2>2 DEF Renew
  <2>3. ASSUME NEW c \in Process, NEW k \in LockKey, Release(c, k)
        PROVE  owner'[j] \in {owner[j], NoRow}
    BY <2>3 DEF Release
  <2>4. ASSUME NEW c \in Process, Forget(c)
        PROVE  owner'[j] \in {owner[j], NoRow}
    BY <2>4 DEF Forget
  <2>5. CASE ReclaimExpired
    BY <2>5 DEF ReclaimExpired
  <2>6. CASE Tick
    BY <2>6 DEF Tick
  <2>7. QED
    BY <2>1, <2>2, <2>3, <2>4, <2>5, <2>6 DEF LockNext
<1>2. QED
  BY <1>1, TypeCorrect, PTL DEF LockSpec, LiveLeaseNeverStolen
-----------------------------------------------------------------------------
\* The clocked lock table implements the untimed lease: acquire-or-steal is
\* Take, release is Drop, the janitor is Reclaim, and a tick of the database
\* clock lapses the leases that end with it.
LEMMA LeaseStep ==
  ASSUME LockTypeOK, [LockNext]_lockVars
  PROVE  [Timeless!Next]_(Timeless!leaseVars)
<1> DEFINE Live(k) == owner[k] # NoRow /\ until[k] >= clock
           LiveF == [k \in LockKey |-> Live(k)]
<1> USE LockAssumption DEF LockTypeOK
<1>1. ASSUME NEW c \in Process, NEW k \in LockKey, NEW d \in LeaseFor, Acquire(c, k, d)
      PROVE  Timeless!Next
  <2>1. ~Live(k)
    BY <1>1 DEF Acquire, Acquirable
  <2>2. owner'[k] = Token[c] /\ until'[k] = clock + d /\ clock' = clock
    BY <1>1 DEF Acquire
  <2>3. (owner'[k] # NoRow /\ until'[k] >= clock') /\ Token[c] \in Owner
    BY <2>2
  <2>4. \A j \in LockKey \ {k} : owner'[j] = owner[j] /\ until'[j] = until[j]
    BY <1>1 DEF Acquire
  <2>5. LiveF' = [LiveF EXCEPT ![k] = TRUE]
    BY <2>2, <2>3, <2>4
  <2>6. Timeless!Take(k, Token[c])
    BY <1>1, <2>1, <2>5 DEF Acquire, Timeless!Take, Timeless!Free
  <2>7. QED
    BY <2>3, <2>6 DEF Timeless!Next
<1>2. ASSUME NEW c \in Process, NEW k \in LockKey, NEW d \in LeaseFor, Renew(c, k, d)
      PROVE  UNCHANGED Timeless!leaseVars
  <2>1. owner[k] = Token[c] /\ until[k] > clock /\ until'[k] = clock + d
    BY <1>2 DEF Renew, Renewable
  <2>2. \A j \in LockKey \ {k} : until'[j] = until[j]
    BY <1>2 DEF Renew
  <2>3. owner' = owner /\ clock' = clock
    BY <1>2 DEF Renew
  <2>4. \A j \in LockKey : (owner'[j] # NoRow /\ until'[j] >= clock') <=> Live(j)
    BY <2>1, <2>2, <2>3
  <2>5. LiveF' = LiveF
    BY <2>4
  <2>6. QED
    BY <2>3, <2>5 DEF Timeless!leaseVars
<1>3. ASSUME NEW c \in Process, NEW k \in LockKey, Release(c, k)
      PROVE  Timeless!Next
  <2>1. CASE owner[k] = Token[c]
    <3>1. owner' = [owner EXCEPT ![k] = NoRow] /\ clock' = clock
      BY <1>3, <2>1 DEF Release
    <3>2. \A j \in LockKey \ {k} : until'[j] = until[j]
      BY <1>3, <2>1 DEF Release
    <3>3. LiveF' = [LiveF EXCEPT ![k] = FALSE]
      BY <3>1, <3>2
    <3>4. Timeless!Drop(k, Token[c])
      BY <2>1, <3>1, <3>3 DEF Timeless!Drop
    <3>5. QED
      BY <3>4 DEF Timeless!Next
  <2>2. CASE owner[k] # Token[c]
    <3>1. owner' = owner /\ until' = until /\ clock' = clock
      BY <1>3, <2>2 DEF Release
    <3>2. Timeless!Drop(k, Token[c])
      BY <2>2, <3>1 DEF Timeless!Drop, Timeless!leaseVars
    <3>3. QED
      BY <3>2 DEF Timeless!Next
  <2>3. QED
    BY <2>1, <2>2
<1>4. ASSUME NEW c \in Process, Forget(c)
      PROVE  UNCHANGED Timeless!leaseVars
  BY <1>4 DEF Forget, Timeless!leaseVars
<1>5. CASE ReclaimExpired
  <2>1. clock' = clock
    BY <1>5 DEF ReclaimExpired
  <2>2. owner' = [k \in LockKey |-> IF LiveF[k] THEN owner[k] ELSE NoRow]
    <3>1. \A j \in LockKey : LiveF[j] = Live(j)
      OBVIOUS
    <3>2. \A j \in LockKey : (IF Expired(j) THEN NoRow ELSE owner[j])
                           = (IF Live(j) THEN owner[j] ELSE NoRow)
      BY DEF Expired
    <3>3. \A j \in LockKey : owner'[j] = (IF LiveF[j] THEN owner[j] ELSE NoRow)
      BY <1>5, <3>1, <3>2, Zenon DEF ReclaimExpired
    <3>4. owner' = [j \in LockKey |-> owner'[j]]
      BY <1>5 DEF ReclaimExpired
    <3>5. QED
      BY <3>3, <3>4, Zenon
  <2>3. \A j \in LockKey : (owner'[j] # NoRow /\ until'[j] >= clock') <=> Live(j)
    BY <1>5 DEF ReclaimExpired, Expired
  <2>4. LiveF' = LiveF
    BY <2>3
  <2>5. Timeless!Reclaim
    BY <2>2, <2>4 DEF Timeless!Reclaim
  <2>6. QED
    BY <2>5 DEF Timeless!Next
<1>6. CASE Tick
  <2> DEFINE Ending == {k \in LockKey : until[k] = clock}
  <2>1. owner' = owner /\ until' = until /\ clock' = clock + 1
    BY <1>6 DEF Tick
  <2>2. \A j \in LockKey :
          (owner'[j] # NoRow /\ until'[j] >= clock') <=> (LiveF[j] /\ j \notin Ending)
    <3>1. \A j \in LockKey : (until[j] >= clock + 1) <=> (until[j] >= clock /\ until[j] # clock)
      OBVIOUS
    <3>2. \A j \in LockKey : LiveF[j] = Live(j)
      OBVIOUS
    <3>3. QED
      BY <2>1, <3>1, <3>2, Zenon
  <2>3. LiveF' = [k \in LockKey |-> LiveF[k] /\ k \notin Ending]
    BY <2>2
  <2>4. Timeless!Lapse(Ending)
    BY <2>1, <2>3 DEF Timeless!Lapse
  <2>5. Ending \in SUBSET LockKey
    OBVIOUS
  <2>6. ASSUME NEW K \in SUBSET LockKey, K = Ending
        PROVE  Timeless!Next
    <3>1. Timeless!Lapse(K)
      BY <2>1, <2>3, <2>6 DEF Timeless!Lapse
    <3>2. QED
      BY <3>1 DEF Timeless!Next
  <2>7. QED
    BY <2>5, <2>6
<1>7. CASE UNCHANGED lockVars
  BY <1>7 DEF lockVars, Timeless!leaseVars
<1>8. QED
  BY <1>1, <1>2, <1>3, <1>4, <1>5, <1>6, <1>7 DEF LockNext

\* Every behaviour of the lock manager is a behaviour of Lease, so what the
\* worker modules prove on top of Lease holds over the SQL lock table.
THEOREM LocksImplementLease == LockSpec => ImplementsLease
<1>1. LockInit => Timeless!Init
  BY DEF LockInit, Timeless!Init
<1>2. LockTypeOK /\ [LockNext]_lockVars => [Timeless!Next]_(Timeless!leaseVars)
  BY LeaseStep
<1>3. QED
  BY <1>1, <1>2, TypeCorrect, PTL DEF LockSpec, ImplementsLease, Timeless!Spec
-----------------------------------------------------------------------------
(***************************************************************************)
(* The merge gate.                                                         *)
(***************************************************************************)

\* The database's version and the runs of alembic are of revisions runs are sent to.
MigrationTyped == /\ version \in Stop
                  /\ mig \in [Migrator -> {NotRunning} \cup [from : Stop, goal : Stop]]

GateRecord ==
  [phase : {"stages", "restoring", "verifying", "last look", "reporting", "ended"},
   target : {"none", "shared", "ephemeral"}, left : SUBSET Stage,
   armed : BOOLEAN, ok : BOOLEAN, cut : BOOLEAN, tries : Nat,
   restore : {"none", "yes", "no"},
   verdict : {"none", "passed", "failed", "interrupted", "killed"}, moved : BOOLEAN]

GateTyped == gate \in {NotStarted} \cup GateRecord

\* While stages run the gate's own alembic belongs to the stage that is due; it is at rest
\* from the moment the guard looks at what it did.
AlembicIsDue ==
  Running(Ci) =>
    /\ gate # NotStarted
    /\ In("stages") => gate.left # {} /\ \E n \in Migrating : Due(n) /\ gate.target = "shared"
    /\ gate.phase \notin {"verifying", "last look", "reporting"}
    /\ gate.restore = "none"

\* What the guard said is said on the way out only, and still stands.
WordStands ==
  gate # NotStarted =>
    /\ gate.restore # "none" => gate.phase \in {"reporting", "ended"}
    /\ In("reporting") /\ gate.armed => gate.restore # "none"
    /\ In("ended") /\ gate.armed /\ gate.verdict # "killed" => gate.restore # "none"
    /\ In("ended") /\ gate.verdict = "passed" => gate.restore # "no"
    /\ gate.restore = "yes" /\ ~gate.moved => version = Latest

GateInv == MigrationTyped /\ GateTyped /\ AlembicIsDue /\ WordStands
-----------------------------------------------------------------------------
\* The gate's alembic runs go to base or to the head, which runs are sent to.
LEMMA GoalsKnown == \A n \in Stage : AlembicGoal(n) \in Stop
  BY MigrationAssumption DEF AlembicGoal

\* Only one stage is due.
LEMMA OneDue ==
  ASSUME GateTyped, NEW n, NEW k, Due(n), Due(k)
  PROVE  n = k
<1>1. gate.left \subseteq Stage
  <2>1. gate.phase # "idle"
    BY DEF Due, In
  <2>2. gate \in GateRecord
    BY <2>1 DEF GateTyped, NotStarted
  <2>3. QED
    BY <2>2 DEF GateRecord
<1>2. n \in Nat /\ k \in Nat /\ n <= k /\ k <= n
  BY <1>1 DEF Due, Stage, CodeStages, NeedsDatabase, Migrating, Validator, DiagramStage,
              RuntimeStages, FeatureStages, LateStages
<1>3. QED
  BY <1>2

\* A run of alembic that starts leaves the database and the other runs alone.
LEMMA StartRuns ==
  ASSUME MigrationTyped, NEW m \in Migrator, NEW goal \in Stop, StartAlembic(m, goal)
  PROVE  /\ MigrationTyped' /\ version' = version
         /\ Running(m)'
         /\ \A k \in Migrator \ {m} : mig'[k] = mig[k]
<1> DEFINE begun == [from |-> version, goal |-> goal]
<1>1. begun \in [from : Stop, goal : Stop] /\ begun # NotRunning
  BY DEF MigrationTyped, NotRunning
<1>2. mig' = [mig EXCEPT ![m] = begun] /\ version' = version
  BY DEF StartAlembic
<1> HIDE DEF begun
<1>3. mig'[m] = begun
  BY <1>2 DEF MigrationTyped
<1>4. QED
  BY <1>1, <1>2, <1>3 DEF MigrationTyped, Running

\* One that ends is at rest, and has the version moved to its goal or not at all.
LEMMA EndRests ==
  ASSUME MigrationTyped, NEW m \in Migrator, CommitAlembic(m) \/ AbortAlembic(m)
  PROVE  /\ MigrationTyped' /\ Running(m) /\ ~Running(m)'
         /\ \A k \in Migrator \ {m} : mig'[k] = mig[k]
<1>1. Running(m) /\ mig' = [mig EXCEPT ![m] = NotRunning]
  BY DEF CommitAlembic, AbortAlembic
<1>2. version' \in Stop
  <2>1. mig[m] \in [from : Stop, goal : Stop]
    BY <1>1 DEF MigrationTyped, Running
  <2>2. version' = version \/ version' = mig[m].goal
    BY DEF CommitAlembic, AbortAlembic
  <2>3. QED
    BY <2>1, <2>2 DEF MigrationTyped
<1>3. QED
  BY <1>1, <1>2 DEF MigrationTyped, Running

\* The application moves neither version nor runs.
LEMMA RowsOnly == Application => UNCHANGED <<version, schema, mig>>
  BY DEF Application, Record, Erase, Spoil, Mend

\* A gate that has not begun, over a database at head.
LEMMA GateBegins == GateInit => GateInv
  BY MigrationAssumption, CiAssumption
     DEF GateInit, MigrationInit, GateInv, MigrationTyped, GateTyped, AlembicIsDue, WordStands,
         Running, NotStarted

\* A gate under way is a record with all its fields.
LEMMA Begun ==
  ASSUME GateTyped, gate.phase # "idle"
  PROVE  gate # NotStarted /\ gate \in GateRecord
BY DEF GateTyped, NotStarted

\* What holds when alembic is at rest in the next state.
LEMMA AtRest == ~Running(Ci)' => AlembicIsDue'
  BY DEF AlembicIsDue

\* Opening a gate.
LEMMA OpenKeeps ==
  ASSUME GateInv, NEW S \in Selections, NEW t \in {"none", "shared", "ephemeral"},
         OpenGate(S, t)
  PROVE  GateInv'
<1>1. ~Running(Ci) /\ UNCHANGED <<version, mig>>
  BY DEF GateInv, AlembicIsDue, OpenGate, migrationVars
<1>2. AlembicIsDue' /\ MigrationTyped'
  BY <1>1 DEF GateInv, AlembicIsDue, MigrationTyped, Running
<1>3. PICK started \in BOOLEAN, armed \in BOOLEAN :
        gate' = [phase   |-> IF started THEN "stages" ELSE "ended",
                 target  |-> t,
                 left    |-> IF started THEN S \cap Stage ELSE {},
                 armed   |-> armed,
                 ok      |-> started,
                 cut     |-> FALSE,
                 tries   |-> 0,
                 restore |-> "none",
                 verdict |-> IF started THEN "none" ELSE "failed",
                 moved   |-> FALSE] /\ (armed => started)
  BY DEF OpenGate, Starts
<1>4. CASE started
  <2>1. gate' \in GateRecord
    BY <1>3, <1>4 DEF GateRecord
  <2>2. gate'.phase = "stages" /\ gate'.restore = "none"
    BY <1>3, <1>4
  <2>3. QED
    BY <1>2, <2>1, <2>2 DEF GateInv, GateTyped, WordStands, In
<1>5. CASE ~started
  <2>1. gate' \in GateRecord
    BY <1>3, <1>5 DEF GateRecord
  <2>2. gate'.restore = "none" /\ ~gate'.armed /\ gate'.phase = "ended" /\ gate'.verdict = "failed"
    BY <1>3, <1>5
  <2>3. QED
    BY <1>2, <2>1, <2>2 DEF GateInv, GateTyped, WordStands, In
<1>6. QED
  BY <1>4, <1>5

\* A stage that passes or fails, when alembic is at rest afterwards.
LEMMA PassedKeeps ==
  ASSUME GateInv, MigrationTyped', ~Running(Ci)', In("stages"), NEW ok \in BOOLEAN, Passed(ok)
  PROVE  GateInv'
<1>1. gate \in GateRecord /\ gate.restore = "none"
  BY Begun DEF GateInv, In, WordStands
<1>2. gate' \in GateRecord /\ gate'.phase = "stages" /\ gate'.restore = "none"
  <2> DEFINE left == IF ok THEN {n \in gate.left : ~Due(n)} ELSE {}
  <2>1. left \in SUBSET Stage
    BY <1>1 DEF GateRecord
  <2>2. gate' = [gate EXCEPT !.left = left, !.ok = ok]
    BY DEF Passed
  <2> HIDE DEF left
  <2>3. QED
    BY <1>1, <2>1, <2>2 DEF GateRecord, In
<1>3. WordStands'
  BY <1>2 DEF WordStands, In
<1>4. QED
  BY <1>2, <1>3, AtRest DEF GateInv, GateTyped

\* The way out of the stages.
LEMMA WayOutKeeps ==
  ASSUME GateInv, MigrationTyped', ~Running(Ci)', In("stages"), NEW cut \in BOOLEAN, WayOut(cut)
  PROVE  GateInv'
<1>1. gate \in GateRecord /\ gate.restore = "none"
  BY Begun DEF GateInv, In, WordStands
<1>2. /\ gate' \in GateRecord /\ gate'.restore = "none" /\ gate'.armed = gate.armed
      /\ gate'.phase = IF gate.armed THEN "restoring" ELSE "reporting"
  BY <1>1 DEF WayOut, GateRecord
<1>3. WordStands'
  BY <1>1, <1>2 DEF WordStands, In, GateRecord
<1>4. QED
  BY <1>2, <1>3, AtRest DEF GateInv, GateTyped

\* A try of the guard, when alembic is at rest afterwards.
LEMMA TryKeeps ==
  ASSUME GateInv, MigrationTyped', ~Running(Ci)',
         gate.phase \in {"restoring", "verifying"},
         NextTry \/ gate' = [gate EXCEPT !.phase = "verifying"]
  PROVE  GateInv'
<1>1. gate \in GateRecord /\ gate.restore = "none"
  BY Begun DEF GateInv, In, WordStands
<1>2. /\ gate' \in GateRecord /\ gate'.restore = "none"
      /\ gate'.phase \in {"restoring", "verifying", "last look"}
  <2>1. gate.tries \in Nat
    BY <1>1 DEF GateRecord
  <2>2. gate.tries + 1 \in Nat
    BY <2>1
  <2>3. QED
    BY <1>1, <2>2 DEF NextTry, GateRecord
<1>3. WordStands'
  BY <1>2 DEF WordStands, In
<1>4. QED
  BY <1>2, <1>3, AtRest DEF GateInv, GateTyped

\* The guard's word: it says yes only over a database it sees at head.
LEMMA RestoredKeeps ==
  ASSUME GateInv, UNCHANGED migrationVars, gate.phase \in {"verifying", "last look"},
         NEW word \in {"yes", "no"}, word = "yes" => version = Latest, Restored(word)
  PROVE  GateInv'
<1>1. gate \in GateRecord /\ ~Running(Ci)
  BY Begun DEF GateInv, AlembicIsDue
<1>2. UNCHANGED <<version, mig>>
  BY DEF migrationVars
<1>3. /\ gate' \in GateRecord /\ gate'.restore = word
      /\ gate'.phase = "reporting"
  BY <1>1 DEF Restored, GateRecord
<1>4. WordStands'
  BY <1>2, <1>3 DEF WordStands, In
<1>5. ~Running(Ci)' /\ MigrationTyped'
  BY <1>1, <1>2 DEF Running, MigrationTyped, GateInv
<1>6. QED
  BY <1>3, <1>4, <1>5, AtRest DEF GateInv, GateTyped

\* The summary: a gate that was to send the database to base has heard the guard out.
LEMMA ReportKeeps ==
  ASSUME GateInv, UNCHANGED migrationVars,
         \/ In("reporting") /\ Report
         \/ gate.phase \notin {"idle", "ended"} /\ Kill
  PROVE  GateInv'
<1>1. gate \in GateRecord
  BY Begun DEF GateInv, In
<1>2. UNCHANGED <<version, mig>>
  BY DEF migrationVars
<1>3. /\ gate' \in GateRecord /\ gate'.restore = gate.restore /\ gate'.armed = gate.armed
      /\ gate'.moved = gate.moved /\ gate'.phase = "ended"
      /\ \/ gate'.verdict = "killed"
         \/ In("reporting") /\ (gate'.verdict = "passed" => gate.restore # "no")
  <2>1. CASE Report
    BY <1>1, <2>1 DEF Report, GateRecord
  <2>2. CASE Kill
    BY <1>1, <2>2 DEF Kill, GateRecord
  <2>3. QED
    BY <2>1, <2>2
<1>4. WordStands'
  BY <1>1, <1>2, <1>3, Begun DEF WordStands, In, GateInv
<1>5. MigrationTyped' /\ (Running(Ci)' => Running(Ci))
  BY <1>2 DEF MigrationTyped, Running, GateInv
<1>6. AlembicIsDue'
  <2>1. gate' # NotStarted /\ ~In("stages")'
    BY <1>3 DEF NotStarted, In
  <2>2. Running(Ci)' => gate'.restore = "none"
    BY <1>3, <1>5 DEF AlembicIsDue, GateInv
  <2>3. QED
    BY <1>3, <2>1, <2>2 DEF AlembicIsDue
<1>7. QED
  BY <1>3, <1>4, <1>5, <1>6 DEF GateInv, GateTyped

\* Every step of the gate keeps its invariant.
LEMMA GateMoves == GateInv /\ GateStep => GateInv'
<1> SUFFICES ASSUME GateInv, GateStep
             PROVE  GateInv'
  OBVIOUS
<1> USE CiAssumption
<1>a. MigrationTyped /\ GateTyped /\ AlembicIsDue /\ WordStands
  BY DEF GateInv
<1>b. UNCHANGED migrationVars => MigrationTyped' /\ (~Running(Ci) => ~Running(Ci)')
  BY <1>a DEF migrationVars, MigrationTyped, Running
<1>1. ASSUME NEW S \in Selections, NEW t \in {"none", "shared", "ephemeral"}, OpenGate(S, t)
      PROVE  GateInv'
  BY <1>1, OpenKeeps
<1>2. ASSUME NEW n \in Stage, SkipStage(n) \/ RunStage(n)
      PROVE  GateInv'
  <2>1. In("stages") /\ Due(n) /\ (gate.target = "shared" => n \notin Migrating)
    BY <1>2 DEF SkipStage, RunStage, Due
  <2>2. ~Running(Ci)
    BY <1>a, <2>1, OneDue DEF AlembicIsDue
  <2>3. UNCHANGED migrationVars /\ \E ok \in BOOLEAN : Passed(ok)
    BY <1>2 DEF SkipStage, RunStage
  <2>4. QED
    BY <1>b, <2>1, <2>2, <2>3, PassedKeeps
<1>3. ASSUME NEW n \in Stage, StartStage(n)
      PROVE  GateInv'
  <2>1. Due(n) /\ n \in Migrating /\ gate.target = "shared" /\ StartAlembic(Ci, AlembicGoal(n))
        /\ UNCHANGED gate
    BY <1>3 DEF StartStage
  <2>2. MigrationTyped' /\ version' = version
    BY <1>a, <2>1, StartRuns, GoalsKnown
  <2>3. WordStands' /\ GateTyped'
    BY <1>a, <2>1, <2>2 DEF WordStands, GateTyped, In
  <2>4. In("stages") /\ gate.left # {} /\ gate.restore = "none" /\ gate # NotStarted
    BY <1>a, <2>1, Begun DEF Due, In, WordStands
  <2>5. AlembicIsDue'
    BY <2>1, <2>4 DEF AlembicIsDue, Due, In
  <2>6. QED
    BY <2>2, <2>3, <2>5 DEF GateInv
<1>4. CASE FinishStage
  <2>1. MigrationTyped' /\ ~Running(Ci)'
    BY <1>a, <1>4, EndRests DEF FinishStage
  <2>2. In("stages") /\ \E ok \in BOOLEAN : Passed(ok)
    BY <1>4 DEF FinishStage
  <2>3. QED
    BY <2>1, <2>2, PassedKeeps
<1>5. CASE Finally
  <2>1. ~Running(Ci)
    BY <1>a, <1>5 DEF Finally, AlembicIsDue, In
  <2>2. QED
    BY <1>b, <1>5, <2>1, WayOutKeeps DEF Finally
<1>6. CASE Interrupt
  <2>1. MigrationTyped' /\ ~Running(Ci)'
    BY <1>a, <1>b, <1>6, EndRests DEF Interrupt
  <2>2. QED
    BY <1>6, <2>1, WayOutKeeps DEF Interrupt
<1>7. CASE StartRestore
  <2>1. MigrationTyped' /\ version' = version
    BY <1>a, <1>7, StartRuns, MigrationAssumption DEF StartRestore
  <2>2. UNCHANGED gate /\ gate.phase = "restoring" /\ gate.restore = "none" /\ gate # NotStarted
    BY <1>a, <1>7, Begun DEF StartRestore, In, WordStands
  <2>3. AlembicIsDue' /\ WordStands' /\ GateTyped'
    BY <1>a, <2>1, <2>2 DEF AlembicIsDue, WordStands, GateTyped, In
  <2>4. QED
    BY <2>1, <2>3 DEF GateInv
<1>8. CASE FinishRestore
  <2>1. MigrationTyped' /\ ~Running(Ci)'
    BY <1>a, <1>8, EndRests DEF FinishRestore
  <2>2. gate.phase = "restoring" /\ (NextTry \/ gate' = [gate EXCEPT !.phase = "verifying"])
    BY <1>8 DEF FinishRestore, Attempted, In
  <2>3. QED
    BY <2>1, <2>2, TryKeeps
<1>9. CASE Verify
  <2>1. UNCHANGED migrationVars /\ gate.phase \in {"verifying", "last look"} /\ ~Running(Ci)
    BY <1>a, <1>9 DEF Verify, In, AlembicIsDue
  <2>2. CASE version = Latest /\ Restored("yes")
    BY <2>1, <2>2, RestoredKeeps
  <2>3. CASE Restored("no")
    BY <2>1, <2>3, RestoredKeeps
  <2>4. CASE gate.phase = "verifying" /\ NextTry
    BY <1>b, <2>1, <2>4, TryKeeps
  <2>5. QED
    BY <1>9, <2>2, <2>3, <2>4 DEF Verify, In
<1>10. CASE Report
  BY <1>10, ReportKeeps DEF Report
<1>11. CASE Kill
  BY <1>11, ReportKeeps DEF Kill
<1>12. CASE Orphan
  <2>1. MigrationTyped' /\ Running(Ci) /\ ~Running(Ci)' /\ UNCHANGED gate
    BY <1>a, <1>12, EndRests DEF Orphan
  <2>2. gate.restore = "none" /\ gate # NotStarted
    BY <1>a, <2>1 DEF AlembicIsDue
  <2>3. WordStands' /\ GateTyped'
    BY <1>a, <2>1, <2>2 DEF WordStands, GateTyped, In
  <2>4. QED
    BY <2>1, <2>3, AtRest DEF GateInv
<1>13. QED
  BY <1>1, <1>2, <1>3, <1>4, <1>5, <1>6, <1>7, <1>8, <1>9, <1>10, <1>11, <1>12 DEF GateStep

\* So does every step of somebody else: what moves the version is noted.
LEMMA OthersMove == GateInv /\ OtherStep => GateInv'
<1> SUFFICES ASSUME GateInv, OtherStep
             PROVE  GateInv'
  OBVIOUS
<1> USE CiAssumption
<1>a. MigrationTyped /\ GateTyped /\ AlembicIsDue /\ WordStands
  BY DEF GateInv
<1>1. MigrationTyped' /\ mig'[Ci] = mig[Ci]
  <2>1. CASE Application
    BY <1>a, <2>1, RowsOnly DEF MigrationTyped
  <2>2. ASSUME NEW m \in Migrator \ {Ci}, Alembic(m)
        PROVE  MigrationTyped' /\ mig'[Ci] = mig[Ci]
    <3>1. CASE \E goal \in Stop : StartAlembic(m, goal)
      BY <1>a, <3>1, StartRuns
    <3>2. CASE CommitAlembic(m) \/ AbortAlembic(m)
      BY <1>a, <3>2, EndRests
    <3>3. QED
      BY <2>2, <3>1, <3>2 DEF Alembic
  <2>3. QED
    BY <2>1, <2>2 DEF OtherStep
<1>2. CASE gate # NotStarted /\ version' # version
  <2>1. gate \in GateRecord /\ gate' = [gate EXCEPT !.moved = TRUE]
    BY <1>a, <1>2 DEF OtherStep, GateTyped
  <2>2. /\ gate' \in GateRecord /\ gate'.moved
        /\ gate'.phase = gate.phase /\ gate'.left = gate.left /\ gate'.target = gate.target
        /\ gate'.armed = gate.armed /\ gate'.restore = gate.restore
        /\ gate'.verdict = gate.verdict
    BY <2>1 DEF GateRecord
  <2>3. WordStands'
    BY <1>a, <1>2, <2>2 DEF WordStands, In
  <2>4. gate' # NotStarted
    <3>1. gate'.phase # "idle"
      BY <2>2 DEF GateRecord
    <3>2. QED
      BY <3>1 DEF NotStarted
  <2>5. AlembicIsDue'
    BY <1>a, <1>1, <2>2, <2>4 DEF AlembicIsDue, Running, In, Due
  <2>6. QED
    BY <1>1, <2>2, <2>3, <2>5 DEF GateInv, GateTyped
<1>3. CASE ~(gate # NotStarted /\ version' # version)
  <2>1. UNCHANGED gate
    BY <1>3 DEF OtherStep
  <2>2. AlembicIsDue' /\ WordStands' /\ GateTyped'
    BY <1>a, <1>1, <1>3, <2>1 DEF AlembicIsDue, WordStands, GateTyped, Running, In, Due
  <2>3. QED
    BY <1>1, <2>2 DEF GateInv
<1>4. QED
  BY <1>2, <1>3

\* The invariant holds in every reachable state.
LEMMA GateAlways == GateSpec => []GateInv
<1>1. GateInv /\ [GateNext]_gateVars => GateInv'
  <2>1. GateInv /\ UNCHANGED gateVars => GateInv'
    BY DEF gateVars, migrationVars, GateInv, MigrationTyped, GateTyped, AlembicIsDue,
           WordStands, Running, In, Due
  <2>2. QED
    BY <2>1, GateMoves, OthersMove DEF GateNext
<1>2. QED
  BY <1>1, GateBegins, PTL DEF GateSpec

\* For any other migrators, selections of stages and number of tries: a gate that was to send
\* the database to base has tried to bring it back, passes only if it saw it at head, and
\* what it said stands until someone else moves the database.
THEOREM GateProven == GateSpec => []GateKeepsItsWord
<1>1. GateInv => GateKeepsItsWord
  <2> SUFFICES ASSUME GateInv, In("ended"), gate.armed, gate.verdict # "killed"
               PROVE  /\ gate.restore # "none"
                      /\ gate.verdict = "passed" => gate.restore = "yes"
                      /\ gate.restore = "yes" /\ ~gate.moved => version = Latest
    BY DEF GateKeepsItsWord
  <2>1. gate # NotStarted /\ gate \in GateRecord /\ WordStands
    BY Begun DEF GateInv, In
  <2>2. gate.restore \in {"none", "yes", "no"}
    BY <2>1 DEF GateRecord
  <2>3. QED
    BY <2>1, <2>2 DEF WordStands, In
<1>2. QED
  BY <1>1, GateAlways, PTL
-----------------------------------------------------------------------------
\* Given scripts that compose, which is a fact about seventeen literal revisions that TLC
\* evaluates: however many run alembic at once, and whatever is refused, cut off or written
\* in between, the schema is what the revision it names would have built.
THEOREM SchemaProven ==
  ASSUME ScriptsCompose, OnlyHeadValidates
  PROVE  GateSpec => []SchemaIsOfRevision
<1> DEFINE Stands == schema \in Standings(version)
<1>1. GateInit => Stands
  BY DEF GateInit, MigrationInit, Standings
<1>2. ASSUME MigrationTyped, Stands, NEW m \in Migrator, CommitAlembic(m)
      PROVE  Stands'
  <2>1. CASE mig[m].from = mig[m].goal
    BY <1>2, <2>1 DEF CommitAlembic, Standings
  <2>2. CASE mig[m].from # mig[m].goal
    <3>1. /\ version = mig[m].from /\ version' = mig[m].goal
          /\ schema' = After(Paths[mig[m].from, mig[m].goal], schema)
      BY <1>2, <2>2 DEF CommitAlembic, Way
    <3>2. mig[m].from \in Stop /\ mig[m].goal \in Stop
      BY <1>2 DEF MigrationTyped, CommitAlembic, Running
    <3>3. After(Paths[mig[m].from, mig[m].goal], schema) \in Standings(mig[m].goal)
      BY <1>2, <3>1, <3>2 DEF ScriptsCompose
    <3>4. QED
      BY <3>1, <3>3
  <2>3. QED
    BY <2>1, <2>2
<1>3. ASSUME Stands, UNCHANGED <<version, schema>>
      PROVE  Stands'
  BY <1>3 DEF Standings
<1>4. GateInv /\ Stands /\ [GateNext]_gateVars => Stands'
  <2> SUFFICES ASSUME MigrationTyped, Stands, [GateNext]_gateVars
               PROVE  Stands'
    BY DEF GateInv
  <2>1. \/ UNCHANGED <<version, schema>>
        \/ \E m \in Migrator : CommitAlembic(m)
    <3>1. CASE GateStep
      BY <3>1, CiAssumption
         DEF GateStep, OpenGate, SkipStage, RunStage, StartStage, FinishStage, Finally,
             Interrupt, StartRestore, FinishRestore, Verify, Report, Kill, Orphan,
             StartAlembic, AbortAlembic, migrationVars
    <3>2. CASE OtherStep
      BY <3>2, RowsOnly DEF OtherStep, Alembic, StartAlembic, AbortAlembic
    <3>3. CASE UNCHANGED gateVars
      BY <3>3 DEF gateVars, migrationVars
    <3>4. QED
      BY <3>1, <3>2, <3>3 DEF GateNext
  <2>2. QED
    BY <1>2, <1>3, <2>1
<1>5. Stands => SchemaIsOfRevision
  BY ScriptsCompose, OnlyHeadValidates DEF SchemaIsOfRevision
<1>6. QED
  BY <1>1, <1>4, <1>5, GateAlways, PTL DEF GateSpec
=============================================================================
