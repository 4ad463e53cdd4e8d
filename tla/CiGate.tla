------------------------------- MODULE CiGate -------------------------------
(***************************************************************************)
(* scripts/ci_gate.py: numbered stages in order up to the first failure,   *)
(* among them a round trip of the database through base and back (5, 6,    *)
(* 7), and the guard that brings a persistent database back to head on     *)
(* every way out.  Others may migrate the same database meanwhile.         *)
(***************************************************************************)
EXTENDS Migrations

CONSTANTS
  Ci,           \* the gate's own alembic runs
  Selections,   \* values of --stages
  Retries       \* _RESTORE_RETRIES

ASSUME CiAssumption == Ci \in Migrator /\ Retries \in Nat \ {0}

VARIABLE gate   \* the run of main

gateVars == <<gate, migrationVars>>

CodeStages == 0..4 \cup {10}      \* manifest, lint, format, types, unit tests, coverage
Migrating == 5..7
Validator == 8
DiagramStage == 9
RuntimeStages == 11..15           \* seeds, resolver, generation, publishing, promotion
FeatureStages == 16..21           \* notices, dashboard, analytics, metadata, library
LateStages == 22..27              \* fan-out, mail, TikTok, ingress, worker host, worlds
NeedsDatabase == Migrating \cup {Validator, DiagramStage}
                 \cup RuntimeStages \cup FeatureStages \cup LateStages
Stage == CodeStages \cup NeedsDatabase
AlembicGoal(n) == IF n = 6 THEN 0 ELSE Latest

NotStarted == [phase |-> "idle"]

GateInit == MigrationInit /\ gate = NotStarted

\* The throwaway database may not come up.
Starts(target) == {TRUE, target # "ephemeral"}

\* _parse_stage_range drops the numbers no stage has.  armed: the guard is due on the way
\* out.  moved: someone else has changed the version since the guard last looked.
OpenGate(S, target) ==
  /\ gate = NotStarted
  /\ target = "ephemeral" => S \cap NeedsDatabase # {}
  /\ \E started \in Starts(target) :
       gate' = [phase   |-> IF started THEN "stages" ELSE "ended",
                target  |-> target,
                left    |-> IF started THEN S \cap Stage ELSE {},
                armed   |-> started /\ 6 \in S /\ target = "shared",
                ok      |-> started,
                cut     |-> FALSE,
                tries   |-> 0,
                restore |-> "none",
                verdict |-> IF started THEN "none" ELSE "failed",
                moved   |-> FALSE]
  /\ UNCHANGED migrationVars

In(phase) == gate.phase = phase
Due(n) == In("stages") /\ n \in gate.left /\ \A m \in gate.left : n <= m

\* The first failure is the last stage.
Passed(ok) == gate' = [gate EXCEPT !.left = IF ok THEN {n \in @ : ~Due(n)} ELSE {},
                                   !.ok = ok]

SkipStage(n) ==
  /\ Due(n) /\ n \in NeedsDatabase /\ gate.target = "none"
  /\ Passed(TRUE)
  /\ UNCHANGED migrationVars

\* A stage that leaves the schema alone, or works on the throwaway database.
RunStage(n) ==
  /\ Due(n) /\ (n \in NeedsDatabase => gate.target # "none")
  /\ gate.target = "shared" => n \notin Migrating
  /\ \E ok \in BOOLEAN :
       /\ ok /\ n = Validator /\ gate.target = "shared" => Validates(Standing[Latest], schema)
       /\ Passed(ok)
  /\ UNCHANGED migrationVars

StartStage(n) ==
  /\ Due(n) /\ n \in Migrating /\ gate.target = "shared"
  /\ StartAlembic(Ci, AlembicGoal(n))
  /\ UNCHANGED gate

\* The connection may be lost after the COMMIT as well as before it.
FinishStage ==
  /\ In("stages")
  /\ \/ CommitAlembic(Ci) /\ \E ok \in BOOLEAN : Passed(ok)
     \/ AbortAlembic(Ci) /\ Passed(FALSE)

\* The finally clause; the throwaway database is torn down with the guard not due.
WayOut(cut) == gate' = [gate EXCEPT !.phase = IF gate.armed THEN "restoring" ELSE "reporting",
                                    !.left = {}, !.cut = cut]

Finally == /\ In("stages") /\ gate.left = {}
           /\ WayOut(FALSE)
           /\ UNCHANGED migrationVars

Interrupt == /\ In("stages") /\ gate.left # {}
             /\ WayOut(TRUE)
             /\ IF Running(Ci) THEN AbortAlembic(Ci) ELSE UNCHANGED migrationVars
-----------------------------------------------------------------------------
(* _ensure_db_at_head *)

Restored(word) ==
  gate' = [gate EXCEPT !.phase = "reporting", !.restore = word, !.moved = FALSE]

NextTry == gate' = [gate EXCEPT !.tries = @ + 1,
                                !.phase = IF gate.tries + 1 < Retries THEN "restoring"
                                                                      ELSE "last look"]

StartRestore == /\ In("restoring")
                /\ StartAlembic(Ci, Latest)
                /\ UNCHANGED gate

\* (Mutant: the exit code of alembic is taken for the state of the database.)
AttemptTrusted(rc) == IF rc THEN Restored("yes") ELSE NextTry
Attempted(rc) == IF rc THEN gate' = [gate EXCEPT !.phase = "verifying"] ELSE NextTry

FinishRestore ==
  /\ In("restoring")
  /\ \/ CommitAlembic(Ci) /\ \E rc \in BOOLEAN : Attempted(rc)
     \/ AbortAlembic(Ci) /\ Attempted(FALSE)

\* _verify_db_at_head: heads are read from the files; current may fail to connect.
Verify == /\ \/ /\ In("verifying")
                /\ \/ version = Latest /\ Restored("yes")
                   \/ NextTry
             \/ /\ In("last look")
                /\ \/ version = Latest /\ Restored("yes")
                   \/ Restored("no")
          /\ UNCHANGED migrationVars

\* After an interrupt there is no summary.
Report == /\ In("reporting")
          /\ gate' = [gate EXCEPT !.phase = "ended",
                                  !.verdict = IF gate.cut THEN "interrupted"
                                              ELSE IF gate.ok /\ gate.restore # "no"
                                                   THEN "passed" ELSE "failed"]
          /\ UNCHANGED migrationVars

\* At any time, in the guard by a second interrupt too: what alembic was doing it still does.
Kill == /\ gate.phase \notin {"idle", "ended"}
        /\ gate' = [gate EXCEPT !.phase = "ended", !.verdict = "killed"]
        /\ UNCHANGED migrationVars

Orphan == In("ended") /\ (CommitAlembic(Ci) \/ AbortAlembic(Ci)) /\ UNCHANGED gate
-----------------------------------------------------------------------------
GateStep == \/ \E S \in Selections, t \in {"none", "shared", "ephemeral"} : OpenGate(S, t)
            \/ \E n \in Stage : SkipStage(n) \/ RunStage(n) \/ StartStage(n)
            \/ FinishStage \/ Finally \/ Interrupt
            \/ StartRestore \/ FinishRestore \/ Verify \/ Report
            \/ Kill \/ Orphan

OtherStep == /\ \/ Application
                \/ \E m \in Migrator \ {Ci} : Alembic(m)
             /\ IF gate # NotStarted /\ version' # version
                THEN gate' = [gate EXCEPT !.moved = TRUE]
                ELSE UNCHANGED gate

GateNext == GateStep \/ OtherStep

GateSpec == GateInit /\ [][GateNext]_gateVars
-----------------------------------------------------------------------------
\* Whoever hears the gate out can rely on what it said.  A gate that was to send a database
\* to base has tried to bring it back on every way out but a kill; it passes only if it saw
\* the database at head; and when it said so, the database was there, and is until someone
\* else moves it.  An alembic that found nothing to do succeeds wherever the version has
\* gone since it looked.
GateKeepsItsWord ==
  In("ended") /\ gate.armed /\ gate.verdict # "killed" =>
    /\ gate.restore # "none"
    /\ gate.verdict = "passed" => gate.restore = "yes"
    /\ gate.restore = "yes" /\ ~gate.moved => version = Latest
=============================================================================
