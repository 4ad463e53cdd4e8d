----------------------------- MODULE Migrations -----------------------------
(***************************************************************************)
(* alembic upgrade and alembic downgrade at work on one database: each run *)
(* reads the version once, applies the revisions between and names the new *)
(* one, in a single transaction (alembic/env.py does not ask for one per   *)
(* revision).  Several people may run it, while the application writes     *)
(* rows the revisions find in their way.                                   *)
(***************************************************************************)
EXTENDS Schema, FiniteSets, TLC

CONSTANTS
  Migrator,    \* who runs alembic
  Stop,        \* the revisions runs are sent to
  Witness,     \* tables whose rows may refer to a row of 0002's
  MaxFlaws     \* bound on the flaws there are at one time

ASSUME MigrationAssumption == Stop \subseteq Revision /\ {0, Latest} \subseteq Stop

\* What each revision leaves on a new database, and the script from each to each (joined
\* with the empty function, for TLC to tabulate them once).
Standing == [r \in Stop |-> Built(r)] @@ <<>>
Paths == [p \in Stop \X Stop |-> Path(p[1], p[2])] @@ <<>>

VARIABLES
  version,  \* alembic_version.version_num
  schema,   \* the objects there are
  holders,  \* the tables in Witness that hold a row referring to a row of 0002's
  flaws,    \* the checks and unique indexes some row would break
  mig       \* mig[m]: the open transaction of m's run, from and to which revision

migrationVars == <<version, schema, holders, flaws, mig>>

\* What a later revision demands of rows that could have been written before it.
Demands == {ExportUnique, KeyHash, LeaseCheck, RequestUnique}

NotRunning == [goal |-> "none"]

MigrationInit == /\ version = Latest
                 /\ schema = Standing[Latest]
                 /\ holders = {} /\ flaws = {}
                 /\ mig = [m \in Migrator |-> NotRunning]
-----------------------------------------------------------------------------
Running(m) == mig[m] # NotRunning
Way(m) == Paths[mig[m].from, mig[m].goal]
Refers(t, s, how) == <<"fk", t, s, how>> \in schema
Deletes(way, s) == <<"seeds", s>> \in way.drops

\* Rows in the way: a new check or unique index finds them wanting, or they hold a row the
\* undoing of 0002 deletes.
Refused(way) ==
  \/ flaws \cap way.adds # {}
  \/ \E t \in holders, s \in Seeded : Deletes(way, s) /\ Refers(t, s, "RESTRICT")

StartAlembic(m, goal) ==
  /\ ~Running(m)
  /\ mig' = [mig EXCEPT ![m] = [from |-> version, goal |-> goal]]
  /\ UNCHANGED <<version, schema, holders, flaws>>

\* With no revision between there is nothing to do, wherever the version is by now.  Else
\* the UPDATE of version_num must find the one the run began with.
CommitAlembic(m) ==
  /\ Running(m)
  /\ \/ mig[m].from = mig[m].goal /\ UNCHANGED <<version, schema, holders, flaws>>
     \/ /\ mig[m].from # mig[m].goal
        /\ version = mig[m].from /\ Runs(Way(m), schema) /\ ~Refused(Way(m))
        /\ version' = mig[m].goal
        /\ schema' = After(Way(m), schema)
        /\ holders' = {t \in holders : /\ Table(t) \notin Way(m).drops
                                 /\ \A s \in Seeded :
                                      Deletes(Way(m), s) => ~Refers(t, s, "CASCADE")}
        /\ flaws' = {d \in flaws : Table(d[2]) \notin Way(m).drops}
  /\ mig' = [mig EXCEPT ![m] = NotRunning]

\* Refused, or cut off: nothing of the run remains.
AbortAlembic(m) ==
  /\ Running(m)
  /\ mig' = [mig EXCEPT ![m] = NotRunning]
  /\ UNCHANGED <<version, schema, holders, flaws>>
-----------------------------------------------------------------------------
(* The application's rows. *)

Record(t) ==
  /\ t \notin holders
  /\ \E s \in Seeded : <<"seeds", s>> \in schema
                       /\ (Refers(t, s, "RESTRICT") \/ Refers(t, s, "CASCADE"))
  /\ holders' = holders \cup {t}
  /\ UNCHANGED <<version, schema, flaws, mig>>

Mutable(t) == Trigger(t, "reject_mutation") \notin schema

Erase(t) ==
  /\ t \in holders /\ Mutable(t)
  /\ holders' = holders \ {t}
  /\ UNCHANGED <<version, schema, flaws, mig>>

Spoil(d) ==
  /\ d \notin schema /\ Table(d[2]) \in schema
  /\ Cardinality(flaws) < MaxFlaws
  /\ flaws' = flaws \cup {d}
  /\ UNCHANGED <<version, schema, holders, mig>>

Mend(d) ==
  /\ d \in flaws /\ Mutable(d[2])
  /\ flaws' = flaws \ {d}
  /\ UNCHANGED <<version, schema, holders, mig>>

Application == \/ \E t \in Witness : Record(t) \/ Erase(t)
               \/ \E d \in Demands : Spoil(d) \/ Mend(d)

Alembic(m) == \/ \E g \in Stop : StartAlembic(m, g)
              \/ CommitAlembic(m)
              \/ AbortAlembic(m)
-----------------------------------------------------------------------------
\* The scripts never stumble, and what they leave is what their goal would have built from
\* nothing; of what was brought back to base the extensions stay.
Standings(r) == {Standing[r]} \cup (IF r = 0 THEN {Extensions} ELSE {})

ScriptsCompose ==
  \A f \in Stop, g \in Stop : \A s \in Standings(f) :
    Runs(Paths[f, g], s) /\ After(Paths[f, g], s) \in Standings(g)

OnlyHeadValidates == \A r \in Stop : Validates(Standing[Latest], Standing[r]) <=> r = Latest

\* Whatever upgrades and downgrades were run, refused, cut off or raced each other, in
\* whatever order: the database is just what the revision it names would have built from
\* nothing (but for the extensions, which stay), no script stumbles over it on the way to
\* any other revision, rows apart, and the validator takes no revision for the head that
\* is not.  An enum left behind by one downgrade, or one object a script misses, ends the
\* next upgrade.
SchemaIsOfRevision ==
  /\ schema \in Standings(version)
  /\ ScriptsCompose
  /\ OnlyHeadValidates
=============================================================================
