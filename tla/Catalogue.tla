----------------------------- MODULE Catalogue -----------------------------
(***************************************************************************)
(* The provider catalogue: the seeder that brings its tables to what a     *)
(* manifest says (scripts/seed_providers.py), in one transaction, and the  *)
(* readers that resolve against it (catalogue_reader.py), in statements of *)
(* their own.  Both run READ COMMITTED, so others may commit between two   *)
(* statements.  Capabilities, their dependencies and devices are seeded as *)
(* routing, fallbacks and routing are, and read as the last of these.      *)
(***************************************************************************)
EXTENDS Resolver

CONSTANTS Seeder, Reader,
          Asked,          \* Asked[d]: what the manifest of digest d asks for (AskedBy)
          Executable,     \* the adapters this build constructs (ImageAdapterRegistry)
          Measured,       \* what the operational tables may hold: health and latency by
                          \* key where they were measured, and quotas
          Mode, Budget,   \* what generations ask for
          Capability,
          MaxSeeds        \* bound on the runs of the seeder

VARIABLES
  tables,      \* the committed rows of each table, by key
  meta,        \* provider_registry_meta: the digest and the revision, or None
  seeders,     \* seeders[s]: the run s is in
  readers,     \* readers[r]: the snapshot r is reading, or what it resolved
  seeds,       \* runs of the seeder so far
  mixed        \* ghost: the last seeding overlapped another that committed

catalogueVars == <<tables, meta, seeders, readers, seeds, mixed>>

\* Dependency order; what happens to rows a manifest no longer has.
Table == <<"providers", "adapters", "fallbacks", "routing">>
Removal == [providers |-> "disable", adapters |-> "disable", fallbacks |-> "delete",
            routing |-> "retain"]
Digest == DOMAIN Asked

\* What the schema holds of a row: entities say whether they are enabled, scores are
\* numbers, as ids of adapters are here, and strategies are those there are.
Shaped(t, key, row) ==
  CASE t = "providers" -> /\ {"enabled", "quality", "cost", "speed", "reliability"} \subseteq DOMAIN row
                          /\ {row.quality, row.cost, row.speed, row.reliability} \subseteq Int
    [] t = "adapters" -> {"enabled", "provider"} \subseteq DOMAIN row /\ key \in Int
    [] t = "fallbacks" -> TRUE
    [] t = "routing" -> row \in DOMAIN Weights

\* The rows a manifest asks for are finitely many, with keys of their own (they are built as
\* a dict), and an adapter is listed by its provider.
ASSUME AskedAssumption ==
  \A d \in Digest : Asked[d] # None =>
    /\ \A t \in ToSet(Table) :
         LET rows == Asked[d][t]
         IN /\ IsFiniteSet(DOMAIN rows)
            /\ \A i, j \in DOMAIN rows : rows[i].key = rows[j].key => i = j
            /\ \A i \in DOMAIN rows : Shaped(t, rows[i].key, rows[i].row)
    /\ \A i \in DOMAIN Asked[d].adapters : \E k \in DOMAIN Asked[d].providers :
         Asked[d].adapters[i].row.provider = Asked[d].providers[k].key

\* What is measured are numbers, and the modes are those there are.
ASSUME MeasuredAssumption ==
  /\ \A rows \in Measured : /\ \A p \in DOMAIN rows.health : rows.health[p] \in Int
                            /\ \A i \in DOMAIN rows.latency : rows.latency[i] \in Int
  /\ Mode \subseteq DOMAIN Tiers

Idle == [op |-> "idle"]
Empty == [t \in ToSet(Table) |-> <<>>]

CatalogueInit ==
  /\ tables = Empty
  /\ meta = None
  /\ seeders = [s \in Seeder |-> Idle]
  /\ readers = [r \in Reader |-> Idle]
  /\ seeds = 0
  /\ mixed = FALSE
-----------------------------------------------------------------------------
\* Whether reader r has tables left to read.
Reading(r) == readers[r].op = "read" /\ readers[r].left # <<>>

\* The columns a unique constraint holds apart, beside the key.
Slot(t, key, row) == CASE t = "adapters" -> <<row.provider, row.capability>>
                       [] t = "fallbacks" -> <<key[1], row.ordinal>>
                       [] OTHER -> key

KeysOf(desired) == {r.key : r \in ToSet(desired)}

\* Rows of a manifest as a table.
AsTable(rows) == [k \in {r.key : r \in rows} |-> (CHOOSE r \in rows : r.key = k).row]

\* build_table_plan: the diff is against the rows the seeder read.
Writes(desired, read) ==
  {i \in DOMAIN desired : desired[i].key \in DOMAIN read => desired[i].row # read[desired[i].key]}

\* Creates are written before updates, both in the order of the manifest.
WrittenBefore(desired, read, i) ==
  LET creates(n) == desired[n].key \notin DOMAIN read
  IN {j \in Writes(desired, read) : IF creates(i) = creates(j) THEN j < i ELSE creates(j)}

\* INSERT ... ON CONFLICT (key) DO UPDATE, for the rows at these places of the list.
Upserted(desired, places, rows) ==
  LET new == AsTable({desired[i] : i \in places})
  IN [k \in DOMAIN new \cup DOMAIN rows |-> IF k \in DOMAIN new THEN new[k] ELSE rows[k]]

\* A row on another's slot is refused.
Conflicts(t, desired, read, rows) ==
  \E i \in Writes(desired, read) :
    LET r == desired[i]
        found == Upserted(desired, WrittenBefore(desired, read, i), rows)
    IN \E k \in DOMAIN found \ {r.key} : Slot(t, k, found[k]) = Slot(t, r.key, r.row)

Removed(t, desired, read) ==
  {k \in DOMAIN read \ KeysOf(desired) : Removal[t] = "disable" => read[k].enabled}

\* apply_plan, one table: creates, updates, disables, deletes; a refused row takes the whole
\* transaction with it (None).
Applied(t, desired, read, rows) ==
  LET written == Upserted(desired, Writes(desired, read), rows)
      gone == Removed(t, desired, read)
  IN IF Conflicts(t, desired, read, rows) THEN None
     ELSE CASE Removal[t] = "disable" ->
                 [k \in DOMAIN written |->
                    IF k \in gone THEN [written[k] EXCEPT !.enabled = FALSE] ELSE written[k]]
            [] Removal[t] = "delete" -> [k \in DOMAIN written \ gone |-> written[k]]
            [] OTHER -> written

Stored == IF meta = None THEN [digest |-> None, revision |-> 0] ELSE meta

\* seed: a manifest that is not valid is refused before the database is opened.
\* plan_and_apply: a digest that is stored already ends the run, unless it is forced.
UpToDate(d, force) == Stored.digest = d /\ ~force

StartSeed(s, d, force) ==
  /\ seeders[s] = Idle /\ seeds < MaxSeeds
  /\ seeds' = seeds + 1
  /\ IF Asked[d] = None \/ UpToDate(d, force) THEN UNCHANGED seeders
     ELSE seeders' = [seeders EXCEPT ![s] =
            [op |-> "seed", left |-> Table, read |-> Empty, digest |-> d,
             revision |-> Stored.revision, overtaken |-> FALSE]]
  /\ UNCHANGED <<tables, meta, readers, mixed>>

\* snapshot: a statement for each table.
ReadTable(s) ==
  /\ seeders[s] # Idle /\ seeders[s].left # <<>>
  /\ LET t == Head(seeders[s].left)
     IN seeders' = [seeders EXCEPT ![s].left = Tail(@), ![s].read[t] = tables[t]]
  /\ UNCHANGED <<tables, meta, readers, seeds, mixed>>

ReadyToWrite(s) == seeders[s] # Idle /\ seeders[s].left = <<>>
Outcome(s) == [t \in ToSet(Table) |->
                 Applied(t, Asked[seeders[s].digest][t], seeders[s].read[t], tables[t])]
Refused(s) == \E t \in ToSet(Table) : Outcome(s)[t] = None

\* The writes of one transaction: each waits for whoever wrote its row before, and all
\* write the one row of provider_registry_meta, so they are as one at the commit.
CommitSeed(s) ==
  /\ ReadyToWrite(s) /\ ~Refused(s)
  /\ tables' = Outcome(s)
  /\ meta' = [digest |-> seeders[s].digest, revision |-> seeders[s].revision + 1]
  /\ mixed' = seeders[s].overtaken
  /\ seeders' = [x \in Seeder |-> IF x = s \/ seeders[x] = Idle THEN Idle
                                  ELSE [seeders[x] EXCEPT !.overtaken = TRUE]]
  /\ readers' = [r \in Reader |-> IF Reading(r)
                                  THEN [readers[r] EXCEPT !.torn = TRUE] ELSE readers[r]]
  /\ UNCHANGED seeds

\* A dry run, a crash, a deadlock, or a constraint rolls it back.
AbandonSeed(s) ==
  /\ seeders[s] # Idle
  /\ seeders' = [seeders EXCEPT ![s] = Idle]
  /\ UNCHANGED <<tables, meta, readers, seeds, mixed>>
-----------------------------------------------------------------------------
\* CatalogueReader.load_snapshot: the meta row first; without one the resolver raises.
StartRead(r) ==
  /\ readers[r] = Idle /\ meta # None
  /\ readers' = [readers EXCEPT ![r] = [op |-> "read", left |-> Table, read |-> Empty,
                                        digest |-> meta.digest, torn |-> FALSE,
                                        mixed |-> mixed]]
  /\ UNCHANGED <<tables, meta, seeders, seeds, mixed>>

LoadTable(r) ==
  /\ Reading(r)
  /\ LET t == Head(readers[r].left)
     IN readers' = [readers EXCEPT ![r].left = Tail(@), ![r].read[t] = tables[t]]
  /\ UNCHANGED <<tables, meta, seeders, seeds, mixed>>

\* group_fallbacks: the edges of an adapter by their ordinals.
FallbacksOf(edges, i) ==
  LET of == SetToSortSeq({e \in DOMAIN edges : e[1] = i},
                         LAMBDA e, f : edges[e].ordinal < edges[f].ordinal)
  IN [n \in DOMAIN of |-> of[n][2]]

\* build_snapshot, and the resolution that is recorded with the digest.
AsCatalogue(rows) == [providers |-> rows.providers, adapters |-> rows.adapters,
                      routing |-> rows.routing, devices |-> <<>>]

\* RuntimeStateReader.load_snapshot: rows by what they are about.
RuntimeOf(rows, cat) ==
  LET of(f, k) == IF k \in DOMAIN f THEN f[k] ELSE None
  IN [health |-> [p \in DOMAIN cat.providers |-> of(rows.health, p)],
      quota |-> [p \in DOMAIN cat.providers |->
                   {q.left : q \in {quota \in rows.quotas : quota.provider = p}}],
      latency |-> [i \in DOMAIN cat.adapters |-> of(rows.latency, i)]]

Resolved(mode, budget, cat, rows) ==
  Candidates(Capability, mode, budget, cat, RuntimeOf(rows, cat), Executable)

Decide(r) ==
  /\ readers[r].op = "read" /\ readers[r].left = <<>>
  /\ \E rows \in Measured, mode \in Mode, budget \in Budget :
       readers' = [readers EXCEPT ![r] =
         [op |-> "resolved", digest |-> @.digest, read |-> @.read, torn |-> @.torn,
          mixed |-> @.mixed, mode |-> mode, budget |-> budget, measured |-> rows,
          answer |-> Resolved(mode, budget, AsCatalogue(@.read), rows)]]
  /\ UNCHANGED <<tables, meta, seeders, seeds, mixed>>

CatalogueNext ==
  \/ \E s \in Seeder, d \in Digest, force \in BOOLEAN : StartSeed(s, d, force)
  \/ \E s \in Seeder : ReadTable(s) \/ CommitSeed(s) \/ AbandonSeed(s)
  \/ \E r \in Reader : StartRead(r) \/ LoadTable(r) \/ Decide(r)

CatalogueSpec == CatalogueInit /\ [][CatalogueNext]_catalogueVars
-----------------------------------------------------------------------------
\* Desired(d): the tables a manifest asks for.
Desired(d) == [t \in ToSet(Table) |-> AsTable(ToSet(Asked[d][t]))]

\* A valid manifest can be seeded into empty tables: no row meets a constraint or names a
\* row that is not there, fallbacks and requirements lead back to nobody, a fallback list
\* that repeats nothing is read back in its order, and where routing prefers free providers
\* one of them serves.
ValidManifestFits(m, implemented) ==
  \A rows \in {AskedBy(m, implemented)} \ {None} :
    LET table(t) == IF Conflicts(t, rows[t], <<>>, <<>>) THEN None ELSE AsTable(ToSet(rows[t]))
        has(t, ks) == ks \subseteq KeysOf(rows[t])
        leads(edges) == \A loop \in SUBSET UNION {{e[1], e[2]} : e \in edges} :
          loop # {} => \E n \in loop : \A e \in edges : e[1] = n => e[2] \notin loop
    IN \A cat \in {[t \in DOMAIN rows |-> table(t)]} :
         /\ \A t \in DOMAIN rows : cat[t] # None
         /\ \A i \in DOMAIN cat.adapters : /\ has("providers", {cat.adapters[i].provider})
                                          /\ has("capabilities", {cat.adapters[i].capability})
         /\ \A e \in KeysOf(rows.fallbacks) : has("adapters", {e[1], e[2]})
         /\ \A e \in KeysOf(rows.dependencies) : has("capabilities", {e[1], e[2]})
         /\ has("capabilities", DOMAIN cat.routing \ {"default"})
         /\ leads(KeysOf(rows.fallbacks))
         /\ leads({e \in KeysOf(rows.dependencies) : e[3] = "requires"})
         /\ \A a \in ToSet(AdaptersOf(m)) :
              IsInjective(a.fallback) => FallbacksOf(cat.fallbacks, a.id) = a.fallback
         /\ \A i \in DOMAIN cat.adapters :
              StrategyFor(cat, cat.adapters[i].capability) \in {"free_first", "free_only"} =>
                \E k \in Serving(cat, cat.adapters[i].capability) :
                  cat.providers[cat.adapters[k].provider].pricing \in FreeCapable

\* The rows of a manifest are there, and of what other manifests left behind entities are
\* disabled, edges are gone and routing alone stays.
Holds(t, desired, rows) ==
  LET left == DOMAIN rows \ KeysOf(desired)
  IN /\ \A r \in ToSet(desired) : r.key \in DOMAIN rows /\ rows[r.key] = r.row
     /\ Removal[t] = "disable" => \A k \in left : ~rows[k].enabled
     /\ Removal[t] = "delete" => left = {}

\* "upsert converges DB -> manifest" (docs/engineering/PROVIDER_RUNTIME_DATA_MODEL.md): the
\* tables hold the manifest whose digest is stored, unless seedings overlapped; and so do
\* the tables of a resolution the one whose digest it recorded, unless one was committed
\* while it read them.
CatalogueIsManifest ==
  /\ meta # None /\ ~mixed => \A t \in ToSet(Table) : Holds(t, Asked[meta.digest][t], tables[t])
  /\ \A r \in Reader :
       LET x == readers[r]
       IN x.op = "resolved" =>
            x.torn \/ x.mixed \/ \A t \in ToSet(Table) : Holds(t, Asked[x.digest][t], x.read[t])

\* What was resolved can be resolved again from the manifest whose digest was recorded with
\* it (W8.5e.4, W8.5e.6), unless the catalogue was seeded while it was read, had been seeded
\* by overlapping runs, or kept the routing of an earlier manifest.  Only the first of these
\* meets an adapter of a provider it does not know.
LedgerReplays ==
  \A r \in Reader : readers[r].op = "resolved" =>
    LET x == readers[r]
        old == DOMAIN x.read.routing \ DOMAIN Desired(x.digest).routing
        again == Resolved(x.mode, x.budget, AsCatalogue(Desired(x.digest)), x.measured)
    IN /\ ~x.torn /\ ~x.mixed /\ old = {} => x.answer.candidates = again.candidates
       /\ ~x.torn => \A i \in DOMAIN x.answer.refused : x.answer.refused[i] # "unknown_provider"

\* A run is carried out where its mode allows, by an adapter that is built, enabled and
\* within its budget; nothing of a tier it prefers is passed over; and of that tier nothing
\* that scores better.
NeverEscalates ==
  \A r \in Reader : readers[r].op = "resolved" /\ readers[r].answer.candidates # <<>> =>
    LET x == readers[r]
        cat == AsCatalogue(x.read)
        tier(i) == TierFor(cat, i)
        first == x.answer.candidates[1]
        pick == cat.adapters[first]
        payee == cat.providers[pick.provider]
        allowed == ToSet(Tiers[x.mode])
        q == ToRequest(Capability, x.mode, x.budget)
        rt == RuntimeOf(x.measured, cat)
        usable == {i \in Serving(cat, Capability) : Eligible(i, cat, q, rt, Executable)}
    IN /\ first \in usable /\ tier(first) \in allowed /\ first \in Executable
       /\ pick.enabled /\ payee.enabled
       /\ payee.pricing = "paid" => /\ x.mode \in {"auto", "hybrid", "commercial_only"}
                                    /\ x.budget # 0 /\ ~Over(x.budget, payee, pick)
       /\ \A n \in DOMAIN Cascade : \A m \in 1..(n - 1) : \A i \in usable :
            x.mode # "hybrid" /\ tier(first) = Cascade[n] =>
              tier(i) # Cascade[m] \/ Cascade[m] \notin allowed
       /\ \A i \in usable :
            (x.mode = "hybrid" /\ tier(i) \in allowed) \/ tier(i) = tier(first) =>
              Score(first, cat, q, rt) >= Score(i, cat, q, rt)

\* Whatever is seeded and resolved meanwhile.
CatalogueIsSound == CatalogueIsManifest /\ LedgerReplays /\ NeverEscalates

\* "upsert converges DB -> manifest (W8.5d.5)" (PROVIDER_RUNTIME_DATA_MODEL.md:143): a valid
\* manifest that is seeded alone is not refused.
SeedingConverges == \A s \in Seeder : ReadyToWrite(s) /\ ~seeders[s].overtaken => ~Refused(s)
=============================================================================
