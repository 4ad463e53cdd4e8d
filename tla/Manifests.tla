----------------------------- MODULE Manifests -----------------------------
(***************************************************************************)
(* The provider manifest: what its documents say (provider_manifest.py),   *)
(* when they are valid (validate_providers.py), and the rows they ask for  *)
(* (build_* of seed_providers.py).  Names, formats, features and import    *)
(* paths, and rules that only warn, are left out.                          *)
(*                                                                         *)
(* A manifest is [capabilities, providers, families, routing, devices]:    *)
(* lists of entries, and the strategies of routing.                        *)
(***************************************************************************)
EXTENDS Integers, SequencesExt, FiniteSetsExt

CONSTANT None        \* what an entry, a row, a request or a measurement leaves unsaid

\* CapabilityEntry: requires and optional name other capabilities.
CapabilityEntry(id, requires, optional) == [id |-> id, requires |-> requires, optional |-> optional]

\* Adapter, with where it runs, the memory it needs and would like, and its cost.
Adapter(id, capability, local, cloud, cost, fallback) ==
  [id |-> id, capability |-> capability, local |-> local, cloud |-> cloud,
   minRam |-> None, wantRam |-> None, cost |-> cost, fallback |-> fallback]

\* Provider.
Provider(id, pricing, quality, adapters) ==
  [id |-> id, pricing |-> pricing, commercial |-> FALSE, daily |-> None,
   scores |-> [quality |-> quality, cost |-> 40, speed |-> 50, reliability |-> 70],
   adapters |-> adapters]

FreePricing == {"free", "freemium"}
-----------------------------------------------------------------------------
Ids(entries) == [i \in DOMAIN entries |-> entries[i].id]

\* _adapters: each with its provider.
AdaptersOf(m) ==
  FlattenSeq([i \in DOMAIN m.providers |->
    [k \in DOMAIN m.providers[i].adapters |->
       [provider |-> m.providers[i].id, pricing |-> m.providers[i].pricing]
         @@ m.providers[i].adapters[k]]])

\* _find_cycle: depth first, the nodes in order; a cycle is reported with its ends.
\* edges[n] are the nodes n leads to, those of no entry are passed over.
FindCycle(edges, nodes) ==
  LET Node == DOMAIN edges
      Search == [colour : [Node -> {"unseen", "active", "done"}], stack : Seq(Node),
                 cycle : {None} \cup Seq(Node)]
      from(stack, node) == SubSeq(stack, SelectInSeq(stack, LAMBDA n : n = node), Len(stack))
      visit[search \in Search, node \in Node] ==
        LET follow(s, next) ==
              IF s.cycle # None \/ next \notin Node \/ s.colour[next] = "done" THEN s
              ELSE IF s.colour[next] = "unseen" THEN visit[s, next]
              ELSE [s EXCEPT !.cycle = Append(from(s.stack, next), next)]
            entered == [search EXCEPT !.colour[node] = "active", !.stack = Append(@, node)]
            left == FoldLeft(follow, entered, edges[node])
        IN IF left.cycle # None THEN left
           ELSE [left EXCEPT !.colour[node] = "done", !.stack = Front(@)]
      start(s, node) ==
        IF s.cycle = None /\ s.colour[node] = "unseen" THEN visit[s, node] ELSE s
      unseen == [colour |-> [n \in Node |-> "unseen"], stack |-> <<>>, cycle |-> None]
  IN FoldLeft(start, unseen, nodes).cycle

\* leads[i] is where the i-th node leads; of nodes with one id the last counts.
\* (Mutant: the search begins at the first node alone.)
AcyclicFromFirst(nodes, leads) ==
  FindCycle([n \in ToSet(nodes) |-> leads[SelectLastInSeq(nodes, LAMBDA k : k = n)]],
            [n \in DOMAIN nodes \cap {1} |-> nodes[n]]) = None
Acyclic(nodes, leads) ==
  FindCycle([n \in ToSet(nodes) |-> leads[SelectLastInSeq(nodes, LAMBDA k : k = n)]], nodes) = None
-----------------------------------------------------------------------------
\* The rules, in the order of validate.
Uniqueness(m) == /\ IsInjective(Ids(m.providers)) /\ IsInjective(Ids(AdaptersOf(m)))
                 /\ IsInjective(Ids(m.capabilities))

CapabilityDependencies(m) ==
  /\ \A c \in ToSet(m.capabilities) :
       /\ IsInjective(c.requires \o c.optional)
       /\ ToSet(c.requires \o c.optional) \subseteq ToSet(Ids(m.capabilities)) \ {c.id}
  /\ Acyclic(Ids(m.capabilities), [i \in DOMAIN m.capabilities |-> m.capabilities[i].requires])

CatalogueIntegrity(m) ==
  \A a \in ToSet(AdaptersOf(m)) : a.capability \in ToSet(Ids(m.capabilities))

UniqueProviderCapability(m) ==
  \A p \in ToSet(m.providers) :
    IsInjective([k \in DOMAIN p.adapters |-> p.adapters[k].capability])

ResourceEstimation(m) ==
  \A a \in ToSet(AdaptersOf(m)) :
    a.minRam # None /\ a.wantRam # None => a.wantRam >= a.minRam

FallbackGraph(m) ==
  LET adapters == AdaptersOf(m)
  IN /\ \A a \in ToSet(adapters) : \A target \in ToSet(a.fallback) :
          /\ target # a.id
          /\ \E b \in ToSet(adapters) : b.id = target /\ b.capability = a.capability
     /\ Acyclic(Ids(adapters), [i \in DOMAIN adapters |-> adapters[i].fallback])

Families(m) ==
  /\ \A f \in ToSet(m.families) : /\ f.parent \in ToSet(Ids(m.families)) \cup {None}
                                  /\ ToSet(f.variants) \subseteq ToSet(Ids(m.providers))
  /\ Acyclic(Ids(m.families), [i \in DOMAIN m.families |->
                                 IF m.families[i].parent = None THEN <<>>
                                 ELSE <<m.families[i].parent>>])

Pricing(m) == \A p \in ToSet(m.providers) : p.daily = None \/ p.daily > 0

Routing(m) == DOMAIN m.routing.byCapability \subseteq ToSet(Ids(m.capabilities))

\* The strategy of a capability: its policy's, if that names one.
Strategy(m, capability) ==
  IF capability \in DOMAIN m.routing.byCapability /\ m.routing.byCapability[capability] # None
  THEN m.routing.byCapability[capability] ELSE m.routing.default

FreeProviderSanity(m) ==
  \A a \in ToSet(AdaptersOf(m)) :
    Strategy(m, a.capability) \in {"free_first", "free_only"} =>
      \E b \in ToSet(AdaptersOf(m)) : b.capability = a.capability /\ b.pricing \in FreePricing

RegistryReconciliation(m, implemented) == implemented \subseteq ToSet(Ids(AdaptersOf(m)))

Devices(m) == IsInjective(Ids(m.devices))

Valid(m, implemented) ==
  /\ Uniqueness(m) /\ CapabilityDependencies(m) /\ CatalogueIntegrity(m)
  /\ UniqueProviderCapability(m) /\ ResourceEstimation(m) /\ FallbackGraph(m) /\ Families(m)
  /\ Pricing(m) /\ Routing(m) /\ FreeProviderSanity(m)
  /\ RegistryReconciliation(m, implemented) /\ Devices(m)
-----------------------------------------------------------------------------
\* Rows are built as a dict: an equal key takes the place of the first and the last value.
Row(key, row) == [key |-> key, row |-> row]
Keyed(rows) ==
  FoldLeft(LAMBDA kept, r : IF \E i \in DOMAIN kept : kept[i].key = r.key
                            THEN [i \in DOMAIN kept |-> IF kept[i].key = r.key THEN r ELSE kept[i]]
                            ELSE Append(kept, r),
           <<>>, rows)

\* build_capabilities, build_capability_dependencies
CapabilityRows(m) ==
  Keyed([i \in DOMAIN m.capabilities |-> Row(m.capabilities[i].id, <<>>)])

DependencyRows(m) ==
  Keyed(FlattenSeq([i \in DOMAIN m.capabilities |->
    LET c == m.capabilities[i]
        of(kind, deps) == [k \in DOMAIN deps |-> Row(<<c.id, deps[k], kind>>, <<>>)]
    IN of("requires", c.requires) \o of("optional", c.optional)]))

\* build_providers
ProviderRows(m) ==
  Keyed([i \in DOMAIN m.providers |->
    LET p == m.providers[i]
    IN Row(p.id, [pricing |-> p.pricing, commercial |-> p.commercial, enabled |-> TRUE]
                   @@ p.scores)])

\* build_provider_adapters; _execution_mode
ExecutionMode(a) == CASE a.local /\ a.cloud -> "hybrid"
                      [] a.local /\ ~a.cloud -> "local"
                      [] ~a.local /\ a.cloud -> "cloud"
                      [] OTHER -> None

AdapterRows(m) ==
  LET adapters == AdaptersOf(m)
      row(a) == [provider |-> a.provider, capability |-> a.capability, enabled |-> TRUE,
                 mode |-> ExecutionMode(a), minRam |-> a.minRam, wantRam |-> a.wantRam,
                 cost |-> a.cost]
  IN Keyed([i \in DOMAIN adapters |-> Row(adapters[i].id, row(adapters[i]))])

\* build_adapter_fallbacks
FallbackRows(m) ==
  LET adapters == AdaptersOf(m)
      edges(a) == [k \in DOMAIN a.fallback |-> Row(<<a.id, a.fallback[k]>>, [ordinal |-> k - 1])]
  IN Keyed(FlattenSeq([i \in DOMAIN adapters |-> edges(adapters[i])]))

\* build_routing_policies: the default, and for each capability what it does not override.
RoutingRows(m) ==
  LET scopes == SetToSeq(DOMAIN m.routing.byCapability)
  IN Keyed(<<Row("default", m.routing.default)>>
             \o [i \in DOMAIN scopes |-> Row(scopes[i], Strategy(m, scopes[i]))])

\* build_device_profiles
DeviceRows(m) == Keyed([i \in DOMAIN m.devices |-> Row(m.devices[i].id, m.devices[i].ram)])

\* build_desired
RowsOf(m) ==
  [capabilities |-> CapabilityRows(m), dependencies |-> DependencyRows(m),
   providers |-> ProviderRows(m), adapters |-> AdapterRows(m), fallbacks |-> FallbackRows(m),
   routing |-> RoutingRows(m), devices |-> DeviceRows(m)]

\* seed: a manifest that is not valid asks for nothing (implemented: the adapters the
\* seeder's build constructs).
AskedBy(m, implemented) == IF Valid(m, implemented) THEN RowsOf(m) ELSE None
=============================================================================
