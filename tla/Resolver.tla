------------------------------ MODULE Resolver ------------------------------
(***************************************************************************)
(* Which adapter carries out a capability: the pure resolver               *)
(* (domain/resolver) and the policy of the execution modes over it         *)
(* (domain/generation/execution.py, generation/capability_resolver.py).    *)
(*                                                                         *)
(* A catalogue is [providers, adapters, fallbacks, routing, devices], each *)
(* a function of the rows' keys; adapter ids are numbers, for their order. *)
(* Scores are kept in hundredths, health in per cent, latency in seconds.  *)
(***************************************************************************)
EXTENDS Manifests

LocalModes == {"local", "hybrid"}
FreeCapable == {"free", "freemium"}

\* A routing strategy weighs quality, cost, speed, reliability and hardware, in per cent.
Weights ==
  LET w(q, c, s, r, h) == [quality |-> q, cost |-> c, speed |-> s, reliability |-> r,
                           hardware |-> h]
      even == w(25, 25, 20, 20, 10)
      frugal == w(20, 50, 10, 10, 10)
  IN [balanced |-> even, free_first |-> frugal, lowest_cost |-> w(10, 60, 10, 15, 5),
      highest_quality |-> w(55, 5, 10, 20, 10), fastest |-> w(15, 10, 50, 20, 5),
      privacy_first |-> w(30, 10, 20, 30, 10), offline_only |-> even,
      commercial_only |-> even, free_only |-> frugal]

\* CatalogueSnapshot.strategy_for: the capability's policy, else the default's.
StrategyFor(cat, capability) ==
  LET scopes == {capability, "default"} \cap DOMAIN cat.routing
  IN IF capability \in scopes THEN cat.routing[capability]
     ELSE IF scopes # {} THEN cat.routing["default"] ELSE "balanced"

\* What a strategy refuses beyond its weights.
ExtraReason(strategy, a, p) ==
  CASE strategy = "privacy_first" /\ a.mode = "cloud" -> "privacy_first_cloud"
    [] strategy = "offline_only" /\ a.mode \notin LocalModes -> "offline_only_non_local"
    [] strategy = "commercial_only" /\ ~p.commercial -> "commercial_only_non_commercial"
    [] strategy = "free_only" /\ p.pricing \notin FreeCapable -> "free_only_paid"
    [] OTHER -> None

RamOf(cat, device) == IF device \in DOMAIN cat.devices THEN cat.devices[device] ELSE None
TooSmall(cat, a, device) ==
  a.mode \in LocalModes /\ device # None /\ RamOf(cat, device) # None /\ a.minRam # None
    /\ a.minRam > RamOf(cat, device)

Over(budget, p, a) == budget # None /\ p.pricing = "paid" /\ a.cost # None /\ a.cost > budget

\* ineligibility_reason: the hard constraints in their order, and which of them fail.
Constraints(i, cat, q, rt, can) ==
  LET a == cat.adapters[i]
      p == cat.providers[a.provider]
      extra == ExtraReason(StrategyFor(cat, q.capability), a, p)
  IN <<<<"not_executable", i \notin can>>,
       <<"provider_disabled", ~p.enabled>>,
       <<"adapter_disabled", ~a.enabled>>,
       <<"not_local", q.localOnly /\ a.mode \notin LocalModes>>,
       <<"privacy_cloud_egress", q.privacy /\ a.mode = "cloud">>,
       <<"paid_not_allowed", ~q.paidAllowed /\ p.pricing = "paid">>,
       <<"commercial_terms_not_allowed", ~q.termsAllowed /\ p.commercial>>,
       <<"budget_zero_paid", q.budget = 0 /\ p.pricing = "paid">>,
       <<"over_budget", Over(q.budget, p, a)>>,
       <<"insufficient_hardware", TooSmall(cat, a, q.device)>>,
       <<"quota_exhausted", 0 \in rt.quota[a.provider]>>,
       <<"health_down", rt.health[a.provider] # None /\ rt.health[a.provider] <= 5>>,
       <<extra, extra # None>>>>

Known(i, cat) == cat.adapters[i].provider \in DOMAIN cat.providers
Eligible(i, cat, q, rt, can) ==
  /\ Known(i, cat)
  /\ \A n \in DOMAIN Constraints(i, cat, q, rt, can) : ~Constraints(i, cat, q, rt, can)[n][2]

\* Of those that fail the first is reported.
Reason(i, cat, q, rt, can) ==
  LET tests == Constraints(i, cat, q, rt, can)
      first == CHOOSE n \in DOMAIN tests : tests[n][2] /\ \A m \in 1..(n - 1) : ~tests[m][2]
  IN IF Known(i, cat) THEN tests[first][1] ELSE "unknown_provider"

HardwareFit(cat, a, device) ==
  LET ram == RamOf(cat, device)
  IN IF /\ a.mode \in LocalModes /\ device # None /\ ram # None
        /\ a.wantRam = None \/ ram < a.wantRam
        /\ a.minRam # None /\ ram >= a.minRam
     THEN 70 ELSE 100

CostFit(p, a) == IF p.pricing \in FreeCapable \/ a.cost = 0 THEN 100 ELSE p.cost

SpeedOf(p, latency) ==
  IF latency = None THEN p.speed
  ELSE LET slower == IF latency > 20 THEN 20 ELSE latency
       IN IF p.speed < slower THEN 0 ELSE p.speed - slower

\* score: the weighted components times the provider's health, to the hundredth.
Score(i, cat, q, rt) ==
  LET a == cat.adapters[i]
      p == cat.providers[a.provider]
      w == Weights[StrategyFor(cat, q.capability)]
      raw == w.quality * p.quality + w.cost * CostFit(p, a)
               + w.speed * SpeedOf(p, rt.latency[i]) + w.reliability * p.reliability
               + w.hardware * HardwareFit(cat, a, q.device)
      health == IF rt.health[a.provider] = None THEN 100 ELSE rt.health[a.provider]
  IN (raw * health + 50) \div 100

Serving(cat, capability) == {i \in DOMAIN cat.adapters : cat.adapters[i].capability = capability}

\* The comparator: score first, then reliability, then the id.
Before(cat, q, rt, i, j) ==
  LET rank(n) == <<-Score(n, cat, q, rt),
                   -cat.providers[cat.adapters[n].provider].reliability, n>>
  IN \E n \in 1..3 : /\ rank(i)[n] < rank(j)[n]
                     /\ \A k \in 1..(n - 1) : rank(i)[k] = rank(j)[k]

\* resolve: the eligible, and why the others are not; and the order of those.
Resolve(q, cat, rt, can) ==
  LET eligible == {i \in Serving(cat, q.capability) : Eligible(i, cat, q, rt, can)}
  IN [eligible |-> eligible,
      refused |-> [i \in Serving(cat, q.capability) \ eligible |-> Reason(i, cat, q, rt, can)]]

Ranked(S, cat, q, rt) ==
  LET ahead == [i \in S |-> Cardinality({j \in S : Before(cat, q, rt, j, i)})]
  IN [n \in 1..Cardinality(S) |-> CHOOSE i \in S : ahead[i] = n - 1]
-----------------------------------------------------------------------------
\* Execution modes: the tiers a run may use, nearest and cheapest first.
Cascade == <<"local", "free_remote", "commercial">>
Tiers == [auto |-> Cascade, hybrid |-> Cascade, local_only |-> <<"local">>,
          free_remote_only |-> <<"free_remote">>, commercial_only |-> <<"commercial">>]

TierFor(cat, i) == IF cat.adapters[i].mode \in LocalModes THEN "local"
                   ELSE IF cat.providers[cat.adapters[i].provider].pricing = "paid"
                        THEN "commercial" ELSE "free_remote"

\* _to_request: a mode becomes two of the resolver's gates, the others stand open.
PaidAllowed(mode) == "commercial" \in ToSet(Tiers[mode])

ToRequest(capability, mode, budget) ==
  [capability |-> capability, budget |-> budget, device |-> None, privacy |-> FALSE,
   localOnly |-> Tiers[mode] = <<"local">>, paidAllowed |-> PaidAllowed(mode),
   termsAllowed |-> TRUE]

\* _apply_constraints: but for hybrid, only the first tier that has candidates stays in play.
\* (Mutant: the tiers are not told apart.)
AllAllowed(mode, cat, eligible) == {i \in eligible : TierFor(cat, i) \in ToSet(Tiers[mode])}
Apply(mode, cat, eligible) ==
  LET of(tier) == {i \in eligible : TierFor(cat, i) = tier}
      tiers == Tiers[mode]
  IN IF mode = "hybrid" THEN UNION {of(tiers[n]) : n \in DOMAIN tiers}
     ELSE UNION {of(tiers[n]) : n \in {k \in DOMAIN tiers : \A m \in 1..(k - 1) : of(tiers[m]) = {}}}

\* ResolverCapabilityResolver.resolve
Candidates(capability, mode, budget, cat, rt, can) ==
  LET q == ToRequest(capability, mode, budget)
      found == Resolve(q, cat, rt, can)
  IN [candidates |-> Ranked(Apply(mode, cat, found.eligible), cat, q, rt),
      refused |-> found.refused]
=============================================================================
