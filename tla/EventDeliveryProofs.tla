------------------------ MODULE EventDeliveryProofs ------------------------
(***************************************************************************)
(* Theorems about the delivery of events and mail, for every set of        *)
(* events, relays, mailers and processes.  The relay, the mailer and their *)
(* host keep to variables of their own, so there are three inductive       *)
(* invariants, each with the types of its part.                            *)
(***************************************************************************)
EXTENDS EventDelivery, FiniteSetTheorems, TLAPS

RelayTyped ==
  /\ outbox \in [Event -> {"absent", "pending", "published"}]
  /\ attempts \in [Event -> 0..MaxAttempts]
  /\ projectGone \in BOOLEAN
  /\ rows \in [Effect -> Nat]
  /\ mark \in [Relay -> [Event -> {"free", "fetched", "handling", "published", "failed"}]]
  /\ left \in [Relay -> Seq(Effect)]

\* A row in a relay's transaction is in no other, and has attempts left.
RowsLocked ==
  \A w \in Relay, e \in Event : mark[w][e] # "free" =>
    /\ attempts[e] < MaxAttempts
    /\ \A v \in Relay \ {w} : mark[v][e] = "free"

\* A relay publishes one event after the other.
OneAtATime ==
  \A w \in Relay, e, d \in Event :
    (mark[w][e] = "handling" /\ mark[w][d] = "handling") => e = d

\* What the consumers have still to do for an event.
ElementsOf(s) == {s[i] : i \in 1..Len(s)}
Skipped(e) == KindOf[e] = "run_succeeded" /\ projectGone
Open(e) == IF Skipped(e) THEN {} ELSE {x \in ElementsOf(EffectsOf(e)) : ~(rows[x] > 0)}

\* What is not projected yet of the event a relay is publishing is on its list, and
\* what it means to stamp is projected.
ListComplete ==
  \A w \in Relay, e \in Event :
    /\ mark[w][e] = "handling" => Open(e) \subseteq ElementsOf(left[w])
    /\ mark[w][e] = "published" => Open(e) = {}

StampedDone == \A e \in Event : outbox[e] = "published" => Open(e) = {}

RelayInv == /\ RelayTyped /\ RowsLocked /\ OneAtATime /\ ListComplete /\ StampedDone
            /\ ProjectedOnce
-----------------------------------------------------------------------------
LEMMA EffectsTyped ==
  ASSUME projectGone \in BOOLEAN, NEW e \in Event
  PROVE  EffectsOf(e) \in Seq(Effect)
<1>1. e \in Nat /\ Artifacts \in Nat
  BY DeliveryAssumption
<1>2. Ingested \in Seq(Effect)
  <2>1. \A i \in 1..Artifacts : <<"asset", i>> \in Effect
    BY DEF Effect
  <2>2. Ingested \in [1..Artifacts -> Effect]
    BY <2>1 DEF Ingested
  <2>3. QED
    BY <1>1, <2>2
<1>3. <<"notification", e>> \in Effect /\ <<"analytics", e>> \in Effect
  BY DEF Effect
<1>4. <<>> \in Seq(Effect) /\ <<<<"notification", e>>, <<"analytics", e>>>> \in Seq(Effect)
      /\ <<<<"analytics", e>>>> \in Seq(Effect)
  BY <1>3
<1>5. QED
  BY <1>2, <1>4 DEF EffectsOf

\* No step opens what is done: rows stay, and so does the deletion of the project.
LEMMA OpenShrinks ==
  ASSUME RelayTyped, NEW e \in Event,
         projectGone' = projectGone \/ projectGone' = TRUE,
         \A x \in Effect : rows[x] > 0 => rows'[x] > 0
  PROVE  Open(e)' \subseteq Open(e)
<1>1. EffectsOf(e) \in Seq(Effect)
  BY EffectsTyped DEF RelayTyped
<1>2. ElementsOf(EffectsOf(e)) \subseteq Effect
  BY <1>1 DEF ElementsOf
<1>3. CASE Skipped(e)'
  BY <1>3 DEF Open
<1>4. CASE ~Skipped(e)'
  <2>1. ~Skipped(e)
    BY <1>4 DEF Skipped, RelayTyped
  <2>2. EffectsOf(e)' = EffectsOf(e)
    <3>1. KindOf[e] = "run_succeeded" => projectGone' = projectGone
      BY <1>4, <2>1 DEF Skipped, RelayTyped
    <3>2. QED
      BY <3>1 DEF EffectsOf
  <2>3. ElementsOf(EffectsOf(e))' = ElementsOf(EffectsOf(e))
    BY <2>2 DEF ElementsOf
  <2>4. QED
    BY <1>2, <1>4, <2>1, <2>3 DEF Open
<1>5. QED
  BY <1>3, <1>4

\* What an event has to be projected to, when its list is made.
LEMMA ListIsMade ==
  ASSUME RelayTyped, NEW e \in Event
  PROVE  Open(e) \subseteq ElementsOf(EffectsOf(e))
BY DEF Open

LEMMA AddTyped ==
  ASSUME RelayTyped, ProjectedOnce, NEW x \in Effect, Add(x)
  PROVE  /\ rows' \in [Effect -> Nat] /\ ProjectedOnce' /\ rows'[x] > 0
         /\ \A y \in Effect : rows[y] > 0 => rows'[y] > 0
<1>1. rows' = [rows EXCEPT ![x] = IF rows[x] = 0 THEN 1 ELSE rows[x]] /\ rows \in [Effect -> Nat]
  BY DEF Add, RelayTyped
<1>2. rows[x] \in Nat /\ (IF rows[x] = 0 THEN 1 ELSE rows[x]) \in Nat \ {0}
  BY <1>1
<1>3. rows' \in [Effect -> Nat] /\ rows'[x] > 0 /\ \A y \in Effect \ {x} : rows'[y] = rows[y]
  BY <1>1, <1>2
<1>4. QED
  BY <1>1, <1>3 DEF ProjectedOnce

\* The head of a list and what is on the rest of it.
LEMMA HeadAndTail ==
  ASSUME NEW S, NEW s \in Seq(S), s # <<>>
  PROVE  /\ Head(s) \in S /\ Tail(s) \in Seq(S)
         /\ ElementsOf(s) = {Head(s)} \cup ElementsOf(Tail(s))
<1>1. Head(s) = s[1] /\ Tail(s) \in Seq(S) /\ Len(s) \in Nat /\ Len(s) > 0 /\ Head(s) \in S
  OBVIOUS
<1>2. Len(Tail(s)) = Len(s) - 1 /\ \A i \in 1..Len(Tail(s)) : Tail(s)[i] = s[i + 1]
  BY <1>1
<1>3. ASSUME NEW i \in 1..Len(s) PROVE s[i] \in {Head(s)} \cup ElementsOf(Tail(s))
  <2>1. CASE i = 1
    BY <1>1, <2>1
  <2>2. CASE i # 1
    <3>1. i - 1 \in 1..Len(Tail(s)) /\ Tail(s)[i - 1] = s[(i - 1) + 1] /\ (i - 1) + 1 = i
      BY <1>1, <1>2, <2>2
    <3>2. QED
      BY <3>1 DEF ElementsOf
  <2>3. QED
    BY <2>1, <2>2
<1>4. ASSUME NEW i \in 1..Len(Tail(s)) PROVE Tail(s)[i] \in ElementsOf(s)
  <2>1. i + 1 \in 1..Len(s)
    BY <1>1, <1>2
  <2>2. QED
    BY <1>2, <2>1 DEF ElementsOf
<1>5. Head(s) \in ElementsOf(s)
  BY <1>1 DEF ElementsOf
<1>6. QED
  BY <1>1, <1>3, <1>4, <1>5 DEF ElementsOf
-----------------------------------------------------------------------------
\* A relay changes the mark of one of the rows it holds.
LEMMA MarkTyped ==
  ASSUME RelayTyped, NEW w \in Relay, NEW e \in Event,
         NEW m \in {"free", "fetched", "handling", "published", "failed"}, Sets(w, e, m)
  PROVE  /\ mark' \in [Relay -> [Event -> {"free", "fetched", "handling", "published", "failed"}]]
         /\ mark'[w][e] = m
         /\ \A d \in Event \ {e} : mark'[w][d] = mark[w][d]
         /\ \A v \in Relay \ {w} : mark'[v] = mark[v]
BY DEF RelayTyped, Sets

\* ... without touching the outbox: the four steps that handle an event.
LEMMA HandlingSafe ==
  ASSUME RelayInv, NEW w \in Relay, Start(w) \/ Consume(w) \/ HandlerRaises(w) \/ MarkPublished(w)
  PROVE  RelayInv'
<1> USE DEF RelayInv
<1>1. UNCHANGED <<outbox, attempts, projectGone>>
  BY DEF Start, Consume, HandlerRaises, MarkPublished, RelayOnly, outboxVars
<1>2. CASE Start(w)
  <2>1. PICK e \in Event : /\ mark[w][e] = "fetched" /\ Sets(w, e, "handling")
                           /\ left' = [left EXCEPT ![w] = EffectsOf(e)] /\ UNCHANGED rows
                           /\ \A d \in Event : mark[w][d] # "handling"
    BY <1>2 DEF Start, Held
  <2>2. /\ mark' \in [Relay -> [Event -> {"free", "fetched", "handling", "published", "failed"}]]
        /\ mark'[w][e] = "handling"
        /\ \A d \in Event \ {e} : mark'[w][d] = mark[w][d]
        /\ \A v \in Relay \ {w} : mark'[v] = mark[v]
    BY <2>1, MarkTyped
  <2>3. EffectsOf(e) \in Seq(Effect)
    BY EffectsTyped DEF RelayTyped
  <2>4. /\ left' \in [Relay -> Seq(Effect)] /\ left'[w] = EffectsOf(e)
        /\ \A v \in Relay \ {w} : left'[v] = left[v]
    BY <2>1, <2>3 DEF RelayTyped
  <2>5. RelayTyped' /\ RowsLocked' /\ OneAtATime' /\ ProjectedOnce'
    <3>1. RelayTyped' /\ ProjectedOnce'
      BY <1>1, <2>1, <2>2, <2>4 DEF RelayTyped, ProjectedOnce
    <3>2. \A v \in Relay, d \in Event : mark'[v][d] # "free" <=> mark[v][d] # "free"
      BY <2>1, <2>2
    <3>3. RowsLocked'
      BY <1>1, <3>2 DEF RowsLocked
    <3>4. OneAtATime'
      BY <2>1, <2>2 DEF OneAtATime
    <3>5. QED
      BY <3>1, <3>3, <3>4
  <2>6. \A d \in Event : Open(d)' = Open(d)
    BY <1>1, <2>1 DEF Open, Skipped, EffectsOf
  <2>7. Open(e) \subseteq ElementsOf(left'[w])
    BY <2>4, ListIsMade
  <2>8. ListComplete'
    <3> SUFFICES ASSUME NEW v \in Relay, NEW d \in Event
                 PROVE  /\ mark'[v][d] = "handling" => Open(d)' \subseteq ElementsOf(left'[v])
                        /\ mark'[v][d] = "published" => Open(d)' = {}
      BY DEF ListComplete, ElementsOf
    <3>1. CASE v = w /\ d = e
      BY <2>2, <2>6, <2>7, <3>1
    <3>2. CASE v = w /\ d # e
      BY <2>1, <2>2, <2>6, <3>2 DEF ListComplete
    <3>3. CASE v # w
      BY <2>2, <2>4, <2>6, <3>3 DEF ListComplete
    <3>4. QED
      BY <3>1, <3>2, <3>3
  <2>9. StampedDone'
    BY <1>1, <2>6 DEF StampedDone
  <2>10. QED
    BY <2>5, <2>8, <2>9
<1>3. CASE Consume(w)
  <2>1. /\ left[w] # <<>> /\ Add(Head(left[w])) /\ left' = [left EXCEPT ![w] = Tail(left[w])]
        /\ UNCHANGED mark
    BY <1>3 DEF Consume
  <2> DEFINE x == Head(left[w])
  <2>2. left[w] \in Seq(Effect)
    BY DEF RelayTyped
  <2>3. /\ x \in Effect /\ Tail(left[w]) \in Seq(Effect)
        /\ ElementsOf(left[w]) = {x} \cup ElementsOf(Tail(left[w]))
    BY <2>1, <2>2, HeadAndTail
  <2>4. /\ rows' \in [Effect -> Nat] /\ ProjectedOnce' /\ rows'[x] > 0
        /\ \A y \in Effect : rows[y] > 0 => rows'[y] > 0
    BY <2>1, <2>3, AddTyped
  <2>5. /\ left' \in [Relay -> Seq(Effect)] /\ left'[w] = Tail(left[w])
        /\ \A v \in Relay \ {w} : left'[v] = left[v]
    BY <2>1, <2>3 DEF RelayTyped
  <2>6. RelayTyped' /\ RowsLocked' /\ OneAtATime'
    BY <1>1, <2>1, <2>4, <2>5 DEF RelayTyped, RowsLocked, OneAtATime
  <2>7. \A d \in Event : Open(d)' \subseteq Open(d)
    BY <1>1, <2>4, OpenShrinks
  <2>8. \A d \in Event : x \notin Open(d)'
    BY <2>4 DEF Open
  <2>9. ListComplete'
    <3> SUFFICES ASSUME NEW v \in Relay, NEW d \in Event
                 PROVE  /\ mark'[v][d] = "handling" => Open(d)' \subseteq ElementsOf(left'[v])
                        /\ mark'[v][d] = "published" => Open(d)' = {}
      BY DEF ListComplete, ElementsOf
    <3>1. CASE v = w
      BY <2>1, <2>3, <2>5, <2>7, <2>8, <3>1 DEF ListComplete
    <3>2. CASE v # w
      BY <2>1, <2>5, <2>7, <3>2 DEF ListComplete
    <3>3. QED
      BY <3>1, <3>2
  <2>10. StampedDone'
    BY <1>1, <2>7 DEF StampedDone
  <2>11. QED
    BY <2>4, <2>6, <2>9, <2>10
<1>4. CASE HandlerRaises(w) \/ MarkPublished(w)
  <2>1. PICK e \in Event, m \in {"failed", "published"} :
          /\ mark[w][e] = "handling" /\ Sets(w, e, m) /\ UNCHANGED rows
          /\ left' \in [Relay -> Seq(Effect)] /\ \A v \in Relay \ {w} : left'[v] = left[v]
          /\ m = "published" => left[w] = <<>>
    <3>1. <<>> \in Seq(Effect)
      OBVIOUS
    <3>2. QED
      BY <1>4, <3>1 DEF HandlerRaises, MarkPublished, Held, RelayTyped
  <2>2. /\ mark' \in [Relay -> [Event -> {"free", "fetched", "handling", "published", "failed"}]]
        /\ mark'[w][e] = m
        /\ \A d \in Event \ {e} : mark'[w][d] = mark[w][d]
        /\ \A v \in Relay \ {w} : mark'[v] = mark[v]
    BY <2>1, MarkTyped
  <2>3. RelayTyped' /\ RowsLocked' /\ OneAtATime' /\ ProjectedOnce'
    <3>1. RelayTyped' /\ ProjectedOnce'
      BY <1>1, <2>1, <2>2 DEF RelayTyped, ProjectedOnce
    <3>2. \A v \in Relay, d \in Event : mark'[v][d] # "free" <=> mark[v][d] # "free"
      BY <2>1, <2>2
    <3>3. RowsLocked'
      BY <1>1, <3>2 DEF RowsLocked
    <3>4. OneAtATime'
      <4>1. \A v \in Relay, d \in Event : mark'[v][d] = "handling" => mark[v][d] = "handling"
        BY <2>1, <2>2
      <4>2. QED
        BY <4>1 DEF OneAtATime
    <3>5. QED
      BY <3>1, <3>3, <3>4
  <2>4. \A d \in Event : Open(d)' = Open(d)
    BY <1>1, <2>1 DEF Open, Skipped, EffectsOf
  <2>5. m = "published" => Open(e) = {}
    <3>1. ElementsOf(<<>>) = {}
      BY DEF ElementsOf
    <3>2. QED
      BY <2>1, <3>1 DEF ListComplete
  <2>6. \A d \in Event : mark'[w][d] # "handling"
    BY <2>1, <2>2 DEF OneAtATime
  <2>7. ListComplete'
    <3> SUFFICES ASSUME NEW v \in Relay, NEW d \in Event
                 PROVE  /\ mark'[v][d] = "handling" => Open(d)' \subseteq ElementsOf(left'[v])
                        /\ mark'[v][d] = "published" => Open(d)' = {}
      BY DEF ListComplete, ElementsOf
    <3>1. CASE v = w
      BY <2>2, <2>4, <2>5, <2>6, <3>1 DEF ListComplete
    <3>2. CASE v # w
      BY <2>1, <2>2, <2>4, <3>2 DEF ListComplete
    <3>3. QED
      BY <3>1, <3>2
  <2>8. StampedDone'
    BY <1>1, <2>4 DEF StampedDone
  <2>9. QED
    BY <2>3, <2>7, <2>8
<1>5. QED
  BY <1>2, <1>3, <1>4
\* Taking a batch of rows nobody holds.
LEMMA FetchSafe ==
  ASSUME RelayInv, NEW w \in Relay, Fetch(w)
  PROVE  RelayInv'
<1> USE DEF RelayInv
<1>1. PICK B \in SUBSET Ready :
        mark' = [mark EXCEPT ![w] = [e \in Event |-> IF e \in B THEN "fetched" ELSE "free"]]
  BY DEF Fetch
<1>2. UNCHANGED <<outbox, attempts, projectGone, rows, left>>
  BY DEF Fetch, RelayOnly, outboxVars
<1>3. /\ mark' \in [Relay -> [Event -> {"free", "fetched", "handling", "published", "failed"}]]
      /\ \A e \in Event : mark'[w][e] = IF e \in B THEN "fetched" ELSE "free"
      /\ \A v \in Relay \ {w} : mark'[v] = mark[v]
  <2>1. [e \in Event |-> IF e \in B THEN "fetched" ELSE "free"]
          \in [Event -> {"free", "fetched", "handling", "published", "failed"}]
    OBVIOUS
  <2>2. QED
    BY <1>1, <2>1 DEF RelayTyped
<1>4. RelayTyped' /\ ProjectedOnce'
  BY <1>2, <1>3 DEF RelayTyped, ProjectedOnce
<1>5. RowsLocked'
  <2> SUFFICES ASSUME NEW v \in Relay, NEW e \in Event, mark'[v][e] # "free"
               PROVE  /\ attempts[e] < MaxAttempts
                      /\ \A u \in Relay \ {v} : mark'[u][e] = "free"
    BY <1>2 DEF RowsLocked
  <2>1. CASE v = w
    BY <1>3, <2>1 DEF Ready
  <2>2. CASE v # w
    BY <1>3, <2>2 DEF Ready, RowsLocked
  <2>3. QED
    BY <2>1, <2>2
<1>6. OneAtATime'
  BY <1>3 DEF OneAtATime
<1>7. \A e \in Event : Open(e)' = Open(e)
  BY <1>2 DEF Open, Skipped, EffectsOf
<1>8. ListComplete' /\ StampedDone'
  BY <1>2, <1>3, <1>7 DEF ListComplete, StampedDone
<1>9. QED
  BY <1>4, <1>5, <1>6, <1>8

\* Whatever becomes of the rest, the rows of relays that give up are free.
LEMMA GiveUpSafe ==
  ASSUME RelayInv, NEW D \in SUBSET Relay,
         mark' = [w \in Relay |-> IF w \in D THEN [e \in Event |-> "free"] ELSE mark[w]],
         left' = [w \in Relay |-> IF w \in D THEN <<>> ELSE left[w]],
         UNCHANGED <<projectGone, rows>>,
         outbox' \in [Event -> {"absent", "pending", "published"}],
         attempts' \in [Event -> 0..MaxAttempts],
         \A e \in Event :
           /\ outbox'[e] = "published" => outbox[e] = "published" \/ Open(e) = {}
           /\ attempts'[e] = attempts[e] \/ \E w \in D : mark[w][e] # "free"
  PROVE  RelayInv'
<1> USE DEF RelayInv
<1>1. /\ mark' \in [Relay -> [Event -> {"free", "fetched", "handling", "published", "failed"}]]
      /\ \A w \in D, e \in Event : mark'[w][e] = "free"
      /\ \A w \in Relay \ D : mark'[w] = mark[w] /\ left'[w] = left[w]
  BY DEF RelayTyped
<1>2. left' \in [Relay -> Seq(Effect)]
  <2>1. <<>> \in Seq(Effect)
    OBVIOUS
  <2>2. QED
    BY <2>1 DEF RelayTyped
<1>3. RelayTyped' /\ ProjectedOnce'
  BY <1>1, <1>2 DEF RelayTyped, ProjectedOnce
<1>4. RowsLocked'
  <2> SUFFICES ASSUME NEW w \in Relay, NEW e \in Event, mark'[w][e] # "free"
               PROVE  /\ attempts'[e] < MaxAttempts
                      /\ \A v \in Relay \ {w} : mark'[v][e] = "free"
    BY DEF RowsLocked
  <2>1. w \notin D /\ mark[w][e] # "free"
    BY <1>1
  <2>2. \A v \in Relay \ {w} : mark[v][e] = "free"
    BY <2>1 DEF RowsLocked
  <2>3. attempts'[e] = attempts[e]
    BY <2>1, <2>2
  <2>4. QED
    BY <1>1, <2>1, <2>2, <2>3 DEF RowsLocked
<1>5. OneAtATime'
  BY <1>1 DEF OneAtATime
<1>6. \A e \in Event : Open(e)' = Open(e)
  BY DEF Open, Skipped, EffectsOf
<1>7. ListComplete' /\ StampedDone'
  BY <1>1, <1>6 DEF ListComplete, StampedDone
<1>8. QED
  BY <1>3, <1>4, <1>5, <1>7

\* One relay clears its marks.
LEMMA Clears ==
  ASSUME RelayTyped, NEW w \in Relay, Clear(w)
  PROVE  /\ mark' = [v \in Relay |-> IF v \in {w} THEN [e \in Event |-> "free"] ELSE mark[v]]
         /\ left' = [v \in Relay |-> IF v \in {w} THEN <<>> ELSE left[v]]
BY DEF RelayTyped, Clear

LEMMA CommitSafe ==
  ASSUME RelayInv, NEW w \in Relay, RelayCommits(w)
  PROVE  RelayInv'
<1> USE DEF RelayInv
<1>1. /\ Clear(w) /\ UNCHANGED <<projectGone, rows>>
      /\ outbox' = [e \in Event |-> IF mark[w][e] = "published" THEN "published" ELSE outbox[e]]
      /\ attempts' = [e \in Event |-> attempts[e] + IF mark[w][e] = "failed" THEN 1 ELSE 0]
  BY DEF RelayCommits, RelayOnly, FailuresOf
<1>2. /\ outbox' \in [Event -> {"absent", "pending", "published"}]
      /\ \A e \in Event : outbox'[e] = "published" => outbox[e] = "published" \/ Open(e) = {}
  BY <1>1 DEF RelayTyped, ListComplete
<1>3. \A e \in Event : /\ attempts'[e] \in 0..MaxAttempts
                       /\ attempts'[e] = attempts[e] \/ mark[w][e] # "free"
  <2> SUFFICES ASSUME NEW e \in Event
               PROVE  /\ attempts'[e] \in 0..MaxAttempts
                      /\ attempts'[e] = attempts[e] \/ mark[w][e] # "free"
    OBVIOUS
  <2>1. attempts[e] \in 0..MaxAttempts /\ MaxAttempts \in Nat
    BY DeliveryAssumption DEF RelayTyped
  <2>2. CASE mark[w][e] = "failed"
    <3>1. attempts[e] < MaxAttempts /\ attempts'[e] = attempts[e] + 1
      BY <1>1, <2>2 DEF RowsLocked
    <3>2. QED
      BY <2>1, <2>2, <3>1
  <2>3. CASE mark[w][e] # "failed"
    BY <1>1, <2>1, <2>3
  <2>4. QED
    BY <2>2, <2>3
<1>4. attempts' \in [Event -> 0..MaxAttempts]
  BY <1>1, <1>3
<1>5. /\ mark' = [v \in Relay |-> IF v \in {w} THEN [e \in Event |-> "free"] ELSE mark[v]]
      /\ left' = [v \in Relay |-> IF v \in {w} THEN <<>> ELSE left[v]]
  BY <1>1, Clears
<1>6. /\ {w} \in SUBSET Relay
      /\ \A e \in Event : attempts'[e] = attempts[e] \/ \E v \in {w} : mark[v][e] # "free"
  BY <1>3
<1>7. QED
  BY <1>1, <1>2, <1>4, <1>5, <1>6, GiveUpSafe

\* A pass that is rolled back, abandoned or killed.
LEMMA RollbackSafe ==
  ASSUME RelayInv,
         \/ \E w \in Relay : AbandonRelay(w) \/ RelayRollsBack(w)
         \/ \E p \in Process : Crash(p)
  PROVE  RelayInv'
<1> USE DEF RelayInv
<1>1. UNCHANGED <<projectGone, rows, outbox, attempts>>
  BY DEF AbandonRelay, RelayRollsBack, Crash, DataKept, outboxVars
<1>2. PICK D \in SUBSET Relay :
        /\ mark' = [w \in Relay |-> IF w \in D THEN [e \in Event |-> "free"] ELSE mark[w]]
        /\ left' = [w \in Relay |-> IF w \in D THEN <<>> ELSE left[w]]
  <2>1. CASE \E w \in Relay : AbandonRelay(w) \/ RelayRollsBack(w)
    <3>1. PICK w \in Relay : Clear(w)
      BY <2>1 DEF AbandonRelay, RelayRollsBack
    <3>2. /\ {w} \in SUBSET Relay
          /\ mark' = [v \in Relay |-> IF v \in {w} THEN [e \in Event |-> "free"] ELSE mark[v]]
          /\ left' = [v \in Relay |-> IF v \in {w} THEN <<>> ELSE left[v]]
      BY <3>1, Clears
    <3>3. QED
      BY <3>2
  <2>2. CASE \E p \in Process : Crash(p)
    <3>1. PICK p \in Process : Crash(p)
      BY <2>2
    <3> DEFINE D == Host!Workers(p) \cap Relay
    <3>2. /\ mark' = [w \in Relay |-> IF w \in D THEN [e \in Event |-> "free"] ELSE mark[w]]
          /\ left' = [w \in Relay |-> IF w \in D THEN <<>> ELSE left[w]]
      BY <3>1 DEF Crash
    <3>3. QED
      BY <3>2
  <2>3. QED
    BY <2>1, <2>2
<1>3. QED
  BY <1>1, <1>2, GiveUpSafe DEF RelayTyped

\* New events, and the deletion of the project.
LEMMA EmitSafe ==
  ASSUME RelayInv, DeleteProject \/ \E e \in Event : Emit(e)
  PROVE  RelayInv'
<1> USE DEF RelayInv
<1>1. /\ UNCHANGED <<attempts, rows, mark, left>>
      /\ projectGone' = projectGone \/ projectGone' = TRUE
      /\ outbox' \in [Event -> {"absent", "pending", "published"}]
      /\ \A e \in Event : outbox'[e] = "published" => outbox[e] = "published"
  BY DEF DeleteProject, Emit, outboxVars, relayVars, RelayTyped
<1>2. RelayTyped' /\ RowsLocked' /\ OneAtATime' /\ ProjectedOnce'
  <2>1. RelayTyped' /\ ProjectedOnce'
    BY <1>1 DEF RelayTyped, ProjectedOnce
  <2>2. RowsLocked' /\ OneAtATime'
    BY <1>1 DEF RowsLocked, OneAtATime
  <2>3. QED
    BY <2>1, <2>2
<1>3. \A e \in Event : Open(e)' \subseteq Open(e)
  BY <1>1, OpenShrinks
<1>4. ListComplete'
  <2> SUFFICES ASSUME NEW w \in Relay, NEW e \in Event
               PROVE  /\ mark[w][e] = "handling" => Open(e)' \subseteq ElementsOf(left[w])
                      /\ mark[w][e] = "published" => Open(e)' = {}
    BY <1>1 DEF ListComplete, ElementsOf
  <2>1. QED
    BY <1>3 DEF ListComplete
<1>5. StampedDone'
  BY <1>1, <1>3 DEF StampedDone
<1>6. QED
  BY <1>2, <1>4, <1>5

LEMMA RelayUnchanged ==
  ASSUME RelayInv, UNCHANGED <<outbox, attempts, projectGone, rows, mark, left>>
  PROVE  RelayInv'
<1> USE DEF RelayInv
<1>1. RelayTyped' /\ ProjectedOnce'
  BY DEF RelayTyped, ProjectedOnce
<1>2. RowsLocked' /\ OneAtATime'
  BY DEF RowsLocked, OneAtATime
<1>3. \A e \in Event : Open(e)' = Open(e)
  BY DEF Open, Skipped, EffectsOf
<1>4. ListComplete'
  BY <1>3 DEF ListComplete, ElementsOf
<1>5. StampedDone'
  BY <1>3 DEF StampedDone
<1>6. QED
  BY <1>1, <1>2, <1>4, <1>5

LEMMA RelayStepSafe ==
  ASSUME RelayInv, [Next]_vars
  PROVE  RelayInv'
<1>1. CASE \E w \in Relay : RelayStep(w)
  BY <1>1, FetchSafe, HandlingSafe, CommitSafe DEF RelayStep
<1>2. CASE \/ \E w \in Relay : AbandonRelay(w) \/ RelayRollsBack(w)
           \/ \E p \in Process : Crash(p)
  BY <1>2, RollbackSafe
<1>3. CASE DeleteProject \/ \E e \in Event : Emit(e)
  BY <1>3, EmitSafe
<1>4. CASE \/ UNCHANGED vars
           \/ \E e \in Event : BackoffEnds(e) \/ LeaseLapses(e)
           \/ \E w \in Mailer : MailStep(w) \/ AbandonMail(w) \/ MailEscapes(w)
           \/ \E w \in Worker : Supervise(w)
           \/ \E p \in Process : RequestStop(p) \/ Replace(p)
  <2>1. UNCHANGED <<outbox, attempts, projectGone, rows, mark, left>>
    BY <1>4 DEF vars, BackoffEnds, LeaseLapses, MailStep, MailScan, MailLock, MailAccepted, MailRefused,
       MailStamped, MailRelease, MailPassEnds, AbandonMail, MailEscapes, Supervise, RequestStop,
       Replace, Step, MailOnly, DataKept, outboxVars, relayVars
  <2>2. QED
    BY <2>1, RelayUnchanged
<1>5. QED
  BY <1>1, <1>2, <1>3, <1>4 DEF Next

LEMMA RelayInit == Init => RelayInv
<1> SUFFICES ASSUME Init PROVE RelayInv
  OBVIOUS
<1>1. RelayTyped
  <2>1. <<>> \in Seq(Effect)
    OBVIOUS
  <2>2. QED
    <3>1. 0 \in 0..MaxAttempts
      BY DeliveryAssumption
    <3>2. mark \in [Relay -> [Event -> {"free", "fetched", "handling", "published", "failed"}]]
      BY DEF Init
    <3>3. QED
      BY <2>1, <3>1, <3>2 DEF Init, RelayTyped
<1>2. QED
  BY <1>1 DEF Init, RelayInv, RowsLocked, OneAtATime, ListComplete, StampedDone, ProjectedOnce

\* What the relays hold of the locked rows, and how far their passes are, is inductive.
THEOREM RelayInductive == Spec => []RelayInv
  BY RelayInit, RelayStepSafe, PTL DEF Spec

\* At-least-once delivery projects each effect once: however often a pass rolls back,
\* is abandoned or dies after a consumer committed, there is no second row.
THEOREM OnceProjected == Spec => []ProjectedOnce
<1>1. RelayInv => ProjectedOnce
  BY DEF RelayInv
<1>2. QED
  BY <1>1, RelayInductive, PTL

\* An event is stamped published only when every consumer has it, for any number of
\* relays working at once.
THEOREM StampProven == Spec => []StampedMeansProjected
<1>1. RelayInv => StampedMeansProjected
  BY DEF RelayInv, StampedDone, StampedMeansProjected, Open, Skipped, ElementsOf
<1>2. QED
  BY <1>1, RelayInductive, PTL
-----------------------------------------------------------------------------
(***************************************************************************)
(* The worker host.                                                        *)
(***************************************************************************)
HostInv == Host!TypeOK /\ Host!NeverQuietlyAbsent

LEMMA BecomesSafe ==
  ASSUME HostInv, NEW w \in Worker, NEW f \in Host!Phase, Host!Becomes(w, f),
         f \in Host!Over => Host!Stops(w) \/ f = "escalated"
  PROVE  /\ HostInv' /\ phase'[w] = f
         /\ \A v \in Worker \ {w} : phase'[v] = phase[v]
<1>1. /\ phase' = [phase EXCEPT ![w] = f] /\ UNCHANGED <<restarts, stopping>>
      /\ phase \in [Worker -> Host!Phase]
  BY DEF HostInv, Host!TypeOK, Host!Becomes
<1>2. phase' \in [Worker -> Host!Phase] /\ phase'[w] = f /\ \A v \in Worker \ {w} : phase'[v] = phase[v]
  BY <1>1
<1>3. Host!TypeOK'
  BY <1>1, <1>2 DEF HostInv, Host!TypeOK
<1>4. Host!NeverQuietlyAbsent'
  <2> SUFFICES ASSUME NEW v \in Worker, phase'[v] \in Host!Over
               PROVE  stopping[ProcessOf[v]] \/ phase'[v] = "escalated"
    BY <1>1 DEF Host!NeverQuietlyAbsent, Host!Stops
  <2>1. CASE v = w
    BY <1>2, <2>1 DEF Host!Stops
  <2>2. CASE v # w
    BY <1>2, <2>2 DEF HostInv, Host!NeverQuietlyAbsent, Host!Stops
  <2>3. QED
    BY <2>1, <2>2
<1>5. QED
  BY <1>2, <1>3, <1>4 DEF HostInv

LEMMA FreshSafe ==
  ASSUME HostInv, NEW p \in Process, Host!Fresh(p)
  PROVE  /\ HostInv'
         /\ \A w \in Host!Workers(p) : phase'[w] = "waiting"
         /\ \A w \in Worker \ Host!Workers(p) : phase'[w] = phase[w]
<1>1. Host!Workers(p) \subseteq Worker
  BY DEF Host!Workers
<1>2. 0 \in 0..MaxRestarts
  BY DeliveryAssumption
<1>3. "waiting" \in Host!Phase /\ "waiting" \notin Host!Over
  BY DEF Host!Phase, Host!Over
<1>4. phase' \in [Worker -> Host!Phase] /\ restarts' \in [Worker -> 0..MaxRestarts]
      /\ stopping' \in [Process -> BOOLEAN]
  BY <1>2, <1>3 DEF Host!Fresh, HostInv, Host!TypeOK
<1>5. /\ \A w \in Host!Workers(p) : phase'[w] = "waiting"
      /\ \A w \in Worker \ Host!Workers(p) : phase'[w] = phase[w]
  BY <1>1 DEF Host!Fresh
<1>6. Host!NeverQuietlyAbsent'
  <2> SUFFICES ASSUME NEW w \in Worker, phase'[w] \in Host!Over
               PROVE  stopping'[ProcessOf[w]] \/ phase'[w] = "escalated"
    BY DEF Host!NeverQuietlyAbsent, Host!Stops
  <2>1. w \notin Host!Workers(p) /\ phase'[w] = phase[w]
    BY <1>3, <1>5
  <2>2. ProcessOf[w] # p /\ ProcessOf[w] \in Process
    BY <2>1, DeliveryAssumption DEF Host!Workers
  <2>3. stopping'[ProcessOf[w]] = stopping[ProcessOf[w]]
    BY <2>2 DEF Host!Fresh, HostInv, Host!TypeOK
  <2>4. QED
    BY <2>1, <2>3 DEF HostInv, Host!NeverQuietlyAbsent, Host!Stops
<1>7. QED
  BY <1>4, <1>5, <1>6 DEF HostInv, Host!TypeOK

\* A supervision task ends, is replaced, or is given up.
LEMMA SuperviseSafe ==
  ASSUME HostInv, NEW w \in Worker, Host!LeaveLoop(w) \/ Host!SupervisorDies(w)
  PROVE  /\ HostInv' /\ phase[w] = "waiting" /\ phase'[w] # "passing"
         /\ \A v \in Worker \ {w} : phase'[v] = phase[v]
<1>1. CASE Host!LeaveLoop(w)
  BY <1>1, BecomesSafe DEF Host!LeaveLoop, Host!Phase, Host!Over
<1>2. CASE Host!SupervisorDies(w)
  <2> DEFINE again == ~Host!Stops(w) /\ restarts[w] < MaxRestarts
  <2> DEFINE f == IF Host!Stops(w) THEN "drained" ELSE IF again THEN "waiting" ELSE "escalated"
  <2>1. /\ phase[w] = "waiting" /\ phase' = [phase EXCEPT ![w] = f] /\ UNCHANGED stopping
        /\ restarts' = [restarts EXCEPT ![w] = restarts[w] + IF again THEN 1 ELSE 0]
    BY <1>2 DEF Host!SupervisorDies
  <2>2. restarts[w] \in 0..MaxRestarts /\ MaxRestarts \in Nat
    BY DeliveryAssumption DEF HostInv, Host!TypeOK
  <2>3. restarts[w] + (IF again THEN 1 ELSE 0) \in 0..MaxRestarts
    BY <2>2
  <2>4. restarts' \in [Worker -> 0..MaxRestarts]
    BY <2>1, <2>3 DEF HostInv, Host!TypeOK
  <2>5. f \in Host!Phase /\ f # "passing" /\ (f \in Host!Over => Host!Stops(w) \/ f = "escalated")
    BY DEF Host!Phase, Host!Over
  <2> HIDE DEF f
  <2>6. /\ phase' \in [Worker -> Host!Phase] /\ phase'[w] = f
        /\ \A v \in Worker \ {w} : phase'[v] = phase[v]
    BY <2>1, <2>5 DEF HostInv, Host!TypeOK
  <2>7. Host!NeverQuietlyAbsent'
    BY <2>1, <2>5, <2>6 DEF HostInv, Host!NeverQuietlyAbsent, Host!Stops
  <2>8. QED
    BY <2>1, <2>4, <2>5, <2>6, <2>7 DEF HostInv, Host!TypeOK
<1>3. QED
  BY <1>1, <1>2

\* A pass begins or is over.
LEMMA PassSafe ==
  ASSUME HostInv, NEW w \in Worker, Host!BeginPass(w) \/ Host!EndPass(w) \/ Host!AbandonPass(w)
  PROVE  /\ HostInv'
         /\ Host!BeginPass(w) => phase[w] = "waiting" /\ phase'[w] = "passing"
         /\ \A v \in Worker \ {w} : phase'[v] = phase[v]
<1>1. CASE Host!BeginPass(w)
  BY <1>1, BecomesSafe DEF Host!BeginPass, Host!Phase, Host!Over
<1>2. CASE Host!EndPass(w) \/ Host!AbandonPass(w)
  <2>1. PICK f \in {"waiting", "drained", "abandoned"} :
          Host!Becomes(w, f) /\ (f = "waiting" \/ Host!Stops(w)) /\ phase[w] = "passing"
    BY <1>2 DEF Host!EndPass, Host!AbandonPass
  <2>2. f \in Host!Phase /\ (f \in Host!Over => Host!Stops(w))
    BY <2>1 DEF Host!Phase, Host!Over
  <2>3. QED
    BY <2>1, <2>2, BecomesSafe DEF Host!BeginPass
<1>3. QED
  BY <1>1, <1>2

LEMMA StopSafe ==
  ASSUME HostInv, NEW p \in Process, Host!RequestStop(p)
  PROVE  HostInv' /\ UNCHANGED phase
<1>1. UNCHANGED <<phase, restarts>> /\ stopping' = [stopping EXCEPT ![p] = TRUE]
  BY DEF Host!RequestStop
<1>2. QED
  BY <1>1 DEF HostInv, Host!TypeOK, Host!NeverQuietlyAbsent, Host!Stops

LEMMA HostUnchanged ==
  ASSUME HostInv, UNCHANGED hostVars
  PROVE  HostInv'
BY DEF HostInv, hostVars, Host!TypeOK, Host!NeverQuietlyAbsent, Host!Stops

LEMMA HostStepSafe ==
  ASSUME HostInv, [Next]_vars
  PROVE  HostInv'
<1>1. Relay \subseteq Worker /\ Mailer \subseteq Worker
  BY DEF Worker
<1>2. CASE \/ \E w \in Relay : RelayStep(w) \/ AbandonRelay(w) \/ RelayRollsBack(w)
           \/ \E w \in Mailer : MailStep(w) \/ AbandonMail(w) \/ MailEscapes(w)
  <2>1. CASE UNCHANGED hostVars
    BY <2>1, HostUnchanged
  <2>2. CASE \E w \in Worker : Host!BeginPass(w) \/ Host!EndPass(w) \/ Host!AbandonPass(w)
    BY <2>2, PassSafe
  <2>3. QED
    BY <1>1, <1>2, <2>1, <2>2 DEF RelayStep, Fetch, Start, Consume, HandlerRaises, MarkPublished,
       RelayCommits, AbandonRelay, RelayRollsBack, MailStep, MailScan, MailLock, MailAccepted,
       MailRefused, MailStamped, MailRelease, MailPassEnds, AbandonMail, MailEscapes, Step
<1>3. CASE \E w \in Worker : Supervise(w)
  BY <1>3, SuperviseSafe DEF Supervise
<1>4. CASE \E p \in Process : RequestStop(p) \/ Replace(p) \/ Crash(p)
  BY <1>4, StopSafe, FreshSafe DEF RequestStop, Replace, Crash, Host!Replace
<1>5. CASE \/ DeleteProject \/ UNCHANGED vars
           \/ \E e \in Event : Emit(e) \/ BackoffEnds(e) \/ LeaseLapses(e)
  <2>1. UNCHANGED hostVars
    BY <1>5 DEF DeleteProject, Emit, BackoffEnds, LeaseLapses, vars, hostVars
  <2>2. QED
    BY <2>1, HostUnchanged
<1>6. QED
  BY <1>2, <1>3, <1>4, <1>5 DEF Next

LEMMA HostInit == Init => HostInv
BY DeliveryAssumption DEF Init, Host!Init, HostInv, Host!TypeOK, Host!NeverQuietlyAbsent, Host!Phase,
   Host!Over

\* The phases of the worker host and its workers agree in every reachable state.
THEOREM HostInductive == Spec => []HostInv
  BY HostInit, HostStepSafe, PTL DEF Spec

\* No worker is quietly absent: one that has no supervision task any more was stopped
\* with its process, or escalated.
THEOREM AbsenceIsLoud == Spec => []Host!NeverQuietlyAbsent
<1>1. HostInv => Host!NeverQuietlyAbsent
  BY DEF HostInv
<1>2. QED
  BY <1>1, HostInductive, PTL
-----------------------------------------------------------------------------
(***************************************************************************)
(* The mailer.                                                             *)
(***************************************************************************)
MailState == [delivered : BOOLEAN, failed : BOOLEAN, attempts : 0..MaxAttempts, due : BOOLEAN]

MailTyped ==
  /\ mail \in [Event -> MailState]
  /\ sent \in [Event -> Nat]
  /\ claims \in [Mailer -> Seq(Claim)]
  /\ at \in [Mailer -> {"next", "locked", "sent", "release"}]
  /\ Locks!TypeOK

\* A mail that has not failed for good has attempts left, now and when it was scanned.
AttemptsLeft ==
  /\ \A e \in Event : ~mail[e].failed => mail[e].attempts < MaxAttempts
  /\ \A w \in Mailer : \A i \in 1..Len(claims[w]) : claims[w][i].attempts < MaxAttempts

\* A mailer is with a row only in a pass that has rows left.
IdleBetween ==
  \A w \in Mailer : phase[w] # "passing" \/ claims[w] = <<>> => at[w] = "next"

\* A mailer that is about to stamp a row has sent its mail.
SentFirst == \A w \in Mailer : at[w] = "sent" => sent[Current(w)] > 0

MailInv == MailTyped /\ AttemptsLeft /\ IdleBetween /\ SentFirst /\ NoMailLost
-----------------------------------------------------------------------------
LEMMA LocksTyped ==
  ASSUME MailTyped, NEW k, NEW w \in Mailer,
         Locks!Take(k, w) \/ Locks!Drop(k, w) \/ Locks!Lapse({k}) \/ UNCHANGED leaseVars
  PROVE  Locks!TypeOK'
BY DEF MailTyped, Locks!TypeOK, Locks!Take, Locks!Drop, Locks!Lapse, Locks!leaseVars, leaseVars

LEMMA ReachesTyped ==
  ASSUME MailTyped, NEW w \in Mailer, NEW l \in {"next", "locked", "sent", "release"}, Reaches(w, l)
  PROVE  /\ at' \in [Mailer -> {"next", "locked", "sent", "release"}] /\ at'[w] = l
         /\ \A v \in Mailer \ {w} : at'[v] = at[v]
BY DEF MailTyped, Reaches

\* The row a mailer is with, and the rows after it.
LEMMA CurrentTyped ==
  ASSUME MailTyped, AttemptsLeft, NEW w \in Mailer, claims[w] # <<>>
  PROVE  /\ Current(w) \in Event
         /\ claims[w][1].attempts \in 0..MaxAttempts /\ claims[w][1].attempts < MaxAttempts
         /\ Tail(claims[w]) \in Seq(Claim)
         /\ \A i \in 1..Len(Tail(claims[w])) : Tail(claims[w])[i].attempts < MaxAttempts
<1>1. claims[w] \in Seq(Claim)
  BY DEF MailTyped
<1>2. Len(claims[w]) \in Nat /\ Len(claims[w]) > 0
  BY <1>1
<1>3. 1 \in 1..Len(claims[w]) /\ claims[w][1] \in Claim
  BY <1>1, <1>2
<1>4. claims[w][1].id \in Event /\ claims[w][1].attempts \in 0..MaxAttempts
  BY <1>3 DEF Claim
<1>5. /\ Tail(claims[w]) \in Seq(Claim) /\ Len(Tail(claims[w])) = Len(claims[w]) - 1
      /\ \A i \in 1..Len(Tail(claims[w])) : Tail(claims[w])[i] = claims[w][i + 1]
  BY <1>1, <1>2
<1>6. \A i \in 1..Len(Tail(claims[w])) : i + 1 \in 1..Len(claims[w])
  BY <1>2, <1>5
<1>7. QED
  BY <1>3, <1>4, <1>5, <1>6 DEF Current, AttemptsLeft

\* No mail changes, and whoever is about to stamp was so before.
LEMMA NoMailSafe ==
  ASSUME MailInv, UNCHANGED mailVars, Locks!TypeOK',
         claims' \in [Mailer -> Seq(Claim)],
         at' \in [Mailer -> {"next", "locked", "sent", "release"}],
         \A w \in Mailer :
           /\ \A i \in 1..Len(claims'[w]) : claims'[w][i].attempts < MaxAttempts
           /\ phase'[w] # "passing" \/ claims'[w] = <<>> => at'[w] = "next"
           /\ at'[w] = "sent" => at[w] = "sent" /\ claims'[w] = claims[w]
  PROVE  MailInv'
<1> USE DEF MailInv
<1>1. UNCHANGED <<mail, sent>>
  BY DEF mailVars
<1>2. MailTyped' /\ NoMailLost'
  BY <1>1 DEF MailTyped, NoMailLost
<1>3. AttemptsLeft'
  BY <1>1 DEF AttemptsLeft
<1>4. IdleBetween'
  BY DEF IdleBetween
<1>5. SentFirst'
  BY <1>1 DEF SentFirst, Current
<1>6. QED
  BY <1>2, <1>3, <1>4, <1>5

\* Mailers are left alone, and their passes go on.
LEMMA MailUnchanged ==
  ASSUME MailInv, UNCHANGED <<mail, sent, claims, at>>, Locks!TypeOK',
         \A w \in Mailer : phase[w] = "passing" => phase'[w] = "passing"
  PROVE  MailInv'
<1>1. UNCHANGED mailVars
  BY DEF mailVars
<1>2. QED
  BY <1>1, NoMailSafe DEF MailInv, MailTyped, AttemptsLeft, IdleBetween

LEMMA FunctionIsSeq ==
  ASSUME NEW T, NEW n \in Nat, NEW s \in [1..n -> T]
  PROVE  s \in Seq(T) /\ Len(s) = n
OBVIOUS

\* The scan.
LEMMA ScanSafe ==
  ASSUME MailInv, HostInv, NEW w \in Mailer, MailScan(w)
  PROVE  MailInv'
<1> USE DEF MailInv
<1> DEFINE S == {e \in Event : Deliverable(e)}
<1>1. PICK s \in ClaimsOf(S) : claims' = [claims EXCEPT ![w] = s]
  BY DEF MailScan
<1>2. UNCHANGED <<mailVars, at, leaseVars>>
  BY DEF MailScan
<1>3. Cardinality(S) \in Nat
  BY DeliveryAssumption, FS_Subset, FS_CardinalityType
<1>4. s \in [1..Cardinality(S) -> Claim]
  BY <1>1 DEF ClaimsOf
<1>5. s \in Seq(Claim) /\ Len(s) = Cardinality(S)
  BY <1>3, <1>4, FunctionIsSeq
<1>6. \A i \in 1..Len(s) : s[i].attempts < MaxAttempts
  <2>1. \A i \in 1..Cardinality(S) : s[i].id \in S /\ s[i].attempts = mail[s[i].id].attempts
    BY <1>1 DEF ClaimsOf
  <2>2. \A e \in S : mail[e].attempts < MaxAttempts
    BY DEF Deliverable, AttemptsLeft
  <2>3. QED
    BY <1>5, <2>1, <2>2
<1>7. /\ claims' \in [Mailer -> Seq(Claim)] /\ claims'[w] = s
      /\ \A v \in Mailer \ {w} : claims'[v] = claims[v]
  BY <1>1, <1>5 DEF MailTyped
<1>8. /\ phase[w] = "waiting" /\ phase'[w] = "passing"
      /\ \A v \in Mailer \ {w} : phase'[v] = phase[v]
  BY PassSafe DEF MailScan, Worker
<1>9. at[w] = "next"
  BY <1>8 DEF IdleBetween
<1>10. Locks!TypeOK' /\ at' \in [Mailer -> {"next", "locked", "sent", "release"}]
  BY <1>2, LocksTyped DEF MailTyped
<1>11. \A v \in Mailer :
         /\ \A i \in 1..Len(claims'[v]) : claims'[v][i].attempts < MaxAttempts
         /\ phase'[v] # "passing" \/ claims'[v] = <<>> => at'[v] = "next"
         /\ at'[v] = "sent" => at[v] = "sent" /\ claims'[v] = claims[v]
  BY <1>2, <1>6, <1>7, <1>8, <1>9 DEF AttemptsLeft, IdleBetween
<1>12. QED
  BY <1>2, <1>7, <1>10, <1>11, NoMailSafe
\* Taking the lease of the next row, or passing it over.
LEMMA MailLockSafe ==
  ASSUME MailInv, NEW w \in Mailer, MailLock(w)
  PROVE  MailInv'
<1> USE DEF MailInv
<1>1. /\ phase[w] = "passing" /\ claims[w] # <<>> /\ at[w] = "next"
      /\ UNCHANGED <<mailVars, phase>>
  BY DEF MailLock, Step, hostVars
<1>2. CASE Locks!Take(Current(w), w) /\ Reaches(w, "locked") /\ UNCHANGED claims
  <2>1. Locks!TypeOK'
    BY <1>2, LocksTyped
  <2>2. /\ at' \in [Mailer -> {"next", "locked", "sent", "release"}] /\ at'[w] = "locked"
        /\ \A v \in Mailer \ {w} : at'[v] = at[v]
    BY <1>2, ReachesTyped
  <2>3. \A v \in Mailer :
          /\ \A i \in 1..Len(claims'[v]) : claims'[v][i].attempts < MaxAttempts
          /\ phase'[v] # "passing" \/ claims'[v] = <<>> => at'[v] = "next"
          /\ at'[v] = "sent" => at[v] = "sent" /\ claims'[v] = claims[v]
    BY <1>1, <1>2, <2>2 DEF AttemptsLeft, IdleBetween
  <2>4. QED
    BY <1>1, <1>2, <2>1, <2>2, <2>3, NoMailSafe DEF MailTyped
<1>3. CASE claims' = [claims EXCEPT ![w] = Tail(claims[w])] /\ UNCHANGED <<at, leaseVars>>
  <2>1. Locks!TypeOK'
    BY <1>3, LocksTyped
  <2>2. /\ claims' \in [Mailer -> Seq(Claim)] /\ claims'[w] = Tail(claims[w])
        /\ \A v \in Mailer \ {w} : claims'[v] = claims[v]
    BY <1>1, <1>3, CurrentTyped DEF MailTyped
  <2>3. \A v \in Mailer :
          /\ \A i \in 1..Len(claims'[v]) : claims'[v][i].attempts < MaxAttempts
          /\ phase'[v] # "passing" \/ claims'[v] = <<>> => at'[v] = "next"
          /\ at'[v] = "sent" => at[v] = "sent" /\ claims'[v] = claims[v]
    BY <1>1, <1>3, <2>2, CurrentTyped DEF AttemptsLeft, IdleBetween
  <2>4. QED
    BY <1>1, <1>3, <2>1, <2>2, <2>3, NoMailSafe DEF MailTyped
<1>4. QED
  BY <1>2, <1>3 DEF MailLock

\* Sending: the transport takes the mail or refuses it, and a mail taken is stamped.
LEMMA SendSafe ==
  ASSUME MailInv, NEW w \in Mailer, MailAccepted(w) \/ MailRefused(w) \/ MailStamped(w)
  PROVE  MailInv'
<1> USE DEF MailInv
<1> DEFINE e == Current(w)
<1>1. /\ phase[w] = "passing" /\ claims[w] # <<>>
      /\ UNCHANGED <<claims, holder, live, phase>>
  BY DEF MailAccepted, MailRefused, MailStamped, Step, hostVars, leaseVars
<1>2. e \in Event
  BY <1>1, CurrentTyped
<1>3. PICK l \in {"sent", "release"} : Reaches(w, l) /\ (l = "sent" <=> MailAccepted(w))
  <2>1. ~MailAccepted(w) => Reaches(w, "release")
    BY DEF MailRefused, MailStamped
  <2>2. MailAccepted(w) => Reaches(w, "sent")
    BY DEF MailAccepted
  <2>3. QED
    BY <2>1, <2>2
<1>4. /\ at' \in [Mailer -> {"next", "locked", "sent", "release"}] /\ at'[w] = l
      /\ \A v \in Mailer \ {w} : at'[v] = at[v]
  BY <1>3, ReachesTyped
<1>5. IdleBetween'
  BY <1>1, <1>4 DEF IdleBetween
<1>6. Locks!TypeOK'
  BY <1>1, LocksTyped DEF leaseVars
<1>7. CASE MailAccepted(w)
  <2>1. sent' = [sent EXCEPT ![e] = sent[e] + 1] /\ UNCHANGED mail
    BY <1>7 DEF MailAccepted
  <2>2. /\ sent' \in [Event -> Nat] /\ sent'[e] > 0
        /\ \A d \in Event : sent[d] > 0 => sent'[d] > 0
    <3>1. sent \in [Event -> Nat] /\ sent[e] \in Nat
      BY <1>2 DEF MailTyped
    <3>2. sent' \in [Event -> Nat] /\ sent'[e] = sent[e] + 1
          /\ \A d \in Event \ {e} : sent'[d] = sent[d]
      BY <1>2, <2>1, <3>1
    <3>3. QED
      BY <3>1, <3>2
  <2>3. MailTyped' /\ AttemptsLeft' /\ NoMailLost'
    BY <1>1, <1>4, <1>6, <2>1, <2>2 DEF MailTyped, AttemptsLeft, NoMailLost
  <2>4. SentFirst'
    <3> SUFFICES ASSUME NEW v \in Mailer, at'[v] = "sent"
                 PROVE  sent'[claims[v][1].id] > 0
      BY <1>1 DEF SentFirst, Current
    <3>1. CASE v = w
      BY <2>2, <3>1 DEF Current
    <3>2. CASE v # w
      <4>1. at[v] = "sent" /\ claims[v] # <<>>
        BY <1>4, <3>2 DEF IdleBetween
      <4>2. Current(v) \in Event /\ sent[Current(v)] > 0
        BY <4>1, CurrentTyped DEF SentFirst
      <4>3. QED
        BY <2>2, <4>2 DEF Current
    <3>3. QED
      BY <3>1, <3>2
  <2>5. QED
    BY <1>5, <2>3, <2>4
<1>8. CASE ~MailAccepted(w)
  <2>1. PICK s \in MailState :
          /\ mail' = [mail EXCEPT ![e] = s] /\ UNCHANGED sent
          /\ s.delivered => mail[e].delivered \/ sent[e] > 0
          /\ ~s.failed => s.attempts < MaxAttempts
    <3>1. mail[e] \in MailState /\ (~mail[e].failed => mail[e].attempts < MaxAttempts)
      BY <1>2 DEF MailTyped, AttemptsLeft
    <3>2. CASE MailStamped(w)
      <4> DEFINE s == [mail[e] EXCEPT !.delivered = TRUE]
      <4>1. mail' = [mail EXCEPT ![e] = s] /\ UNCHANGED sent /\ sent[e] > 0
        BY <3>2 DEF MailStamped, Step, SentFirst
      <4>2. s \in MailState /\ s.failed = mail[e].failed /\ s.attempts = mail[e].attempts
        BY <3>1 DEF MailState
      <4>3. QED
        BY <3>1, <4>1, <4>2
    <3>3. CASE MailRefused(w)
      <4>1. PICK permanent \in BOOLEAN :
              LET n == claims[w][1].attempts + 1
                  failed == permanent \/ n >= MaxAttempts
              IN mail' = [mail EXCEPT ![e] = [delivered |-> mail[e].delivered, failed |-> failed,
                                              attempts |-> n, due |-> failed]]
        BY <3>3 DEF MailRefused
      <4> DEFINE n == claims[w][1].attempts + 1
      <4> DEFINE failed == permanent \/ n >= MaxAttempts
      <4> DEFINE s == [delivered |-> mail[e].delivered, failed |-> failed,
                       attempts |-> n, due |-> failed]
      <4>2. n \in 0..MaxAttempts
        BY <1>1, CurrentTyped, DeliveryAssumption
      <4>3. failed \in BOOLEAN /\ (~failed => n < MaxAttempts)
        BY <4>2, DeliveryAssumption
      <4>4. mail[e].delivered \in BOOLEAN
        BY <3>1 DEF MailState
      <4>5. s \in MailState
        BY <4>2, <4>3, <4>4 DEF MailState
      <4>6. mail' = [mail EXCEPT ![e] = s] /\ UNCHANGED sent
        BY <3>3, <4>1 DEF MailRefused
      <4>7. QED
        BY <4>3, <4>5, <4>6
    <3>4. QED
      BY <1>8, <3>2, <3>3
  <2>2. /\ mail' \in [Event -> MailState] /\ mail'[e] = s
        /\ \A d \in Event \ {e} : mail'[d] = mail[d]
    BY <1>2, <2>1 DEF MailTyped
  <2>3. MailTyped'
    BY <1>1, <1>4, <1>6, <2>1, <2>2 DEF MailTyped
  <2>4. AttemptsLeft'
    BY <1>1, <2>1, <2>2 DEF AttemptsLeft
  <2>5. NoMailLost'
    BY <1>2, <2>1, <2>2 DEF NoMailLost
  <2>6. SentFirst'
    <3>1. \A v \in Mailer : at'[v] = "sent" => at[v] = "sent"
      BY <1>3, <1>4, <1>8
    <3>2. QED
      BY <1>1, <2>1, <3>1 DEF SentFirst, Current
  <2>7. QED
    BY <1>5, <2>3, <2>4, <2>5, <2>6
<1>9. QED
  BY <1>7, <1>8

\* Leaving a row: released, escaped from, or given up with the rest of the pass.
LEMMA LeaveSafe ==
  ASSUME MailInv, HostInv, NEW w \in Mailer,
         MailRelease(w) \/ MailEscapes(w) \/ AbandonMail(w) \/ MailPassEnds(w)
  PROVE  MailInv'
<1> USE DEF MailInv
<1>1. UNCHANGED mailVars
  BY DEF MailRelease, MailEscapes, AbandonMail, MailPassEnds, DataKept
<1>2. \A v \in Mailer \ {w} : phase'[v] = phase[v]
  BY PassSafe DEF MailRelease, MailEscapes, AbandonMail, MailPassEnds, Step, hostVars, Worker
<1>3. Locks!TypeOK'
  BY LocksTyped DEF MailRelease, MailEscapes, AbandonMail, MailPassEnds
<1>4. CASE MailRelease(w)
  <2>1. /\ claims[w] # <<>> /\ claims' = [claims EXCEPT ![w] = Tail(claims[w])] /\ Reaches(w, "next")
    BY <1>4 DEF MailRelease, Step
  <2>2. /\ claims' \in [Mailer -> Seq(Claim)] /\ claims'[w] = Tail(claims[w])
        /\ \A v \in Mailer \ {w} : claims'[v] = claims[v]
    BY <2>1, CurrentTyped DEF MailTyped
  <2>3. /\ at' \in [Mailer -> {"next", "locked", "sent", "release"}] /\ at'[w] = "next"
        /\ \A v \in Mailer \ {w} : at'[v] = at[v]
    BY <2>1, ReachesTyped
  <2>4. \A v \in Mailer :
          /\ \A i \in 1..Len(claims'[v]) : claims'[v][i].attempts < MaxAttempts
          /\ phase'[v] # "passing" \/ claims'[v] = <<>> => at'[v] = "next"
          /\ at'[v] = "sent" => at[v] = "sent" /\ claims'[v] = claims[v]
    BY <1>2, <2>1, <2>2, <2>3, CurrentTyped DEF AttemptsLeft, IdleBetween
  <2>5. QED
    BY <1>1, <1>3, <2>2, <2>3, <2>4, NoMailSafe
<1>5. CASE MailEscapes(w)
  <2>1. /\ phase[w] = "passing" /\ claims[w] # <<>> /\ Reaches(w, "release")
        /\ UNCHANGED <<claims, phase>>
    BY <1>5 DEF MailEscapes, Step, hostVars
  <2>2. /\ at' \in [Mailer -> {"next", "locked", "sent", "release"}] /\ at'[w] = "release"
        /\ \A v \in Mailer \ {w} : at'[v] = at[v]
    BY <2>1, ReachesTyped
  <2>3. \A v \in Mailer :
          /\ \A i \in 1..Len(claims'[v]) : claims'[v][i].attempts < MaxAttempts
          /\ phase'[v] # "passing" \/ claims'[v] = <<>> => at'[v] = "next"
          /\ at'[v] = "sent" => at[v] = "sent" /\ claims'[v] = claims[v]
    BY <2>1, <2>2 DEF AttemptsLeft, IdleBetween
  <2>4. QED
    BY <1>1, <1>3, <2>1, <2>2, <2>3, NoMailSafe DEF MailTyped
<1>6. CASE AbandonMail(w)
  <2>1. claims' = [claims EXCEPT ![w] = <<>>] /\ Reaches(w, "next")
    BY <1>6 DEF AbandonMail, GivesUp
  <2>2. /\ claims' \in [Mailer -> Seq(Claim)] /\ claims'[w] = <<>>
        /\ \A v \in Mailer \ {w} : claims'[v] = claims[v]
    <3>1. <<>> \in Seq(Claim)
      OBVIOUS
    <3>2. QED
      BY <2>1, <3>1 DEF MailTyped
  <2>3. /\ at' \in [Mailer -> {"next", "locked", "sent", "release"}] /\ at'[w] = "next"
        /\ \A v \in Mailer \ {w} : at'[v] = at[v]
    BY <2>1, ReachesTyped
  <2>4. \A v \in Mailer :
          /\ \A i \in 1..Len(claims'[v]) : claims'[v][i].attempts < MaxAttempts
          /\ phase'[v] # "passing" \/ claims'[v] = <<>> => at'[v] = "next"
          /\ at'[v] = "sent" => at[v] = "sent" /\ claims'[v] = claims[v]
    <3>1. \A v \in Mailer \ {w} :
            /\ claims'[v] = claims[v] /\ at'[v] = at[v] /\ phase'[v] = phase[v]
            /\ \A i \in 1..Len(claims[v]) : claims[v][i].attempts < MaxAttempts
            /\ phase[v] # "passing" \/ claims[v] = <<>> => at[v] = "next"
      BY <1>2, <2>2, <2>3 DEF AttemptsLeft, IdleBetween
    <3>2. \A i \in 1..Len(claims'[w]) : FALSE
      BY <2>2
    <3>3. QED
      BY <2>3, <3>1, <3>2
  <2>5. QED
    BY <1>1, <1>3, <2>2, <2>3, <2>4, NoMailSafe
<1>7. CASE MailPassEnds(w)
  <2>1. claims[w] = <<>> /\ UNCHANGED <<claims, at>>
    BY <1>7 DEF MailPassEnds, mailerVars
  <2>2. \A v \in Mailer :
          /\ \A i \in 1..Len(claims'[v]) : claims'[v][i].attempts < MaxAttempts
          /\ phase'[v] # "passing" \/ claims'[v] = <<>> => at'[v] = "next"
          /\ at'[v] = "sent" => at[v] = "sent" /\ claims'[v] = claims[v]
    BY <1>2, <2>1 DEF AttemptsLeft, IdleBetween
  <2>3. QED
    BY <1>1, <1>3, <2>1, <2>2, NoMailSafe DEF MailTyped
<1>8. QED
  BY <1>4, <1>5, <1>6, <1>7

\* A backoff is over.
LEMMA BackoffSafe ==
  ASSUME MailInv, NEW e \in Event, BackoffEnds(e)
  PROVE  MailInv'
<1> USE DEF MailInv
<1> DEFINE s == [mail[e] EXCEPT !.due = TRUE]
<1>1. /\ mail' = [mail EXCEPT ![e] = s]
      /\ UNCHANGED <<sent, claims, at, phase, holder, live>>
  BY DEF BackoffEnds, mailerVars, hostVars, leaseVars
<1>2. mail[e] \in MailState
  BY DEF MailTyped
<1>3. /\ s \in MailState /\ s.failed = mail[e].failed /\ s.attempts = mail[e].attempts
      /\ s.delivered = mail[e].delivered
  BY <1>2 DEF MailState
<1>4. mail' \in [Event -> MailState] /\ mail'[e] = s /\ \A d \in Event \ {e} : mail'[d] = mail[d]
  BY <1>1, <1>3 DEF MailTyped
<1>5. Locks!TypeOK'
  BY <1>1 DEF MailTyped, Locks!TypeOK
<1>6. MailTyped' /\ AttemptsLeft' /\ NoMailLost'
  BY <1>1, <1>3, <1>4, <1>5 DEF MailTyped, AttemptsLeft, NoMailLost
<1>7. IdleBetween' /\ SentFirst'
  BY <1>1 DEF IdleBetween, SentFirst, Current
<1>8. QED
  BY <1>6, <1>7

\* A process is killed.
LEMMA CrashSafe ==
  ASSUME MailInv, HostInv, NEW p \in Process, Crash(p)
  PROVE  MailInv'
<1> USE DEF MailInv
<1> DEFINE D == Host!Workers(p)
<1>1. /\ claims' = [w \in Mailer |-> IF w \in D THEN <<>> ELSE claims[w]]
      /\ at' = [w \in Mailer |-> IF w \in D THEN "next" ELSE at[w]]
      /\ UNCHANGED <<mailVars, leaseVars>>
  BY DEF Crash, DataKept
<1>2. \A w \in Mailer \ D : phase'[w] = phase[w]
  BY FreshSafe DEF Crash, Worker
<1> HIDE DEF D
<1>3. Locks!TypeOK'
  BY <1>1 DEF MailTyped, Locks!TypeOK, leaseVars
<1>4. /\ claims' \in [Mailer -> Seq(Claim)]
      /\ at' \in [Mailer -> {"next", "locked", "sent", "release"}]
  <2>1. <<>> \in Seq(Claim)
    OBVIOUS
  <2>2. QED
    BY <1>1, <2>1 DEF MailTyped
<1>5. \A v \in Mailer :
        /\ \A i \in 1..Len(claims'[v]) : claims'[v][i].attempts < MaxAttempts
        /\ phase'[v] # "passing" \/ claims'[v] = <<>> => at'[v] = "next"
        /\ at'[v] = "sent" => at[v] = "sent" /\ claims'[v] = claims[v]
  <2> SUFFICES ASSUME NEW v \in Mailer
               PROVE  /\ \A i \in 1..Len(claims'[v]) : claims'[v][i].attempts < MaxAttempts
                      /\ phase'[v] # "passing" \/ claims'[v] = <<>> => at'[v] = "next"
                      /\ at'[v] = "sent" => at[v] = "sent" /\ claims'[v] = claims[v]
    OBVIOUS
  <2>1. CASE v \in D
    BY <1>1, <2>1
  <2>2. CASE v \notin D
    BY <1>1, <1>2, <2>2 DEF AttemptsLeft, IdleBetween
  <2>3. QED
    BY <2>1, <2>2
<1>6. QED
  BY <1>1, <1>3, <1>4, <1>5, NoMailSafe
-----------------------------------------------------------------------------
LEMMA MailStepSafe ==
  ASSUME MailInv, HostInv, [Next]_vars
  PROVE  MailInv'
<1>1. CASE \E w \in Mailer : MailStep(w) \/ AbandonMail(w) \/ MailEscapes(w)
  BY <1>1, ScanSafe, MailLockSafe, SendSafe, LeaveSafe DEF MailStep
<1>2. CASE \E e \in Event : BackoffEnds(e)
  BY <1>2, BackoffSafe
<1>3. CASE \E p \in Process : Crash(p)
  BY <1>3, CrashSafe
<1>4. CASE \/ UNCHANGED vars \/ DeleteProject
           \/ \E e \in Event : Emit(e) \/ LeaseLapses(e)
           \/ \E w \in Relay : RelayStep(w) \/ AbandonRelay(w) \/ RelayRollsBack(w)
           \/ \E w \in Worker : Supervise(w)
           \/ \E p \in Process : RequestStop(p) \/ Replace(p)
  <2>1. UNCHANGED <<mail, sent, claims, at>>
    BY <1>4 DEF vars, DeleteProject, Emit, LeaseLapses, RelayStep, Fetch, Start, Consume, HandlerRaises,
       MarkPublished, RelayCommits, AbandonRelay, RelayRollsBack, Supervise, RequestStop, Replace,
       RelayOnly, DataKept, mailVars, mailerVars
  <2>2. Locks!TypeOK'
    <3>1. UNCHANGED leaseVars \/ \E e \in Event : LeaseLapses(e)
      BY <1>4 DEF vars, DeleteProject, Emit, RelayStep, Fetch, Start, Consume, HandlerRaises,
         MarkPublished, RelayCommits, AbandonRelay, RelayRollsBack, Supervise, RequestStop, Replace,
         RelayOnly
    <3>2. QED
      BY <3>1 DEF LeaseLapses, MailInv, MailTyped, Locks!TypeOK, Locks!Lapse, leaseVars
  <2>3. \A w \in Mailer : phase[w] = "passing" => phase'[w] = "passing"
    <3>1. Mailer \subseteq Worker /\ Relay \subseteq Worker /\ Mailer \cap Relay = {}
      BY DeliveryAssumption DEF Worker
    <3>2. CASE \E w \in Worker : Supervise(w)
      BY <3>1, <3>2, SuperviseSafe DEF Supervise
    <3>3. CASE \E p \in Process : RequestStop(p)
      BY <3>3, StopSafe DEF RequestStop
    <3>4. CASE \E p \in Process : Replace(p)
      <4>1. PICK p \in Process : Host!Fresh(p) /\ \A w \in Host!Workers(p) : phase[w] \in Host!Over
        BY <3>4 DEF Replace, Host!Replace
      <4>2. QED
        BY <3>1, <4>1, FreshSafe DEF Host!Over
    <3>5. CASE \E w \in Relay : RelayStep(w) \/ AbandonRelay(w) \/ RelayRollsBack(w)
      <4>1. PICK w \in Relay :
              \/ UNCHANGED hostVars
              \/ Host!BeginPass(w) \/ Host!EndPass(w) \/ Host!AbandonPass(w)
        BY <3>5 DEF RelayStep, Fetch, Start, Consume, HandlerRaises, MarkPublished, RelayCommits,
           AbandonRelay, RelayRollsBack
      <4>2. CASE UNCHANGED hostVars
        BY <4>2 DEF hostVars
      <4>3. CASE Host!BeginPass(w) \/ Host!EndPass(w) \/ Host!AbandonPass(w)
        BY <3>1, <4>3, PassSafe
      <4>4. QED
        BY <4>1, <4>2, <4>3
    <3>6. CASE \/ UNCHANGED vars \/ DeleteProject
               \/ \E e \in Event : Emit(e) \/ LeaseLapses(e)
      BY <3>6 DEF vars, DeleteProject, Emit, LeaseLapses, hostVars
    <3>7. QED
      BY <1>4, <3>2, <3>3, <3>4, <3>5, <3>6
  <2>4. QED
    BY <2>1, <2>2, <2>3, MailUnchanged
<1>5. QED
  BY <1>1, <1>2, <1>3, <1>4 DEF Next

LEMMA MailInit == Init => MailInv
<1> SUFFICES ASSUME Init PROVE MailInv
  OBVIOUS
<1>1. 0 \in 0..MaxAttempts /\ 0 < MaxAttempts
  BY DeliveryAssumption
<1>2. NoMail \in MailState /\ ~NoMail.delivered /\ NoMail.attempts = 0
  BY <1>1 DEF NoMail, MailState
<1>3. claims \in [Mailer -> Seq(Claim)] /\ \A w \in Mailer : Len(claims[w]) = 0
  <2>1. <<>> \in Seq(Claim) /\ Len(<<>>) = 0
    OBVIOUS
  <2>2. QED
    BY <2>1 DEF Init
<1>4. Locks!TypeOK
  BY DEF Init, Locks!Init, Locks!TypeOK
<1>5. MailTyped
  BY <1>2, <1>3, <1>4 DEF Init, MailTyped
<1>6. AttemptsLeft
  BY <1>1, <1>2, <1>3 DEF Init, AttemptsLeft
<1>7. IdleBetween /\ SentFirst /\ NoMailLost
  BY <1>2 DEF Init, IdleBetween, SentFirst, NoMailLost
<1>8. QED
  BY <1>5, <1>6, <1>7 DEF MailInv

\* A mailer holds one row at a time and stamps it only after the transport took it.
THEOREM MailInductive == Spec => []MailInv
  BY MailInit, MailStepSafe, HostInductive, PTL DEF Spec

\* Zero lost mail: what is stamped as delivered has been taken by the transport.
THEOREM MailIsSent == Spec => []NoMailLost
<1>1. MailInv => NoMailLost
  BY DEF MailInv
<1>2. QED
  BY <1>1, MailInductive, PTL
-----------------------------------------------------------------------------
FaultsBounded == faults \in 0..MaxFaults

LEMMA FaultsTyped ==
  ASSUME FaultsBounded, [Next]_vars
  PROVE  FaultsBounded'
<1>1. CASE Fault
  BY <1>1, DeliveryAssumption DEF Fault, FaultsBounded
<1>2. CASE UNCHANGED faults
  BY <1>2 DEF FaultsBounded
<1>3. QED
  BY <1>1, <1>2 DEF Next, vars, Emit, BackoffEnds, LeaseLapses, DeleteProject, RelayStep, Fetch, Start,
     Consume, HandlerRaises, MarkPublished, RelayCommits, AbandonRelay, RelayRollsBack, MailStep,
     MailScan, MailLock, MailAccepted, MailRefused, MailStamped, MailRelease, MailPassEnds,
     AbandonMail, MailEscapes, Supervise, RequestStop, Replace, Crash

\* Every variable keeps its type.
THEOREM DeliveryTyped == Spec => []TypeOK
<1>1. Init => FaultsBounded
  BY DeliveryAssumption DEF Init, FaultsBounded
<1>2. RelayInv /\ HostInv /\ MailInv /\ FaultsBounded => TypeOK
  <2> SUFFICES ASSUME RelayInv, HostInv, MailInv, FaultsBounded PROVE TypeOK
    OBVIOUS
  <2>1. RelayTyped /\ Host!TypeOK /\ MailTyped
    BY DEF RelayInv, HostInv, MailInv
  <2>2. /\ outbox \in [Event -> {"absent", "pending", "published"}]
        /\ attempts \in [Event -> 0..MaxAttempts]
        /\ projectGone \in BOOLEAN
        /\ rows \in [Effect -> Nat]
        /\ mark \in [Relay -> [Event -> {"free", "fetched", "handling", "published", "failed"}]]
        /\ left \in [Relay -> Seq(Effect)]
    BY <2>1, Zenon DEF RelayTyped
  <2>3. /\ mail \in [Event -> [delivered : BOOLEAN, failed : BOOLEAN,
                               attempts : 0..MaxAttempts, due : BOOLEAN]]
        /\ sent \in [Event -> Nat]
        /\ claims \in [Mailer -> Seq(Claim)]
        /\ at \in [Mailer -> {"next", "locked", "sent", "release"}]
        /\ Locks!TypeOK
    BY <2>1, Zenon DEF MailTyped, MailState
  <2>4. QED
    BY <2>1, <2>2, <2>3, Zenon DEF TypeOK, FaultsBounded
<1>3. QED
  BY <1>1, <1>2, FaultsTyped, RelayInductive, HostInductive, MailInductive, PTL DEF Spec
=============================================================================
