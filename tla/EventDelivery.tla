--------------------------- MODULE EventDelivery ---------------------------
(***************************************************************************)
(* From the outbox to the creator: the relay and the consumers of its      *)
(* events (use_cases/relay, in_process_publisher.py, the ingestion,        *)
(* notification and analytics projections), and the e-mail worker over the *)
(* notifications they create, as passes of the workers of WorkerHost.      *)
(*                                                                         *)
(* A relay pass is one transaction over a batch of locked outbox rows, but *)
(* each consumer commits in a transaction of its own while it is open.     *)
(***************************************************************************)
EXTENDS Naturals, Sequences, FiniteSets

CONSTANTS
  Event,        \* outbox rows: numbers, in the order of occurred_at
  KindOf,       \* KindOf[e]: what e announces
  Artifacts,    \* how many artifacts the steps of a succeeded run name
  Process, ProcessOf, MaxRestarts,
  Relay,        \* the relay workers
  Mailer,       \* the e-mail workers
  BatchSize,    \* batch_size of a relay pass
  MaxAttempts,  \* the relay parks an event, and e-mail gives up, at this count
  Nobody,       \* no lease row
  MaxFaults     \* bound on crashes, stops, failing passes and overrun leases

Worker == Relay \cup Mailer
Kind == {"run_succeeded", "export_settled", "publish_settled", "job_created", "other"}

ASSUME DeliveryAssumption ==
  /\ Event \subseteq Nat /\ IsFiniteSet(Event) /\ Artifacts \in Nat
  /\ KindOf \in [Event -> Kind]
  /\ Relay \cap Mailer = {} /\ Nobody \notin Worker
  /\ ProcessOf \in [Worker -> Process]
  /\ BatchSize \in Nat \ {0} /\ MaxAttempts \in Nat \ {0}
  /\ MaxRestarts \in Nat /\ MaxFaults \in Nat

VARIABLES
  outbox,       \* outbox[e]: "absent", "pending" or "published"
  attempts,     \* attempts[e]: failed publishes of e
  projectGone,  \* the project of the succeeded runs is soft-deleted
  rows,         \* rows[x]: how many rows effect x has put in the database
  mark,         \* mark[w][e]: what relay w's open transaction holds of row e
  left,         \* left[w]: effects that remain of the event w is publishing
  mail,         \* mail[e]: the e-mail state of the notification of e
  sent,         \* sent[e]: how often the transport accepted that mail
  claims, at,   \* the rest of a mailer's scan, and where it is with the first
  phase, restarts, stopping,   \* WorkerHost
  holder, live,                \* Lease
  faults

outboxVars == <<outbox, attempts>>
relayVars == <<mark, left>>
mailVars == <<mail, sent>>
mailerVars == <<claims, at>>
hostVars == <<phase, restarts, stopping>>
leaseVars == <<holder, live>>
vars == <<outboxVars, projectGone, rows, relayVars, mailVars, mailerVars,
          hostVars, leaseVars, faults>>

Host == INSTANCE WorkerHost
Locks == INSTANCE Lease WITH Key <- Event, Owner <- Mailer

Effect == ({"asset"} \X (1..Artifacts)) \cup ({"notification", "analytics"} \X Event)

NoMail == [delivered |-> FALSE, failed |-> FALSE, attempts |-> 0, due |-> TRUE]

Init == /\ outbox = [e \in Event |-> "absent"]
        /\ attempts = [e \in Event |-> 0]
        /\ projectGone = FALSE
        /\ rows = [x \in Effect |-> 0]
        /\ mark = [w \in Relay |-> [e \in Event |-> "free"]]
        /\ left = [w \in Relay |-> <<>>]
        /\ mail = [e \in Event |-> NoMail]
        /\ sent = [e \in Event |-> 0]
        /\ claims = [w \in Mailer |-> <<>>]
        /\ at = [w \in Mailer |-> "next"]
        /\ Host!Init
        /\ Locks!Init
        /\ faults = 0
-----------------------------------------------------------------------------
(***************************************************************************)
(* Consumers.  The handlers run in registration order (ingestion, the two  *)
(* notification projections, analytics); one that does not apply returns.  *)
(***************************************************************************)
\* emit_*: the event is added in the transaction of the change it announces.
Emit(e) ==
  /\ outbox[e] = "absent"
  /\ outbox' = [outbox EXCEPT ![e] = "pending"]
  /\ UNCHANGED <<attempts, projectGone, rows, relayVars, mailVars, mailerVars,
                 hostVars, leaseVars, faults>>

DeleteProject ==
  /\ ~projectGone
  /\ projectGone' = TRUE
  /\ UNCHANGED <<outboxVars, rows, relayVars, mailVars, mailerVars, hostVars, leaseVars, faults>>

\* What publishing e writes, in order.  Ingestion of a deleted project is a no-op.
Ingested == [i \in 1..Artifacts |-> <<"asset", i>>]

EffectsOf(e) ==
  CASE KindOf[e] = "run_succeeded" -> IF projectGone THEN <<>> ELSE Ingested
    [] KindOf[e] \in {"export_settled", "publish_settled"} ->
         <<<<"notification", e>>, <<"analytics", e>>>>
    [] KindOf[e] = "job_created" -> <<<<"analytics", e>>>>
    [] OTHER -> <<>>

\* One consumer transaction.  The unique index on its key refuses a second row, and
\* the ConflictError counts as done.  (Mutant: no index.)
AddAgain(x) == rows' = [rows EXCEPT ![x] = @ + 1]
Add(x) == rows' = [rows EXCEPT ![x] = IF @ = 0 THEN 1 ELSE @]
-----------------------------------------------------------------------------
(***************************************************************************)
(* relay_once                                                              *)
(***************************************************************************)
Clear(w) == /\ mark' = [mark EXCEPT ![w] = [e \in Event |-> "free"]]
            /\ left' = [left EXCEPT ![w] = <<>>]
Sets(w, e, m) == mark' = [mark EXCEPT ![w][e] = m]
Held(w, m) == {e \in Event : mark[w][e] = m}
RelayOnly == UNCHANGED <<projectGone, mailVars, mailerVars, leaseVars>>

\* fetch_unpublished: FOR UPDATE SKIP LOCKED, parked rows left out, oldest first.
Ready == {e \in Event : /\ outbox[e] = "pending" /\ attempts[e] < MaxAttempts
                        /\ \A w \in Relay : mark[w][e] = "free"}

OldestOf(S, B) == /\ B \subseteq S
                  /\ Cardinality(B) <= BatchSize
                  /\ Cardinality(B) < BatchSize => B = S
                  /\ \A b \in B, r \in S \ B : b < r

Fetch(w) ==
  /\ Host!BeginPass(w)
  /\ \E B \in SUBSET Ready :
       /\ OldestOf(Ready, B)
       /\ mark' = [mark EXCEPT ![w] = [e \in Event |-> IF e \in B THEN "fetched" ELSE "free"]]
  /\ RelayOnly
  /\ UNCHANGED <<outboxVars, rows, left, faults>>

\* publish(event), in the order of the batch.
Start(w) ==
  /\ phase[w] = "passing" /\ Held(w, "handling") = {}
  /\ \E e \in Held(w, "fetched") :
       /\ \A d \in Held(w, "fetched") : e <= d
       /\ Sets(w, e, "handling")
       /\ left' = [left EXCEPT ![w] = EffectsOf(e)]
  /\ RelayOnly
  /\ UNCHANGED <<outboxVars, rows, hostVars, faults>>

Consume(w) ==
  /\ phase[w] = "passing" /\ left[w] # <<>>
  /\ Add(Head(left[w]))
  /\ left' = [left EXCEPT ![w] = Tail(@)]
  /\ RelayOnly
  /\ UNCHANGED <<outboxVars, mark, hostVars, faults>>

\* A download, the store or the database fails: the handlers that remain are not
\* called.  (Mutant: the publisher swallows what a handler raises.)
SwallowedFailure(w) ==
  /\ phase[w] = "passing" /\ left[w] # <<>>
  /\ left' = [left EXCEPT ![w] = Tail(@)]
  /\ RelayOnly
  /\ UNCHANGED <<outboxVars, rows, mark, hostVars, faults>>

HandlerRaises(w) ==
  /\ phase[w] = "passing" /\ left[w] # <<>>
  /\ \E e \in Held(w, "handling") : Sets(w, e, "failed")
  /\ left' = [left EXCEPT ![w] = <<>>]
  /\ RelayOnly
  /\ UNCHANGED <<outboxVars, rows, hostVars, faults>>

MarkPublished(w) ==
  /\ phase[w] = "passing" /\ left[w] = <<>>
  /\ \E e \in Held(w, "handling") : Sets(w, e, "published")
  /\ RelayOnly
  /\ UNCHANGED <<outboxVars, rows, left, hostVars, faults>>

\* The one commit of the pass: every mark takes effect, every row lock goes.
\* (Mutant: a failure is not counted.)
FailuresForgotten(w) == attempts
FailuresOf(w) == [e \in Event |-> attempts[e] + IF mark[w][e] = "failed" THEN 1 ELSE 0]

RelayCommits(w) ==
  /\ Held(w, "fetched") \cup Held(w, "handling") = {}
  /\ Host!EndPass(w)
  /\ outbox' = [e \in Event |-> IF mark[w][e] = "published" THEN "published" ELSE outbox[e]]
  /\ attempts' = FailuresOf(w)
  /\ Clear(w)
  /\ RelayOnly
  /\ UNCHANGED <<rows, faults>>
-----------------------------------------------------------------------------
(***************************************************************************)
(* NotificationEmailWorker and ProcessNotificationEmail                    *)
(***************************************************************************)
Claim == [id : Event, attempts : 0..MaxAttempts]
MailOnly == UNCHANGED <<outboxVars, projectGone, rows, relayVars>>

\* list_email_deliverable: what the scan saw is what the pass works with.
Deliverable(e) == /\ rows[<<"notification", e>>] > 0
                  /\ ~mail[e].delivered /\ ~mail[e].failed /\ mail[e].due

ClaimsOf(S) == {s \in [1..Cardinality(S) -> Claim] :
                  /\ {s[i].id : i \in 1..Cardinality(S)} = S
                  /\ \A i \in 1..Cardinality(S) : s[i].attempts = mail[s[i].id].attempts}

MailScan(w) ==
  /\ Host!BeginPass(w)
  /\ \E s \in ClaimsOf({e \in Event : Deliverable(e)}) : claims' = [claims EXCEPT ![w] = s]
  /\ MailOnly
  /\ UNCHANGED <<mailVars, at, leaseVars, faults>>

Reaches(w, l) == at' = [at EXCEPT ![w] = l]
Current(w) == claims[w][1].id
Step(w, l) == /\ phase[w] = "passing" /\ claims[w] # <<>> /\ at[w] = l
              /\ MailOnly
              /\ UNCHANGED hostVars

\* The lease, or the next row if another worker has it.  The row is not read again.
MailLock(w) ==
  /\ Step(w, "next")
  /\ IF Locks!Free(Current(w))
       THEN Locks!Take(Current(w), w) /\ Reaches(w, "locked") /\ UNCHANGED claims
       ELSE claims' = [claims EXCEPT ![w] = Tail(@)] /\ UNCHANGED <<at, leaseVars>>
  /\ UNCHANGED <<mailVars, faults>>

MailAccepted(w) ==
  /\ Step(w, "locked")
  /\ sent' = [sent EXCEPT ![Current(w)] = @ + 1]
  /\ Reaches(w, "sent")
  /\ UNCHANGED <<mail, claims, leaseVars, faults>>

\* The transport refuses and _record_failure replaces the e-mail state, counting on
\* from the attempts of the scan.  (Mutant: the error is swallowed and the row stamped.)
RefusedButStamped(w) ==
  /\ Step(w, "locked")
  /\ mail' = [mail EXCEPT ![Current(w)].delivered = TRUE]
  /\ Reaches(w, "release")
  /\ UNCHANGED <<sent, claims, leaseVars, faults>>

MailRefused(w) ==
  /\ Step(w, "locked")
  /\ \E permanent \in BOOLEAN :
       LET n == claims[w][1].attempts + 1
           failed == permanent \/ n >= MaxAttempts
       IN mail' = [mail EXCEPT ![Current(w)] = [delivered |-> @.delivered, failed |-> failed,
                                                attempts |-> n, due |-> failed]]
  /\ Reaches(w, "release")
  /\ UNCHANGED <<sent, claims, leaseVars, faults>>

\* Send, then stamp.
MailStamped(w) ==
  /\ Step(w, "sent")
  /\ mail' = [mail EXCEPT ![Current(w)].delivered = TRUE]
  /\ Reaches(w, "release")
  /\ UNCHANGED <<sent, claims, leaseVars, faults>>

MailRelease(w) ==
  /\ Step(w, "release")
  /\ Locks!Drop(Current(w), w)
  /\ claims' = [claims EXCEPT ![w] = Tail(@)]
  /\ Reaches(w, "next")
  /\ UNCHANGED <<mailVars, faults>>

MailPassEnds(w) ==
  /\ claims[w] = <<>>
  /\ Host!EndPass(w)
  /\ MailOnly
  /\ UNCHANGED <<mailVars, mailerVars, leaseVars, faults>>

BackoffEnds(e) ==
  /\ ~mail[e].due
  /\ mail' = [mail EXCEPT ![e].due = TRUE]
  /\ MailOnly
  /\ UNCHANGED <<sent, mailerVars, hostVars, leaseVars, faults>>
-----------------------------------------------------------------------------
(***************************************************************************)
(* The supervision of the workers, time and faults.                        *)
(***************************************************************************)
Fault == faults < MaxFaults /\ faults' = faults + 1
DataKept == UNCHANGED <<outboxVars, projectGone, rows, mailVars>>

Supervise(w) ==
  /\ \/ Host!LeaveLoop(w) /\ UNCHANGED faults
     \/ Host!SupervisorDies(w) /\ Fault
  /\ DataKept
  /\ UNCHANGED <<relayVars, mailerVars, leaseVars>>

Replace(p) ==
  /\ Host!Replace(p)
  /\ DataKept
  /\ UNCHANGED <<relayVars, mailerVars, leaseVars, faults>>

RequestStop(p) ==
  /\ Host!RequestStop(p)
  /\ Fault
  /\ DataKept
  /\ UNCHANGED <<relayVars, mailerVars, leaseVars>>

\* A pass is cancelled at its drain budget: the relay's transaction rolls back, the
\* mailer's finally block releases its lease.
AbandonRelay(w) ==
  /\ Host!AbandonPass(w)
  /\ Clear(w)
  /\ DataKept
  /\ UNCHANGED <<mailerVars, leaseVars, faults>>

GivesUp(w) == /\ claims' = [claims EXCEPT ![w] = <<>>]
              /\ Reaches(w, "next")

AbandonMail(w) ==
  /\ Host!AbandonPass(w)
  /\ GivesUp(w)
  /\ IF at[w] # "next" THEN Locks!Drop(Current(w), w) ELSE UNCHANGED leaseVars
  /\ DataKept
  /\ UNCHANGED <<relayVars, faults>>

\* The database fails under a pass of the relay, or under one row of the mailer.
RelayRollsBack(w) ==
  /\ Host!EndPass(w)
  /\ Fault
  /\ Clear(w)
  /\ DataKept
  /\ UNCHANGED <<mailerVars, leaseVars>>

MailEscapes(w) ==
  /\ \E l \in {"locked", "sent"} : Step(w, l)
  /\ Fault
  /\ Reaches(w, "release")
  /\ UNCHANGED <<mailVars, claims, leaseVars>>

\* The process is killed, and started again.
Crash(p) ==
  LET dead == Host!Workers(p) IN
  /\ Fault
  /\ Host!Fresh(p)
  /\ mark' = [w \in Relay |-> IF w \in dead THEN [e \in Event |-> "free"] ELSE mark[w]]
  /\ left' = [w \in Relay |-> IF w \in dead THEN <<>> ELSE left[w]]
  /\ claims' = [w \in Mailer |-> IF w \in dead THEN <<>> ELSE claims[w]]
  /\ at' = [w \in Mailer |-> IF w \in dead THEN "next" ELSE at[w]]
  /\ DataKept
  /\ UNCHANGED leaseVars

\* The lease of a dead mailer lapses, or (a fault) that of one still at work.
AtWork(e) == \E w \in Mailer : at[w] # "next" /\ Current(w) = e

LeaseLapses(e) ==
  /\ live[e]
  /\ Locks!Lapse({e})
  /\ IF AtWork(e) THEN Fault ELSE UNCHANGED faults
  /\ DataKept
  /\ UNCHANGED <<relayVars, mailerVars, hostVars>>
-----------------------------------------------------------------------------
RelayStep(w) == \/ Fetch(w) \/ Start(w) \/ Consume(w) \/ HandlerRaises(w)
                \/ MarkPublished(w) \/ RelayCommits(w)

MailStep(w) == \/ MailScan(w) \/ MailLock(w) \/ MailAccepted(w) \/ MailRefused(w)
               \/ MailStamped(w) \/ MailRelease(w) \/ MailPassEnds(w)

Next == \/ \E e \in Event : Emit(e) \/ BackoffEnds(e) \/ LeaseLapses(e)
        \/ DeleteProject
        \/ \E w \in Relay : RelayStep(w) \/ AbandonRelay(w) \/ RelayRollsBack(w)
        \/ \E w \in Mailer : MailStep(w) \/ AbandonMail(w) \/ MailEscapes(w)
        \/ \E w \in Worker : Supervise(w)
        \/ \E p \in Process : RequestStop(p) \/ Replace(p) \/ Crash(p)

Spec == Init /\ [][Next]_vars

\* The host keeps its loops turning and its processes are started again.
Fairness == /\ \A w \in Relay : WF_vars(RelayStep(w)) /\ WF_vars(Supervise(w))
            /\ \A w \in Mailer : WF_vars(MailStep(w)) /\ WF_vars(Supervise(w))
            /\ \A p \in Process : WF_vars(Replace(p))

FairSpec == Spec /\ Fairness
-----------------------------------------------------------------------------
(***************************************************************************)
(* Properties                                                              *)
(***************************************************************************)
\* Every variable has its type.
TypeOK ==
  /\ outbox \in [Event -> {"absent", "pending", "published"}]
  /\ attempts \in [Event -> 0..MaxAttempts]
  /\ projectGone \in BOOLEAN
  /\ rows \in [Effect -> Nat]
  /\ mark \in [Relay -> [Event -> {"free", "fetched", "handling", "published", "failed"}]]
  /\ left \in [Relay -> Seq(Effect)]
  /\ mail \in [Event -> [delivered : BOOLEAN, failed : BOOLEAN,
                         attempts : 0..MaxAttempts, due : BOOLEAN]]
  /\ sent \in [Event -> Nat]
  /\ claims \in [Mailer -> Seq(Claim)]
  /\ at \in [Mailer -> {"next", "locked", "sent", "release"}]
  /\ Host!TypeOK
  /\ Locks!TypeOK
  /\ faults \in 0..MaxFaults

\* Delivery is at least once and every consumer applies it once: passes that roll
\* back, are abandoned or crash after some handlers committed leave no second row.
ProjectedOnce == \A x \in Effect : rows[x] <= 1

\* A row stamped published has reached every consumer: no failing handler, rolled
\* back transaction or concurrent relay makes the platform skip an effect.
StampedMeansProjected ==
  \A e \in Event : outbox[e] = "published" =>
    \/ KindOf[e] = "run_succeeded" /\ projectGone
    \/ \A x \in {EffectsOf(e)[i] : i \in 1..Len(EffectsOf(e))} : rows[x] > 0

\* Zero lost mail: a notification counts as delivered only after the transport took
\* it, whatever crashes between the send and the stamp.
NoMailLost == \A e \in Event : mail[e].delivered => sent[e] > 0

\* Every event is delivered or parked in the end, unless the supervision of every
\* relay had to be escalated.
Settled(e) == outbox[e] = "published" \/ attempts[e] = MaxAttempts

EveryEventSettles ==
  \A e \in Event : outbox[e] = "pending"
                     ~> (Settled(e) \/ \A w \in Relay : phase[w] = "escalated")
=============================================================================
