-------------------------- MODULE MCEventDelivery --------------------------
(***************************************************************************)
(* The outbox on its way to its consumers, or the render and export jobs:  *)
(* each behaviour follows one of the two, the other stays as it began.     *)
(* The jobs are followed twice: the exports of one render, which a single  *)
(* worker of each kind carries out, and a backlog of two renders that two  *)
(* workers take one at a time.                                             *)
(***************************************************************************)
EXTENDS EventDelivery, MediaJobs, TLC

CONSTANTS w1, w2, p1, p2

VARIABLE part      \* what is followed

\* An event of each kind that several consumers, or a consumer and a deletion, meet.
MCKindOf == (1 :> "publish_settled") @@ (2 :> "run_succeeded")

\* The relay w1 and the mailer w2 run in one process.
MCProcessOf == [w \in Worker |-> p1]

\* A render of each project.
MCProjectOf == <<p1, p2>>

bothVars == <<part, vars, mediaVars>>

BothInit == part \in {"delivery", "exports", "backlog"} /\ Init /\ MediaInit

OfDelivery(A) == part = "delivery" /\ A /\ UNCHANGED <<part, mediaVars>>

\* There is no other render, and w2 is idle.
OfExports(A) == part = "exports" /\ A /\ UNCHANGED <<part, vars>>
                /\ status'[2] = "absent" /\ p2 \in projects' /\ todo'[w2] = {}

\* No client does anything about it, and no output is deleted.
OfBacklog(A) == part = "backlog" /\ A /\ UNCHANGED <<part, vars>>
                /\ request' = request /\ \A r \in {1, 2} : asset'[r] # "deleted"

OfJobs(A) == OfExports(A) \/ OfBacklog(A)

BothNext == OfDelivery(Next) \/ OfJobs(MediaNext)

\* The fairness of EventDelivery, and that of MediaJobs as far as renders go, with one relay
\* and one mailer.  A behaviour follows one part for ever, so that of each condition only the
\* half about that part counts.
BothFairness ==
  /\ \A w \in Relay : WF_bothVars(OfDelivery(RelayStep(w)) \/ OfJobs(WorkerStep(w1)))
  /\ \A w \in Relay : WF_bothVars(OfDelivery(Supervise(w)) \/ OfBacklog(WorkerStep(w2)))
  /\ \A w \in Mailer : WF_bothVars(OfDelivery(MailStep(w)) \/ OfJobs(JobLeaseLapses(1)))
  /\ \A w \in Mailer : WF_bothVars(OfDelivery(Supervise(w)) \/ OfBacklog(JobLeaseLapses(2)))
  /\ \A p \in Process : WF_bothVars(OfDelivery(Replace(p)))

BothSpec == BothInit /\ [][BothNext]_bothVars /\ BothFairness
=============================================================================
