---------------------------- MODULE JobLifecycle ----------------------------
(***************************************************************************)
(* What clients of the API and consumers of the outbox see of a job that a *)
(* worker carries out: its status and the events published about it.       *)
(*                                                                         *)
(* Render, export and publish jobs share this life.  Only some may be      *)
(* cancelled, only some may go back to the queue for another attempt; all  *)
(* of them announce their creation and their end once, in the transaction  *)
(* that makes it so, and an end is final.                                  *)
(***************************************************************************)
EXTENDS Naturals

CONSTANTS Job,         \* the job ids
          Cancelable,  \* the jobs that have a cancel operation
          Retried      \* the jobs that may be queued again after an attempt

VARIABLES status,      \* status[j], "absent" before the job is created
          events       \* events[j][k]: events of kind k about j

jobVars == <<status, events>>

Settled == {"succeeded", "failed", "canceled"}
Status == {"absent", "queued", "running"} \cup Settled
Kind == {"created"} \cup Settled

TypeOK == /\ status \in [Job -> Status]
          /\ events \in [Job -> [Kind -> Nat]]

Init == /\ status = [j \in Job |-> "absent"]
        /\ events = [j \in Job |-> [k \in Kind |-> 0]]
-----------------------------------------------------------------------------
\* A status change that is announced, and one that is not.
Announce(j, s, k) == /\ status' = [status EXCEPT ![j] = s]
                     /\ events' = [events EXCEPT ![j][k] = @ + 1]

Quietly(j, s) == /\ status' = [status EXCEPT ![j] = s]
                 /\ UNCHANGED events

Create(j) == status[j] = "absent" /\ Announce(j, "queued", "created")

Claim(j) == status[j] = "queued" /\ Quietly(j, "running")

Settle(j, s) == status[j] = "running" /\ Announce(j, s, s)

Cancel(j) == /\ j \in Cancelable
             /\ status[j] \in {"queued", "running"}
             /\ Announce(j, "canceled", "canceled")

Requeue(j) == j \in Retried /\ status[j] = "running" /\ Quietly(j, "queued")

Next == \E j \in Job : \/ Create(j) \/ Claim(j) \/ Cancel(j) \/ Requeue(j)
                       \/ \E s \in {"succeeded", "failed"} : Settle(j, s)

Spec == Init /\ [][Next]_jobVars
=============================================================================
