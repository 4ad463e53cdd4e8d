---------------------------- MODULE RunLifecycle ----------------------------
(***************************************************************************)
(* What clients of the API and consumers of the outbox see of a workflow   *)
(* run: its status, and how many events of each kind were published.       *)
(*                                                                         *)
(* One step per public operation.  Nobody ever sees a run "running": an    *)
(* advance or a completion shows only where it stopped, and its events     *)
(* appear together with the status they announce.                          *)
(***************************************************************************)
EXTENDS Naturals

CONSTANT Run     \* the run ids

VARIABLES status,   \* status[r], "absent" before the run is created
          log       \* log[r][k]: number of published events of kind k

lifeVars == <<status, log>>

Event == {"Created", "Started", "StepCompleted", "Paused", "Resumed",
          "Succeeded", "Failed", "Canceled"}

\* The event that announces that a run has come to rest in a status.
Announces == [paused |-> "Paused", succeeded |-> "Succeeded", failed |-> "Failed"]

Init == /\ status = [r \in Run |-> "absent"]
        /\ log = [r \in Run |-> [k \in Event |-> 0]]
-----------------------------------------------------------------------------
Create(r) ==
  /\ status[r] = "absent"
  /\ status' = [status EXCEPT ![r] = "queued"]
  /\ log' = [log EXCEPT ![r]["Created"] = @ + 1]

\* From one place of rest to the next: the event that opens the activity, a
\* completion event for each step it completes, and the event of the new status.
Proceed(r, opening, next) ==
  /\ status' = [status EXCEPT ![r] = next]
  /\ log' \in [Run -> [Event -> Nat]]
  /\ \A q \in Run \ {r} : log'[q] = log[q]
  /\ \A k \in Event \ {"StepCompleted"} :
       log'[r][k] = log[r][k] + (IF k \in {opening, Announces[next]} THEN 1 ELSE 0)
  /\ log'[r]["StepCompleted"] >= log[r]["StepCompleted"]

Advance(r) == /\ status[r] = "queued"
              /\ \E next \in {"paused", "succeeded", "failed"} : Proceed(r, "Started", next)

Complete(r) == /\ status[r] = "paused"
               /\ \E next \in {"succeeded", "failed"} : Proceed(r, "Resumed", next)

Cancel(r) ==
  /\ status[r] \in {"queued", "paused"}
  /\ status' = [status EXCEPT ![r] = "canceled"]
  /\ log' = [log EXCEPT ![r]["Canceled"] = @ + 1]

Next == \E r \in Run : Create(r) \/ Advance(r) \/ Complete(r) \/ Cancel(r)

Spec == Init /\ [][Next]_lifeVars
=============================================================================
