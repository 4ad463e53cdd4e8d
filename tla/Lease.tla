------------------------------- MODULE Lease -------------------------------
(***************************************************************************)
(* What a distributed lock promises, with time abstracted away.            *)
(*                                                                         *)
(* A key has a holder or none.  A holder's lease is live until it lapses,  *)
(* and it may lapse at any moment: whoever uses the lock gets no more than *)
(* that.  DistributedLocks (the SQL of distributed_lock_manager.py over    *)
(* the database clock) implements this specification, so the modules whose *)
(* processes work under a lease compose with this one and need no clock.   *)
(***************************************************************************)

CONSTANTS Key,      \* the lock keys, "workflow_run:<id>" and the like
          Owner,    \* the fencing tokens callers present
          Nobody    \* the holder of a key that has no row

VARIABLES holder,   \* holder[k]: the owner column, Nobody when there is no row
          live      \* live[k]: the lease of that row has not expired

leaseVars == <<holder, live>>

TypeOK == /\ holder \in [Key -> Owner \cup {Nobody}]
          /\ live \in [Key -> BOOLEAN]

Init == /\ holder = [k \in Key |-> Nobody]
        /\ live = [k \in Key |-> FALSE]
-----------------------------------------------------------------------------
\* A key is free without a row, or with one whose lease has lapsed and may be
\* stolen.  (Mutant: no stealing.)
Unheld(k) == holder[k] = Nobody
Free(k) == ~live[k]

\* Acquire a key that has no row, or steal one whose lease has lapsed.
Take(k, o) == /\ Free(k)
              /\ holder' = [holder EXCEPT ![k] = o]
              /\ live' = [live EXCEPT ![k] = TRUE]

\* Give a key back.  The delete is fenced by the owner column only, so it
\* leaves the row of any other owner alone.
Drop(k, o) == IF holder[k] = o
                THEN /\ holder' = [holder EXCEPT ![k] = Nobody]
                     /\ live' = [live EXCEPT ![k] = FALSE]
                ELSE UNCHANGED leaseVars

\* Time passes and the leases in K expire.
Lapse(K) == /\ live' = [k \in Key |-> live[k] /\ k \notin K]
            /\ UNCHANGED holder

\* The janitor removes rows whose lease has expired.
Reclaim == /\ holder' = [k \in Key |-> IF live[k] THEN holder[k] ELSE Nobody]
           /\ UNCHANGED live

Next == \/ \E k \in Key, o \in Owner : Take(k, o) \/ Drop(k, o)
        \/ \E K \in SUBSET Key : Lapse(K)
        \/ Reclaim

Spec == Init /\ [][Next]_leaseVars
=============================================================================
