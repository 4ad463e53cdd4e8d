-------------------------- MODULE DistributedLocks --------------------------
(***************************************************************************)
(* The lock manager over the distributed_locks table, as its callers see   *)
(* it: SqlAlchemyDistributedLockManager in                                 *)
(* infrastructure/repositories/distributed_lock_manager.py.                *)
(*                                                                         *)
(* Every statement runs against the database clock.  A caller keeps the    *)
(* immutable Lease value its last acquire or renew returned and acts on it *)
(* until it gives it up, whatever has become of the row since.             *)
(***************************************************************************)
EXTENDS Naturals

CONSTANTS LockKey,     \* lock keys
          Process,     \* the holders: one per worker, engine or request
          Owner,       \* the fencing tokens
          Token,       \* Token[c]: the owner string client c presents
          NoRow,      \* stands for "no row"
          LeaseFor,    \* the lease durations callers ask for
          MaxClock     \* TLC bound on the database clock

ASSUME LockAssumption ==
  /\ Token \in [Process -> Owner]
  /\ NoRow \notin Owner
  /\ LeaseFor \subseteq Nat \ {0}   \* acquire and renew refuse lease <= 0
  /\ MaxClock \in Nat

VARIABLES owner,      \* owner[k]: owner column of the row of k, or NoRow
          until,       \* until[k]: its lease_until column (0 without a row)
          lease,       \* lease[c][k]: lease_until of the Lease value c keeps, or 0
          clock        \* the database's now()

lockVars == <<owner, until, lease, clock>>

LockTypeOK == /\ owner \in [LockKey -> Owner \cup {NoRow}]
              /\ until \in [LockKey -> Nat]
              /\ lease \in [Process -> [LockKey -> Nat]]
              /\ clock \in Nat \ {0}

LockInit == /\ owner = [k \in LockKey |-> NoRow]
            /\ until = [k \in LockKey |-> 0]
            /\ lease = [c \in Process |-> [k \in LockKey |-> 0]]
            /\ clock = 1
-----------------------------------------------------------------------------
\* INSERT ... ON CONFLICT (lock_key) DO UPDATE ... WHERE lease_until < now():
\* the key has no row, or its row has expired and is stolen.
\* (Mutant: steal a tick before it expires.)
AcquirableEarly(k) == owner[k] = NoRow \/ until[k] <= clock + 1
Acquirable(k) == owner[k] = NoRow \/ until[k] < clock

Acquire(c, k, d) ==
  /\ Acquirable(k)
  /\ owner' = [owner EXCEPT ![k] = Token[c]]
  /\ until' = [until EXCEPT ![k] = clock + d]
  /\ lease' = [lease EXCEPT ![c][k] = clock + d]
  /\ UNCHANGED clock

\* UPDATE ... WHERE lock_key AND owner AND lease_until > now(): owner-fenced and
\* live-fenced.  A renewal that matches no row returns None and the caller keeps
\* the Lease value it had, so it is no step of its own.
\* (Mutant: the owner fence is missing.)
RenewableByAnyone(c, k) == owner[k] # NoRow /\ until[k] > clock
Renewable(c, k) == owner[k] = Token[c] /\ until[k] > clock

Renew(c, k, d) ==
  /\ lease[c][k] # 0
  /\ Renewable(c, k)
  /\ until' = [until EXCEPT ![k] = clock + d]
  /\ lease' = [lease EXCEPT ![c][k] = clock + d]
  /\ UNCHANGED <<owner, clock>>

\* DELETE ... WHERE lock_key AND owner: owner-fenced, not live-fenced.
Release(c, k) ==
  /\ lease[c][k] # 0
  /\ lease' = [lease EXCEPT ![c][k] = 0]
  /\ IF owner[k] = Token[c]
       THEN /\ owner' = [owner EXCEPT ![k] = NoRow]
            /\ until' = [until EXCEPT ![k] = 0]
       ELSE UNCHANGED <<owner, until>>
  /\ UNCHANGED clock

\* A holder crashes: its Lease value is gone, its row is not.
Forget(c) ==
  /\ lease' = [lease EXCEPT ![c] = [k \in LockKey |-> 0]]
  /\ UNCHANGED <<owner, until, clock>>

\* The janitor: DELETE ... WHERE lease_until < now().
Expired(k) == owner[k] # NoRow /\ until[k] < clock

ReclaimExpired ==
  /\ owner' = [k \in LockKey |-> IF Expired(k) THEN NoRow ELSE owner[k]]
  /\ until' = [k \in LockKey |-> IF Expired(k) THEN 0 ELSE until[k]]
  /\ UNCHANGED <<lease, clock>>

Tick == /\ clock < MaxClock
        /\ clock' = clock + 1
        /\ UNCHANGED <<owner, until, lease>>

LockNext ==
  \/ \E c \in Process, k \in LockKey, d \in LeaseFor : Acquire(c, k, d) \/ Renew(c, k, d)
  \/ \E c \in Process, k \in LockKey : Release(c, k)
  \/ \E c \in Process : Forget(c)
  \/ ReclaimExpired
  \/ Tick

LockSpec == LockInit /\ [][LockNext]_lockVars
-----------------------------------------------------------------------------
(***************************************************************************)
(* Properties                                                              *)
(***************************************************************************)
\* "The caller is responsible for using a stable, unique token per holder"
\* (interfaces/locks.py): what every use of the lock as a mutex rests on.
TokensAreUnique == \A c, d \in Process : Token[c] = Token[d] => c = d

\* Two clients never both keep a Lease value that is still live for one key,
\* through steals, late releases, renewals, janitor passes and crashes.
AtMostOneLiveHolder ==
  \A k \in LockKey, c, d \in Process :
    (lease[c][k] > clock /\ lease[d][k] > clock) => c = d

\* The inductive strengthening: an unexpired Lease value is backed by a row of
\* the client's own that lasts at least as long.  A holder may release its key,
\* or renew it for less; nobody else cuts the row short.
LeaseBacked ==
  \A c \in Process, k \in LockKey :
    lease[c][k] >= clock => owner[k] = Token[c] /\ until[k] >= lease[c][k]

\* "An active lease held by a live owner is never stolen": while a row is live
\* the key passes to another owner only through a release by its own owner, so
\* no step replaces one owner by another.
LiveLeaseNeverStolen ==
  [][\A k \in LockKey :
       (owner[k] # NoRow /\ until[k] > clock) => owner'[k] \in {owner[k], NoRow}]_lockVars

\* The manager implements the untimed lease.
Timeless == INSTANCE Lease
              WITH Key <- LockKey, holder <- owner, Nobody <- NoRow,
                   live <- [k \in LockKey |-> owner[k] # NoRow /\ until[k] >= clock]
ImplementsLease == Timeless!Spec
=============================================================================
