-------------------------- MODULE MCBrokenPromises --------------------------
(***************************************************************************)
(* What is written of worlds, of sessions and of the library and the code  *)
(* does not keep, in behaviours as small as will do: a generation reads a  *)
(* world of one character while a client removes it, then the tokens of    *)
(* one login are used, some twice, and then two clients move and delete    *)
(* folders and file one media asset without renaming anything.             *)
(***************************************************************************)
EXTENDS Worlds

CONSTANTS f1, f2, f3, m1, c1, c2, n1, n2, Root

VARIABLES folders, entries, media, calls, spent, races             \* Library
VARIABLES users, sessions, requests, made, signUps, swept          \* Accounts
VARIABLE survived    \* a family had a live session when its revocation committed

Shelf == INSTANCE Library
           WITH Client <- {c1, c2}, Folder <- {f1, f2, f3}, Media <- {m1}, Name <- {n1, n2},
                MaxCalls <- 4

People == INSTANCE Accounts
            WITH Client <- {c1, c2}, Account <- {c1}, Session <- 1..3, Name <- {n1},
                 Nobody <- Root, MaxCalls <- 4

treeVars == <<folders, entries, media, calls, spent, races>>

Characters == <<"character">>
OneOfEach == [character |-> 1]

\* Two folders at the top, one in the second of them, and nothing filed.
TreeInit == /\ Shelf!Init
            /\ Shelf!LiveFolders = {f1, f2, f3}
            /\ Shelf!Children(Root) = {f1, f2} /\ Shelf!Children(f2) = {f3}
            /\ folders[f1].name = Shelf!Unused /\ folders[f3].name = Shelf!Unused
            /\ entries[m1].state = "absent"

Studied(r) == /\ r.op \in {"none", "move", "detach", "delete", "add"}
              /\ r.op = "move" => ~r.renames
              /\ r.op = "add" => r.name = Shelf!Unused

TreeNext == /\ Shelf!Next
            /\ \A c \in {c1, c2} : Studied(calls'[c])
            /\ media' = media /\ entries'[m1].uses = 0

familyVars == <<users, sessions, requests, made, signUps, swept, survived>>

\* A revocation commits that was to end the family of a token used twice.
FamilyRevoked(c) == requests[c].op = "revoke" /\ requests'[c] = People!Closed

FamilyNext ==
  /\ People!Next
  /\ \A s \in 2..3 : sessions'[s].state # "absent" => sessions'[s - 1].state # "absent"
  /\ survived' = \E c \in {c1, c2} : /\ FamilyRevoked(c)
                                     /\ \E s \in 1..3 : /\ sessions'[s].state = "live"
                                                        /\ sessions'[s].family = requests[c].of

\* The world has a character and is not deleted; the accounts wait for a snapshot, and the
\* library for a revocation.
PromiseInit == /\ Init /\ Children(world.cast, "character") # {}
            /\ People!Init /\ survived = FALSE
            /\ TreeInit

PromiseNext ==
  \/ SnapshotIsOfOneWorld /\ Next /\ world'.live /\ UNCHANGED <<familyVars, treeVars>>
  \/ ~SnapshotIsOfOneWorld /\ ~survived /\ FamilyNext /\ UNCHANGED <<worldVars, treeVars>>
  \/ survived /\ TreeNext /\ UNCHANGED <<worldVars, familyVars>>

PromiseSpec == PromiseInit /\ [][PromiseNext]_<<worldVars, familyVars, treeVars>>
-----------------------------------------------------------------------------
\* What is written: a snapshot never straddles two states of a world, the reuse of a token
\* revokes its whole family, no folder comes to be below itself, and no entry is in a folder
\* that is gone.  At least one of the four is so.
SomePromiseKept == SnapshotIsOfOneWorld \/ ~survived \/ Shelf!TreeAsDocumented
=============================================================================
