------------------------------ MODULE Editing ------------------------------
(***************************************************************************)
(* Editing a project: its root, its scenes and the ledger of its versions  *)
(* (project_repository.py, scene_repository.py,                            *)
(* project_version_repository.py and their use cases), with its Timeline.  *)
(*                                                                         *)
(* projects.version is the token of the root and the scenes together.      *)
(* Updating or deleting a scene locks the scene row and then the project;  *)
(* the other operations lock the project and then scene rows, so the       *)
(* database may have to break a deadlock.                                  *)
(***************************************************************************)
EXTENDS Naturals, Sequences, FiniteSets

CONSTANTS
  Author, Scene, Text,
  STEP,          \* _STEP
  MaxEdits,      \* bound on committed edits
  MaxVersions,   \* bound on the ledger
  Track, Clip, ZIndex, Cut, NoEdit   \* the timeline's

\* What the theorems assume of the constants.
ASSUME EditingAssumption ==
  /\ IsFiniteSet(Scene) /\ STEP \in Nat \ {0}
  /\ MaxEdits \in Nat /\ MaxVersions \in Nat

VARIABLES
  project,  \* [live, token, root]: deleted_at, version and the content
  scenes,   \* scenes[s] = [state, number, version, text]
  ledger,   \* project_versions; current_version_id is the last
  tx,       \* tx[c]: c's open transaction
  timeline, tracks, clips, edit, glance

boardVars == <<project, scenes, ledger, tx>>
timelineVars == <<timeline, tracks, clips, edit, glance>>
vars == <<boardVars, timelineVars>>

Desk == INSTANCE Timeline WITH Client <- Author, Frame <- Text

Row == [state : {"absent", "live", "deleted"}, number : Nat, version : Nat, text : Text]
Live == {s \in Scene : scenes[s].state = "live"}

\* The content: what a snapshot stores of the root and the live scenes.
Content == [root |-> project.root,
            scenes |-> {<<s, scenes[s].number, scenes[s].text>> : s \in Live}]

Idle == [op |-> "none"]
Op == {"none", "update", "delete", "create", "move", "capture", "restore"}
ProjectFirst == {"create", "move", "capture", "restore"}

EditingInit == /\ \E t \in Text : /\ project = [live |-> TRUE, token |-> 1, root |-> t]
                                  /\ scenes = [s \in Scene |-> [state |-> "absent", number |-> 0,
                                                                version |-> 0, text |-> t]]
               /\ ledger = <<>>
               /\ tx = [c \in Author |-> Idle]
               /\ Desk!Init
-----------------------------------------------------------------------------
(***************************************************************************)
(* Row locks                                                               *)
(***************************************************************************)
\* Scene rows written, and the project row selected FOR UPDATE, before the commit.
SceneFree(s) ==
  \A c \in Author : tx[c].op \in {"update", "delete"} => tx[c].scene # s
Locked(c) == tx[c].op \in ProjectFirst /\ tx[c].locked
ProjectFree == \A c \in Author : ~Locked(c)

Begins(c, t) == tx[c] = Idle /\ tx' = [tx EXCEPT ![c] = t]
Ends(c) == tx' = [tx EXCEPT ![c] = Idle]
TimelineKept == UNCHANGED timelineVars

\* The bounds of a behaviour: so many edits, of the board or of the timeline.
Budget == project.token < MaxEdits /\ timeline.version = 0
TimelineBudget == /\ timeline.version < MaxEdits /\ project.token = 1
                  /\ \A c \in Author : tx[c] = Idle

\* touch_version: a project deleted meanwhile matches no row.  (Mutant: forgotten.)
TouchForgotten(p) == p
Touched(p) == IF p.live THEN [p EXCEPT !.token = @ + 1] ELSE p
-----------------------------------------------------------------------------
(***************************************************************************)
(* Numbering: sparse keys, with positions their dense rank.                *)
(***************************************************************************)
Number(s) == scenes[s].number
Below(S, s) == {t \in S : Number(t) < Number(s)}
Position(s) == Cardinality(Below(Live, s)) + 1
Others(s) == Live \ {s}
Nth(S, i) == CHOOSE t \in S : Cardinality(Below(S, t)) = i
Highest == IF Live = {} THEN 0
           ELSE CHOOSE n \in {Number(s) : s \in Live} : \A s \in Live : Number(s) <= n

\* The clamped index the moved scene shall have among the others.
\* (Mutant: the position is taken for the index.)
IndexOneBased(s, position) ==
  IF position > Cardinality(Others(s)) THEN Cardinality(Others(s)) ELSE position
Index(s, position) ==
  IF position - 1 > Cardinality(Others(s)) THEN Cardinality(Others(s)) ELSE position - 1

\* _gap: a number before the right neighbour, after the left one or between the two;
\* 0 when no integer is left.
Between(left, right) == IF right - left <= 1 THEN 0 ELSE (left + right) \div 2
Before(right) == IF right > STEP THEN right - STEP ELSE right \div 2

Gap(s, k) ==
  LET S == Others(s)
      right == Number(Nth(S, k))  left == Number(Nth(S, k - 1))
  IN CASE S = {} -> STEP
       [] S # {} /\ k = Cardinality(S) -> left + STEP
       [] S # {} /\ k = 0 -> Before(right)
       [] OTHER -> Between(left, right)

\* _rebalance: the others are shifted past the highest number, the moved scene takes
\* its slot, and the others follow one by one; no two may meet on the way.
Shifted(t) == Number(t) + Highest + STEP
Slot(s, k, t) == LET i == Cardinality(Below(Others(s), t))
                 IN IF t = s THEN (k + 1) * STEP
                    ELSE (IF i < k THEN i + 1 ELSE i + 2) * STEP
Fits(s, k) == \A t \in Others(s) :
                /\ Shifted(t) # Slot(s, k, s)
                /\ \A u \in Below(Others(s), t) : Shifted(t) # Slot(s, k, u)

Moves(s, k) == Cardinality(Below(Live, s)) # k
Rebalances(s, k) == Moves(s, k) /\ Gap(s, k) = 0

Renumber(s, k) ==
  IF Rebalances(s, k)
    THEN [t \in Scene |->
            IF t \notin Live THEN scenes[t]
            ELSE [scenes[t] EXCEPT !.number = Slot(s, k, t),
                                   !.version = @ + IF t = s THEN 1 ELSE 2]]
    ELSE [scenes EXCEPT ![s].number = Gap(s, k), ![s].version = @ + 1]
-----------------------------------------------------------------------------
(***************************************************************************)
(* One statement and the commit: the root, and the deletion of the project *)
(***************************************************************************)
\* UpdateProject, with the current token (an older one is a 412).
UpdateProject(t) ==
  /\ project.live /\ t # project.root /\ ProjectFree /\ Budget
  /\ project' = [project EXCEPT !.root = t, !.token = @ + 1]
  /\ TimelineKept
  /\ UNCHANGED <<scenes, ledger, tx>>

DeleteProject ==
  /\ project.live /\ ProjectFree
  /\ project' = [project EXCEPT !.live = FALSE, !.token = @ + 1]
  /\ TimelineKept
  /\ UNCHANGED <<scenes, ledger, tx>>
-----------------------------------------------------------------------------
(***************************************************************************)
(* Scene first: UpdateScene (fenced by the scene's version), DeleteScene   *)
(***************************************************************************)
UpdateScene(c, s, t) ==
  /\ project.live /\ s \in Live /\ SceneFree(s) /\ t # scenes[s].text /\ Budget
  /\ Begins(c, [op |-> "update", scene |-> s, text |-> t])
  /\ TimelineKept
  /\ UNCHANGED <<project, scenes, ledger>>

DeleteScene(c, s) ==
  /\ project.live /\ s \in Live /\ SceneFree(s) /\ Budget
  /\ Begins(c, [op |-> "delete", scene |-> s])
  /\ TimelineKept
  /\ UNCHANGED <<project, scenes, ledger>>

\* The statement of the transaction t on the row r of its scene.
Rewritten(r, t) ==
  [r EXCEPT !.version = @ + 1,
            !.state = IF t.op = "delete" THEN "deleted" ELSE @,
            !.text = IF t.op = "update" THEN t.text ELSE @]

\* The touch waits for the project row unless the project is gone.
CommitScene(c) ==
  /\ tx[c].op \in {"update", "delete"}
  /\ project.live => ProjectFree
  /\ scenes' = [scenes EXCEPT ![tx[c].scene] = Rewritten(scenes[tx[c].scene], tx[c])]
  /\ project' = Touched(project)
  /\ Ends(c)
  /\ TimelineKept
  /\ UNCHANGED ledger
-----------------------------------------------------------------------------
(***************************************************************************)
(* Project first.  The gate is passed, then the row lock is awaited, and   *)
(* the project may be deleted in between.                                  *)
(***************************************************************************)
Gate(c, t) == /\ project.live /\ Budget
              /\ Begins(c, t)
              /\ TimelineKept
              /\ UNCHANGED <<project, scenes, ledger>>

BeginCreate(c) == Gate(c, [op |-> "create", locked |-> FALSE])
BeginMove(c, s) ==
  s \in Live /\ Gate(c, [op |-> "move", locked |-> FALSE, scene |-> s, position |-> 1,
                         expects |-> scenes[s].version])
BeginCapture(c) == Gate(c, [op |-> "capture", locked |-> FALSE])
BeginRestore(c, v) == Gate(c, [op |-> "restore", locked |-> FALSE, source |-> v,
                               expects |-> project.token])

LockProject(c) ==
  /\ tx[c].op \in ProjectFirst /\ ~tx[c].locked /\ ProjectFree
  /\ \/ tx[c].op # "move" /\ tx' = [tx EXCEPT ![c].locked = TRUE]
     \/ /\ tx[c].op = "move"
        /\ \E p \in 1..Cardinality(Scene) + 1 :
             tx' = [tx EXCEPT ![c].locked = TRUE, ![c].position = p]
  /\ TimelineKept
  /\ UNCHANGED <<project, scenes, ledger>>

CommitCreate(c, s, t) ==
  /\ Locked(c) /\ tx[c].op = "create" /\ scenes[s].state = "absent"
  /\ scenes' = [scenes EXCEPT ![s] = [state |-> "live", number |-> Highest + STEP,
                                      version |-> 1, text |-> t]]
  /\ project' = Touched(project)
  /\ Ends(c)
  /\ TimelineKept
  /\ UNCHANGED ledger

\* reorder_owned: the fence is read again under the lock.
MayMove(c) == /\ Locked(c) /\ tx[c].op = "move" /\ tx[c].scene \in Live
              /\ scenes[tx[c].scene].version = tx[c].expects

CommitMove(c) ==
  LET s == tx[c].scene  k == Index(tx[c].scene, tx[c].position) IN
  /\ MayMove(c) /\ Moves(s, k)
  /\ Rebalances(s, k) => Fits(s, k)
  /\ \A t \in Scene : Renumber(s, k)[t] # scenes[t] => SceneFree(t)
  /\ scenes' = Renumber(s, k)
  /\ project' = Touched(project)
  /\ Ends(c)
  /\ TimelineKept
  /\ UNCHANGED ledger

\* current_version_id, read before it is advanced.
Current == Len(ledger)

\* create_snapshot: the trigger bumps the token with the pointer update.
CommitCapture(c) ==
  /\ Locked(c) /\ tx[c].op = "capture" /\ project.live /\ Len(ledger) < MaxVersions
  /\ project' = [project EXCEPT !.token = @ + 1]
  /\ ledger' = Append(ledger, [reason |-> "manual_save", parent |-> Current,
                               content |-> Content, after |-> project.token + 1])
  /\ Ends(c)
  /\ TimelineKept
  /\ UNCHANGED scenes

\* _reconcile_scenes: every live scene is deleted, the scenes of the snapshot are
\* revived with their numbers.
Captured(v, s) == {x \in ledger[v].content.scenes : x[1] = s}
Reconciled(v) ==
  [s \in Scene |->
     LET x == CHOOSE y \in Captured(v, s) : TRUE
         swept == IF s \in Live THEN 1 ELSE 0
     IN IF Captured(v, s) = {}
          THEN [scenes[s] EXCEPT !.state = IF s \in Live THEN "deleted" ELSE @,
                                 !.version = @ + swept]
          ELSE [state |-> "live", number |-> x[2], text |-> x[3],
                version |-> scenes[s].version + swept + 1]]

\* The fence of restore.  (Mutant: gone.)
UnfencedRestore(c) == Locked(c) /\ tx[c].op = "restore" /\ project.live
MayRestore(c) == /\ Locked(c) /\ tx[c].op = "restore" /\ project.live
                 /\ project.token = tx[c].expects

CommitRestore(c) ==
  LET v == tx[c].source IN
  /\ MayRestore(c) /\ Len(ledger) < MaxVersions
  /\ \A s \in Scene : Reconciled(v)[s] # scenes[s] => SceneFree(s)
  /\ scenes' = Reconciled(v)
  /\ project' = [project EXCEPT !.root = ledger[v].content.root, !.token = @ + 1]
  /\ ledger' = Append(ledger, [reason |-> "restore", parent |-> v,
                               content |-> Content', after |-> tx[c].expects + 1])
  /\ Ends(c)
  /\ TimelineKept

\* A transaction that writes nothing: a stale token (412), a scene that is where it
\* shall be, numbers that collide or a project that is gone (500).
Declines(c) ==
  /\ \/ Locked(c) /\ tx[c].op = "move" /\ ~MayMove(c)
     \/ /\ MayMove(c)
        /\ LET k == Index(tx[c].scene, tx[c].position)
           IN Moves(tx[c].scene, k) => Rebalances(tx[c].scene, k) /\ ~Fits(tx[c].scene, k)
     \/ Locked(c) /\ tx[c].op = "restore" /\ ~MayRestore(c)
     \/ Locked(c) /\ tx[c].op = "capture" /\ ~project.live
  /\ Ends(c)
  /\ TimelineKept
  /\ UNCHANGED <<project, scenes, ledger>>

\* The connection fails, or the database breaks a deadlock: c has the project and
\* needs a scene row of d, which needs the project.
Aborts(c) ==
  /\ tx[c] # Idle
  /\ Ends(c)
  /\ TimelineKept
  /\ UNCHANGED <<project, scenes, ledger>>
-----------------------------------------------------------------------------
TimelineStep == /\ \/ project.live /\ TimelineBudget /\ Desk!Next
                   \/ \E c \in Author : Desk!CommitEdit(c) \/ Desk!RollBack(c)
                /\ UNCHANGED boardVars

EditingNext == \/ \E c \in Author :
                    \/ \E s \in Scene, t \in Text : UpdateScene(c, s, t) \/ CommitCreate(c, s, t)
                    \/ \E s \in Scene : DeleteScene(c, s) \/ BeginMove(c, s)
                    \/ BeginCreate(c) \/ BeginCapture(c) \/ \E v \in 1..Len(ledger) : BeginRestore(c, v)
                    \/ LockProject(c) \/ CommitScene(c) \/ CommitMove(c) \/ CommitCapture(c)
                    \/ CommitRestore(c) \/ Declines(c) \/ Aborts(c)
               \/ \E t \in Text : UpdateProject(t)
               \/ DeleteProject \/ TimelineStep

EditingSpec == EditingInit /\ [][EditingNext]_vars
-----------------------------------------------------------------------------
(***************************************************************************)
(* Properties                                                              *)
(***************************************************************************)
\* Every variable has its type.
EditingTypeOK ==
  /\ project \in [live : BOOLEAN, token : Nat, root : Text]
  /\ scenes \in [Scene -> Row]
  /\ \A i \in DOMAIN ledger : ledger[i].parent \in 0..(i - 1) /\ ledger[i].after \in Nat
  /\ \A c \in Author : tx[c].op \in Op
  /\ Desk!TypeOK

\* The token names the content: no commit changes what a client was shown under the
\* current token of a project, or version of a timeline, and a GET that is overtaken
\* between its statements never returns the new version with the old content.
TokenNamesContent ==
  /\ [][project'.token >= project.token /\
        (project.live /\ Content' # Content => project'.token > project.token)]_vars
  /\ []Desk!VersionNamesContent

\* The ledger tells the truth: its last entry is the project until the token moves, a
\* restored version is its source, the tokens it records are those the project had in
\* that order, and no two live scenes share a number.
LedgerIsTrue ==
  /\ \A i \in DOMAIN ledger :
       /\ project.live /\ ledger[i].after = project.token => ledger[i].content = Content
       /\ ledger[i].reason = "restore" => ledger[i].content = ledger[ledger[i].parent].content
  /\ \A i, j \in DOMAIN ledger : i < j => ledger[i].after < ledger[j].after
  /\ \A s, t \in Live : Number(s) = Number(t) => s = t

\* A move puts its scene at the position asked for, or the last, and leaves the order
\* of the others as it was, also when every number is reassigned.
MovesAsAsked ==
  [][\A c \in Author, s \in Scene :
       tx[c].op = "move" /\ tx[c].scene = s /\ tx'[c] = Idle /\ scenes' # scenes =>
         LET n == Cardinality(Live) IN
         /\ Live' = Live
         /\ Position(s)' = IF tx[c].position > n THEN n ELSE tx[c].position
         /\ \A t, u \in Others(s) :
              scenes[t].number < scenes[u].number => scenes'[t].number < scenes'[u].number]_vars

\* scene_repository.py: "The offset clears the low 1000-step slots we are about to
\* assign": no numbers meet while a storyboard is rebalanced.
RebalanceFits ==
  \A s \in Live, p \in 1..Cardinality(Live) : Rebalances(s, p - 1) => Fits(s, p - 1)
=============================================================================
