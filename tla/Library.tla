------------------------------ MODULE Library ------------------------------
(***************************************************************************)
(* The media library of one owner (library_repository.py,                  *)
(* use_cases/library): a tree of folders and one entry per media asset.    *)
(*                                                                         *)
(* A request checks first and writes last, in statements of one READ       *)
(* COMMITTED transaction, and others may commit in between.  Names under a *)
(* parent are kept apart by an index and entries by their version; the     *)
(* shape of the tree is kept by the checks alone.                          *)
(***************************************************************************)
EXTENDS Naturals, FiniteSets

CONSTANTS Client, Folder, Media, Name,
          Root,       \* no folder: parent_folder_id or library_folder_id IS NULL
          MaxCalls    \* bound on the requests of a behaviour

VARIABLES
  folders,  \* folders[f] = [state, parent, name]
  entries,  \* entries[m] = [state, folder, name, uses, version]: library_assets
  media,    \* the live media assets
  calls,    \* calls[c]: what c's open request has found out
  spent,    \* requests made
  races     \* ghost: what was written by a request that had been overtaken

libraryVars == <<folders, entries, media, calls, spent, races>>

State == {"absent", "live", "deleted"}
Place == Folder \cup {Root}
FolderRow == [state : State, parent : Place, name : Name]
EntryRow == [state : State, folder : Place, name : Name, uses : Nat, version : Nat]
Closed == [op |-> "none"]
FolderOp == {"move", "rename"}
Op == {"none", "create", "detach", "delete", "add", "edit"} \cup FolderOp

LiveFolders == {f \in Folder : folders[f].state = "live"}
Places == LiveFolders \cup {Root}
Children(p) == {f \in LiveFolders : folders[f].parent = p}
Taken(p, n, f) == \E g \in Children(p) \ {f} : folders[g].name = n
Cyclic == \E S \in SUBSET LiveFolders : S # {} /\ \A f \in S : folders[f].parent \in S

\* Live rows whose media asset is live.
Listed == {m \in media : entries[m].state = "live"}

Unused == CHOOSE n \in Name : TRUE
Init == /\ folders \in [Folder -> [state : {"absent", "live"}, parent : Place, name : Name]]
        /\ \A f \in Folder :
             IF f \in LiveFolders
               THEN folders[f].parent \in Places /\ ~Taken(folders[f].parent, folders[f].name, f)
               ELSE folders[f].parent = Root /\ folders[f].name = Unused
        /\ ~Cyclic
        /\ entries \in [Media -> [state : {"absent", "live"}, folder : Places, name : {Unused},
                                  uses : {0}, version : {1}]]
        /\ \A m \in Media : entries[m].state = "absent" => entries[m].folder = Root
        /\ media = Media
        /\ calls = [c \in Client |-> Closed]
        /\ spent = 0 /\ races = {}
-----------------------------------------------------------------------------
(***************************************************************************)
(* A request opens, learns more, and is refused or commits.  A commit      *)
(* overtakes the requests that are open.                                   *)
(***************************************************************************)
Within == spent < MaxCalls /\ spent' = spent + 1
Opens(c, r) == /\ calls[c] = Closed /\ Within
               /\ calls' = [calls EXCEPT ![c] = r]
               /\ UNCHANGED <<folders, entries, media, races>>
Learns(c, r) == /\ calls' = [calls EXCEPT ![c] = r]
                /\ UNCHANGED <<folders, entries, media, spent, races>>
Refused(c) == Learns(c, Closed)
Commits(c, on) ==
  /\ calls' = [d \in Client |-> IF d = c \/ calls[d] = Closed THEN Closed
                                ELSE [calls[d] EXCEPT !.by = @ \cup {calls[c].op}]]
  /\ races' = races \cup {[op |-> calls[c].op, on |-> on, by |-> o] : o \in calls[c].by}
  /\ UNCHANGED <<media, spent>>
-----------------------------------------------------------------------------
(***************************************************************************)
(* Folders                                                                 *)
(***************************************************************************)
\* CreateLibraryFolder: the parent is live and the name free.
BeginCreate(c, p, n) ==
  /\ p \in Places /\ ~Taken(p, n, Root)
  /\ Opens(c, [op |-> "create", parent |-> p, name |-> n, by |-> {}])

\* uq_library_folders_parent_folder_id_name: NULLs are distinct, so it does not see
\* the root folders.
RefusedByIndex(p, n, f) == p # Root /\ Taken(p, n, f)

AddFolder(c, f) ==
  LET r == calls[c] IN
  /\ r.op = "create" /\ folders[f].state = "absent"
  /\ IF RefusedByIndex(r.parent, r.name, f)
       THEN Refused(c)
       ELSE /\ folders' = [folders EXCEPT ![f] = [state |-> "live", parent |-> r.parent,
                                                  name |-> r.name]]
            /\ Commits(c, f)
            /\ UNCHANGED entries

\* UpdateLibraryFolder: the changes are what differs from the row read first.  A new
\* parent is walked up from before the name is looked at.
BeginUpdate(c, f, p, n) ==
  LET was == folders[f] IN
  /\ f \in LiveFolders /\ <<p, n>> # <<was.parent, was.name>>
  /\ Opens(c, [op |-> IF p = was.parent THEN "rename" ELSE "move", on |-> f,
               parent |-> p, name |-> n, renames |-> n # was.name, phase |-> "walk",
               at |-> IF p = was.parent THEN Root ELSE p, steps |-> 0, by |-> {}])

\* _validate_move, one get_folder after the other: it ends at a root, at a deleted
\* ancestor of the new parent, or after _MAX_ANCESTOR_WALK steps.  (Mutant: the new
\* parent alone is looked at.)
ShortWalk(r) == r.at = Root \/ r.steps = 1
WalkEnds(r) == r.at = Root \/ r.steps > Cardinality(Folder)

\* The folder itself is met (422), or the new parent is gone (404).
Walk(c) ==
  LET r == calls[c] IN
  /\ r.op \in FolderOp /\ r.phase = "walk" /\ ~WalkEnds(r)
  /\ CASE r.at = r.on \/ (r.at = r.parent /\ r.at \notin LiveFolders) -> Refused(c)
       [] r.at # r.on /\ r.at \in LiveFolders ->
            Learns(c, [r EXCEPT !.at = folders[r.at].parent, !.steps = @ + 1])
       [] OTHER -> Learns(c, [r EXCEPT !.at = Root])

\* folder_name_conflicts, under the parent the row had or shall have.
CheckName(c) ==
  LET r == calls[c] IN
  /\ r.op \in FolderOp /\ r.phase = "walk" /\ WalkEnds(r)
  /\ IF Taken(r.parent, r.name, r.on)
       THEN Refused(c)
       ELSE Learns(c, [r EXCEPT !.phase = "write", !.at = Root, !.steps = 0])

\* update_folder: only the changed columns, of a live row.
UpdateFolder(c) ==
  LET r == calls[c]
      row == [folders[r.on] EXCEPT !.parent = IF r.op = "move" THEN r.parent ELSE @,
                                   !.name = IF r.renames THEN r.name ELSE @]
  IN /\ r.op \in FolderOp /\ r.phase = "write"
     /\ IF r.on \notin LiveFolders \/ RefusedByIndex(row.parent, row.name, r.on)
          THEN Refused(c)
          ELSE /\ folders' = [folders EXCEPT ![r.on] = row]
               /\ Commits(c, r.on)
               /\ UNCHANGED entries

\* DeleteLibraryFolder: live, and no live folder in it.
MayDelete(f) == f \in LiveFolders /\ Children(f) = {}
BeginDelete(c, f) == MayDelete(f) /\ Opens(c, [op |-> "detach", on |-> f, by |-> {}])

\* detach_assets_from_folder: the entries that are in it now shall survive, unfiled.  Others
\* see them as they were, and wait for their rows, until the request commits or is refused.
FiledIn(f) == {m \in Media : entries[m].state = "live" /\ entries[m].folder = f}
Locked == UNION {calls[c].freed : c \in {d \in Client : calls[d].op = "delete"}}

Detach(c) ==
  LET r == calls[c] IN
  /\ r.op = "detach" /\ FiledIn(r.on) \cap Locked = {}
  /\ Learns(c, [op |-> "delete", on |-> r.on, freed |-> FiledIn(r.on),
                by |-> r.by \ {"add", "edit"}])

\* soft_delete_folder, and the commit.
DeleteFolder(c) ==
  LET r == calls[c] IN
  /\ r.op = "delete"
  /\ IF r.on \notin LiveFolders
       THEN Refused(c)
       ELSE /\ folders' = [folders EXCEPT ![r.on].state = "deleted"]
            /\ entries' = [m \in Media |->
                 IF m \in r.freed THEN [entries[m] EXCEPT !.folder = Root, !.version = @ + 1]
                                  ELSE entries[m]]
            /\ Commits(c, r.on)
-----------------------------------------------------------------------------
(***************************************************************************)
(* Entries                                                                 *)
(***************************************************************************)
\* AddLibraryAsset: the media asset and the folder are live.
BeginAdd(c, m, p, n) ==
  /\ m \in media /\ p \in Places
  /\ Opens(c, [op |-> "add", on |-> m, folder |-> p, name |-> n, by |-> {}])

\* uq_library_assets_media_asset_id counts deleted rows too.
AddAsset(c) ==
  LET r == calls[c] IN
  /\ r.op = "add"
  /\ IF entries[r.on].state # "absent"
       THEN Refused(c)
       ELSE /\ entries' = [entries EXCEPT ![r.on] =
                             [state |-> "live", folder |-> r.folder, name |-> r.name,
                              uses |-> 0, version |-> 1]]
            /\ Commits(c, r.on)
            /\ UNCHANGED folders

\* UpdateLibraryAsset, with the current version (an older one is a 412).
BeginEdit(c, m, p, n) ==
  /\ m \in Listed /\ p \in Places \cup {entries[m].folder}
  /\ <<p, n>> # <<entries[m].folder, entries[m].name>>
  /\ Opens(c, [op |-> "edit", on |-> m, folder |-> p, name |-> n, saw |-> entries[m], by |-> {}])

\* The fence of update_asset.  (Mutant: gone.)
UnfencedEdit(r) == entries[r.on].state = "live"
MayEdit(r) == entries[r.on].state = "live" /\ entries[r.on].version = r.saw.version

UpdateAsset(c) ==
  LET r == calls[c] IN
  /\ r.op = "edit" /\ r.on \notin Locked
  /\ IF ~MayEdit(r)
       THEN Refused(c)
       ELSE /\ entries' = [entries EXCEPT ![r.on].folder = r.folder, ![r.on].name = r.name,
                                          ![r.on].version = @ + 1]
            /\ Commits(c, r.on)
            /\ UNCHANGED folders

\* One statement each, and the trigger that bumps the version of an entry.
DeleteAsset(m) ==
  /\ entries[m].state = "live" /\ m \notin Locked /\ Within
  /\ entries' = [entries EXCEPT ![m].state = "deleted", ![m].version = @ + 1]
  /\ UNCHANGED <<folders, media, calls, races>>

RecordUse(m) ==
  /\ m \in Listed /\ m \notin Locked /\ Within
  /\ entries' = [entries EXCEPT ![m].uses = @ + 1, ![m].version = @ + 1]
  /\ UNCHANGED <<folders, media, calls, races>>

DeleteMedia(m) ==
  /\ m \in media /\ Within
  /\ media' = media \ {m}
  /\ UNCHANGED <<folders, entries, calls, races>>
-----------------------------------------------------------------------------
Next ==
  \/ \E c \in Client :
       \/ \E p \in Place, n \in Name :
            \/ BeginCreate(c, p, n)
            \/ \E f \in Folder : BeginUpdate(c, f, p, n)
            \/ \E m \in Media : BeginAdd(c, m, p, n) \/ BeginEdit(c, m, p, n)
       \/ \E f \in Folder : BeginDelete(c, f) \/ AddFolder(c, f)
       \/ Walk(c) \/ CheckName(c) \/ UpdateFolder(c) \/ Detach(c) \/ DeleteFolder(c)
       \/ AddAsset(c) \/ UpdateAsset(c)
  \/ \E m \in Media : DeleteAsset(m) \/ RecordUse(m) \/ DeleteMedia(m)

Spec == Init /\ [][Next]_libraryVars
-----------------------------------------------------------------------------
(***************************************************************************)
(* Properties                                                              *)
(***************************************************************************)
TypeOK ==
  /\ folders \in [Folder -> FolderRow] /\ entries \in [Media -> EntryRow]
  /\ media \subseteq Media /\ spent \in 0..MaxCalls
  /\ \A c \in Client : calls[c].op \in Op

Overtaken(ops, by, on) == \E r \in races : r.op \in ops /\ r.by \in by /\ r.on \in on

\* What can go wrong with the tree goes wrong through a request that is overtaken, and
\* only so: a cycle takes two moves, a live folder or entry in a deleted folder takes
\* the deletion and what was put there behind its back or behind whose back it was made,
\* and two folders of one name are root folders.
OnlyRacesHurt ==
  /\ Cyclic => Overtaken({"move"}, {"move"}, Folder)
  /\ \A f, g \in Folder :
       g \in LiveFolders /\ folders[g].parent = f /\ f \notin LiveFolders =>
         \/ Overtaken({"create", "move"}, {"delete"}, {g})
         \/ Overtaken({"delete"}, {"create", "move"}, {f})
  /\ \A m \in Media :
       entries[m].state = "live" /\ entries[m].folder \notin Places =>
         \/ Overtaken({"add", "edit"}, {"delete"}, {m})
         \/ Overtaken({"delete"}, {"add", "edit"}, {entries[m].folder})
  /\ \A f, g \in LiveFolders :
       f # g /\ folders[f].parent = folders[g].parent /\ folders[f].name = folders[g].name =>
         folders[f].parent = Root /\ Overtaken({"create"} \cup FolderOp, Op, {f, g})

\* An edit of an entry is made to what its client saw: not over another edit, nor over
\* a use or a deleted folder it did not know of.
EditsWhatWasSeen ==
  [][\A c \in Client : calls[c].op = "edit" /\ calls'[c] = Closed /\ entries' # entries
       => entries[calls[c].on] = calls[c].saw]_libraryVars

\* What two documents promise without a word of races.  domain/library/library_folder.py:
\* "deeper cycles are prevented at the use-case layer on move"; library_repository.py, of
\* detaching: "so folder deletion never orphans a library entry".
NoFolderCycle == ~Cyclic
NoOrphanedEntry == \A m \in Media : entries[m].state = "live" => entries[m].folder \in Places

\* One of the two holds at any rate.
TreeAsDocumented == NoFolderCycle \/ NoOrphanedEntry
=============================================================================
