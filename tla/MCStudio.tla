------------------------------ MODULE MCStudio ------------------------------
(***************************************************************************)
(* A studio of two clients, three items and two texts, and their editor of *)
(* one project.  These share no rows either: each behaviour works on one   *)
(* part of Studio or in the editor, and leaves the rest as it began.       *)
(***************************************************************************)
EXTENDS Studio, Editing, TLC

TwoKinds == <<"character", "location">>
OneOfEach == [character |-> 1, location |-> 1]

\* A client may claim that every preview is there.
AllDone == {[version |-> 2, shows |-> Preview]}

studioVars == <<part, libraryVars, assetVars, worldVars, accountVars>>
allVars == <<studioVars, vars>>

\* Folders that need not be told apart begin with the same name.
OneNameForAll ==
  \A f \in Shelf!LiveFolders :
    Shelf!Children(folders[f].parent) = {f} => folders[f].name = Shelf!Unused

\* While the editor is followed, the studio is empty.
DeskInit ==
  /\ \/ StudioInit
     \/ /\ part = "editing"
        /\ Init /\ Shelf!Init /\ Assets!Init /\ People!Init
        /\ world.look = video.note /\ \A a \in Client : users[a].name = video.note
        /\ Shelf!LiveFolders = {} /\ Shelf!Listed = {} /\ video.state = "absent"
        /\ world.cast = NoCast
  /\ OneNameForAll
  /\ EditingInit /\ project.root = world.look /\ timeline.frame = world.look

DeskNext == \/ StudioNext /\ UNCHANGED vars
            \/ part = "editing" /\ EditingNext /\ UNCHANGED studioVars

DeskSpec == DeskInit /\ [][DeskNext]_allVars

\* Clients, items and texts are interchangeable, whatever they stand for.
Symmetry == Permutations(Client) \cup Permutations(Item) \cup Permutations(Look)
=============================================================================
