------------------------------- MODULE Studio -------------------------------
(***************************************************************************)
(* What creators keep through requests of their own, beside their          *)
(* projects: a world, the library, a generated video among the media       *)
(* assets, and their accounts.  These share no rows, so each behaviour     *)
(* works on one of them and leaves the others as they began; and as they   *)
(* never meet, they share the values of their sets.                        *)
(***************************************************************************)
EXTENDS Worlds

CONSTANTS
  Item, Film, Title,              \* folders and sessions, media assets, their names
  Preview, Thumbnail, Video, Claim,   \* MediaAssets
  LibraryCalls, AccountCalls,     \* MaxCalls of Library and of Accounts
  MaxPatches, MaxFailures         \* MediaAssets

VARIABLES
  part,                                                                   \* what is worked on
  folders, entries, media, calls, spent, races,                           \* Library
  video, claimed, previews, stored, promo, pass, holder, live, patches, failures,   \* MediaAssets
  users, sessions, requests, made, signUps, swept                         \* Accounts

Shelf == INSTANCE Library
           WITH Folder <- Item, Media <- Film, Name <- Title, Root <- Nothing,
                MaxCalls <- LibraryCalls
Assets == INSTANCE MediaAssets
            WITH Worker <- Client, Note <- Look, Nobody <- Nothing
People == INSTANCE Accounts
            WITH Account <- Client, Session <- Item, Name <- Look, Nobody <- Nothing,
                 MaxCalls <- AccountCalls

\* No folder is the root, the folders are finitely many, there is a name, the thumbnail is a
\* preview, and clients write well-formed markers.
ASSUME StudioAssumption ==
  /\ Nothing \notin Item /\ IsFiniteSet(Item) /\ Title # {}
  /\ Thumbnail \in Preview /\ Claim \subseteq Assets!Marker

libraryVars == <<folders, entries, media, calls, spent, races>>
assetVars == <<video, claimed, previews, stored, promo, pass, holder, live, patches, failures>>
accountVars == <<users, sessions, requests, made, signUps, swept>>

\* One text stands in all of them, what is not worked on is empty, and the world begins
\* without children.
StudioInit ==
  /\ part \in {"library", "assets", "world", "accounts"}
  /\ Init /\ Shelf!Init /\ Assets!Init /\ People!Init
  /\ world.look = video.note /\ \A a \in Client : users[a].name = video.note
  /\ part # "library" => Shelf!LiveFolders = {} /\ Shelf!Listed = {}
  /\ part # "assets" => video.state = "absent"
  /\ world.cast = NoCast

StudioNext ==
  /\ UNCHANGED part
  /\ \/ part = "library" /\ Shelf!Next /\ UNCHANGED <<assetVars, worldVars, accountVars>>
     \/ part = "assets" /\ Assets!Next /\ UNCHANGED <<libraryVars, worldVars, accountVars>>
     \/ part = "world" /\ Next /\ UNCHANGED <<libraryVars, assetVars, accountVars>>
     \/ part = "accounts" /\ People!Next /\ UNCHANGED <<libraryVars, assetVars, worldVars>>

StudioSpec == StudioInit /\ [][StudioNext]_<<part, libraryVars, assetVars, worldVars, accountVars>>
-----------------------------------------------------------------------------
\* What the checks before a write cannot see goes wrong through requests that are
\* overtaken, and only so: the shape of the folders (Library) and the one account of an
\* address (Accounts).
OnlyRacesHurt == Shelf!OnlyRacesHurt /\ People!OnlyRacesHurt

\* What may be won once is won once: one promotion of a generation registers its video
\* (MediaAssets), and one session of a family lives, and none of a family that a reused
\* token has ended (Accounts).
OnceWon == Assets!PromotedOnce /\ People!OneLiveSession /\ People!ReuseEndsFamily

\* A library entry and a profile are edited as their client saw them.
EditsWhatWasSeen == Shelf!EditsWhatWasSeen /\ People!EditsWhatWasSeen

\* No step leaves an enrichment marker that tells of unregistered rows or of objects that
\* are not stored, but for a marker a client wrote; and a pass overwrites or outlives only
\* what was changed after its read.
EnrichmentIsHonest == [][Assets!MarkerIsTrue']_assetVars /\ Assets!PassesKeepWhatTheyRead
=============================================================================
