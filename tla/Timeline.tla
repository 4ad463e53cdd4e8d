------------------------------ MODULE Timeline ------------------------------
(***************************************************************************)
(* The timeline of a project (timeline_repository.py, use_cases/timeline): *)
(* an aggregate of tracks and clips under the one version of its root.     *)
(* A child row carries no version: its write takes the row, and the fenced *)
(* bump of the root that follows in the same transaction decides.  A token *)
(* a client presents is any it may have read before.  Editing composes     *)
(* this module with the project whose owner gates every operation.         *)
(***************************************************************************)
EXTENDS Naturals

CONSTANTS Client, Track, Clip,
          ZIndex,   \* z_index of a track
          Cut,      \* what the fields of a clip say
          Frame,    \* what the fields of the root say
          NoEdit    \* no transaction is open

VARIABLES
  timeline,  \* [version, frame]: the root row, version 0 while there is none
  tracks,    \* tracks[t] = [state, z]
  clips,     \* clips[k] = [state, on, cut]
  edit,      \* edit[c]: the uncommitted child write of c's transaction
  glance     \* an observer's GET: the version it was given, and the content

timelineVars == <<timeline, tracks, clips, edit, glance>>

State == {"absent", "live", "deleted"}
Root == [version : Nat, frame : Frame]
TrackRow == [state : State, z : ZIndex]
ClipRow == [state : State, on : Track, cut : Cut]
Edit == [kind : {"track"}, id : Track, row : TrackRow, expects : Nat]
          \cup [kind : {"clip"}, id : Clip, row : ClipRow, expects : Nat]

LiveTracks == {t \in Track : tracks[t].state = "live"}
LiveClips == {k \in Clip : clips[k].state = "live" /\ clips[k].on \in LiveTracks}

\* GetTimeline: the root, its tracks and their clips.
Shown == [frame |-> timeline.frame,
          tracks |-> {<<t, tracks[t].z>> : t \in LiveTracks},
          clips |-> {<<k, clips[k].on, clips[k].cut>> : k \in LiveClips}]

Init == /\ \E f \in Frame : timeline = [version |-> 0, frame |-> f]
        /\ tracks = [t \in Track |-> [state |-> "absent", z |-> CHOOSE z \in ZIndex : TRUE]]
        /\ clips = [k \in Clip |-> [state |-> "absent", on |-> CHOOSE t \in Track : TRUE,
                                    cut |-> CHOOSE x \in Cut : TRUE]]
        /\ edit = [c \in Client |-> NoEdit]
        /\ glance = [version |-> 0, read |-> FALSE, content |-> Shown]
-----------------------------------------------------------------------------
\* The gate in the use case: a timeline, and the token if one was sent (0: none).
Gate(c, e) == edit[c] = NoEdit /\ timeline.version > 0 /\ e \in {0, timeline.version}

\* The row is not locked by another transaction.
Unlocked(kind, id) ==
  \A d \in Client : edit[d] # NoEdit => edit[d].kind # kind \/ edit[d].id # id

\* uq_tracks_timeline_id_z_index: taken by a live track, or being taken.
ZTaken(z) ==
  \/ \E t \in LiveTracks : tracks[t].z = z
  \/ \E d \in Client : edit[d] # NoEdit /\ edit[d].kind = "track" /\ edit[d].row.z = z

Write(c, kind, id, row, e) ==
  /\ Unlocked(kind, id)
  /\ edit' = [edit EXCEPT ![c] = [kind |-> kind, id |-> id, row |-> row, expects |-> e]]
  /\ UNCHANGED <<timeline, tracks, clips, glance>>

ProvisionTimeline(f) ==
  /\ timeline.version = 0
  /\ timeline' = [version |-> 1, frame |-> f]
  /\ UNCHANGED <<tracks, clips, edit, glance>>

\* The token of the request was checked before; the statement checks it again.
UpdateTimeline(c, f) ==
  /\ Gate(c, timeline.version) /\ f # timeline.frame
  /\ timeline' = [version |-> timeline.version + 1, frame |-> f]
  /\ UNCHANGED <<tracks, clips, edit, glance>>

CreateTrack(c, t, z, e) ==
  /\ Gate(c, e) /\ tracks[t].state = "absent" /\ ~ZTaken(z)
  /\ Write(c, "track", t, [state |-> "live", z |-> z], e)

UpdateTrack(c, t, z) ==
  /\ Gate(c, timeline.version) /\ t \in LiveTracks /\ ~ZTaken(z)
  /\ Write(c, "track", t, [tracks[t] EXCEPT !.z = z], timeline.version)

\* The clips of a deleted track stay, and are not shown any more.
DeleteTrack(c, t) ==
  /\ Gate(c, timeline.version) /\ t \in LiveTracks
  /\ Write(c, "track", t, [tracks[t] EXCEPT !.state = "deleted"], timeline.version)

CreateClip(c, k, t, x, e) ==
  /\ Gate(c, e) /\ clips[k].state = "absent" /\ t \in LiveTracks
  /\ Write(c, "clip", k, [state |-> "live", on |-> t, cut |-> x], e)

UpdateClip(c, k, x) ==
  /\ Gate(c, timeline.version) /\ k \in LiveClips /\ x # clips[k].cut
  /\ Write(c, "clip", k, [clips[k] EXCEPT !.cut = x], timeline.version)

DeleteClip(c, k) ==
  /\ Gate(c, timeline.version) /\ k \in LiveClips
  /\ Write(c, "clip", k, [clips[k] EXCEPT !.state = "deleted"], timeline.version)

\* bump_version: unfenced when the request had no token.
Fresh(e) == e \in {0, timeline.version}

\* The bump and the commit, or (a stale token) the rollback of the child write.
CommitEdit(c) ==
  LET d == edit[c] IN
  /\ d # NoEdit
  /\ edit' = [edit EXCEPT ![c] = NoEdit]
  /\ IF Fresh(d.expects)
       THEN /\ timeline' = [timeline EXCEPT !.version = @ + 1]
            /\ tracks' = IF d.kind = "track" THEN [tracks EXCEPT ![d.id] = d.row] ELSE tracks
            /\ clips' = IF d.kind = "clip" THEN [clips EXCEPT ![d.id] = d.row] ELSE clips
       ELSE UNCHANGED <<timeline, tracks, clips>>
  /\ UNCHANGED glance

RollBack(c) == /\ edit[c] # NoEdit
               /\ edit' = [edit EXCEPT ![c] = NoEdit]
               /\ UNCHANGED <<timeline, tracks, clips, glance>>

\* GetTimeline reads the root in one statement and its children in later ones.
GetRoot == /\ timeline.version > 0 /\ glance.version # timeline.version
           /\ glance' = [version |-> timeline.version, read |-> FALSE,
                         content |-> [frame |-> timeline.frame, tracks |-> {}, clips |-> {}]]
           /\ UNCHANGED <<timeline, tracks, clips, edit>>

GetChildren == /\ glance.version > 0 /\ ~glance.read
               /\ glance' = [glance EXCEPT !.read = TRUE,
                             !.content = [Shown EXCEPT !.frame = glance.content.frame]]
               /\ UNCHANGED <<timeline, tracks, clips, edit>>

Next == \/ \E f \in Frame : ProvisionTimeline(f)
        \/ \E c \in Client :
             \/ \E f \in Frame : UpdateTimeline(c, f)
             \/ \E t \in Track, z \in ZIndex, e \in {0, timeline.version} : CreateTrack(c, t, z, e)
             \/ \E t \in Track : DeleteTrack(c, t) \/ \E z \in ZIndex : UpdateTrack(c, t, z)
             \/ \E k \in Clip, t \in Track, x \in Cut, e \in {0, timeline.version} :
                  CreateClip(c, k, t, x, e)
             \/ \E k \in Clip : DeleteClip(c, k) \/ \E x \in Cut : UpdateClip(c, k, x)
             \/ CommitEdit(c) \/ RollBack(c)
        \/ GetRoot \/ GetChildren
-----------------------------------------------------------------------------
TypeOK == /\ timeline \in Root
          /\ tracks \in [Track -> TrackRow]
          /\ clips \in [Clip -> ClipRow]
          /\ edit \in [Client -> Edit \cup {NoEdit}]
          /\ glance.version \in Nat /\ glance.read \in BOOLEAN

\* Whoever holds the current version has seen the current content, whatever was
\* committed between the statements of the read.  Part of TokenNamesContent.
VersionNamesContent ==
  glance.read /\ glance.version = timeline.version => glance.content = Shown
=============================================================================
