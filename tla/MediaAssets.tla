---------------------------- MODULE MediaAssets ----------------------------
(***************************************************************************)
(* A generated video among the media assets of its owner                   *)
(* (media_repository.py, use_cases/media): it is promoted from a           *)
(* generation, described, deleted, and enriched with previews.             *)
(*                                                                         *)
(* Producers store under deterministic keys and register afterwards; the   *)
(* unique storage coordinates of media_assets, which count deleted rows    *)
(* too, tell them what was there before.  No row carries a version.        *)
(***************************************************************************)
EXTENDS Naturals, FiniteSets

CONSTANTS Client, Worker, Preview, Note,
          Thumbnail,    \* the one preview made before enrichment had versions
          Video,        \* the lock key media_enrichment:<id>
          Nobody,       \* Lease: no row
          Claim,        \* the markers clients write
          MaxPatches,   \* bound on the changes clients make
          MaxFailures   \* bound on enrichers, reads and workers that fail

VARIABLES
  video,      \* [state, note, marker]: the row and its source_metadata
  claimed,    \* ghost: the marker is what a client wrote, not what a pass did
  previews,   \* previews[k]: the state of the row registered under k's key
  stored,     \* the previews in the object store
  promo,      \* promo[c]: how far c's promotion is, or its answer
  pass,       \* pass[w]: what w's pass over the video knows
  holder, live,           \* the lease (Lease)
  patches, failures

Locks == INSTANCE Lease WITH Key <- {Video}, Owner <- Worker
leaseVars == <<holder, live>>
assetVars == <<video, claimed, previews, stored, promo, pass, leaseVars, patches, failures>>

TARGET == 2     \* CURRENT_ENRICHMENT_VERSION
State == {"absent", "live", "deleted"}
Marker == [version : {0, TARGET}, shows : SUBSET Preview]
Answer == {"none", "copied", "conflict", "promoted", "noop", "failed"}
Unmarked == [version |-> 0, shows |-> {}]
Idle == [at |-> "idle"]

Init == /\ \E n \in Note :
             \/ video = [state |-> "absent", note |-> n, marker |-> Unmarked] /\ stored = {}
             \/ /\ video = [state |-> "live", note |-> n,
                            marker |-> [version |-> 0, shows |-> {Thumbnail}]]
                /\ stored = {Thumbnail}
        /\ previews = [k \in Preview |-> IF k \in stored THEN "live" ELSE "absent"]
        /\ claimed = FALSE
        /\ promo = [c \in Client |-> "none"]
        /\ pass = [w \in Worker |-> Idle]
        /\ Locks!Init
        /\ patches = 0 /\ failures = 0
-----------------------------------------------------------------------------
(***************************************************************************)
(* Clients                                                                 *)
(***************************************************************************)
\* What a pass has read of the video is no longer so.
Stale == [w \in Worker |-> IF pass[w].at \in {"work", "register"}
                             THEN [pass[w] EXCEPT !.stale = TRUE] ELSE pass[w]]
Within == patches < MaxPatches /\ patches' = patches + 1

\* UpdateMedia replaces source_metadata, a dictionary nobody looks into: the client sends
\* the marker back, leaves it out, or writes one of its own.
UpdateMedia(n, marker) ==
  /\ video.state = "live" /\ Within
  /\ <<n, marker>> # <<video.note, video.marker>>
  /\ video' = [video EXCEPT !.note = n, !.marker = marker]
  /\ claimed' = IF marker = video.marker THEN claimed ELSE marker # Unmarked
  /\ pass' = Stale
  /\ UNCHANGED <<previews, stored, promo, leaseVars, failures>>

DeleteVideo ==
  /\ video.state = "live" /\ Within
  /\ video' = [video EXCEPT !.state = "deleted"]
  /\ pass' = Stale
  /\ UNCHANGED <<claimed, previews, stored, promo, leaseVars, failures>>

DeletePreview(k) ==
  /\ previews[k] = "live" /\ Within
  /\ previews' = [previews EXCEPT ![k] = "deleted"]
  /\ UNCHANGED <<video, claimed, stored, promo, pass, leaseVars, failures>>

\* PromoteGenerationAssets of a completed generation: the bytes are copied, then
\* registered; coordinates that are taken are looked up in a transaction of their own.
Promotes(c, from, to) == /\ promo[c] = from
                         /\ promo' = [promo EXCEPT ![c] = to]
                         /\ UNCHANGED <<claimed, previews, stored, pass, leaseVars, patches,
                                        failures>>
CopyVideo(c) == Promotes(c, "none", "copied") /\ UNCHANGED video

\* add, against the unique coordinates.
TakenCoords(state) == state # "absent"

RegisterVideo(c) ==
  \/ /\ ~TakenCoords(video.state)
     /\ Promotes(c, "copied", "promoted")
     /\ video' = [video EXCEPT !.state = "live"]
  \/ /\ TakenCoords(video.state)
     /\ Promotes(c, "copied", "conflict")
     /\ UNCHANGED video

LookUpVideo(c) ==
  /\ Promotes(c, "conflict", IF video.state = "live" THEN "noop" ELSE "failed")
  /\ UNCHANGED video
-----------------------------------------------------------------------------
(***************************************************************************)
(* MediaEnrichmentWorker and EnrichGeneratedMedia                          *)
(***************************************************************************)
Goes(w, r) == pass' = [pass EXCEPT ![w] = r] /\ UNCHANGED <<promo, patches>>
KeepsData == UNCHANGED <<video, claimed, previews, stored>>
Enrichable == video.state = "live" /\ video.marker.version < TARGET
Fails == failures < MaxFailures /\ failures' = failures + 1

\* list_enrichable_generated_videos.
ListEnrichable(w) ==
  /\ pass[w] = Idle /\ Enrichable
  /\ Goes(w, [at |-> "lock"]) /\ KeepsData
  /\ UNCHANGED <<leaseVars, failures>>

\* The lease media_enrichment:<id>, or this pass skips the video.
AcquireLease(w) ==
  /\ pass[w].at = "lock"
  /\ \/ Locks!Take(Video, w) /\ Goes(w, [at |-> "read"])
     \/ ~Locks!Free(Video) /\ Goes(w, Idle) /\ UNCHANGED leaseVars
  /\ KeepsData /\ UNCHANGED failures

\* Phase 1: the video is read again.
ReadAgain(w) ==
  /\ pass[w].at = "read"
  /\ Goes(w, IF Enrichable THEN [at |-> "work", note |-> video.note, stale |-> FALSE]
             ELSE [at |-> "release"])
  /\ KeepsData /\ UNCHANGED <<leaseVars, failures>>

\* Phase 2: the bytes are read, each enricher produces and stores its preview or fails.
Produce(w, made) ==
  /\ pass[w].at = "work"
  /\ IF made = Preview THEN UNCHANGED failures ELSE Fails
  /\ stored' = stored \cup made
  /\ Goes(w, [at |-> "register", note |-> pass[w].note, stale |-> pass[w].stale, made |-> made])
  /\ UNCHANGED <<video, claimed, previews, leaseVars>>

MaterializeFails(w) ==
  /\ pass[w].at = "work" /\ Fails
  /\ Goes(w, [at |-> "release"]) /\ KeepsData
  /\ UNCHANGED leaseVars

\* _register_derived: the flush that meets taken coordinates ends the transaction, and
\* the lookup that follows in it raises.
Collides(w) == \E k \in pass[w].made : TakenCoords(previews[k])

\* The marker names a version only when nothing failed.  (Mutant: always.)
AlwaysDone(made) == [version |-> TARGET, shows |-> made]
MarkerOf(made) == [version |-> IF made = Preview THEN TARGET ELSE 0, shows |-> made]

\* source_metadata as it was read, with the new marker.
Augmented(r) == [note |-> r.note, marker |-> MarkerOf(r.made)]

\* Phase 3: one transaction; update_owned matches no row when the video is gone.
RegisterPreviews(w) ==
  LET r == pass[w] IN
  /\ r.at = "register"
  /\ IF Collides(w)
       THEN UNCHANGED <<video, claimed, previews>>
       ELSE /\ previews' = [k \in Preview |-> IF k \in r.made THEN "live" ELSE previews[k]]
            /\ IF video.state = "live"
                 THEN /\ video' = [video EXCEPT !.note = Augmented(r).note,
                                                !.marker = Augmented(r).marker]
                      /\ claimed' = FALSE
                 ELSE UNCHANGED <<video, claimed>>
  /\ pass' = [IF video'.note # video.note THEN Stale ELSE pass EXCEPT ![w] = [at |-> "release"]]
  /\ UNCHANGED <<stored, promo, leaseVars, patches, failures>>

ReleaseLease(w) ==
  /\ pass[w].at = "release"
  /\ Locks!Drop(Video, w)
  /\ Goes(w, Idle) /\ KeepsData /\ UNCHANGED failures

Crash(w) ==
  /\ pass[w] # Idle /\ Fails
  /\ Goes(w, Idle) /\ KeepsData
  /\ UNCHANGED leaseVars

LeaseLapses ==
  /\ live[Video] /\ Locks!Lapse({Video})
  /\ UNCHANGED <<video, claimed, previews, stored, promo, pass, patches, failures>>
-----------------------------------------------------------------------------
WorkerStep(w) == \/ ListEnrichable(w) \/ AcquireLease(w) \/ ReadAgain(w)
                 \/ Produce(w, Preview) \/ RegisterPreviews(w) \/ ReleaseLease(w)

Next == \/ \E w \in Worker : \/ WorkerStep(w) \/ MaterializeFails(w) \/ Crash(w)
                             \/ \E made \in SUBSET Preview : Produce(w, made)
        \/ \E c \in Client : CopyVideo(c) \/ RegisterVideo(c) \/ LookUpVideo(c)
        \/ \E n \in Note, marker \in Claim \cup {Unmarked, video.marker} : UpdateMedia(n, marker)
        \/ \E k \in Preview : DeletePreview(k)
        \/ DeleteVideo \/ LeaseLapses

\* The worker host drives the passes, and leases lapse.
Spec == /\ Init /\ [][Next]_assetVars
        /\ \A w \in Worker : WF_assetVars(WorkerStep(w))
        /\ WF_assetVars(LeaseLapses)
-----------------------------------------------------------------------------
(***************************************************************************)
(* Properties                                                              *)
(***************************************************************************)
TypeOK ==
  /\ video.state \in State /\ video.note \in Note /\ video.marker \in Marker
  /\ claimed \in BOOLEAN
  /\ previews \in [Preview -> State] /\ stored \subseteq Preview
  /\ promo \in [Client -> Answer]
  /\ Locks!TypeOK

\* Unless a client says so of its own, a video leaves the enrichment scan with every
\* preview: a marker a pass wrote tells of rows that were registered, over objects that are
\* stored, and a version of all of them.
MarkerIsTrue ==
  /\ \A k \in Preview : previews[k] # "absent" => k \in stored
  /\ \/ claimed
     \/ /\ \A k \in video.marker.shows : previews[k] # "absent"
        /\ video.marker.version = TARGET => video.marker.shows = Preview

\* A pass changes a description, or registers previews of a deleted video, only when the
\* video was changed after the pass had read it: by a client, or by a pass that outlived
\* its lease.
PassesKeepWhatTheyRead ==
  [][\A w \in Worker :
       pass[w].at = "register" /\ pass'[w].at = "release" =>
         /\ video'.note # video.note => pass[w].stale
         /\ previews' # previews /\ video.state = "deleted" => pass[w].stale]_assetVars

\* However many clients promote one generation, one of them registers the video, and
\* the others are told so, or that it has been deleted since.
PromotedOnce ==
  /\ \A c, d \in Client : promo[c] = "promoted" /\ promo[d] = "promoted" => c = d
  /\ \A c \in Client : promo[c] = "failed" => video.state = "deleted"
  /\ \A c \in Client : promo[c] \in {"promoted", "noop"} => video.state # "absent"

\* enrich_generated_media.py: "a transient enricher/storage failure leaves the version
\* un-bumped so a later pass retries (recovering already-registered artifacts)".
EnrichmentConverges ==
  video.state = "live" ~> video.state # "live" \/ video.marker.version = TARGET
=============================================================================
