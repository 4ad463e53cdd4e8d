------------------------------ MODULE Pipeline ------------------------------
(***************************************************************************)
(* One run of one generation (generate_video.py): plan the shots of a      *)
(* prompt, resolve an adapter, make and verify an image for each shot,     *)
(* retrying a rejected one with another seed, then render and verify the   *)
(* video.  Every call of the store is a transaction of its own, so a crash *)
(* or an error between two of them leaves what was written; a reaper that  *)
(* takes the run for lost may mark it failed while it goes on.             *)
(*                                                                         *)
(* Durations are in hundredths of a second.                                *)
(***************************************************************************)
EXTENDS Integers, SequencesExt, FiniteSetsExt

CONSTANTS
  Absent,          \* what is not measured, or not there
  Prompt,          \* prompts: how many sentences and how many clauses they have
  Identity,        \* which of a character, a location and a prop the world defines
  Target, PerShot, \* durations asked for
  Image,           \* what a generator may return, as the feature extractor sees it
  Film,            \* what the probe may measure of a rendered video
  MaxShots,        \* bound on the shots of a run that goes beyond its plan
  MaxReaps         \* bound on the reapers that take the run for lost

\* Prompts have parts; durations are positive: the API takes no other, and plan_from_prompt
\* none per shot.
ASSUME RequestAssumption == /\ Prompt \subseteq [sentences : Nat, clauses : Nat]
                            /\ Target \subseteq Nat /\ PerShot \subseteq Nat \ {0}

VARIABLES
  plan,       \* the plan of the run: its shots in order, or Absent
  run,        \* where the run is: [pc, shot, attempt, seed, frames, image]
  record,     \* the generations row: status and final video
  shots,      \* generation_shots rows by shot number
  assets,     \* generation_assets rows: the keys registered
  objects,    \* object storage, by key
  emitted,    \* how many events of each kind are in the outbox
  called,     \* ghost: the seeds of the images made, in order
  reaps

pipelineVars == <<plan, run, record, shots, assets, objects, emitted, called, reaps>>
stored == <<record, shots, assets, objects, emitted>>
-----------------------------------------------------------------------------
(***************************************************************************)
(* Planning.                                                               *)
(***************************************************************************)
MinDuration == 1500
MaxDuration == 3000
MaxAttempts == 3           \* DEFAULT_MAX_ATTEMPTS

\* Python's round: to the nearest integer, a half to the even one.
Rounded(n, d) == LET q == n \div d
                     r == n % d
                 IN IF 2 * r > d \/ (2 * r = d /\ q % 2 = 1) THEN q + 1 ELSE q

AtLeast(n, low) == IF n < low THEN low ELSE n
Clamped(t) == IF t > MaxDuration THEN MaxDuration ELSE AtLeast(t, MinDuration)
ShotCount(target, perShot) == AtLeast(Rounded(Clamped(target), perShot), 1)

\* _beats: the parts of a prompt (1, 2, ...) that each shot shows.
PartsOf(p, count) ==
  AtLeast(IF p.sentences < count /\ p.clauses > p.sentences THEN p.clauses ELSE p.sentences, 1)
Beats(p, count) ==
  LET n == PartsOf(p, count)
      edge(i) == Rounded(i * n, count)
  IN [i \in 1..count |-> IF n >= count THEN [k \in 1..(edge(i) - edge(i - 1)) |-> edge(i - 1) + k]
                         ELSE <<((i - 1) % n) + 1>>]

Beat(type, camera, movement, purpose, focus, transition) ==
  [type |-> type, camera |-> camera, movement |-> movement, purpose |-> purpose,
   focus |-> focus, transition |-> transition]

Opening == Beat("establishing", "crane", "still", "arrival", "environment", Absent)
Ending(movement) ==
  Beat("ending", "pull_back", movement, "resolution", "environment", "dissolve")
Medium(purpose) == Beat("medium", "track", "walking", purpose, "subject", "cut")
CloseUp == Beat("close_up", "push_in", "looking", "intimacy", "subject", "dissolve")

\* The authored arcs of three, five and six shots.
Authored ==
  [n \in {3, 5, 6} |->
     CASE n = 3 -> <<Opening, Medium("focus"), Ending("still")>>
       [] n = 5 -> <<Opening, Medium("exploration"), CloseUp,
                     Beat("detail", "static", "still", "texture", "detail", "cut"),
                     Ending("turning")>>
       [] n = 6 -> <<Opening,
                     Beat("wide", "pan_right", "walking", "exploration", "subject", "cut"),
                     Medium("journey"), CloseUp,
                     Beat("action", "handheld", "running", "tension", "subject", "cut"),
                     Ending("still")>>]

\* _synthesize_arc: any other number, from pools taken in turn.
Types == <<"wide", "medium", "close_up", "detail", "action">>
Cameras == <<"pan_right", "track", "push_in", "handheld", "pan_left", "crane">>
Movements == <<"walking", "looking", "running", "turning", "interacting">>
Transitions == <<"cut", "dissolve", "match_cut">>
InTurn(pool, i) == pool[((i - 1) % Len(pool)) + 1]

Synthesized(n) ==
  LET middle == [i \in 1..(n - 2) |->
        Beat(InTurn(Types, i), InTurn(Cameras, i), InTurn(Movements, i),
             "beat " \o ToString(i), "subject", InTurn(Transitions, i))]
  IN IF n = 1 THEN <<Opening>> ELSE <<Opening>> \o middle \o <<Ending("still")>>

Arc(n) == IF n \in DOMAIN Authored THEN Authored[n] ELSE Synthesized(n)

\* assign_shot_ids: the type and its occurrence; the seed of a shot is a hash of its id.
ShotIds(arc) ==
  [i \in DOMAIN arc |-> <<arc[i].type, Cardinality({j \in 1..i : arc[j].type = arc[i].type})>>]

\* _resolve_focus
Focus(identity, hint) ==
  LET first(kinds) == IF \E k \in DOMAIN kinds : kinds[k] \in identity
                      THEN SelectSeq(kinds, LAMBDA k : k \in identity)[1] ELSE Absent
  IN CASE hint = "subject" -> first(<<"character">>)
       [] hint = "environment" -> first(<<"location">>)
       [] hint = "detail" -> first(<<"prop", "character">>)

Primary(shot) == <<shot.beat.type, shot.beat.camera, shot.focus>>
Secondary(shot) == <<shot.beat.movement, shot.beat.purpose, shot.beat.transition>>

\* plan_from_prompt; a blank prompt has no plan.
PlanOf(p, identity, target, perShot) ==
  LET count == ShotCount(target, perShot)
      arc == Arc(count)
  IN [i \in 1..count |->
        [id |-> ShotIds(arc)[i], shows |-> Beats(p, count)[i], beat |-> arc[i],
         focus |-> Focus(identity, arc[i].focus), lasts |-> Rounded(Clamped(target), count)]]
-----------------------------------------------------------------------------
(***************************************************************************)
(* Verification and repair.  An image is [produced, blank, size, look,     *)
(* watermark], Absent where the extractor measured nothing; looks are      *)
(* numbers, similar when they are close.                                   *)
(***************************************************************************)
Similar(a, b) == a - b \in -1..1

\* verify_image: the checks that fail; what is not measured does not.
Failures(image, reference) ==
  IF ~image.produced THEN {"produced"}
  ELSE {check \in {"not_blank", "min_dimensions", "aspect_ratio", "consistency", "no_watermark"} :
          CASE check = "not_blank" -> image.blank = TRUE
            [] check = "min_dimensions" -> image.size = "small"
            [] check = "aspect_ratio" -> image.size = "skewed"
            [] check = "consistency" -> /\ reference # Absent /\ reference.look # Absent
                                        /\ image.look # Absent
                                        /\ ~Similar(image.look, reference.look)
            [] check = "no_watermark" -> image.watermark = TRUE}

\* The reference is the first accepted frame.
Reference(frames) == IF frames = <<>> THEN Absent ELSE Head(frames)

\* decide_repair
RepairAction(failures, attempt) == CASE failures = {} -> "accept"
                                     [] failures # {} /\ attempt < MaxAttempts -> "retry"
                                     [] OTHER -> "give_up"

\* A seed is the shot's, moved on by so much.  (Mutant: a retry keeps it.)
SameSeed(seed, attempt) == seed
NextSeed(seed, attempt) == [seed EXCEPT !.moved = @ + attempt]

\* verify_timeline: complete, no frame twice, no duration of nothing.
Alike(f, g) == f.look # Absent /\ f.look = g.look
TimelineHolds(frames) ==
  /\ Len(frames) = Len(plan)
  /\ \A i, j \in DOMAIN frames : Alike(frames[i], frames[j]) => i = j
  /\ \A i \in DOMAIN frames : plan[i].lasts >= 1 /\ frames[i].size # "skewed"

\* _verify_video: what was not measured is not held against it.
VideoHolds(film) == film.duration # "off" /\ film.dimensions # "off"
-----------------------------------------------------------------------------
(***************************************************************************)
(* The run.                                                                *)
(***************************************************************************)
Event == {"started", "shot_generated", "repair_succeeded", "verification_failed",
          "video_rendered", "export_completed"}

PipelineInit ==
  /\ plan = Absent
  /\ run = [pc |-> "claimed", shot |-> 0, attempt |-> 0, seed |-> Absent, frames |-> <<>>,
            image |-> Absent]
  /\ record = [status |-> "planning", video |-> Absent]
  /\ shots = <<>>
  /\ assets = {}
  /\ objects = <<>>
  /\ emitted = [e \in Event |-> 0]
  /\ called = <<>>
  /\ reaps = 0

MoveTo(l) == run' = [run EXCEPT !.pc = l]
Emit(events) == emitted' = [e \in Event |-> IF e \in events THEN emitted[e] + 1 ELSE emitted[e]]
SaveStatus(s) == record' = [record EXCEPT !.status = s]

\* execute up to begin: plan and resolve, then write the row and announce the start.
Begin ==
  /\ run.pc = "claimed"
  /\ \E p \in Prompt, identity \in Identity, target \in Target, perShot \in PerShot :
       plan' = PlanOf(p, identity, target, perShot)
  /\ SaveStatus("planning")
  /\ Emit({"started"})
  /\ MoveTo("planned")
  /\ UNCHANGED <<shots, assets, objects, called, reaps>>

\* set_status, where the run does nothing else.
Advance(from, saved, to) ==
  /\ run.pc = from
  /\ SaveStatus(saved)
  /\ MoveTo(to)
  /\ UNCHANGED <<plan, shots, assets, objects, emitted, called, reaps>>

\* record_resolution (the ledger's row is of no further use to the run).
RecordResolution ==
  /\ run.pc = "resolving" /\ Len(plan) <= MaxShots
  /\ \E outcome \in {"resolved", "failing"} : MoveTo(outcome)
  /\ UNCHANGED <<plan, stored, called, reaps>>

\* The next shot, or the timeline gate after the last one.
Turn(frames) ==
  LET next == Len(frames) + 1
  IN IF next <= Len(plan)
     THEN [pc |-> "shooting", shot |-> next, attempt |-> 1, frames |-> frames, image |-> Absent,
           seed |-> [id |-> plan[next].id, moved |-> 0]]
     ELSE [run EXCEPT !.frames = frames, !.image = Absent,
                      !.pc = IF TimelineHolds(frames) THEN "assembling" ELSE "failing"]

StartShots ==
  /\ run.pc = "resolved"
  /\ SaveStatus("generating")
  /\ run' = Turn(<<>>)
  /\ UNCHANGED <<plan, shots, assets, objects, emitted, called, reaps>>

\* One turn of the loop of _render_shot.
Shoot ==
  /\ run.pc = "shooting"
  /\ called' = Append(called, run.seed)
  /\ \E image \in Image :
       LET action == RepairAction(Failures(image, Reference(run.frames)), run.attempt)
       IN run' = CASE action = "accept" -> [run EXCEPT !.pc = "putting", !.image = image]
                   [] action = "retry" -> [run EXCEPT !.attempt = @ + 1,
                                                      !.seed = NextSeed(@, run.attempt)]
                   [] action = "give_up" -> [run EXCEPT !.pc = "rejecting"]
  /\ UNCHANGED <<plan, stored, reaps>>

FrameKey(i) == [kind |-> "frame", shot |-> i]
VideoKey == [kind |-> "video", shot |-> Absent]
Put(key, data) ==
  objects' = [k \in DOMAIN objects \cup {key} |-> IF k = key THEN data ELSE objects[k]]
Register(key) == assets' = assets \cup {key}

PutFrame ==
  /\ run.pc = "putting"
  /\ Put(FrameKey(run.shot), run.image)
  /\ MoveTo("registering")
  /\ UNCHANGED <<plan, record, shots, assets, emitted, called, reaps>>

RegisterFrame ==
  /\ run.pc = "registering"
  /\ Register(FrameKey(run.shot))
  /\ MoveTo("recording")
  /\ UNCHANGED <<plan, record, shots, objects, emitted, called, reaps>>

\* record_shot: the row and its events in one transaction.
ShotRow(accepted) == [accepted |-> accepted, seed |-> run.seed, repairs |-> run.attempt - 1]
EventsOf(r) == IF ~r.accepted THEN {"verification_failed"}
               ELSE {"shot_generated"} \cup IF r.repairs > 0 THEN {"repair_succeeded"} ELSE {}

RecordShot ==
  /\ run.pc \in {"recording", "rejecting"}
  /\ LET r == ShotRow(run.pc = "recording")
     IN /\ shots' = Append(shots, r)
        /\ Emit(EventsOf(r))
        /\ run' = IF r.accepted THEN Turn(Append(run.frames, run.image))
                  ELSE [run EXCEPT !.pc = "failing"]
  /\ UNCHANGED <<plan, record, assets, objects, called, reaps>>

\* The film of the accepted frames.
RenderVideo ==
  /\ run.pc = "rendering"
  /\ Put(VideoKey, run.frames)
  /\ MoveTo("rendered")
  /\ UNCHANGED <<plan, record, shots, assets, emitted, called, reaps>>

\* The video is registered whatever the probe says of it.
RegisterVideo ==
  /\ run.pc = "exporting"
  /\ Register(VideoKey)
  /\ \E film \in Film : MoveTo(IF VideoHolds(film) THEN "completing" ELSE "failing")
  /\ UNCHANGED <<plan, record, shots, objects, emitted, called, reaps>>

CompleteRun ==
  /\ run.pc = "completing"
  /\ record' = [status |-> "completed", video |-> VideoKey]
  /\ Emit({"video_rendered", "export_completed"})
  /\ MoveTo("ended")
  /\ UNCHANGED <<plan, shots, assets, objects, called, reaps>>

Fail ==
  /\ run.pc = "failing"
  /\ SaveStatus("failed")
  /\ MoveTo("ended")
  /\ UNCHANGED <<plan, shots, assets, objects, emitted, called, reaps>>

\* mark_lost: whatever raises or dies in a run leaves a claimed row to be failed.
RecordLost ==
  IF record.status \in {"completed", "failed"} THEN UNCHANGED record ELSE SaveStatus("failed")

Raise ==
  /\ run.pc # "ended"
  /\ RecordLost
  /\ MoveTo("ended")
  /\ UNCHANGED <<plan, shots, assets, objects, emitted, called, reaps>>

\* A reaper that holds the lease, with the run dead or still going on.
ReapRun ==
  /\ reaps < MaxReaps
  /\ reaps' = reaps + 1
  /\ RecordLost
  /\ UNCHANGED <<plan, run, shots, assets, objects, emitted, called>>

Die ==
  /\ run.pc # "ended"
  /\ MoveTo("ended")
  /\ UNCHANGED <<plan, stored, called, reaps>>

PipelineNext ==
  \/ Begin \/ RecordResolution \/ StartShots \/ Shoot
  \/ PutFrame \/ RegisterFrame \/ RecordShot \/ RenderVideo \/ RegisterVideo
  \/ CompleteRun \/ Fail \/ Raise \/ ReapRun \/ Die
  \/ Advance("planned", "resolving", "resolving")
  \/ Advance("assembling", "rendering", "rendering")
  \/ Advance("rendered", "exporting", "exporting")

PipelineSpec == PipelineInit /\ [][PipelineNext]_pipelineVars
-----------------------------------------------------------------------------
\* The planner keeps its word for every prompt: every shot shows something, together they
\* show all its parts, each in one shot and in their order, or, when they are fewer than the
\* shots, one in each, in turn.
Keeps(made, p) ==
  LET n == PartsOf(p, Len(made))
      shown(i) == ToSet(made[i].shows)
  IN /\ \A i \in DOMAIN made : shown(i) # {}
     /\ UNION {shown(i) : i \in DOMAIN made} = 1..n
     /\ \A i \in DOMAIN made : \A k, l \in DOMAIN made[i].shows :
          k < l => made[i].shows[k] < made[i].shows[l]
     /\ \A i, j \in DOMAIN made : i < j /\ n >= Len(made) =>
          \A a \in shown(i), b \in shown(j) : a < b
     /\ \A i, j \in DOMAIN made : i + 1 = j /\ n < Len(made) =>
          \A a \in shown(i) : shown(j) = {(a % n) + 1}

PlanKeepsPrompt == plan # Absent => \E p \in Prompt : Keeps(plan, p)

\* And for every duration: ids, and with them seeds, are distinct; neighbours differ in a
\* primary and in a secondary dimension (CS-7); and rounding moves the length by half a
\* hundredth a shot.
PlanVaries ==
  plan # Absent =>
    LET total == Len(plan) * plan[1].lasts
    IN /\ \A i, j \in DOMAIN plan : plan[i].id = plan[j].id => i = j
       /\ \A i \in 1..(Len(plan) - 1) : /\ Primary(plan[i]) # Primary(plan[i + 1])
                                        /\ Secondary(plan[i]) # Secondary(plan[i + 1])
       /\ 2 * total \in (2 * MinDuration - Len(plan))..(2 * MaxDuration + Len(plan))

Frame(i) == objects[FrameKey(i)]

\* What is called completed is: every shot of the plan was accepted, the video in storage is
\* of these frames in this order, each of them passes against the first, and no two are
\* alike; whoever took the run for lost meanwhile.
CompletedIsSound ==
  record.status = "completed" =>
    /\ Len(shots) = Len(plan) /\ \A i \in DOMAIN shots : shots[i].accepted
    /\ assets = {FrameKey(i) : i \in DOMAIN shots} \cup {record.video}
    /\ objects[record.video] = [i \in DOMAIN shots |-> Frame(i)]
    /\ \A i \in DOMAIN shots : Failures(Frame(i), IF i = 1 THEN Absent ELSE Frame(1)) = {}
    /\ \A i, j \in DOMAIN shots : Alike(Frame(i), Frame(j)) => i = j

\* Wherever the run stops, the tables tell what it did: a row for each shot that is over, of
\* which only the last was rejected; their events, each once; a registered asset is stored,
\* at most one is ahead of its row, and at most one object is not registered.
RowsTellRun ==
  LET accepted == {i \in DOMAIN shots : shots[i].accepted}
      repaired == {i \in accepted : shots[i].repairs > 0}
      frames == {key.shot : key \in assets \ {VideoKey}}
  IN /\ \A i \in DOMAIN shots \ accepted : i = Len(shots) /\ record.status # "completed"
     /\ emitted["shot_generated"] = Cardinality(accepted)
     /\ emitted["repair_succeeded"] = Cardinality(repaired)
     /\ emitted["verification_failed"] = Cardinality(DOMAIN shots \ accepted)
     /\ accepted \subseteq frames /\ Cardinality(frames \ accepted) <= 1
     /\ assets \subseteq DOMAIN objects /\ Cardinality(DOMAIN objects \ assets) <= 1

\* Every image paid for is of a seed never used before ("the retry differs from the failed
\* generation"), and is of a shot that is on record with as many attempts, or of the one
\* under way, which follows those and has no more attempts than are allowed; after a shot
\* that was rejected none is under way.
ImagesOf(id, made) == {c \in DOMAIN made : made[c].id = id}
Calls(i) == ImagesOf(plan[i].id, called)
EveryImageCounts ==
  /\ IsInjective(called)
  /\ \A c \in DOMAIN called : \E i \in DOMAIN plan : called[c].id = plan[i].id
  /\ \A i \in DOMAIN shots : Cardinality(Calls(i)) = shots[i].repairs + 1
  /\ called # <<>> => \A i \in DOMAIN plan \ DOMAIN shots : Calls(i) # {} =>
       /\ i = Len(shots) + 1 /\ \A j \in DOMAIN shots : shots[j].accepted
       /\ Cardinality(Calls(i)) <= MaxAttempts

\* Whatever becomes of a run, before the end of it, at the end of it and after it.
RunsAreSound == /\ PlanKeepsPrompt /\ PlanVaries
                /\ CompletedIsSound /\ RowsTellRun /\ EveryImageCounts
=============================================================================
