--------------------------- MODULE EditingProofs ---------------------------
(***************************************************************************)
(* Theorems about editing: what the tokens of a project and the versions   *)
(* of its timeline name, and what the ledger of its versions records, for  *)
(* every set of clients, scenes, tracks and clips.                         *)
(***************************************************************************)
EXTENDS Editing, FiniteSetTheorems, TLAPS

\* The shapes of the rows whose versions clients hold.
Shapes ==
  /\ project = [live |-> project.live, token |-> project.token, root |-> project.root]
  /\ project.live \in BOOLEAN /\ project.token \in Nat
  /\ timeline = [version |-> timeline.version, frame |-> timeline.frame]
  /\ timeline.version \in Nat
  /\ glance = [version |-> glance.version, read |-> glance.read, content |-> glance.content]
  /\ glance.version \in Nat /\ glance.read \in BOOLEAN

\* What a reader was given is not ahead of the timeline, and while it is current the
\* half it has read is as it was.
GlanceIsPast ==
  /\ glance.version <= timeline.version
  /\ glance.version = timeline.version =>
       IF glance.read THEN glance.content = Desk!Shown
                      ELSE glance.content.frame = timeline.frame

TokenInv == Shapes /\ GlanceIsPast
-----------------------------------------------------------------------------
\* A write of the timeline makes every version given out so far an old one.
LEMMA BumpSafe ==
  ASSUME TokenInv, NEW f, timeline' = [version |-> timeline.version + 1, frame |-> f],
         UNCHANGED glance, UNCHANGED project
  PROVE  TokenInv'
<1>1. timeline'.version = timeline.version + 1
  OBVIOUS
<1>2. timeline'.version \in Nat /\ glance.version < timeline'.version
  BY <1>1 DEF TokenInv, Shapes, GlanceIsPast
<1>3. QED
  BY <1>1, <1>2 DEF TokenInv, Shapes, GlanceIsPast

\* A step that writes no timeline.
LEMMA QuietSafe ==
  ASSUME TokenInv, UNCHANGED <<timeline, tracks, clips, glance, project>>
  PROVE  TokenInv'
BY DEF TokenInv, Shapes, GlanceIsPast, Desk!Shown, Desk!LiveTracks, Desk!LiveClips

\* The two statements of a read.
LEMMA ReadSafe ==
  ASSUME TokenInv, UNCHANGED project, Desk!GetRoot \/ Desk!GetChildren
  PROVE  TokenInv'
<1>1. UNCHANGED <<timeline, tracks, clips>>
  BY DEF Desk!GetRoot, Desk!GetChildren
<1>2. Desk!Shown' = Desk!Shown
  BY <1>1 DEF Desk!Shown, Desk!LiveTracks, Desk!LiveClips
<1>3. CASE Desk!GetRoot
  <2>1. glance' = [version |-> timeline.version, read |-> FALSE,
                   content |-> [frame |-> timeline.frame, tracks |-> {}, clips |-> {}]]
    BY <1>3 DEF Desk!GetRoot
  <2>2. QED
    BY <1>1, <2>1 DEF TokenInv, Shapes, GlanceIsPast
<1>4. CASE Desk!GetChildren
  <2>1. ~glance.read
        /\ glance' = [glance EXCEPT !.read = TRUE,
                      !.content = [Desk!Shown EXCEPT !.frame = glance.content.frame]]
    BY <1>4 DEF Desk!GetChildren
  <2>2. glance' = [version |-> glance.version, read |-> TRUE,
                   content |-> [Desk!Shown EXCEPT !.frame = glance.content.frame]]
    BY <2>1 DEF TokenInv, Shapes
  <2>3. glance.version = timeline.version => glance.content.frame = timeline.frame
    BY <2>1 DEF TokenInv, GlanceIsPast
  <2>4. [Desk!Shown EXCEPT !.frame = timeline.frame] = Desk!Shown
    BY DEF Desk!Shown
  <2>5. glance'.version = timeline'.version => glance'.content = Desk!Shown'
    BY <1>1, <1>2, <2>2, <2>3, <2>4
  <2>6. QED
    BY <1>1, <2>2, <2>5 DEF TokenInv, Shapes, GlanceIsPast
<1>5. QED
  BY <1>3, <1>4

LEMMA TimelineSafe ==
  ASSUME TokenInv, TimelineStep
  PROVE  TokenInv'
<1>1. UNCHANGED project
  BY DEF TimelineStep, boardVars
<1>2. CASE Desk!GetRoot \/ Desk!GetChildren
  BY <1>1, <1>2, ReadSafe
<1>3. CASE ~(Desk!GetRoot \/ Desk!GetChildren)
  <2>1. \/ UNCHANGED <<timeline, tracks, clips, glance>>
        \/ UNCHANGED glance /\ \E f : timeline' = [version |-> timeline.version + 1, frame |-> f]
    <3>1. \A c \in Author : Desk!CommitEdit(c) =>
            \/ UNCHANGED <<timeline, tracks, clips, glance>>
            \/ UNCHANGED glance
               /\ timeline' = [version |-> timeline.version + 1, frame |-> timeline.frame]
      BY DEF Desk!CommitEdit, TokenInv, Shapes
    <3>2. \A c \in Author : Desk!RollBack(c) => UNCHANGED <<timeline, tracks, clips, glance>>
      BY DEF Desk!RollBack
    <3>3. CASE Desk!Next
      <4>1. \A f : Desk!ProvisionTimeline(f) =>
              UNCHANGED glance /\ timeline' = [version |-> timeline.version + 1, frame |-> f]
        BY DEF Desk!ProvisionTimeline, TokenInv, Shapes
      <4>2. \A c \in Author : \A f : Desk!UpdateTimeline(c, f) =>
              UNCHANGED glance /\ timeline' = [version |-> timeline.version + 1, frame |-> f]
        BY DEF Desk!UpdateTimeline
      <4>3. QED
        BY <1>3, <3>1, <3>2, <3>3, <4>1, <4>2 DEF Desk!Next, Desk!CreateTrack,
             Desk!UpdateTrack, Desk!DeleteTrack, Desk!CreateClip, Desk!UpdateClip,
             Desk!DeleteClip, Desk!Write
    <3>4. QED
      BY <3>1, <3>2, <3>3 DEF TimelineStep
  <2>2. QED
    BY <1>1, <2>1, QuietSafe, BumpSafe
<1>4. QED
  BY <1>2, <1>3

\* A step on the board leaves the timeline alone and moves the token forward, or
\* changes nothing a token stands for.
LEMMA BoardSteps ==
  ASSUME TokenInv, [EditingNext]_vars, ~TimelineStep
  PROVE  /\ UNCHANGED <<timeline, tracks, clips, glance>>
         /\ \/ UNCHANGED <<project, scenes, ledger>>
            \/ UNCHANGED <<project, ledger>> /\ ~project.live
            \/ /\ \E b \in BOOLEAN : \E r :
                    project' = [live |-> b, token |-> project.token + 1, root |-> r]
               /\ project'.live => project.live
<1>1. \A c \in Author : CommitScene(c) \/ CommitMove(c) \/ (\E s \in Scene, t \in Text : CommitCreate(c, s, t))
        => /\ UNCHANGED <<timelineVars, ledger>>
           /\ project' = Touched(project)
  BY DEF CommitScene, CommitMove, CommitCreate, TimelineKept
<1>2. Touched(project) = IF project.live
        THEN [live |-> project.live, token |-> project.token + 1, root |-> project.root]
        ELSE project
  BY DEF Touched, TokenInv, Shapes
<1>3. \A t : UpdateProject(t) \/ DeleteProject =>
        /\ UNCHANGED timelineVars
        /\ \E b \in BOOLEAN : \E r : project' = [live |-> b, token |-> project.token + 1, root |-> r]
        /\ project.live
  BY DEF UpdateProject, DeleteProject, TimelineKept, TokenInv, Shapes
<1>4. \A c \in Author : CommitCapture(c) \/ CommitRestore(c) =>
        /\ UNCHANGED timelineVars
        /\ \E b \in BOOLEAN : \E r : project' = [live |-> b, token |-> project.token + 1, root |-> r]
        /\ project.live
  BY DEF CommitCapture, CommitRestore, MayRestore, TimelineKept, TokenInv, Shapes
<1>5. QED
  BY <1>1, <1>2, <1>3, <1>4 DEF EditingNext, vars, boardVars, timelineVars, UpdateScene,
       DeleteScene, BeginCreate, BeginMove, BeginCapture, BeginRestore, Gate, LockProject,
       Declines, Aborts, TimelineKept, TokenInv, Shapes
-----------------------------------------------------------------------------
LEMMA TokenInvHolds == EditingInit => TokenInv
<1>1. SUFFICES ASSUME EditingInit PROVE TokenInv
  OBVIOUS
<1>2. PICK t \in Text : project = [live |-> TRUE, token |-> 1, root |-> t]
  BY <1>1 DEF EditingInit
<1>3. PICK f \in Text : timeline = [version |-> 0, frame |-> f]
  BY <1>1 DEF EditingInit, Desk!Init
<1>4. glance = [version |-> 0, read |-> FALSE, content |-> Desk!Shown]
  BY <1>1 DEF EditingInit, Desk!Init
<1>5. QED
  BY <1>2, <1>3, <1>4 DEF TokenInv, Shapes, GlanceIsPast, Desk!Shown

LEMMA TokenInvKept == TokenInv /\ [EditingNext]_vars => TokenInv'
<1>1. SUFFICES ASSUME TokenInv, [EditingNext]_vars PROVE TokenInv'
  OBVIOUS
<1>2. CASE TimelineStep
  BY <1>1, <1>2, TimelineSafe
<1>3. CASE ~TimelineStep
  <2>1. UNCHANGED <<timeline, tracks, clips, glance>>
    BY <1>1, <1>3, BoardSteps
  <2>2. CASE UNCHANGED project
    BY <1>1, <2>1, <2>2, QuietSafe
  <2>3. CASE \E b \in BOOLEAN : \E r :
               project' = [live |-> b, token |-> project.token + 1, root |-> r]
    <3>1. PICK b \in BOOLEAN : \E r :
            project' = [live |-> b, token |-> project.token + 1, root |-> r]
      BY <2>3
    <3>2. UNCHANGED Desk!Shown
      BY <2>1 DEF Desk!Shown, Desk!LiveTracks, Desk!LiveClips
    <3>3. Shapes'
      BY <1>1, <2>1, <3>1 DEF TokenInv, Shapes
    <3>4. GlanceIsPast'
      BY <1>1, <2>1, <3>2 DEF TokenInv, GlanceIsPast
    <3>5. QED
      BY <3>3, <3>4 DEF TokenInv
  <2>4. QED
    BY <1>1, <1>3, <2>2, <2>3, BoardSteps
<1>4. QED
  BY <1>2, <1>3

\* Whatever is shown of a live project changes only with its token.
TokenStep ==
  /\ project'.token >= project.token
  /\ project.live /\ Content' # Content => project'.token > project.token

LEMMA TokenMoves == TokenInv /\ [EditingNext]_vars => [TokenStep]_vars
<1>1. SUFFICES ASSUME TokenInv, [EditingNext]_vars PROVE TokenStep
  OBVIOUS
<1>2. project.token \in Nat
  BY <1>1 DEF TokenInv, Shapes
<1>3. UNCHANGED <<project, scenes>> => UNCHANGED Content
  BY DEF Content, Live
<1>4. CASE TimelineStep
  BY <1>2, <1>3, <1>4 DEF TokenStep, TimelineStep, boardVars
<1>5. CASE ~TimelineStep
  <2>1. CASE UNCHANGED <<project, scenes>>
    BY <1>2, <1>3, <2>1 DEF TokenStep
  <2>2. CASE UNCHANGED project /\ ~project.live
    BY <1>2, <2>2 DEF TokenStep
  <2>3. CASE \E b \in BOOLEAN : \E r :
               project' = [live |-> b, token |-> project.token + 1, root |-> r]
    <3>1. project'.token = project.token + 1
      BY <2>3
    <3>2. QED
      BY <1>2, <3>1 DEF TokenStep
  <2>4. QED
    BY <1>1, <1>5, <2>1, <2>2, <2>3, BoardSteps
<1>6. QED
  BY <1>4, <1>5

\* Rows keep their shape, and no reader is ahead of the timeline or has, under the
\* current version, content that is not current.
THEOREM TokenInductive == EditingSpec => []TokenInv
BY TokenInvHolds, TokenInvKept, PTL DEF EditingSpec

\* No commit changes what is shown of a live project without moving its token, and a
\* reader of the timeline who holds the current version holds the current content,
\* however its two statements interleave with the writers (touch_version, _gap,
\* bump_version, get_by_project).
THEOREM TokenProven == EditingSpec => TokenNamesContent
<1>1. TokenInv => Desk!VersionNamesContent
  BY DEF TokenInv, GlanceIsPast, Desk!VersionNamesContent
<1>2. TokenInv /\ [EditingNext]_vars =>
        [project'.token >= project.token /\
          (project.live /\ Content' # Content => project'.token > project.token)]_vars
  BY TokenMoves DEF TokenStep
<1>3. QED
  BY <1>1, <1>2, TokenInductive, PTL DEF EditingSpec, TokenNamesContent
-----------------------------------------------------------------------------
(***************************************************************************)
(* Numbering.  Scenes whose numbers differ have the ranks 0, 1, 2, ... in  *)
(* the order of their numbers; what Gap and Renumber compute keeps the     *)
(* numbers apart and puts the moved scene after as many as was asked.      *)
(***************************************************************************)
Numbered(S) == /\ IsFiniteSet(S)
               /\ \A s \in S : Number(s) \in Nat
               /\ \A s, t \in S : Number(s) = Number(t) => s = t

Rank(S, s) == Cardinality(Below(S, s))

LEMMA RankBound ==
  ASSUME NEW S, Numbered(S), NEW s
  PROVE  /\ Cardinality(S) \in Nat /\ Rank(S, s) \in Nat /\ Rank(S, s) <= Cardinality(S)
         /\ s \in S => Rank(S, s) < Cardinality(S)
<1>1. Below(S, s) \in SUBSET S /\ IsFiniteSet(S)
  BY DEF Below, Numbered
<1>2. /\ IsFiniteSet(Below(S, s)) /\ Rank(S, s) <= Cardinality(S)
      /\ Cardinality(S) = Rank(S, s) => S = Below(S, s)
  BY <1>1, FS_Subset DEF Rank
<1>3. Cardinality(S) \in Nat /\ Rank(S, s) \in Nat
  BY <1>1, <1>2, FS_CardinalityType DEF Rank
<1>4. s \in S => S # Below(S, s)
  BY DEF Below, Numbered
<1>5. QED
  BY <1>2, <1>3, <1>4

\* Ranks follow the numbers.
LEMMA RankOrder ==
  ASSUME NEW S, Numbered(S), NEW s \in S, NEW t \in S
  PROVE  Rank(S, s) < Rank(S, t) <=> Number(s) < Number(t)
<1>1. /\ IsFiniteSet(Below(S, s)) /\ IsFiniteSet(Below(S, t))
      /\ Rank(S, s) \in Nat /\ Rank(S, t) \in Nat
  <2>1. Below(S, s) \in SUBSET S /\ Below(S, t) \in SUBSET S /\ IsFiniteSet(S)
    BY DEF Below, Numbered
  <2>2. QED
    BY <2>1, FS_Subset, RankBound
<1>2. Number(s) \in Nat /\ Number(t) \in Nat
  BY DEF Numbered
<1>3. ASSUME Number(s) < Number(t)
      PROVE  Rank(S, s) < Rank(S, t)
  <2>1. Below(S, s) \in SUBSET Below(S, t) /\ s \in Below(S, t) /\ s \notin Below(S, s)
    BY <1>2, <1>3 DEF Below, Numbered
  <2>2. Rank(S, s) <= Rank(S, t) /\ Rank(S, s) # Rank(S, t)
    BY <1>1, <2>1, FS_Subset DEF Rank
  <2>3. QED
    BY <1>1, <2>2
<1>4. ASSUME Number(t) <= Number(s)
      PROVE  Rank(S, t) <= Rank(S, s)
  <2>1. Below(S, t) \in SUBSET Below(S, s)
    BY <1>2, <1>4 DEF Below, Numbered
  <2>2. QED
    BY <1>1, <2>1, FS_Subset DEF Rank
<1>5. QED
  BY <1>1, <1>2, <1>3, <1>4

\* No two scenes have one rank, and every rank below the number of scenes is taken.
LEMMA RankTaken ==
  ASSUME NEW S, Numbered(S), NEW i \in Nat, i < Cardinality(S)
  PROVE  Nth(S, i) \in S /\ Rank(S, Nth(S, i)) = i
<1> DEFINE T == 0..(Cardinality(S) - 1)
           f == [s \in S |-> Rank(S, s)]
<1>1. Cardinality(S) \in Nat /\ IsFiniteSet(S)
  BY RankBound DEF Numbered
<1>2. IsFiniteSet(T) /\ Cardinality(T) = Cardinality(S)
  <2>1. 0 \in Int /\ Cardinality(S) - 1 \in Int
    BY <1>1
  <2>2. IsFiniteSet(T) /\ Cardinality(T) = IF 0 > Cardinality(S) - 1 THEN 0
                                          ELSE (Cardinality(S) - 1) - 0 + 1
    BY <2>1, FS_Interval
  <2>3. QED
    BY <1>1, <2>2
<1>3. \A s \in S : Rank(S, s) \in T
  BY <1>1, RankBound
<1>4. \A s, t \in S : Rank(S, s) = Rank(S, t) => s = t
  <2> SUFFICES ASSUME NEW s \in S, NEW t \in S, Rank(S, s) = Rank(S, t)
               PROVE  s = t
    OBVIOUS
  <2>1. ~(Number(s) < Number(t)) /\ ~(Number(t) < Number(s))
    BY RankBound, RankOrder
  <2>2. QED
    BY <2>1 DEF Numbered
<1>5. f \in Injection(S, T)
  BY <1>3, <1>4 DEF Injection, IsInjective
<1>6. f \in Surjection(S, T)
  <2> HIDE DEF f, T
  <2>1. IsFiniteSet(T) /\ (Cardinality(S) = Cardinality(T) <=> f \in Surjection(S, T))
    BY <1>2, <1>5, FS_Injection
  <2>2. QED
    BY <1>2, <2>1
<1>7. \E t \in S : Rank(S, t) = i
  <2>1. i \in T
    BY <1>1
  <2>2. QED
    BY <1>6, <2>1 DEF Surjection
<1>8. QED
  BY <1>7 DEF Nth, Rank

\* Highest is the highest number.
LEMMA HighestOf ==
  ASSUME Numbered(Live)
  PROVE  Highest \in Nat /\ \A s \in Live : Number(s) <= Highest
<1>1. CASE Live = {}
  BY <1>1 DEF Highest
<1>2. CASE Live # {}
  <2>1. Cardinality(Live) \in Nat /\ Cardinality(Live) # 0
    BY <1>2, RankBound, FS_EmptySet DEF Numbered
  <2> DEFINE i == Cardinality(Live) - 1
             m == Nth(Live, i)
  <2>2. i \in Nat /\ i < Cardinality(Live)
    BY <2>1
  <2>3. m \in Live /\ Rank(Live, m) = i
    BY <2>2, RankTaken
  <2> HIDE DEF m
  <2>4. \A s \in Live : Number(s) <= Number(m)
    <3> SUFFICES ASSUME NEW s \in Live
                 PROVE  Number(s) <= Number(m)
      OBVIOUS
    <3>1. ~(Rank(Live, m) < Rank(Live, s))
      BY <2>1, <2>3, RankBound
    <3>2. QED
      BY <2>3, <3>1, RankOrder DEF Numbered
  <2>5. \E n \in {Number(s) : s \in Live} : \A s \in Live : Number(s) <= n
    BY <2>3, <2>4
  <2>6. /\ Highest \in {Number(s) : s \in Live}
        /\ \A s \in Live : Number(s) <= Highest
    BY <1>2, <2>5 DEF Highest
  <2>7. QED
    BY <2>6 DEF Numbered
<1>3. QED
  BY <1>1, <1>2

\* A number from _gap lies between those of the scenes before and after the slot.
LEMMA GapSeparates ==
  ASSUME NEW s, Numbered(Others(s)), NEW k \in Nat, k <= Cardinality(Others(s)),
         Gap(s, k) # 0
  PROVE  /\ Gap(s, k) \in Nat
         /\ \A t \in Others(s) :
              IF Rank(Others(s), t) < k THEN Number(t) < Gap(s, k) ELSE Gap(s, k) < Number(t)
<1> DEFINE S == Others(s)
           right == Number(Nth(S, k))
           left == Number(Nth(S, k - 1))
<1>0. STEP \in Nat \ {0}
  BY EditingAssumption
<1>1. /\ IsFiniteSet(S) /\ Cardinality(S) \in Nat
      /\ \A t \in S : /\ Number(t) \in Nat
                      /\ Rank(S, t) \in Nat /\ Rank(S, t) < Cardinality(S)
  BY RankBound DEF Numbered
<1>2. ASSUME k < Cardinality(S)
      PROVE  right \in Nat /\ \A t \in S : IF Rank(S, t) < k THEN Number(t) < right
                                                             ELSE right <= Number(t)
  <2>1. Nth(S, k) \in S /\ Rank(S, Nth(S, k)) = k
    BY <1>2, RankTaken
  <2>2. \A t \in S : Rank(S, t) < Rank(S, Nth(S, k)) <=> Number(t) < right
    BY <2>1, RankOrder
  <2>3. QED
    BY <1>1, <2>1, <2>2
<1>3. ASSUME k # 0
      PROVE  left \in Nat /\ \A t \in S : IF Rank(S, t) < k THEN Number(t) <= left
                                                            ELSE left < Number(t)
  <2>1. k - 1 \in Nat /\ k - 1 < Cardinality(S)
    BY <1>1, <1>3
  <2>2. Nth(S, k - 1) \in S /\ Rank(S, Nth(S, k - 1)) = k - 1
    BY <2>1, RankTaken
  <2>3. \A t \in S : Rank(S, Nth(S, k - 1)) < Rank(S, t) <=> left < Number(t)
    BY <2>2, RankOrder
  <2>4. QED
    BY <1>1, <2>2, <2>3
<1>4. /\ S = {} => Gap(s, k) = STEP
      /\ S # {} /\ k = Cardinality(S) => Gap(s, k) = left + STEP
      /\ S # {} /\ k # Cardinality(S) /\ k = 0 => Gap(s, k) = Before(right)
      /\ S # {} /\ k # Cardinality(S) /\ k # 0 => Gap(s, k) = Between(left, right)
  <2> DEFINE b == Before(right)
             m == Between(left, right)
             e == left + STEP
  <2>1. Gap(s, k) = CASE S = {} -> STEP
                      [] S # {} /\ k = Cardinality(S) -> e
                      [] S # {} /\ k = 0 -> b
                      [] OTHER -> m
    BY Zenon DEF Gap
  <2> HIDE DEF b, m, e, S
  <2>2. /\ S = {} => Gap(s, k) = STEP
        /\ S # {} /\ k # Cardinality(S) /\ k # 0 => Gap(s, k) = m
        /\ S # {} /\ k # Cardinality(S) /\ k = 0 => Gap(s, k) = b
        /\ S # {} /\ k = Cardinality(S) /\ Cardinality(S) # 0 => Gap(s, k) = e
    BY <2>1
  <2>3. S # {} => Cardinality(S) # 0
    BY <1>1, FS_EmptySet
  <2>4. QED
    BY <2>2, <2>3 DEF b, m, e
<1> HIDE DEF S, left, right
<1>5. CASE S = {}
  BY <1>0, <1>4, <1>5 DEF S
<1>6. CASE S # {} /\ k = Cardinality(S)
  <2>1. k # 0
    BY <1>1, <1>6, FS_EmptySet
  <2>2. QED
    BY <1>0, <1>1, <1>3, <1>4, <1>6, <2>1 DEF S
<1>7. CASE S # {} /\ k # Cardinality(S) /\ k = 0
  <2>1. right \in Nat /\ \A t \in S : Rank(S, t) >= k /\ right <= Number(t)
    BY <1>1, <1>2, <1>7
  <2>2. Before(right) \in Nat /\ Before(right) # 0 /\ Before(right) < right
    BY <1>0, <1>4, <1>7, <2>1 DEF Before
  <2>3. QED
    BY <1>1, <1>4, <1>7, <2>1, <2>2 DEF S
<1>8. CASE S # {} /\ k # Cardinality(S) /\ k # 0
  <2>1. k < Cardinality(S)
    BY <1>1, <1>8 DEF S
  <2>2. right \in Nat /\ \A t \in S : Rank(S, t) >= k => right <= Number(t)
    BY <1>1, <1>2, <2>1
  <2>3. left \in Nat /\ \A t \in S : Rank(S, t) < k => Number(t) <= left
    BY <1>3, <1>8
  <2>4. Gap(s, k) = Between(left, right)
    BY <1>4, <1>8
  <2>5. Gap(s, k) \in Nat /\ left < Gap(s, k) /\ Gap(s, k) < right
    BY <2>2, <2>3, <2>4 DEF Between
  <2>6. \A t \in S : IF Rank(S, t) < k THEN Number(t) < Gap(s, k) ELSE Gap(s, k) < Number(t)
    BY <1>1, <2>2, <2>3, <2>5
  <2>7. QED
    BY <2>5, <2>6 DEF S
<1>9. QED
  BY <1>5, <1>6, <1>7, <1>8

\* The multiples of _STEP are in order.
LEMMA StepsApart ==
  ASSUME NEW a \in Nat, NEW b \in Nat, a < b
  PROVE  a * STEP \in Nat /\ b * STEP \in Nat /\ a * STEP < b * STEP
<1>1. STEP \in Nat \ {0}
  BY EditingAssumption
<1>2. PICK d \in Nat : b = a + 1 + d
  <2>1. b - a - 1 \in Nat /\ b = a + 1 + (b - a - 1)
    OBVIOUS
  <2>2. QED
    BY <2>1
<1>3. b * STEP = a * STEP + STEP + d * STEP
  BY <1>1, <1>2
<1>4. a * STEP \in Nat /\ d * STEP \in Nat
  BY <1>1
<1>5. QED
  BY <1>1, <1>3, <1>4

\* What a move has done to the numbers: the scenes ranked below k come before s, the
\* others after it, and in the order they had.
Renumbered(s, k, new) ==
  /\ \A t \in Others(s) : IF Rank(Others(s), t) < k THEN new[t].number < new[s].number
                                                    ELSE new[s].number < new[t].number
  /\ \A t, u \in Others(s) : Number(t) < Number(u) => new[t].number < new[u].number

BoardTyped == /\ project \in [live : BOOLEAN, token : Nat, root : Text]
              /\ scenes \in [Scene -> Row]

\* No two live scenes share a number.
Apart == \A s, t \in Live : Number(s) = Number(t) => s = t

LEMMA LiveNumbered ==
  ASSUME BoardTyped, Apart
  PROVE  Numbered(Live) /\ \A s : Numbered(Others(s))
<1>1. IsFiniteSet(Live)
  BY FS_Subset, EditingAssumption DEF Live
<1>2. \A s : IsFiniteSet(Others(s))
  BY <1>1, FS_Subset DEF Others
<1>3. \A s \in Live : Number(s) \in Nat
  BY DEF BoardTyped, Row, Live, Number
<1>4. QED
  BY <1>1, <1>2, <1>3 DEF Numbered, Apart, Others

\* The index lies between 0 and the number of the other scenes.
LEMMA IndexBound ==
  ASSUME BoardTyped, Apart, NEW s, NEW p \in Nat \ {0}
  PROVE  /\ Cardinality(Others(s)) \in Nat
         /\ Index(s, p) \in Nat /\ Index(s, p) <= Cardinality(Others(s))
         /\ Index(s, p) = IF p > Cardinality(Others(s)) + 1 THEN Cardinality(Others(s)) ELSE p - 1
<1>1. Cardinality(Others(s)) \in Nat
  BY LiveNumbered, RankBound
<1>2. QED
  BY <1>1 DEF Index

\* Both ways of renumbering do.
LEMMA RenumberMoves ==
  ASSUME BoardTyped, Apart,
         NEW s \in Live, NEW k \in Nat, k <= Cardinality(Others(s)),
         Moves(s, k)
  PROVE  /\ Renumber(s, k) \in [Scene -> Row]
         /\ \A t \in Scene : /\ Renumber(s, k)[t].state = scenes[t].state
                             /\ t \notin Live => Renumber(s, k)[t] = scenes[t]
         /\ Renumbered(s, k, Renumber(s, k))
<1> DEFINE S == Others(s)
           R == Renumber(s, k)
<1>1. /\ Numbered(S) /\ s \in Scene /\ s \notin S /\ S \subseteq Live /\ Live \subseteq Scene
      /\ Live = S \cup {s}
  BY LiveNumbered DEF Live, Others
<1>2. /\ Cardinality(S) \in Nat
      /\ \A t \in S : Rank(S, t) \in Nat
      /\ \A t, u \in S : Number(t) < Number(u) => Rank(S, t) < Rank(S, u)
  BY <1>1, RankBound, RankOrder
<1>3. CASE Gap(s, k) # 0
  <2>1. R = [scenes EXCEPT ![s].number = Gap(s, k), ![s].version = scenes[s].version + 1]
    BY <1>3 DEF Renumber, Rebalances
  <2>2. /\ Gap(s, k) \in Nat
        /\ \A t \in S : IF Rank(S, t) < k THEN Number(t) < Gap(s, k) ELSE Gap(s, k) < Number(t)
    BY <1>1, <1>3, GapSeparates
  <2> HIDE DEF S
  <2>3. /\ R \in [Scene -> Row] /\ R[s].number = Gap(s, k) /\ R[s].state = scenes[s].state
        /\ \A t \in Scene \ {s} : R[t] = scenes[t]
    BY <1>1, <2>1, <2>2 DEF BoardTyped, Row
  <2>4. \A t \in S : R[t].number = Number(t)
    BY <1>1, <2>3 DEF Number
  <2>5. QED
    BY <1>1, <2>2, <2>3, <2>4 DEF Renumbered, S
<1>4. CASE Gap(s, k) = 0
  <2> DEFINE bump(t) == IF t = s THEN 1 ELSE 2
             row(t) == IF t \notin Live THEN scenes[t]
                       ELSE [scenes[t] EXCEPT !.number = Slot(s, k, t),
                                              !.version = scenes[t].version + bump(t)]
  <2>1. R = [t \in Scene |-> row(t)]
    BY <1>4 DEF Renumber, Rebalances
  <2> DEFINE place(t) == IF t = s THEN k + 1
                         ELSE IF Rank(S, t) < k THEN Rank(S, t) + 1 ELSE Rank(S, t) + 2
  <2>2. \A t \in Live : place(t) \in Nat
    BY <1>1, <1>2
  <2>3. \A t \in Live : Slot(s, k, t) = place(t) * STEP
    BY DEF Slot, Rank
  <2>4. \A t, u \in Live : place(t) < place(u) =>
          /\ Slot(s, k, t) \in Nat /\ Slot(s, k, u) \in Nat
          /\ Slot(s, k, t) < Slot(s, k, u)
    BY <2>2, <2>3, StepsApart
  <2>5. \A t \in Live : Slot(s, k, t) \in Nat
    BY <2>2, <2>3, EditingAssumption
  <2>6. /\ R \in [Scene -> Row]
        /\ \A t \in Scene : R[t].state = scenes[t].state /\ (t \notin Live => R[t] = scenes[t])
        /\ \A t \in Live : R[t].number = Slot(s, k, t)
    <3> HIDE DEF R, S, row
    <3>1. ASSUME NEW t \in Scene
          PROVE  /\ R[t] \in Row /\ R[t].state = scenes[t].state
                 /\ t \notin Live => R[t] = scenes[t]
                 /\ t \in Live => R[t].number = Slot(s, k, t)
      <4>1. scenes[t] \in Row /\ scenes[t].version \in Nat /\ bump(t) \in Nat
        BY DEF BoardTyped, Row
      <4>2. R[t] = IF t \notin Live THEN scenes[t]
                   ELSE [scenes[t] EXCEPT !.number = Slot(s, k, t),
                                          !.version = scenes[t].version + bump(t)]
        <5>1. R[t] = row(t)
          BY <2>1
        <5>2. QED
          BY Zenon, <5>1 DEF row
      <4> HIDE DEF bump
      <4>3. CASE t \notin Live
        BY <4>1, <4>2, <4>3
      <4>4. CASE t \in Live
        <5> DEFINE n == Slot(s, k, t)
        <5>1. n \in Nat /\ scenes[t].version + bump(t) \in Nat
          BY <2>5, <4>1, <4>4
        <5>2. R[t] = [scenes[t] EXCEPT !.number = n, !.version = scenes[t].version + bump(t)]
          BY <4>2, <4>4
        <5> HIDE DEF n
        <5>3. R[t] \in Row /\ R[t].state = scenes[t].state /\ R[t].number = n
          BY <4>1, <5>1, <5>2 DEF Row
        <5>4. QED
          BY <4>4, <5>3 DEF n
      <4>5. QED
        BY <4>3, <4>4
    <3>2. R = [t \in Scene |-> R[t]]
      BY <2>1
    <3>3. QED
      BY <1>1, <3>1, <3>2
  <2>7. \A t \in S : IF Rank(S, t) < k THEN place(t) < place(s) ELSE place(s) < place(t)
    BY <1>1, <1>2
  <2>8. \A t, u \in S : Rank(S, t) < Rank(S, u) => place(t) < place(u)
    BY <1>1, <1>2
  <2> HIDE DEF place, S, R
  <2>9. \A t \in S : IF Rank(S, t) < k THEN R[t].number < R[s].number
                                       ELSE R[s].number < R[t].number
    BY <1>1, <2>4, <2>6, <2>7
  <2>10. \A t, u \in S : Number(t) < Number(u) => R[t].number < R[u].number
    BY <1>1, <1>2, <2>4, <2>6, <2>8
  <2>11. QED
    BY <2>6, <2>9, <2>10 DEF Renumbered, S, R
<1>5. QED
  BY <1>3, <1>4

\* A renumbered storyboard has no number twice, and s at the place after k others.
LEMMA RenumberedApart ==
  ASSUME BoardTyped, Apart,
         NEW s \in Live, NEW k \in Nat, k <= Cardinality(Others(s)),
         NEW new \in [Scene -> Row], Renumbered(s, k, new)
  PROVE  /\ \A t, u \in Live : new[t].number = new[u].number => t = u
         /\ Cardinality({t \in Live : new[t].number < new[s].number}) = k
<1> DEFINE S == Others(s)
<1>1. /\ Numbered(S) /\ s \in Scene /\ s \notin S /\ Live \subseteq Scene /\ Live = S \cup {s}
  BY LiveNumbered DEF Live, Others
<1>2. /\ Cardinality(S) \in Nat
      /\ \A t \in S : Rank(S, t) \in Nat /\ Rank(S, t) < Cardinality(S)
      /\ \A t \in S : Number(t) \in Nat
  BY <1>1, RankBound DEF Numbered
<1>3. \A t \in Scene : new[t].number \in Nat
  BY DEF Row
<1>4. /\ \A t \in S : IF Rank(S, t) < k THEN new[t].number < new[s].number
                                        ELSE new[s].number < new[t].number
      /\ \A t, u \in S : Number(t) < Number(u) => new[t].number < new[u].number
      /\ \A t, u \in S : Number(t) = Number(u) => t = u
  BY <1>1 DEF Renumbered, Numbered
<1> HIDE DEF S
<1>5. \A t, u \in S : new[t].number = new[u].number => t = u
  <2> SUFFICES ASSUME NEW t \in S, NEW u \in S, new[t].number = new[u].number
               PROVE  t = u
    OBVIOUS
  <2>1. new[t].number \in Nat /\ Number(t) \in Nat /\ Number(u) \in Nat
    BY <1>1, <1>2, <1>3
  <2>2. ~(Number(t) < Number(u)) /\ ~(Number(u) < Number(t))
    BY <1>4, <2>1
  <2>3. QED
    BY <1>4, <2>1, <2>2
<1>6. \A t \in S : new[t].number # new[s].number
  BY <1>1, <1>3, <1>4
<1>7. {t \in Live : new[t].number < new[s].number} = {t \in S : Rank(S, t) < k}
  BY <1>1, <1>2, <1>3, <1>4
<1>8. CASE k = Cardinality(S)
  BY <1>1, <1>2, <1>5, <1>6, <1>7, <1>8
<1>9. CASE k < Cardinality(S)
  <2>1. Nth(S, k) \in S /\ Rank(S, Nth(S, k)) = k
    BY <1>1, <1>9, RankTaken
  <2>2. \A t \in S : Rank(S, t) < k <=> Number(t) < Number(Nth(S, k))
    BY <1>1, <2>1, RankOrder
  <2>3. {t \in S : Rank(S, t) < k} = Below(S, Nth(S, k))
    BY <2>2 DEF Below
  <2>4. QED
    BY <1>1, <1>5, <1>6, <1>7, <2>1, <2>3 DEF Rank
<1>10. QED
  BY <1>2, <1>8, <1>9 DEF S
-----------------------------------------------------------------------------
(***************************************************************************)
(* The ledger.  Every entry holds a snapshot a storyboard can be put back  *)
(* to, taken at a token the project had; with the current token it is the  *)
(* project as it stands.                                                   *)
(***************************************************************************)
Snaps == [root : Text, scenes : SUBSET (Scene \X Nat \X Text)]
EntryRow == [reason : {"manual_save", "restore"}, parent : Nat, content : Snaps, after : Nat]

\* Each scene is in a snapshot once, and no two have one number.
OneRow(S) == \A x, y \in S : x[1] = y[1] \/ x[2] = y[2] => x = y

Entries ==
  /\ ledger \in Seq(EntryRow)
  /\ \A i \in 1..Len(ledger) :
       /\ ledger[i].after <= project.token
       /\ ledger[i].parent < i
       /\ ledger[i].reason = "restore" => ledger[i].parent >= 1
       /\ OneRow(ledger[i].content.scenes)

\* What an open transaction says.
Tx == {Idle} \cup [op : {"update"}, scene : Scene, text : Text]
             \cup [op : {"delete"}, scene : Scene]
             \cup [op : {"create", "capture"}, locked : BOOLEAN]
             \cup [op : {"move"}, locked : BOOLEAN, scene : Scene, position : Nat \ {0},
                   expects : Nat]
             \cup [op : {"restore"}, locked : BOOLEAN, source : Nat, expects : Nat]

TxTyped == /\ tx \in [Author -> Tx]
           /\ \A c \in Author : tx[c].op = "restore" => tx[c].source \in 1..Len(ledger)

LedgerInv == BoardTyped /\ TxTyped /\ Entries /\ LedgerIsTrue

LEMMA LedgerApart == LedgerIsTrue => Apart
BY DEF LedgerIsTrue, Apart

\* What is stored is such a snapshot.
LEMMA ContentIsSnap ==
  ASSUME BoardTyped, Apart
  PROVE  Content \in Snaps /\ OneRow(Content.scenes)
<1> DEFINE S == {<<s, scenes[s].number, scenes[s].text>> : s \in Live}
<1>1. \A s \in Live : s \in Scene /\ scenes[s].number \in Nat /\ scenes[s].text \in Text
  BY DEF Live, BoardTyped, Row
<1>2. S \subseteq Scene \X Nat \X Text
  BY <1>1
<1>3. OneRow(S)
  BY <1>1 DEF OneRow, Apart, Number
<1>4. Content = [root |-> project.root, scenes |-> S] /\ project.root \in Text
  BY DEF Content, BoardTyped
<1> HIDE DEF S
<1>5. QED
  BY <1>2, <1>3, <1>4 DEF Snaps

LEMMA EntriesTyped ==
  ASSUME LedgerInv, NEW i \in 1..Len(ledger)
  PROVE  /\ ledger[i] \in EntryRow /\ ledger[i].content \in Snaps
         /\ ledger[i].after \in Nat /\ ledger[i].after <= project.token
         /\ ledger[i].parent \in Nat /\ ledger[i].parent < i
<1>1. ledger[i] \in EntryRow /\ ledger[i].after <= project.token /\ ledger[i].parent < i
  BY DEF LedgerInv, Entries
<1>2. QED
  BY <1>1 DEF EntryRow

\* A step that adds no entry keeps the ledger true if the token of a live project moves
\* with its content.
LEMMA LedgerKept ==
  ASSUME LedgerInv, BoardTyped', Apart', tx' \in [Author -> Tx], UNCHANGED ledger,
         \A c \in Author : tx'[c].op = "restore" => tx'[c].source \in 1..Len(ledger),
         project'.token >= project.token,
         project'.live => \/ project'.token > project.token
                          \/ project.live /\ Content' = Content
  PROVE  LedgerInv'
<1>1. project.token \in Nat /\ project'.token \in Nat
  BY DEF LedgerInv, BoardTyped
<1>2. \A i \in 1..Len(ledger) : ledger[i].after \in Nat /\ ledger[i].after <= project.token
  BY EntriesTyped
<1>3. DOMAIN ledger = 1..Len(ledger)
  BY DEF LedgerInv, Entries
<1>4. Entries'
  BY <1>1, <1>2 DEF LedgerInv, Entries, OneRow
<1>5. LedgerIsTrue'
  <2>1. \A i \in DOMAIN ledger :
          project'.live /\ ledger[i].after = project'.token => ledger[i].content = Content'
    BY <1>1, <1>2, <1>3 DEF LedgerInv, LedgerIsTrue
  <2>2. QED
    BY <2>1 DEF LedgerInv, LedgerIsTrue, Apart
<1>6. QED
  BY <1>4, <1>5 DEF LedgerInv, TxTyped

\* A new entry: what the project is under the token it gets.
LEMMA EntryAdded ==
  ASSUME LedgerInv, BoardTyped', Apart', tx' \in [Author -> Tx],
         \A c \in Author : tx'[c].op = "restore" => tx'[c].source \in 1..Len(ledger),
         project'.token = project.token + 1,
         NEW e \in EntryRow, ledger' = Append(ledger, e),
         e.after = project.token + 1, e.content = Content', OneRow(e.content.scenes),
         e.parent <= Len(ledger),
         e.reason = "restore" => e.parent >= 1 /\ e.content = ledger[e.parent].content
  PROVE  LedgerInv'
<1> DEFINE n == Len(ledger)
<1>1. project.token \in Nat
  BY DEF LedgerInv, BoardTyped
<1>2. /\ ledger \in Seq(EntryRow) /\ n \in Nat /\ DOMAIN ledger = 1..n
      /\ \A i \in 1..n : ledger[i] \in EntryRow /\ ledger[i].after \in Nat
                         /\ ledger[i].after <= project.token
  BY EntriesTyped DEF LedgerInv, Entries
<1>3. /\ ledger' \in Seq(EntryRow) /\ Len(ledger') = n + 1 /\ DOMAIN ledger' = 1..(n + 1)
      /\ \A i \in 1..n : ledger'[i] = ledger[i]
      /\ ledger'[n + 1] = e
  BY <1>2
<1>4. \A i \in 1..(n + 1) : i \in 1..n \/ i = n + 1
  BY <1>2
<1> HIDE DEF n
<1>6. Entries'
  <2> SUFFICES ASSUME NEW i \in 1..(n + 1)
               PROVE  /\ ledger'[i].after <= project'.token
                      /\ ledger'[i].parent < i
                      /\ ledger'[i].reason = "restore" => ledger'[i].parent >= 1
                      /\ OneRow(ledger'[i].content.scenes)
    BY <1>3 DEF Entries, OneRow
  <2>1. CASE i \in 1..n
    BY <1>1, <1>2, <1>3, <2>1 DEF LedgerInv, Entries, n
  <2>2. CASE i = n + 1
    <3>1. e.parent \in Nat /\ e.parent <= n
      BY DEF EntryRow, n
    <3>2. QED
      BY <1>1, <1>2, <1>3, <2>2, <3>1
  <2>3. QED
    BY <1>4, <2>1, <2>2
<1>7. LedgerIsTrue'
  <2>1. ASSUME NEW i \in 1..(n + 1)
        PROVE  /\ project'.live /\ ledger'[i].after = project'.token =>
                    ledger'[i].content = Content'
               /\ ledger'[i].reason = "restore" =>
                    ledger'[i].content = ledger'[ledger'[i].parent].content
    <3>1. CASE i \in 1..n
      <4>1. ledger[i].after # project'.token
        BY <1>1, <1>2, <3>1
      <4>2. ledger[i].reason = "restore" =>
              /\ ledger[i].parent \in 1..n
              /\ ledger[i].content = ledger[ledger[i].parent].content
        <5>1. ledger[i].parent \in Nat /\ ledger[i].parent < i
          BY <1>2, <3>1 DEF LedgerInv, Entries, EntryRow, n
        <5>2. ledger[i].reason = "restore" => ledger[i].parent >= 1
          BY <3>1 DEF LedgerInv, Entries, n
        <5>3. QED
          BY <1>2, <3>1, <5>1, <5>2 DEF LedgerInv, LedgerIsTrue, n
      <4>3. QED
        BY <1>3, <3>1, <4>1, <4>2
    <3>2. CASE i = n + 1
      <4>1. e.reason = "restore" => e.parent \in 1..n
        BY <1>2 DEF EntryRow, n
      <4>2. QED
        BY <1>3, <3>2, <4>1
    <3>3. QED
      BY <1>4, <3>1, <3>2
  <2>2. ASSUME NEW i \in 1..(n + 1), NEW j \in 1..(n + 1), i < j
        PROVE  ledger'[i].after < ledger'[j].after
    <3>1. i \in 1..n
      BY <1>2, <2>2
    <3>2. CASE j \in 1..n
      <4>1. ledger[i].after < ledger[j].after
        BY <1>2, <2>2, <3>1, <3>2 DEF LedgerInv, LedgerIsTrue
      <4>2. QED
        BY <1>3, <3>1, <3>2, <4>1
    <3>3. CASE j = n + 1
      BY <1>1, <1>2, <1>3, <3>1, <3>3
    <3>4. QED
      BY <1>4, <3>2, <3>3
  <2>3. QED
    BY <1>3, <2>1, <2>2 DEF LedgerIsTrue, Apart
<1>8. TxTyped'
  <2>1. \A m \in 1..n : m \in 1..Len(ledger')
    BY <1>2, <1>3
  <2>2. QED
    BY <2>1 DEF TxTyped, n
<1>9. QED
  BY <1>6, <1>7, <1>8 DEF LedgerInv
-----------------------------------------------------------------------------
\* A step of transactions only, or none at all.
LEMMA TxSafe ==
  ASSUME LedgerInv, UNCHANGED <<project, scenes, ledger>>, tx' \in [Author -> Tx],
         \A c \in Author : tx'[c].op = "restore" => tx'[c].source \in 1..Len(ledger)
  PROVE  LedgerInv'
<1>1. BoardTyped' /\ Apart' /\ Content' = Content
  BY LedgerApart DEF LedgerInv, BoardTyped, Apart, Live, Number, Content
<1>2. project.token \in Nat
  BY DEF LedgerInv, BoardTyped
<1>3. QED
  BY <1>1, <1>2, LedgerKept

\* A client's transaction begins, goes on or ends; the others stay as they were.
LEMMA TxTypes ==
  ASSUME TxTyped, NEW c \in Author, NEW t \in Tx, tx' = [tx EXCEPT ![c] = t],
         t.op = "restore" => t.source \in 1..Len(ledger)
  PROVE  /\ tx' \in [Author -> Tx]
         /\ \A d \in Author : tx'[d].op = "restore" => tx'[d].source \in 1..Len(ledger)
BY DEF TxTyped

LEMMA EndsTyped ==
  ASSUME TxTyped, NEW c \in Author, Ends(c)
  PROVE  /\ tx' \in [Author -> Tx]
         /\ \A d \in Author : tx'[d].op = "restore" => tx'[d].source \in 1..Len(ledger)
<1>1. Idle \in Tx /\ Idle.op # "restore"
  BY DEF Tx, Idle
<1>2. QED
  BY <1>1, TxTypes DEF Ends

\* A transaction that has got the project row; a move knows its place by then.
Held(t) == [t EXCEPT !.locked = TRUE]
HeldAt(t, p) == [t EXCEPT !.locked = TRUE, !.position = p]

\* What a transaction of each kind holds.
LEMMA TxHolds ==
  ASSUME TxTyped, NEW c \in Author
  PROVE  /\ tx[c].op = "update" => tx[c].scene \in Scene /\ tx[c].text \in Text
         /\ tx[c].op = "delete" => tx[c].scene \in Scene
         /\ tx[c].op = "move" => tx[c].scene \in Scene /\ tx[c].position \in Nat \ {0}
         /\ tx[c].op = "restore" => tx[c].source \in 1..Len(ledger)
         /\ tx[c].op = "move" =>
              \A p \in Nat \ {0} : HeldAt(tx[c], p) \in Tx
         /\ tx[c].op \in {"create", "capture", "restore"} => Held(tx[c]) \in Tx
<1>1. tx[c] \in Tx
  BY DEF TxTyped
<1>2. tx[c].op = "move" => tx[c] \in [op : {"move"}, locked : BOOLEAN, scene : Scene,
                                      position : Nat \ {0}, expects : Nat]
  BY <1>1 DEF Tx, Idle
<1>3. tx[c].op = "restore" => tx[c] \in [op : {"restore"}, locked : BOOLEAN, source : Nat,
                                         expects : Nat]
  BY <1>1 DEF Tx, Idle
<1>4. tx[c].op \in {"create", "capture"} =>
        tx[c] \in [op : {"create", "capture"}, locked : BOOLEAN]
  BY <1>1 DEF Tx, Idle
<1>5. tx[c].op = "update" => tx[c] \in [op : {"update"}, scene : Scene, text : Text]
  BY <1>1 DEF Tx, Idle
<1>6. tx[c].op = "delete" => tx[c] \in [op : {"delete"}, scene : Scene]
  BY <1>1 DEF Tx, Idle
<1>7. tx[c].op = "move" =>
        \A p \in Nat \ {0} : HeldAt(tx[c], p) \in Tx
  BY <1>2 DEF Tx, HeldAt
<1>8. tx[c].op = "restore" => Held(tx[c]) \in Tx
  BY <1>3 DEF Tx, Held
<1>9. tx[c].op \in {"create", "capture"} => Held(tx[c]) \in Tx
  BY <1>4 DEF Tx, Held
<1>10. /\ tx[c].op = "update" => tx[c].scene \in Scene /\ tx[c].text \in Text
       /\ tx[c].op = "delete" => tx[c].scene \in Scene
       /\ tx[c].op = "move" => tx[c].scene \in Scene /\ tx[c].position \in Nat \ {0}
  BY <1>2, <1>5, <1>6
<1>11. tx[c].op = "restore" => tx[c].source \in 1..Len(ledger)
  BY DEF TxTyped
<1>12. QED
  BY <1>7, <1>8, <1>9, <1>10, <1>11

\* The transactions begin: what they were told of scenes and tokens is well typed.
LEMMA BeginSafe ==
  ASSUME LedgerInv, NEW c \in Author,
         \/ \E s \in Scene, t \in Text : UpdateScene(c, s, t)
         \/ \E s \in Scene : DeleteScene(c, s) \/ BeginMove(c, s)
         \/ BeginCreate(c) \/ BeginCapture(c)
         \/ \E v \in 1..Len(ledger) : BeginRestore(c, v)
  PROVE  LedgerInv'
<1>1. TxTyped
  BY DEF LedgerInv
<1>2. UNCHANGED <<project, scenes, ledger>>
  BY DEF UpdateScene, DeleteScene, BeginMove, BeginCreate, BeginCapture, BeginRestore, Gate
<1>3. project.token \in Nat /\ \A s \in Scene : scenes[s].version \in Nat
  BY DEF LedgerInv, BoardTyped, Row
<1> DEFINE Told(t) == tx' = [tx EXCEPT ![c] = t]
                      /\ (t.op = "restore" => t.source \in 1..Len(ledger))
<1>4. \E t \in Tx : Told(t)
  <2>1. ASSUME NEW s \in Scene, NEW x \in Text, UpdateScene(c, s, x)
        PROVE  \E t \in Tx : Told(t)
    <3>1. [op |-> "update", scene |-> s, text |-> x] \in Tx
      BY DEF Tx
    <3>2. QED
      BY <2>1, <3>1 DEF UpdateScene, Begins
  <2>2. ASSUME NEW s \in Scene, DeleteScene(c, s)
        PROVE  \E t \in Tx : Told(t)
    <3>1. [op |-> "delete", scene |-> s] \in Tx
      BY DEF Tx
    <3>2. QED
      BY <2>2, <3>1 DEF DeleteScene, Begins
  <2>3. ASSUME NEW s \in Scene, BeginMove(c, s)
        PROVE  \E t \in Tx : Told(t)
    <3>1. [op |-> "move", locked |-> FALSE, scene |-> s, position |-> 1,
           expects |-> scenes[s].version] \in Tx
      BY <1>3 DEF Tx
    <3>2. QED
      BY <2>3, <3>1 DEF BeginMove, Gate, Begins
  <2>4. CASE BeginCreate(c) \/ BeginCapture(c)
    <3>1. /\ [op |-> "create", locked |-> FALSE] \in Tx
          /\ [op |-> "capture", locked |-> FALSE] \in Tx
      BY DEF Tx
    <3>2. QED
      BY <2>4, <3>1 DEF BeginCreate, BeginCapture, Gate, Begins
  <2>5. ASSUME NEW v \in 1..Len(ledger), BeginRestore(c, v)
        PROVE  \E t \in Tx : Told(t)
    <3>1. [op |-> "restore", locked |-> FALSE, source |-> v, expects |-> project.token] \in Tx
      BY <1>3 DEF Tx
    <3>2. QED
      BY <2>5, <3>1 DEF BeginRestore, Gate, Begins
  <2>6. QED
    BY <2>1, <2>2, <2>3, <2>4, <2>5
<1>5. QED
  BY <1>1, <1>2, <1>4, TxTypes, TxSafe

\* The project row is locked, or the transaction ends with nothing written.
LEMMA HoldSafe ==
  ASSUME LedgerInv, NEW c \in Author, LockProject(c) \/ Declines(c) \/ Aborts(c)
  PROVE  LedgerInv'
<1>1. TxTyped /\ UNCHANGED <<project, scenes, ledger>>
  BY DEF LedgerInv, LockProject, Declines, Aborts
<1>2. CASE LockProject(c)
  <2>1. PICK t \in Tx : tx' = [tx EXCEPT ![c] = t] /\ t.op = tx[c].op
                        /\ (t.op = "restore" => t.source = tx[c].source)
    <3>1. CASE tx[c].op # "move"
      <4>1. tx[c].op \in {"create", "capture", "restore"} /\ tx' = [tx EXCEPT ![c].locked = TRUE]
        BY <1>2, <3>1 DEF LockProject, ProjectFirst
      <4> DEFINE t == Held(tx[c])
      <4>2. t \in Tx
        BY <1>1, <4>1, TxHolds
      <4>3. tx' = [tx EXCEPT ![c] = t]
        BY <4>1 DEF Held
      <4>4. t.op = tx[c].op /\ (t.op = "restore" => t.source = tx[c].source)
        BY <1>1, <4>1 DEF TxTyped, Tx, Idle, Held
      <4>5. QED
        BY <4>2, <4>3, <4>4
    <3>2. CASE tx[c].op = "move"
      <4>1. PICK p \in 1..Cardinality(Scene) + 1 :
              tx' = [tx EXCEPT ![c].locked = TRUE, ![c].position = p]
        BY <1>2, <3>2 DEF LockProject
      <4> DEFINE t == HeldAt(tx[c], p)
      <4>2. p \in Nat \ {0}
        <5>1. Cardinality(Scene) \in Nat
          BY FS_CardinalityType, EditingAssumption
        <5>2. QED
          BY <5>1
      <4>3. t \in Tx
        BY <1>1, <3>2, <4>2, TxHolds
      <4>4. tx' = [tx EXCEPT ![c] = t]
        BY <1>1, <4>1 DEF TxTyped, HeldAt
      <4>5. t.op = tx[c].op
        BY <1>1, <3>2 DEF TxTyped, Tx, Idle, HeldAt
      <4>6. QED
        BY <3>2, <4>3, <4>4, <4>5
    <3>3. QED
      BY <3>1, <3>2
  <2>2. t.op = "restore" => t.source \in 1..Len(ledger)
    BY <1>1, <2>1 DEF TxTyped
  <2>3. QED
    BY <1>1, <2>1, <2>2, TxTypes, TxSafe
<1>3. CASE Declines(c) \/ Aborts(c)
  BY <1>1, <1>3, EndsTyped, TxSafe DEF Declines, Aborts
<1>4. QED
  BY <1>2, <1>3

\* The root is rewritten, or the project deleted.
LEMMA RootMoves ==
  ASSUME BoardTyped, NEW t \in Text, UpdateProject(t) \/ DeleteProject
  PROVE  /\ UNCHANGED <<scenes, ledger, tx>>
         /\ project' \in [live : BOOLEAN, token : Nat, root : Text]
         /\ project'.token = project.token + 1
<1>1. project.live \in BOOLEAN /\ project.root \in Text /\ project.token + 1 \in Nat
      /\ project = [live |-> project.live, token |-> project.token, root |-> project.root]
  BY DEF BoardTyped
<1>2. \/ project' = [live |-> project.live, token |-> project.token + 1, root |-> t]
      \/ project' = [live |-> FALSE, token |-> project.token + 1, root |-> project.root]
  BY <1>1 DEF UpdateProject, DeleteProject
<1>3. UNCHANGED <<scenes, ledger, tx>>
  BY DEF UpdateProject, DeleteProject
<1>4. CASE project' = [live |-> project.live, token |-> project.token + 1, root |-> t]
  BY <1>1, <1>3, <1>4
<1>5. CASE project' = [live |-> FALSE, token |-> project.token + 1, root |-> project.root]
  BY <1>1, <1>3, <1>5
<1>6. QED
  BY <1>2, <1>4, <1>5

LEMMA RootSafe ==
  ASSUME LedgerInv, (\E t \in Text : UpdateProject(t)) \/ DeleteProject
  PROVE  LedgerInv'
<1>1. project.token \in Nat /\ project.root \in Text /\ BoardTyped
  BY DEF LedgerInv, BoardTyped
<1>2. /\ UNCHANGED <<scenes, ledger, tx>>
      /\ project' \in [live : BOOLEAN, token : Nat, root : Text]
      /\ project'.token = project.token + 1
  BY <1>1, RootMoves
<1>3. BoardTyped' /\ Apart'
  BY <1>2, LedgerApart DEF LedgerInv, BoardTyped, Apart, Live, Number
<1>4. project'.token > project.token
  BY <1>1, <1>2
<1>5. QED
  BY <1>1, <1>2, <1>3, <1>4, LedgerKept DEF LedgerInv, TxTyped

\* touch_version moves the token unless the project is gone.
LEMMA TouchMoves ==
  ASSUME BoardTyped, project' = Touched(project)
  PROVE  /\ project' \in [live : BOOLEAN, token : Nat, root : Text]
         /\ project'.token >= project.token
         /\ project'.live => project'.token > project.token
<1>1. project \in [live : BOOLEAN, token : Nat, root : Text]
  BY DEF BoardTyped
<1>2. CASE project.live
  <2>1. project' = [project EXCEPT !.token = project.token + 1]
    BY <1>2 DEF Touched
  <2>2. QED
    BY <1>1, <2>1
<1>3. CASE ~project.live
  BY <1>1, <1>3 DEF Touched
<1>4. QED
  BY <1>2, <1>3

LEMMA RowRewritten ==
  ASSUME NEW r \in Row, NEW t
  PROVE  Rewritten(r, t) =
           [state |-> IF t.op = "delete" THEN "deleted" ELSE r.state, number |-> r.number,
            version |-> r.version + 1, text |-> IF t.op = "update" THEN t.text ELSE r.text]
<1> DEFINE q1 == [r EXCEPT !.version = r.version + 1]
           q2 == [q1 EXCEPT !.state = IF t.op = "delete" THEN "deleted" ELSE r.state]
           q3 == [q2 EXCEPT !.text = IF t.op = "update" THEN t.text ELSE r.text]
<1>1. Rewritten(r, t) = q3
  BY Zenon DEF Rewritten
<1>2. q1 = [state |-> r.state, number |-> r.number, version |-> r.version + 1, text |-> r.text]
  BY DEF Row
<1> HIDE DEF q1
<1>3. q2 = [state |-> IF t.op = "delete" THEN "deleted" ELSE r.state, number |-> r.number,
            version |-> r.version + 1, text |-> r.text]
  BY <1>2
<1> HIDE DEF q2
<1>4. QED
  BY <1>1, <1>3

\* A scene updated or deleted keeps its number.
LEMMA SceneSafe ==
  ASSUME LedgerInv, NEW c \in Author, CommitScene(c)
  PROVE  LedgerInv'
<1> DEFINE s == tx[c].scene
           state == IF tx[c].op = "delete" THEN "deleted" ELSE scenes[s].state
           text == IF tx[c].op = "update" THEN tx[c].text ELSE scenes[s].text
<1>1. TxTyped /\ BoardTyped /\ Apart
  BY LedgerApart DEF LedgerInv
<1>2. tx[c].op \in {"update", "delete"} /\ project' = Touched(project) /\ UNCHANGED ledger /\ Ends(c)
  BY DEF CommitScene
<1>3. s \in Scene /\ (tx[c].op = "update" => tx[c].text \in Text)
  BY <1>1, <1>2, TxHolds
<1>4. scenes' = [scenes EXCEPT ![s] = Rewritten(scenes[s], tx[c])]
  BY Zenon DEF CommitScene
<1>5. /\ scenes[s] \in Row /\ scenes \in [Scene -> Row]
      /\ scenes[s].version + 1 \in Nat /\ scenes[s].number \in Nat
  BY <1>1, <1>3 DEF BoardTyped, Row
<1>6. state \in {"absent", "live", "deleted"} /\ text \in Text
  BY <1>1, <1>3 DEF BoardTyped, Row
<1>7. state = "live" => scenes[s].state = "live"
  OBVIOUS
<1> DEFINE row == [state |-> state, number |-> scenes[s].number,
                   version |-> scenes[s].version + 1, text |-> text]
<1>8. scenes' = [scenes EXCEPT ![s] = row]
  <2>1. Rewritten(scenes[s], tx[c]) = row
    BY Zenon, <1>5, RowRewritten
  <2>2. QED
    BY Zenon, <1>4, <2>1
<1> HIDE DEF s, state, text
<1>9. row \in Row /\ row.number = scenes[s].number /\ row.state = state
  BY <1>5, <1>6 DEF Row
<1> HIDE DEF row
<1>10. scenes' \in [Scene -> Row]
  BY <1>3, <1>5, <1>8, <1>9
<1>11. \A t \in Scene : /\ scenes'[t].number = scenes[t].number
                        /\ scenes'[t].state = "live" => scenes[t].state = "live"
  BY <1>3, <1>5, <1>7, <1>8, <1>9
<1>12. Apart'
  BY <1>1, <1>11 DEF Apart, Live, Number
<1>13. QED
  BY <1>1, <1>2, <1>10, <1>12, TouchMoves, EndsTyped, LedgerKept DEF BoardTyped

\* A new scene is numbered past the highest.
LEMMA CreateSafe ==
  ASSUME LedgerInv,
         NEW c \in Author, NEW s \in Scene, NEW t \in Text, CommitCreate(c, s, t)
  PROVE  LedgerInv'
<1> DEFINE row == [state |-> "live", number |-> Highest + STEP, version |-> 1, text |-> t]
<1>1. TxTyped /\ BoardTyped /\ Apart
  BY LedgerApart DEF LedgerInv
<1>2. /\ project' = Touched(project) /\ UNCHANGED ledger /\ Ends(c)
      /\ scenes' = [scenes EXCEPT ![s] = row]
  BY DEF CommitCreate
<1>3. Highest \in Nat /\ \A x \in Live : Number(x) <= Highest
  BY <1>1, LiveNumbered, HighestOf
<1>4. STEP \in Nat \ {0}
  BY EditingAssumption
<1>5. row \in Row /\ row.number = Highest + STEP
  BY <1>3, <1>4 DEF Row
<1> HIDE DEF row
<1>6. /\ scenes' \in [Scene -> Row] /\ scenes'[s].number = Highest + STEP
      /\ \A x \in Scene \ {s} : scenes'[x] = scenes[x]
  BY <1>1, <1>2, <1>5 DEF BoardTyped
<1>7. \A x \in Live : Number(x) \in Nat /\ Number(x) < Highest + STEP
  BY <1>1, <1>3, <1>4, LiveNumbered DEF Numbered
<1>8. Apart'
  <2> SUFFICES ASSUME NEW x \in Scene, NEW y \in Scene, scenes'[x].state = "live",
                      scenes'[y].state = "live", scenes'[x].number = scenes'[y].number
               PROVE  x = y
    BY DEF Apart, Live, Number
  <2>1. \A z \in Scene \ {s} : scenes'[z].state = "live" =>
          z \in Live /\ scenes'[z].number = Number(z)
    BY <1>6 DEF Live, Number
  <2>2. CASE x = s
    BY <1>3, <1>4, <1>6, <1>7, <2>1, <2>2
  <2>3. CASE y = s
    BY <1>3, <1>4, <1>6, <1>7, <2>1, <2>3
  <2>4. CASE x # s /\ y # s
    BY <1>1, <2>1, <2>4 DEF Apart
  <2>5. QED
    BY <2>2, <2>3, <2>4
<1>9. QED
  BY <1>1, <1>2, <1>6, <1>8, TouchMoves, EndsTyped, LedgerKept DEF BoardTyped

\* What a committed move has found and done.
LEMMA MoveFinds ==
  ASSUME LedgerInv, NEW c \in Author, CommitMove(c)
  PROVE  LET s == tx[c].scene  k == Index(tx[c].scene, tx[c].position) IN
         /\ BoardTyped /\ Apart /\ s \in Live /\ tx[c].position \in Nat \ {0}
         /\ k \in Nat /\ k <= Cardinality(Others(s)) /\ Moves(s, k)
         /\ scenes' = Renumber(s, k)
<1>1. TxTyped /\ BoardTyped /\ Apart
  BY LedgerApart DEF LedgerInv
<1>2. tx[c].op = "move" /\ tx[c].scene \in Live
  BY DEF CommitMove, MayMove
<1>3. tx[c].position \in Nat \ {0}
  BY <1>1, <1>2, TxHolds
<1>4. QED
  BY <1>1, <1>2, <1>3, IndexBound DEF CommitMove

LEMMA MoveSafe ==
  ASSUME LedgerInv, NEW c \in Author, CommitMove(c)
  PROVE  LedgerInv'
<1> DEFINE s == tx[c].scene
           k == Index(tx[c].scene, tx[c].position)
<1>1. /\ BoardTyped /\ Apart /\ s \in Live /\ k \in Nat /\ k <= Cardinality(Others(s))
      /\ Moves(s, k) /\ scenes' = Renumber(s, k)
  BY MoveFinds
<1>2. TxTyped /\ project' = Touched(project) /\ UNCHANGED ledger /\ Ends(c)
  BY DEF LedgerInv, CommitMove
<1> HIDE DEF s, k
<1>3. /\ Renumber(s, k) \in [Scene -> Row]
      /\ \A t \in Scene : Renumber(s, k)[t].state = scenes[t].state
      /\ Renumbered(s, k, Renumber(s, k))
  BY <1>1, RenumberMoves
<1>4. \A t, u \in Live : Renumber(s, k)[t].number = Renumber(s, k)[u].number => t = u
  <2> DEFINE new == Renumber(s, k)
  <2>1. new \in [Scene -> Row] /\ Renumbered(s, k, new)
    BY <1>3
  <2> HIDE DEF new
  <2>2. \A t, u \in Live : new[t].number = new[u].number => t = u
    BY <1>1, <2>1, RenumberedApart
  <2>3. QED
    BY <2>2 DEF new
<1>5. Apart'
  BY <1>1, <1>3, <1>4 DEF Apart, Live, Number
<1>6. QED
  BY <1>1, <1>2, <1>3, <1>5, TouchMoves, EndsTyped, LedgerKept DEF BoardTyped

\* A capture stores the project as it is, under the token it then gets.
LEMMA CaptureSafe ==
  ASSUME LedgerInv, NEW c \in Author, CommitCapture(c)
  PROVE  LedgerInv'
<1> DEFINE e == [reason |-> "manual_save", parent |-> Current, content |-> Content,
                 after |-> project.token + 1]
<1>1. TxTyped /\ BoardTyped /\ Apart
  BY LedgerApart DEF LedgerInv
<1>2. /\ project' = [project EXCEPT !.token = project.token + 1] /\ UNCHANGED scenes /\ Ends(c)
      /\ ledger' = Append(ledger, e)
  BY DEF CommitCapture
<1>3. project' \in [live : BOOLEAN, token : Nat, root : Text]
      /\ project'.token = project.token + 1 /\ project'.root = project.root
      /\ project.token + 1 \in Nat
  BY <1>1, <1>2 DEF BoardTyped
<1>4. BoardTyped' /\ Apart' /\ Content' = Content
  BY <1>1, <1>2, <1>3 DEF BoardTyped, Apart, Live, Number, Content
<1>5. Content \in Snaps /\ OneRow(Content.scenes)
  BY <1>1, ContentIsSnap
<1>6. Current \in Nat /\ Current <= Len(ledger)
  BY DEF Current, LedgerInv, Entries
<1>7. e \in EntryRow /\ e.after = project.token + 1 /\ e.content = Content
      /\ e.parent = Current /\ e.reason # "restore"
  BY <1>3, <1>5, <1>6 DEF EntryRow
<1> HIDE DEF e
<1>8. QED
  BY <1>1, <1>2, <1>3, <1>4, <1>5, <1>6, <1>7, EndsTyped, EntryAdded

\* What a restore makes of the scene s: deleted if the snapshot has not got it, and as the
\* snapshot has it otherwise.
LEMMA ReconciledRow ==
  ASSUME LedgerInv, NEW v \in 1..Len(ledger), NEW s \in Scene
  PROVE  /\ Reconciled(v)[s] \in Row
         /\ Reconciled(v)[s].state = "live" <=> Captured(v, s) # {}
         /\ \A x \in Captured(v, s) : /\ x = <<s, x[2], x[3]>>
                                      /\ Reconciled(v)[s].number = x[2]
                                      /\ Reconciled(v)[s].text = x[3]
<1> DEFINE S == ledger[v].content.scenes
           x == CHOOSE y \in Captured(v, s) : TRUE
           swept == IF s \in Live THEN 1 ELSE 0
           gone == IF s \in Live THEN "deleted" ELSE scenes[s].state
           r == scenes[s]
<1>1. /\ S \subseteq Scene \X Nat \X Text
      /\ \A y, z \in S : y[1] = z[1] => y = z
  <2>1. ledger[v].content \in Snaps
    BY EntriesTyped
  <2>2. OneRow(S)
    BY DEF LedgerInv, Entries
  <2>3. QED
    BY <2>1, <2>2 DEF Snaps, OneRow
<1>2. /\ r = [state |-> r.state, number |-> r.number, version |-> r.version, text |-> r.text]
      /\ r.state \in {"absent", "live", "deleted"} /\ r.number \in Nat /\ r.version \in Nat
      /\ r.text \in Text /\ (s \in Live <=> r.state = "live")
  BY DEF LedgerInv, BoardTyped, Row, Live
<1>3. swept \in Nat /\ gone \in {"absent", "deleted"}
  BY <1>2
<1>4. Reconciled(v)[s] =
        IF Captured(v, s) = {}
          THEN [[r EXCEPT !.state = gone] EXCEPT !.version = r.version + swept]
          ELSE [state |-> "live", number |-> x[2], text |-> x[3],
                version |-> r.version + swept + 1]
  <2>1. [r EXCEPT !.state = gone].version = r.version
    BY <1>2
  <2>2. Reconciled(v)[s] =
          IF Captured(v, s) = {}
            THEN [r EXCEPT !.state = IF s \in Live THEN "deleted" ELSE @, !.version = @ + swept]
            ELSE [state |-> "live", number |-> x[2], text |-> x[3],
                  version |-> r.version + swept + 1]
    BY Zenon DEF Reconciled
  <2>3. QED
    BY Zenon, <2>1, <2>2
<1>5. Captured(v, s) = {y \in S : y[1] = s}
  BY DEF Captured
<1> HIDE DEF S, swept, gone, r
<1>6. CASE Captured(v, s) = {}
  <2>1. [r EXCEPT !.state = gone]
          = [state |-> gone, number |-> r.number, version |-> r.version, text |-> r.text]
    BY <1>2
  <2>2. Reconciled(v)[s] = [state |-> gone, number |-> r.number, version |-> r.version + swept,
                            text |-> r.text]
    BY <1>4, <1>6, <2>1
  <2>3. r.version + swept \in Nat
    BY <1>2, <1>3
  <2>4. QED
    BY <1>2, <1>3, <1>6, <2>2, <2>3 DEF Row
<1>7. CASE Captured(v, s) # {}
  <2>1. x \in Captured(v, s)
    BY <1>7
  <2> HIDE DEF x
  <2>2. \A y \in Captured(v, s) : y = x /\ y = <<s, y[2], y[3]>> /\ y[2] \in Nat /\ y[3] \in Text
    BY <1>1, <1>5, <2>1
  <2>3. Reconciled(v)[s] = [state |-> "live", number |-> x[2], text |-> x[3],
                            version |-> r.version + swept + 1]
    BY <1>4, <1>7
  <2>4. r.version + swept + 1 \in Nat
    BY <1>2, <1>3
  <2>5. QED
    BY <1>7, <2>1, <2>2, <2>3, <2>4 DEF Row
<1>8. QED
  BY <1>6, <1>7

\* A restore puts the content of its source back, under a token of its own.
LEMMA RestoreSafe ==
  ASSUME LedgerInv, NEW c \in Author, CommitRestore(c)
  PROVE  LedgerInv'
<1> DEFINE v == tx[c].source
           S == ledger[v].content.scenes
           e == [reason |-> "restore", parent |-> v, content |-> Content',
                 after |-> tx[c].expects + 1]
<1>1. TxTyped /\ BoardTyped
  BY DEF LedgerInv
<1>2. /\ tx[c].op = "restore" /\ project.token = tx[c].expects
      /\ scenes' = Reconciled(v) /\ ledger' = Append(ledger, e) /\ Ends(c)
      /\ project' = [project EXCEPT !.root = ledger[v].content.root, !.token = @ + 1]
  BY DEF CommitRestore, MayRestore
<1>3. v \in 1..Len(ledger)
  BY <1>1, <1>2 DEF TxTyped
<1>4. ledger[v].content \in Snaps /\ OneRow(S) /\ Len(ledger) \in Nat
  BY <1>3, EntriesTyped DEF LedgerInv, Entries
<1>5. /\ ledger[v].content = [root |-> ledger[v].content.root, scenes |-> S]
      /\ ledger[v].content.root \in Text /\ S \subseteq Scene \X Nat \X Text
      /\ \A x, y \in S : x[2] = y[2] => x = y
  BY <1>4 DEF Snaps, OneRow
<1> DEFINE root == ledger[v].content.root
<1> HIDE DEF v, S, e, root
<1>6. /\ project' \in [live : BOOLEAN, token : Nat, root : Text]
      /\ project'.token = project.token + 1 /\ project'.root = root
  <2>1. project = [live |-> project.live, token |-> project.token, root |-> project.root]
        /\ project.live \in BOOLEAN /\ project.token + 1 \in Nat
    BY <1>1 DEF BoardTyped
  <2>2. project' = [live |-> project.live, token |-> project.token + 1, root |-> root]
    BY <1>2, <2>1 DEF root
  <2>3. root \in Text
    BY <1>5 DEF root
  <2>4. QED
    BY <2>1, <2>2, <2>3
<1>7. /\ \A s \in Scene : /\ scenes'[s] \in Row
                          /\ scenes'[s].state = "live" <=> Captured(v, s) # {}
                          /\ \A x \in Captured(v, s) : /\ x = <<s, x[2], x[3]>>
                                                       /\ scenes'[s].number = x[2]
                                                       /\ scenes'[s].text = x[3]
  BY <1>2, <1>3, ReconciledRow
<1>8. scenes' \in [Scene -> Row]
  <2>1. scenes' = [s \in Scene |-> scenes'[s]]
    <3>1. Reconciled(v) = [s \in Scene |-> Reconciled(v)[s]]
      BY Zenon DEF Reconciled
    <3>2. QED
      BY <1>2, <3>1
  <2>2. QED
    BY <1>7, <2>1
<1>9. \A s \in Scene : Captured(v, s) = {x \in S : x[1] = s}
  BY DEF Captured, S
<1>10. Apart'
  <2> SUFFICES ASSUME NEW s \in Scene, NEW t \in Scene, scenes'[s].state = "live",
                      scenes'[t].state = "live", scenes'[s].number = scenes'[t].number
               PROVE  s = t
    BY DEF Apart, Live, Number
  <2>1. PICK x \in Captured(v, s) : x \in S /\ x[1] = s
    BY <1>7, <1>9
  <2>2. PICK y \in Captured(v, t) : y \in S /\ y[1] = t
    BY <1>7, <1>9
  <2>3. x[2] = y[2]
    BY <1>7, <2>1, <2>2
  <2>4. QED
    BY <1>5, <2>1, <2>2, <2>3
<1>11. Content' = ledger[v].content
  <2> DEFINE T == {<<s, scenes'[s].number, scenes'[s].text>> : s \in Live'}
  <2>1. ASSUME NEW s \in Live'
        PROVE  <<s, scenes'[s].number, scenes'[s].text>> \in S
    <3>1. s \in Scene /\ scenes'[s].state = "live"
      BY DEF Live
    <3>2. PICK x \in Captured(v, s) : TRUE
      BY <1>7, <3>1
    <3>3. x \in S /\ x = <<s, scenes'[s].number, scenes'[s].text>>
      BY <1>7, <1>9, <3>1, <3>2
    <3>4. QED
      BY <3>3
  <2>2. ASSUME NEW x \in S
        PROVE  x[1] \in Live' /\ x = <<x[1], scenes'[x[1]].number, scenes'[x[1]].text>>
    <3>1. x[1] \in Scene
      BY <1>5, <2>2
    <3>2. x \in Captured(v, x[1])
      BY <1>9, <2>2, <3>1
    <3>3. QED
      BY <1>7, <3>1, <3>2 DEF Live
  <2>3. T = S
    BY <2>1, <2>2
  <2>4. Content' = [root |-> project'.root, scenes |-> T]
    BY DEF Content
  <2>5. QED
    BY <1>5, <1>6, <2>3, <2>4 DEF root
<1>12. BoardTyped'
  BY <1>6, <1>8 DEF BoardTyped
<1>13. /\ e \in EntryRow /\ e.after = project.token + 1 /\ e.content = Content'
       /\ OneRow(e.content.scenes) /\ e.parent = v
  <2>1. Content' \in Snaps /\ OneRow(Content'.scenes)
    BY <1>4, <1>11 DEF S
  <2>2. tx[c].expects + 1 \in Nat /\ v \in Nat
    BY <1>1, <1>2, <1>3, <1>4 DEF BoardTyped
  <2>3. QED
    BY <1>2, <2>1, <2>2 DEF e, EntryRow
<1>14. e.parent <= Len(ledger) /\ e.parent >= 1 /\ e.content = ledger[e.parent].content
  BY <1>3, <1>4, <1>11, <1>13
<1>15. QED
  BY <1>1, <1>2, <1>6, <1>10, <1>12, <1>13, <1>14, EndsTyped, EntryAdded
-----------------------------------------------------------------------------
LEMMA LedgerInvHolds == EditingInit => LedgerInv
<1>1. SUFFICES ASSUME EditingInit PROVE LedgerInv
  OBVIOUS
<1>2. PICK t \in Text : /\ project = [live |-> TRUE, token |-> 1, root |-> t]
                        /\ scenes = [s \in Scene |-> [state |-> "absent", number |-> 0,
                                                      version |-> 0, text |-> t]]
  BY <1>1 DEF EditingInit
<1>3. BoardTyped /\ Live = {}
  BY <1>2 DEF BoardTyped, Row, Live
<1>4. TxTyped
  BY <1>1 DEF EditingInit, TxTyped, Tx, Idle
<1>5. ledger = <<>> /\ DOMAIN ledger = {} /\ Len(ledger) = 0 /\ ledger \in Seq(EntryRow)
  BY <1>1 DEF EditingInit
<1>6. Entries /\ LedgerIsTrue
  BY <1>3, <1>5 DEF Entries, LedgerIsTrue
<1>7. QED
  BY <1>3, <1>4, <1>6 DEF LedgerInv

LEMMA LedgerInvKept == LedgerInv /\ [EditingNext]_vars => LedgerInv'
<1> SUFFICES ASSUME LedgerInv, [EditingNext]_vars PROVE LedgerInv'
  OBVIOUS
<1>1. CASE UNCHANGED boardVars
  BY <1>1, TxSafe DEF boardVars, LedgerInv, TxTyped
<1>2. CASE ~UNCHANGED boardVars
  <2>1. ~TimelineStep /\ ~UNCHANGED vars
    BY <1>2 DEF TimelineStep, vars
  <2>2. QED
    BY <2>1, BeginSafe, HoldSafe, RootSafe, SceneSafe, CreateSafe, MoveSafe, CaptureSafe,
       RestoreSafe DEF EditingNext
<1>3. QED
  BY <1>1, <1>2

THEOREM LedgerInductive == EditingSpec => []LedgerInv
BY LedgerInvHolds, LedgerInvKept, PTL DEF EditingSpec

\* The ledger tells the truth, for every storyboard and step between numbers: its last
\* entry is the project until the token moves, a restored version is its source, the
\* tokens it records are in order, and no two live scenes share a number, whether it was
\* taken from a gap, past the highest, by a rebalance or from a snapshot.
THEOREM LedgerProven == EditingSpec => []LedgerIsTrue
<1>1. LedgerInv => LedgerIsTrue
  BY DEF LedgerInv
<1>2. QED
  BY <1>1, LedgerInductive, PTL

\* One client's move is the only step that renumbers while a move of that client ends.
LEMMA MoveEnds ==
  ASSUME LedgerInv, EditingNext, NEW c \in Author, tx[c].op = "move", tx'[c] = Idle,
         scenes' # scenes
  PROVE  CommitMove(c)
<1>1. tx[c] # Idle
  BY DEF Idle
<1>2. ASSUME NEW d \in Author, NEW s \in Scene, NEW t \in Text, CommitCreate(d, s, t)
      PROVE  FALSE
  BY <1>1, <1>2 DEF CommitCreate, Ends, LedgerInv, TxTyped
<1>3. ASSUME NEW d \in Author, CommitScene(d) \/ CommitRestore(d)
      PROVE  FALSE
  BY <1>1, <1>3 DEF CommitScene, CommitRestore, MayRestore, Ends, LedgerInv, TxTyped
<1>4. ASSUME NEW d \in Author, CommitMove(d)
      PROVE  d = c
  BY <1>1, <1>4 DEF CommitMove, Ends, LedgerInv, TxTyped
<1>5. ASSUME NEW t \in Text, UpdateProject(t) \/ DeleteProject
      PROVE  FALSE
  BY <1>5 DEF UpdateProject, DeleteProject
<1>6. DeleteProject => FALSE
  BY DEF DeleteProject
<1>7. QED
  BY <1>2, <1>3, <1>4, <1>5, <1>6 DEF EditingNext, UpdateScene, DeleteScene, BeginMove,
       BeginCreate, BeginCapture, BeginRestore, Gate, LockProject, CommitCapture, Declines,
       Aborts, TimelineStep, boardVars

\* A move puts its scene at the position asked for, or the last, and leaves the order of
\* the others as it was, also when every number is reassigned, whatever _STEP is and
\* however the moves of several clients interleave.
THEOREM MovesProven == EditingSpec => MovesAsAsked
<1>1. ASSUME LedgerInv, EditingNext, NEW c \in Author, NEW s \in Scene,
             tx[c].op = "move", tx[c].scene = s, tx'[c] = Idle, scenes' # scenes
      PROVE  LET n == Cardinality(Live) IN
             /\ Live' = Live
             /\ Position(s)' = IF tx[c].position > n THEN n ELSE tx[c].position
             /\ \A t, u \in Others(s) :
                  scenes[t].number < scenes[u].number => scenes'[t].number < scenes'[u].number
  <2> DEFINE p == tx[c].position
             k == Index(s, p)
             R == Renumber(s, k)
  <2>1. /\ BoardTyped /\ Apart /\ s \in Live /\ p \in Nat \ {0}
        /\ k \in Nat /\ k <= Cardinality(Others(s)) /\ Moves(s, k)
        /\ scenes' = R
    BY <1>1, MoveEnds, MoveFinds
  <2>2. /\ R \in [Scene -> Row] /\ \A t \in Scene : R[t].state = scenes[t].state
        /\ Renumbered(s, k, R)
    BY <2>1, RenumberMoves
  <2>3. Live' = Live
    BY <2>1, <2>2 DEF Live
  <2>4. Cardinality({t \in Live : R[t].number < R[s].number}) = k
    <3> HIDE DEF R, k
    <3> QED
      BY <2>1, <2>2, RenumberedApart
  <2>5. Position(s)' = k + 1
    <3>1. Below(Live, s)' = {t \in Live' : scenes'[t].number < scenes'[s].number}
      BY DEF Below, Number
    <3>2. QED
      BY <2>1, <2>3, <2>4, <3>1 DEF Position
  <2>6. Cardinality(Live) = Cardinality(Others(s)) + 1 /\ Cardinality(Others(s)) \in Nat
    <3>1. IsFiniteSet(Live) /\ Cardinality(Live) \in Nat
      BY <2>1, LiveNumbered, FS_CardinalityType DEF Numbered
    <3>2. Cardinality(Others(s)) = Cardinality(Live) - 1
      BY <2>1, <3>1, FS_RemoveElement DEF Others
    <3>3. Cardinality(Others(s)) \in Nat
      BY <2>1, IndexBound
    <3>4. QED
      BY <3>1, <3>2, <3>3
  <2>7. k = IF p > Cardinality(Others(s)) + 1 THEN Cardinality(Others(s)) ELSE p - 1
    BY <2>1, IndexBound
  <2>8. Position(s)' = IF p > Cardinality(Live) THEN Cardinality(Live) ELSE p
    BY <2>1, <2>5, <2>6, <2>7
  <2>9. \A t, u \in Others(s) :
          scenes[t].number < scenes[u].number => scenes'[t].number < scenes'[u].number
    BY <2>1, <2>2 DEF Renumbered, Number
  <2>10. QED
    BY <2>3, <2>8, <2>9
<1>2. LedgerInv /\ [EditingNext]_vars =>
       [\A c \in Author, s \in Scene :
          tx[c].op = "move" /\ tx[c].scene = s /\ tx'[c] = Idle /\ scenes' # scenes =>
            LET n == Cardinality(Live) IN
            /\ Live' = Live
            /\ Position(s)' = IF tx[c].position > n THEN n ELSE tx[c].position
            /\ \A t, u \in Others(s) :
                 scenes[t].number < scenes[u].number => scenes'[t].number < scenes'[u].number]_vars
  BY <1>1
<1>3. QED
  BY <1>2, LedgerInductive, PTL DEF EditingSpec, MovesAsAsked
=============================================================================
