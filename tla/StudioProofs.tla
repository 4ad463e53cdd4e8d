---------------------------- MODULE StudioProofs ----------------------------
(***************************************************************************)
(* Theorems about what creators keep in the studio, for every number of    *)
(* clients, items, films, texts, kinds and keys, and whatever the bounds   *)
(* on the requests.                                                        *)
(*                                                                         *)
(* Worlds: no race of requests gives a world more children than its caps,  *)
(* a version names one world, and the snapshot of a generation is that     *)
(* world.  Then the parts of the studio, each with an inductive invariant  *)
(* of its own: accounts and their sessions, generated videos and their     *)
(* enrichment, and the library, whose tree of folders is hurt only by      *)
(* requests that were overtaken.                                           *)
(***************************************************************************)
EXTENDS Studio, FiniteSetTheorems, TLAPS

\* No request expects a version that is yet to come, so a write leaves none of the
\* others within its fence.
ExpectsThePast == \A c \in Client : writes[c] # Closed => writes[c].expects <= world.version

\* What was judged before the fence still fits while the fence holds.
FitsIfFenced ==
  \A c \in Client : writes[c].op = "write" /\ Fenced(writes[c])
                      => WithinCaps(Written(writes[c]).cast)

CapInv == CapsHold /\ ExpectsThePast /\ FitsIfFenced

\* The committed worlds lead up to the present one.
History ==
  /\ \A w \in worlds : w.version <= world.version
  /\ \A v, w \in worlds : v.version = w.version => v = w
  /\ IF world.live THEN Of(world) \in worlds ELSE world.cast = NoCast

\* The kinds a generation has read when the last one is at.
Seen(at) == {k \in Kind : \E m, n \in 1..Len(Kinds) : m <= n /\ Kinds[m] = k /\ Kinds[n] = at}

\* Root and kinds are each of a committed world.
FromHistory(s) ==
  /\ \E w \in worlds : w.version = s.version /\ w.look = s.look
  /\ \A k \in Kind : \/ Children(s.cast, k) = {}
                     \/ \E w \in worlds : w.version >= s.version /\ w.cast[k] = s.cast[k]

\* Until it is overtaken, a snapshot agrees with the present world as far as it was read.
UpToDate(s) ==
  ~s.overtaken =>
    IF s.at = "bound"
      THEN Of(s) \in worlds
      ELSE /\ world.live /\ world.version = s.version /\ world.look = s.look
           /\ \A k \in Seen(s.at) : s.cast[k] = world.cast[k]

SnapshotInv ==
  History /\ \A g \in Generation : snapshots[g] # Unread =>
               FromHistory(snapshots[g]) /\ UpToDate(snapshots[g])
-----------------------------------------------------------------------------
(***************************************************************************)
(* Types                                                                   *)
(***************************************************************************)
LEMMA KindIs == Kind = {Kinds[n] : n \in 1..Len(Kinds)}
BY WorldsAssumption DEF Kind

LEMMA NoCastTyped == NoCast \in [Kind -> [Key -> Child]]
BY DEF NoCast, Child

\* The two shapes of an open request.
LEMMA RequestShape ==
  ASSUME NEW r \in Request, r # Closed
  PROVE  /\ r.expects \in 1..MaxVersion
         /\ r.op \in {"write", "add", "change", "remove"}
         /\ IF "root" \in DOMAIN r
              THEN r.root \in Look /\ r.op = "write"
              ELSE r.kind \in Kind /\ r.key \in Key /\ r.child \in Child
BY DEF Request, Closed

LEMMA WrittenTyped ==
  ASSUME TypeOK, NEW r \in Request, r # Closed, world.version < MaxVersion
  PROVE  /\ Written(r) \in [live : BOOLEAN, version : 1..MaxVersion, look : Look,
                            cast : [Kind -> [Key -> Child]]]
         /\ Written(r).version = world.version + 1 /\ Written(r).live = world.live
<1>1. world.version + 1 \in 1..MaxVersion
  BY WorldsAssumption DEF TypeOK
<1>2. CASE "root" \in DOMAIN r
  <2>1. r.root \in Look
    BY <1>2, RequestShape
  <2>2. QED
    BY <1>1, <1>2, <2>1 DEF TypeOK, Written
<1>3. CASE "root" \notin DOMAIN r
  <2>1. r.kind \in Kind /\ r.key \in Key /\ r.child \in Child
    BY <1>3, RequestShape
  <2>2. [world.cast EXCEPT ![r.kind][r.key] = r.child] \in [Kind -> [Key -> Child]]
    BY <2>1 DEF TypeOK
  <2>3. Written(r) = [world EXCEPT !.version = world.version + 1,
                                   !.cast = [world.cast EXCEPT ![r.kind][r.key] = r.child]]
    BY <1>3 DEF Written, TypeOK
  <2>4. QED
    BY <1>1, <2>2, <2>3 DEF TypeOK
<1>4. QED
  BY <1>2, <1>3

LEMMA TypeStep ==
  ASSUME TypeOK, [Next]_worldVars
  PROVE  TypeOK'
<1> USE DEF TypeOK
<1>1. ASSUME NEW c \in Client, NEW look \in Look, UpdateIdentityProfile(c, look)
      PROVE  TypeOK'
  <2>1. [op |-> "write", expects |-> world.version, root |-> look] \in Request
    BY DEF Request
  <2>2. QED
    BY <1>1, <2>1 DEF UpdateIdentityProfile, Opens
<1>2. ASSUME NEW c \in Client, NEW op \in {"add", "change", "remove"}, NEW k \in Kind,
             NEW i \in Key, NEW child \in Child, BeginChild(c, op, k, i, child)
      PROVE  TypeOK'
  <2>1. [op |-> op, expects |-> world.version, kind |-> k, key |-> i, child |-> child] \in Request
    BY DEF Request
  <2>2. QED
    BY <1>2, <2>1 DEF BeginChild, Opens
<1>3. ASSUME NEW c \in Client, ReadChildren(c)
      PROVE  TypeOK'
  <2> DEFINE r == writes[c]
  <2>1. r \in Request /\ r # Closed /\ r.op # "write"
    BY <1>3 DEF ReadChildren, Closed
  <2>2. r.expects \in 1..MaxVersion /\ r.kind \in Kind /\ r.key \in Key /\ r.child \in Child
    BY <2>1, RequestShape
  <2>3. [op |-> "write", expects |-> r.expects, kind |-> r.kind, key |-> r.key,
         child |-> r.child] \in Request
    BY <2>2 DEF Request
  <2>4. Closed \in Request
    BY DEF Request
  <2>5. QED
    BY <1>3, <2>3, <2>4 DEF ReadChildren
<1>4. ASSUME NEW c \in Client, Write(c)
      PROVE  TypeOK'
  <2>1. writes' \in [Client -> Request]
    BY <1>4 DEF Write, Request
  <2>2. CASE ~Fenced(writes[c])
    BY <1>4, <2>1, <2>2 DEF Write
  <2>3. CASE Fenced(writes[c])
    <3>1. /\ world.version < MaxVersion /\ writes[c] \in Request /\ writes[c] # Closed
          /\ world' = Written(writes[c]) /\ worlds' = worlds \cup {Of(world')}
          /\ snapshots' = Overtakes
      BY <1>4, <2>3 DEF Write, Closed
    <3>2. world' \in [live : BOOLEAN, version : 1..MaxVersion, look : Look,
                      cast : [Kind -> [Key -> Child]]]
      BY <3>1, WrittenTyped
    <3>3. Of(world') \in World
      BY <3>2 DEF Of, World
    <3>4. Overtakes \in [Generation -> {Unread} \cup Snapshot]
      BY DEF Overtakes, Unread, Snapshot
    <3>5. QED
      BY <2>1, <3>1, <3>2, <3>3, <3>4
  <2>4. QED
    BY <2>2, <2>3
<1>5. ASSUME DeleteWorld
      PROVE  TypeOK'
  <2>1. Overtakes \in [Generation -> {Unread} \cup Snapshot]
    BY DEF Overtakes, Unread, Snapshot
  <2>2. QED
    BY <1>5, <2>1, NoCastTyped DEF DeleteWorld
<1>6. ASSUME NEW g \in Generation, ReadRoot(g)
      PROVE  TypeOK'
  <2>1. [at |-> "root", version |-> world.version, look |-> world.look, cast |-> NoCast,
         overtaken |-> FALSE] \in Snapshot
    BY NoCastTyped DEF Snapshot
  <2>2. QED
    BY <1>6, <2>1 DEF ReadRoot
<1>7. ASSUME NEW g \in Generation, NEW n \in 1..Len(Kinds), ReadKind(g, n)
      PROVE  TypeOK'
  <2>1. Kinds[n] \in Kind
    BY KindIs
  <2>2. snapshots[g] \in Snapshot
    BY <1>7, <2>1, KindIs, WorldsAssumption DEF ReadKind, Unread, Kind
  <2>3. snapshots'[g] \in Snapshot
    BY <1>7, <2>1, <2>2 DEF ReadKind, Snapshot
  <2>4. QED
    BY <1>7, <2>3 DEF ReadKind
<1>8. CASE UNCHANGED worldVars
  BY <1>8 DEF worldVars
<1>9. QED
  BY <1>1, <1>2, <1>3, <1>4, <1>5, <1>6, <1>7, <1>8
     DEF Next, AddIdentityChild, UpdateIdentityChild, RemoveIdentityChild, Child

\* Every variable of a world, its requests and its snapshots keeps its type.
THEOREM TypeCorrect == Spec => []TypeOK
<1>1. Init => TypeOK
  <2>1. SUFFICES ASSUME Init PROVE TypeOK
    OBVIOUS
  <2>2. PICK look \in Look, i \in Key, child \in Child :
          world = [live |-> TRUE, version |-> 1, look |-> look,
                   cast |-> [NoCast EXCEPT ![Kinds[1]][i] = child]]
    BY <2>1 DEF Init
  <2>3. world \in [live : BOOLEAN, version : 1..MaxVersion, look : Look,
                   cast : [Kind -> [Key -> Child]]]
    <3>1. [NoCast EXCEPT ![Kinds[1]][i] = child] \in [Kind -> [Key -> Child]]
      BY NoCastTyped
    <3>2. 1 \in 1..MaxVersion
      BY WorldsAssumption
    <3>3. QED
      BY <2>2, <3>1, <3>2
  <2>4. Of(world) \in World
    BY <2>3 DEF Of, World
  <2>5. QED
    BY <2>1, <2>3, <2>4 DEF Init, TypeOK, Request
<1>2. TypeOK /\ [Next]_worldVars => TypeOK'
  BY TypeStep
<1>3. QED
  BY <1>1, <1>2, PTL DEF Spec
-----------------------------------------------------------------------------
(***************************************************************************)
(* The caps                                                                *)
(***************************************************************************)
LEMMA NoCastFits == WithinCaps(NoCast)
<1>1. SUFFICES ASSUME NEW k \in Kind PROVE Cardinality(Children(NoCast, k)) <= Cap[k]
  BY DEF WithinCaps
<1>2. Children(NoCast, k) = {}
  BY DEF Children, NoCast
<1>3. Cap[k] \in Nat
  BY WorldsAssumption DEF Kind
<1>4. QED
  BY <1>2, <1>3, FS_EmptySet

\* The judgement of a request is right for the world it is made in.
LEMMA JudgedFits ==
  ASSUME TypeOK, NEW k \in Kind, NEW i \in Key, NEW child \in Child,
         NEW op \in {"add", "change", "remove"}, WithinCaps(world.cast),
         IF op = "add" THEN Cardinality(Children(world.cast, k)) + 1 <= Cap[k]
                       ELSE i \in Children(world.cast, k)
  PROVE  WithinCaps([world.cast EXCEPT ![k][i] = child])
<1> DEFINE cast == [world.cast EXCEPT ![k][i] = child]
<1>1. world.cast \in [Kind -> [Key -> Child]]
  BY DEF TypeOK
<1>2. SUFFICES ASSUME NEW l \in Kind PROVE Cardinality(Children(cast, l)) <= Cap[l]
  BY DEF WithinCaps
<1>3. Cap[l] \in Nat
  BY WorldsAssumption DEF Kind
<1>4. CASE l # k
  <2>1. Children(cast, l) = Children(world.cast, l)
    BY <1>1, <1>4 DEF Children
  <2>2. QED
    BY <2>1 DEF WithinCaps
<1>5. CASE l = k
  <2> DEFINE children == Children(world.cast, k)
  <2>1. children \cup {i} \in SUBSET Key /\ IsFiniteSet(children)
    BY WorldsAssumption, FS_Subset DEF Children
  <2>2. Children(cast, k) \in SUBSET (children \cup {i})
    BY <1>1 DEF Children
  <2>3. /\ Cardinality(children) \in Nat /\ IsFiniteSet(children \cup {i})
        /\ Cardinality(children \cup {i}) =
             IF i \in children THEN Cardinality(children) ELSE Cardinality(children) + 1
    BY <2>1, FS_CardinalityType, FS_AddElement
  <2>4. Cardinality(Children(cast, k)) <= Cardinality(children \cup {i})
        /\ Cardinality(Children(cast, k)) \in Nat
    BY <2>2, <2>3, FS_Subset, FS_CardinalityType
  <2>5. Cardinality(children) <= Cap[k]
    BY DEF WithinCaps
  <2>6. Cardinality(children \cup {i}) <= Cap[k]
    BY <2>3, <2>5, <1>3, <1>5
  <2>7. QED
    BY <2>3, <2>4, <2>6, <1>3, <1>5
<1>6. QED
  BY <1>4, <1>5

\* A step that opens or closes one request, and leaves the world alone.
LEMMA RequestSafe ==
  ASSUME TypeOK, CapInv, NEW c \in Client, NEW r \in Request,
         writes' = [writes EXCEPT ![c] = r], UNCHANGED <<world, worlds>>,
         r # Closed => r.expects <= world.version,
         r.op = "write" /\ Fenced(r) => WithinCaps(Written(r).cast)
  PROVE  CapInv'
<1>1. CapsHold'
  BY DEF CapInv, CapsHold
<1>2. \A d \in Client : writes'[d] = IF d = c THEN r ELSE writes[d]
  BY DEF TypeOK
<1>3. ExpectsThePast'
  BY <1>2 DEF CapInv, ExpectsThePast
<1>4. \A d \in Client : /\ (Fenced(writes[d]))' = Fenced(writes'[d])
                        /\ (Written(writes[d]))' = Written(writes'[d])
  BY DEF Fenced, Written
<1>5. FitsIfFenced'
  BY <1>2, <1>4 DEF CapInv, FitsIfFenced
<1>6. QED
  BY <1>1, <1>3, <1>5 DEF CapInv

\* The world after a write or the deletion: no request is within the fence any more.
LEMMA CommitSafe ==
  ASSUME TypeOK, CapInv,
         \A c \in Client : writes'[c] = writes[c] \/ writes'[c] = Closed,
         WithinCaps(world'.cast), \A w \in worlds' \ worlds : WithinCaps(w.cast),
         world'.version \in Nat, world'.version >= world.version,
         ~world'.live \/ world'.version = world.version + 1
  PROVE  CapInv'
<1>1. world.version \in Nat
  BY WorldsAssumption DEF TypeOK
<1>2. \A c \in Client : writes[c] # Closed
        => writes[c].expects \in Nat /\ writes[c].expects <= world.version
  BY RequestShape, WorldsAssumption DEF TypeOK, CapInv, ExpectsThePast
<1>3. CapsHold'
  BY DEF CapInv, CapsHold
<1>4. ExpectsThePast'
  BY <1>1, <1>2 DEF ExpectsThePast
<1>5. \A c \in Client : writes'[c].op = "write" => ~(Fenced(writes[c]))'
  BY <1>1, <1>2 DEF Fenced, Closed
<1>6. FitsIfFenced'
  BY <1>5 DEF FitsIfFenced
<1>7. QED
  BY <1>3, <1>4, <1>6 DEF CapInv

LEMMA CapStep ==
  ASSUME TypeOK, CapInv, [Next]_worldVars
  PROVE  CapInv'
<1>1. ASSUME NEW c \in Client, NEW look \in Look, UpdateIdentityProfile(c, look)
      PROVE  CapInv'
  <2> DEFINE r == [op |-> "write", expects |-> world.version, root |-> look]
  <2>1. /\ r \in Request /\ r.expects <= world.version
        /\ writes' = [writes EXCEPT ![c] = r] /\ UNCHANGED <<world, worlds>>
    BY <1>1, WorldsAssumption DEF UpdateIdentityProfile, Opens, Request, TypeOK
  <2>2. "root" \in DOMAIN r
    OBVIOUS
  <2>3. Written(r).cast = world.cast
    BY <2>2 DEF Written, TypeOK
  <2>4. QED
    BY <2>1, <2>3, RequestSafe DEF CapInv, CapsHold
<1>2. ASSUME NEW c \in Client, NEW op \in {"add", "change", "remove"}, NEW k \in Kind,
             NEW i \in Key, NEW child \in Child, BeginChild(c, op, k, i, child)
      PROVE  CapInv'
  <2> DEFINE r == [op |-> op, expects |-> world.version, kind |-> k, key |-> i,
                   child |-> child]
  <2>1. /\ r \in Request /\ r.expects <= world.version /\ r.op # "write"
        /\ writes' = [writes EXCEPT ![c] = r] /\ UNCHANGED <<world, worlds>>
    BY <1>2, WorldsAssumption DEF BeginChild, Opens, Request, TypeOK
  <2>2. QED
    BY <2>1, RequestSafe
<1>3. ASSUME NEW c \in Client, ReadChildren(c)
      PROVE  CapInv'
  <2> DEFINE r == writes[c]
             s == [op |-> "write", expects |-> r.expects, kind |-> r.kind, key |-> r.key,
                   child |-> r.child]
  <2>1. /\ r \in Request /\ r # Closed /\ r.op \in {"add", "change", "remove"}
        /\ writes' = [writes EXCEPT ![c] = IF Judged(r) THEN s ELSE Closed]
        /\ UNCHANGED <<world, worlds>>
    BY <1>3 DEF ReadChildren, Closed, TypeOK
  <2>2. r.expects \in 1..MaxVersion /\ r.kind \in Kind /\ r.key \in Key /\ r.child \in Child
    BY <2>1, RequestShape
  <2>3. r.expects <= world.version
    BY <2>1 DEF CapInv, ExpectsThePast
  <2>4. CASE ~Judged(r)
    <3>1. Closed \in Request /\ Closed.op # "write"
      BY DEF Request, Closed
    <3>2. QED
      BY <2>1, <2>4, <3>1, RequestSafe
  <2>5. CASE Judged(r)
    <3>1. s \in Request
      BY <2>2 DEF Request
    <3>2. "root" \notin DOMAIN s
      OBVIOUS
    <3>3. Written(s).cast = [world.cast EXCEPT ![r.kind][r.key] = r.child]
      BY <3>2 DEF Written, TypeOK
    <3>4. WithinCaps(Written(s).cast)
      BY <2>1, <2>2, <2>5, <3>3, JudgedFits DEF Judged, CapInv, CapsHold
    <3>5. QED
      BY <2>1, <2>3, <2>5, <3>1, <3>4, RequestSafe
  <2>6. QED
    BY <2>4, <2>5
<1>4. ASSUME NEW c \in Client, Write(c)
      PROVE  CapInv'
  <2>1. CASE ~Fenced(writes[c])
    <3>1. Closed \in Request /\ Closed.op # "write"
      BY DEF Request, Closed
    <3>2. QED
      BY <1>4, <2>1, <3>1, RequestSafe DEF Write
  <2>2. CASE Fenced(writes[c])
    <3>1. /\ writes[c].op = "write" /\ writes[c] \in Request /\ writes[c] # Closed
          /\ world.version < MaxVersion
          /\ world' = Written(writes[c]) /\ worlds' = worlds \cup {Of(world')}
          /\ \A d \in Client : writes'[d] = writes[d] \/ writes'[d] = Closed
      BY <1>4, <2>2 DEF Write, Closed, TypeOK
    <3>2. WithinCaps(world'.cast)
      BY <2>2, <3>1 DEF CapInv, FitsIfFenced
    <3>3. world'.version = world.version + 1 /\ world.version \in Nat
      BY <3>1, WrittenTyped, WorldsAssumption DEF TypeOK
    <3>4. \A w \in worlds' \ worlds : w.cast = world'.cast
      BY <3>1 DEF Of
    <3>5. QED
      BY <3>1, <3>2, <3>3, <3>4, CommitSafe
  <2>3. QED
    BY <2>1, <2>2
<1>5. ASSUME DeleteWorld
      PROVE  CapInv'
  <2>1. /\ ~world'.live /\ world'.version = world.version /\ world'.cast = NoCast
        /\ UNCHANGED <<writes, worlds>> /\ world.version \in Nat
    BY <1>5, WorldsAssumption DEF DeleteWorld, TypeOK
  <2>2. QED
    BY <2>1, NoCastFits, CommitSafe
<1>6. CASE UNCHANGED <<world, writes, worlds>>
  BY <1>6 DEF CapInv, CapsHold, ExpectsThePast, FitsIfFenced, Fenced, Written
<1>7. QED
  BY <1>1, <1>2, <1>3, <1>4, <1>5, <1>6
     DEF Next, worldVars, AddIdentityChild, UpdateIdentityChild, RemoveIdentityChild, Child,
         ReadRoot, ReadKind

LEMMA CapInit ==
  ASSUME Init
  PROVE  CapInv
<1>1. PICK look \in Look, i \in Key, child \in Child :
        world = [live |-> TRUE, version |-> 1, look |-> look,
                 cast |-> [NoCast EXCEPT ![Kinds[1]][i] = child]]
  BY DEF Init
<1>2. WithinCaps(world.cast)
  <2>1. SUFFICES ASSUME NEW k \in Kind PROVE Cardinality(Children(world.cast, k)) <= Cap[k]
    BY DEF WithinCaps
  <2>2. Children(world.cast, k) \in SUBSET {i}
    BY <1>1, NoCastTyped DEF Children, NoCast
  <2>3. Cardinality(Children(world.cast, k)) \in Nat /\ Cardinality(Children(world.cast, k)) <= 1
    <3>1. IsFiniteSet({i}) /\ Cardinality({i}) = 1
      BY FS_Singleton
    <3>2. QED
      BY <2>2, <3>1, FS_Subset, FS_CardinalityType
  <2>4. Cap[k] \in Nat \ {0}
    BY WorldsAssumption DEF Kind
  <2>5. QED
    BY <2>3, <2>4
<1>3. worlds = {Of(world)} /\ \A c \in Client : writes[c] = Closed
  BY DEF Init
<1>4. QED
  BY <1>2, <1>3 DEF CapInv, CapsHold, ExpectsThePast, FitsIfFenced, Of, Closed

\* No race of requests gives a world more children than its caps (add_identity_child.py
\* counts them, identity_repository.py:_bump_root fences the count).
THEOREM CapsProven == Spec => []CapsHold
<1>1. Init => CapInv
  BY CapInit
<1>2. TypeOK /\ CapInv /\ [Next]_worldVars => CapInv'
  BY CapStep
<1>3. CapInv => CapsHold
  BY DEF CapInv
<1>4. QED
  BY <1>1, <1>2, <1>3, TypeCorrect, PTL DEF Spec
-----------------------------------------------------------------------------
(***************************************************************************)
(* Snapshots                                                               *)
(***************************************************************************)
\* Worlds that are added keep what snapshots came from.
LEMMA HistoryGrows ==
  ASSUME NEW s, FromHistory(s), worlds \subseteq worlds'
  PROVE  (FromHistory(s))'
BY DEF FromHistory, Children

\* A commit marks what it overtakes.
LEMMA OvertakenSafe ==
  ASSUME TypeOK, SnapshotInv, worlds \subseteq worlds', snapshots' = Overtakes,
         NEW g \in Generation, snapshots'[g] # Unread
  PROVE  (FromHistory(snapshots[g]) /\ UpToDate(snapshots[g]))'
<1> DEFINE s == snapshots[g]
           t == snapshots'[g]
<1>1. s \in {Unread} \cup Snapshot
  BY DEF TypeOK
<1>2. t = IF s.at \in {"none", "bound"} THEN s ELSE [s EXCEPT !.overtaken = TRUE]
  BY DEF Overtakes
<1>3. s # Unread
  BY <1>2 DEF Unread
<1>4. s \in Snapshot /\ FromHistory(s) /\ UpToDate(s) /\ s.at # "none"
  BY <1>1, <1>3, WorldsAssumption DEF SnapshotInv, Snapshot, Kind
<1>5. /\ t.at = s.at /\ t.version = s.version /\ t.look = s.look /\ t.cast = s.cast
      /\ t.overtaken = IF s.at = "bound" THEN s.overtaken ELSE TRUE
  BY <1>2, <1>4 DEF Snapshot
<1>6. FromHistory(t)
  BY <1>4, <1>5 DEF FromHistory
<1>7. (FromHistory(snapshots[g]))'
  BY <1>6 DEF FromHistory, Children
<1>8. (UpToDate(snapshots[g]))'
  BY <1>4, <1>5 DEF UpToDate, Of
<1>9. QED
  BY <1>7, <1>8

\* A statement of the one generation that reads leaves the others as they were.
LEMMA ReadSafe ==
  ASSUME SnapshotInv, UNCHANGED <<world, worlds>>, NEW g \in Generation, NEW s,
         \A h \in Generation : snapshots'[h] = IF h = g THEN s ELSE snapshots[h],
         FromHistory(s), UpToDate(s)
  PROVE  SnapshotInv'
<1>1. History'
  BY DEF SnapshotInv, History, Of, NoCast
<1>2. ASSUME NEW h \in Generation, snapshots'[h] # Unread
      PROVE  (FromHistory(snapshots[h]) /\ UpToDate(snapshots[h]))'
  <2>1. FromHistory(snapshots'[h]) /\ UpToDate(snapshots'[h])
    BY <1>2 DEF SnapshotInv
  <2>2. QED
    BY <2>1 DEF FromHistory, UpToDate, Children, Of
<1>3. QED
  BY <1>1, <1>2 DEF SnapshotInv

LEMMA SnapshotStep ==
  ASSUME TypeOK, SnapshotInv, [Next]_worldVars
  PROVE  SnapshotInv'
<1>1. ASSUME NEW c \in Client, Write(c)
      PROVE  SnapshotInv'
  <2>1. CASE ~Fenced(writes[c])
    BY <1>1, <2>1 DEF Write, SnapshotInv, History, FromHistory, UpToDate, Of, NoCast, Children
  <2>2. CASE Fenced(writes[c])
    <3>1. /\ writes[c] \in Request /\ writes[c] # Closed /\ world.version < MaxVersion
          /\ world.live /\ world' = Written(writes[c]) /\ worlds' = worlds \cup {Of(world')}
          /\ snapshots' = Overtakes
      BY <1>1, <2>2 DEF Write, Fenced, Closed, TypeOK
    <3>2. /\ world'.version = world.version + 1 /\ world'.live
          /\ world.version \in Nat /\ \A w \in worlds : w.version \in Nat
      <4>1. world'.version = world.version + 1 /\ world'.live
        BY <3>1, WrittenTyped
      <4>2. world.version \in Nat /\ \A w \in worlds : w.version \in Nat
        BY WorldsAssumption DEF TypeOK, World
      <4>3. QED
        BY <4>1, <4>2
    <3>3. Of(world').version = world.version + 1 /\ Of(world)' = Of(world')
      BY <3>2 DEF Of
    <3>4. History'
      BY <3>1, <3>2, <3>3 DEF SnapshotInv, History
    <3>5. QED
      BY <3>1, <3>4, OvertakenSafe DEF SnapshotInv
  <2>3. QED
    BY <2>1, <2>2
<1>2. ASSUME DeleteWorld
      PROVE  SnapshotInv'
  <2>1. /\ ~world'.live /\ world'.version = world.version /\ world'.cast = NoCast
        /\ worlds' = worlds /\ snapshots' = Overtakes
    BY <1>2 DEF DeleteWorld, TypeOK
  <2>2. History'
    BY <2>1 DEF SnapshotInv, History, NoCast
  <2>3. QED
    BY <2>1, <2>2, OvertakenSafe DEF SnapshotInv
<1>3. ASSUME NEW g \in Generation, ReadRoot(g)
      PROVE  SnapshotInv'
  <2> DEFINE s == [at |-> "root", version |-> world.version, look |-> world.look,
                   cast |-> NoCast, overtaken |-> FALSE]
  <2>1. /\ world.live /\ UNCHANGED <<world, worlds>>
        /\ \A h \in Generation : snapshots'[h] = IF h = g THEN s ELSE snapshots[h]
    BY <1>3 DEF ReadRoot, TypeOK
  <2>2. Seen("root") = {}
    BY KindIs, WorldsAssumption DEF Seen, Kind
  <2>3. UpToDate(s)
    BY <2>1, <2>2 DEF UpToDate
  <2>4. \A k \in Kind : Children(s.cast, k) = {}
    BY DEF Children, NoCast
  <2>5. \E w \in worlds : w.version = world.version /\ w.look = world.look
    BY <2>1 DEF SnapshotInv, History, Of
  <2>6. FromHistory(s)
    BY <2>4, <2>5 DEF FromHistory
  <2>7. QED
    BY <2>1, <2>3, <2>6, ReadSafe
<1>4. ASSUME NEW g \in Generation, NEW n \in 1..Len(Kinds), ReadKind(g, n)
      PROVE  SnapshotInv'
  <2> DEFINE s == snapshots[g]
             k == Kinds[n]
             cast == [s.cast EXCEPT ![k] = world.cast[k]]
             t == [s EXCEPT !.at = IF n = Len(Kinds) THEN "bound" ELSE k, !.cast = cast]
  <2>1. /\ UNCHANGED <<world, worlds>>
        /\ \A h \in Generation : snapshots'[h] = IF h = g THEN t ELSE snapshots[h]
    BY <1>4 DEF ReadKind, TypeOK
  <2>2. n \in Nat /\ n >= 1 /\ n <= Len(Kinds) /\ (n # 1 => n - 1 \in 1..Len(Kinds))
    BY WorldsAssumption
  <2>3. k \in Kind /\ (n # 1 => Kinds[n - 1] \in Kind)
    BY <2>2, KindIs
  <2>4. s.at = (IF n = 1 THEN "root" ELSE Kinds[n - 1]) /\ s.at # "bound" /\ s.at # "none"
    BY <1>4, <2>3, WorldsAssumption DEF ReadKind, Kind
  <2>5. s \in Snapshot /\ FromHistory(s) /\ UpToDate(s)
    BY <2>4 DEF SnapshotInv, TypeOK, Unread
  <2>6. s.cast \in [Kind -> [Key -> Child]] /\ world.cast \in [Kind -> [Key -> Child]]
    BY <2>5 DEF Snapshot, TypeOK
  <2>7. /\ t.version = s.version /\ t.look = s.look /\ t.overtaken = s.overtaken
        /\ t.cast = cast /\ t.at = IF n = Len(Kinds) THEN "bound" ELSE k
    BY <2>5 DEF Snapshot
  <2>8. FromHistory(t)
    <3>1. PICK w \in worlds : w.version = s.version /\ w.look = s.look
      BY <2>5 DEF FromHistory
    <3>2. Children(cast, k) = {} \/ \E v \in worlds : v.version >= s.version /\ v.cast[k] = cast[k]
      <4>1. CASE world.live
        BY <2>3, <2>6, <3>1, <4>1 DEF SnapshotInv, History, Of
      <4>2. CASE ~world.live
        BY <2>3, <2>6, <4>2 DEF SnapshotInv, History, Children, NoCast
      <4>3. QED
        BY <4>1, <4>2
    <3>3. ASSUME NEW l \in Kind, l # k
          PROVE  \/ Children(cast, l) = {}
                 \/ \E v \in worlds : v.version >= s.version /\ v.cast[l] = cast[l]
      BY <2>5, <2>6, <3>3 DEF FromHistory, Children
    <3>4. QED
      BY <2>7, <3>1, <3>2, <3>3 DEF FromHistory
  <2>9. UpToDate(t)
    <3>1. SUFFICES ASSUME ~s.overtaken
                   PROVE  IF n = Len(Kinds)
                            THEN Of(t) \in worlds
                            ELSE /\ world.live /\ world.version = s.version
                                 /\ world.look = s.look
                                 /\ \A l \in Seen(k) : cast[l] = world.cast[l]
      BY <2>3, <2>7, WorldsAssumption DEF UpToDate, Kind
    <3>2. /\ world.live /\ world.version = s.version /\ world.look = s.look
          /\ \A l \in Seen(s.at) : s.cast[l] = world.cast[l]
      BY <2>4, <2>5, <3>1 DEF UpToDate
    <3>3. \A m \in 1..n : Kinds[m] \in Kind /\ (m # n => Kinds[m] \in Seen(s.at))
      BY <2>2, <2>4, KindIs DEF Seen
    <3>4. \A m \in 1..n : cast[Kinds[m]] = world.cast[Kinds[m]]
      BY <2>6, <3>2, <3>3
    <3>5. CASE n = Len(Kinds)
      <4>1. \A l \in Kind : cast[l] = world.cast[l]
        BY <3>4, <3>5, KindIs
      <4>2. cast = world.cast
        BY <2>6, <4>1
      <4>3. Of(t) = Of(world)
        BY <2>7, <3>2, <4>2 DEF Of
      <4>4. QED
        BY <3>2, <3>5, <4>3 DEF SnapshotInv, History
    <3>6. CASE n # Len(Kinds)
      <4>1. ASSUME NEW l \in Seen(k) PROVE cast[l] = world.cast[l]
        <5>1. PICK m, i \in 1..Len(Kinds) : m <= i /\ Kinds[m] = l /\ Kinds[i] = k
          BY DEF Seen
        <5>2. i = n
          BY <5>1, WorldsAssumption
        <5>3. QED
          BY <5>1, <5>2, <3>4
      <4>2. QED
        BY <3>2, <3>6, <4>1
    <3>7. QED
      BY <3>5, <3>6
  <2>10. QED
    BY <2>1, <2>8, <2>9, ReadSafe
<1>5. CASE UNCHANGED <<world, snapshots, worlds>>
  BY <1>5 DEF SnapshotInv, History, FromHistory, UpToDate, Of, NoCast, Children
<1>6. QED
  BY <1>1, <1>2, <1>3, <1>4, <1>5
     DEF Next, worldVars, UpdateIdentityProfile, AddIdentityChild, UpdateIdentityChild,
         RemoveIdentityChild, BeginChild, Opens, ReadChildren

LEMMA SnapshotInit ==
  ASSUME Init
  PROVE  SnapshotInv
<1>1. world.live /\ world.version = 1 /\ worlds = {Of(world)}
      /\ \A g \in Generation : snapshots[g] = Unread
  BY DEF Init
<1>2. QED
  BY <1>1 DEF SnapshotInv, History, Of

\* No race gives a world more children than its caps, a version names one world, and the
\* snapshot CreateGeneration._bind_world freezes is the world of its version unless it was
\* overtaken between its statements.
THEOREM WorldsProven == Spec => []WorldsHold
<1>1. Init => SnapshotInv
  BY SnapshotInit
<1>2. TypeOK /\ SnapshotInv /\ [Next]_worldVars => SnapshotInv'
  BY SnapshotStep
<1>3. TypeOK /\ SnapshotInv => SnapshotNamesWorld
  <2>1. SUFFICES ASSUME TypeOK, SnapshotInv, NEW g \in Generation, snapshots[g].at = "bound"
                 PROVE  FromHistory(snapshots[g]) /\ UpToDate(snapshots[g])
    BY DEF SnapshotInv, History, SnapshotNamesWorld, FromHistory, UpToDate
  <2>2. QED
    BY <2>1 DEF SnapshotInv, Unread
<1>4. QED
  BY <1>1, <1>2, <1>3, TypeCorrect, CapsProven, PTL DEF Spec, WorldsHold
-----------------------------------------------------------------------------
(***************************************************************************)
(* Accounts                                                                *)
(***************************************************************************)
AccountRequest ==
  {People!Closed}
    \cup [op : {"register"}, name : Look, born : Nat, overtaken : BOOLEAN]
    \cup [op : {"rotate", "replayed"}, on : Item]
    \cup [op : {"revoke"}, of : Item, missed : BOOLEAN, family : SUBSET Item]
    \cup [op : {"edit"}, on : Client, name : Look, saw : [state : {"absent", "live"}, born : Nat,
                                                         name : Look, version : Nat]]

AccountsTyped ==
  /\ users \in [Client -> [state : {"absent", "live"}, born : Nat, name : Look, version : Nat]]
  /\ sessions \in [Item -> [state : {"absent", "live", "revoked"}, user : Client \cup {Nothing},
                            family : Item]]
  /\ requests \in [Client -> AccountRequest]
  /\ made \in Nat /\ signUps \subseteq Client

Opened(s) == sessions[s].state # "absent"

\* A session is of a live account, and of the family of a session that is there too, so
\* that the family of a new login is always new.
SessionsRooted ==
  \A s \in Item : Opened(s) =>
    /\ Opened(sessions[s].family)
    /\ sessions[s].user \in Client /\ users[sessions[s].user].state = "live"

\* A sign-up that is still open beside an account has been overtaken.
SignUpsTold ==
  \A c \in Client : requests[c].op = "register" /\ People!Live # {} => requests[c].overtaken

\* What an edit saw of a profile is in its past, and is the profile if the version is.
SawThePast ==
  \A c \in Client : requests[c].op = "edit" =>
    LET r == requests[c] IN
    /\ users[r.on].state = "live"
    /\ r.saw.version <= users[r.on].version
    /\ r.saw.version = users[r.on].version => r.saw = users[r.on]

AccountInv ==
  /\ AccountsTyped /\ SessionsRooted /\ SignUpsTold /\ SawThePast
  /\ People!OneLiveSession /\ People!OnlyRacesHurt

\* What an open request knows, by what it is.
LEMMA AccountRequestShape ==
  ASSUME NEW r \in AccountRequest
  PROVE  /\ r.op = "register" => r \in [op : {"register"}, name : Look, born : Nat,
                                        overtaken : BOOLEAN]
         /\ r.op \in {"rotate", "replayed"} => r \in [op : {"rotate", "replayed"}, on : Item]
         /\ r.op = "revoke" => r \in [op : {"revoke"}, of : Item, missed : BOOLEAN,
                                      family : SUBSET Item]
         /\ r.op = "edit" => r \in [op : {"edit"}, on : Client, name : Look,
                                    saw : [state : {"absent", "live"}, born : Nat, name : Look,
                                           version : Nat]]
BY DEF AccountRequest, People!Closed

\* Those who are revoking a family have missed its new member, the others go on.
LEMMA UnlistedIs ==
  ASSUME AccountsTyped, NEW f \in Item, NEW d \in Client
  PROVE  LET q == People!Unlisted(f)[d] IN
         \/ q = requests[d] /\ ~(q.op = "revoke" /\ q.of = f)
         \/ /\ requests[d].op = "revoke" /\ q.op = "revoke" /\ q.of = f /\ q.missed
            /\ q \in AccountRequest
<1>1. CASE requests[d].op = "revoke" /\ requests[d].of = f
  <2>1. requests[d] \in [op : {"revoke"}, of : Item, missed : BOOLEAN, family : SUBSET Item]
    BY <1>1, AccountRequestShape DEF AccountsTyped
  <2>2. People!Unlisted(f)[d] = [requests[d] EXCEPT !.missed = TRUE]
    BY <1>1 DEF People!Unlisted
  <2>3. [requests[d] EXCEPT !.missed = TRUE]
          \in [op : {"revoke"}, of : Item, missed : BOOLEAN, family : SUBSET Item]
    BY <2>1
  <2>4. QED
    BY <1>1, <2>1, <2>2, <2>3 DEF AccountRequest
<1>2. CASE ~(requests[d].op = "revoke" /\ requests[d].of = f)
  BY <1>2 DEF People!Unlisted
<1>3. QED
  BY <1>1, <1>2

\* A session that was not there is live now, alone in its family or after another one
\* of it that was live, of the same account and lives no more; others may be revoked.
LEMMA SessionAdded ==
  ASSUME AccountsTyped, SessionsRooted, People!OneLiveSession,
         NEW s \in Item, NEW a \in Client, ~Opened(s),
         users'[a].state = "live",
         \A b \in Client : users[b].state = "live" => users'[b].state = "live",
         sessions' = [sessions EXCEPT ![s] = [state |-> "live", user |-> a, family |-> s]]
  PROVE  SessionsRooted' /\ People!OneLiveSession'
<1>1. /\ \A t \in Item : t # s => sessions'[t] = sessions[t]
      /\ sessions'[s].state = "live" /\ sessions'[s].user = a /\ sessions'[s].family = s
  BY DEF AccountsTyped
<1>2. \A t \in Item : Opened(t) => t # s /\ sessions[t].family # s
  BY DEF SessionsRooted, AccountsTyped
<1>3. SessionsRooted'
  BY <1>1, <1>2 DEF SessionsRooted, AccountsTyped, Opened
<1>4. People!OneLiveSession'
  BY <1>1, <1>2 DEF People!OneLiveSession, AccountsTyped, Opened
<1>5. QED
  BY <1>3, <1>4

\* Sessions that are revoked, and no more.
LEMMA SessionsRevoked ==
  ASSUME AccountsTyped, SessionsRooted, People!OneLiveSession,
         \A b \in Client : users[b].state = "live" => users'[b].state = "live",
         \A s \in Item :
           /\ sessions'[s].user = sessions[s].user /\ sessions'[s].family = sessions[s].family
           /\ sessions'[s].state = sessions[s].state
                \/ (sessions[s].state = "live" /\ sessions'[s].state = "revoked")
  PROVE  SessionsRooted' /\ People!OneLiveSession'
<1>1. \A s \in Item : /\ Opened(s) <=> sessions'[s].state # "absent"
                      /\ sessions'[s].state = "live" => sessions[s].state = "live"
  BY DEF Opened
<1>2. SessionsRooted'
  BY <1>1 DEF SessionsRooted, AccountsTyped, Opened
<1>3. People!OneLiveSession'
  BY <1>1 DEF People!OneLiveSession, AccountsTyped, Opened
<1>4. QED
  BY <1>2, <1>3

\* Accounts that stay, a request that ends and others that stay as they were.
LEMMA AccountsKept ==
  ASSUME AccountsTyped, SignUpsTold, SawThePast, People!OnlyRacesHurt,
         UNCHANGED signUps,
         \A b \in Client :
           /\ users'[b].state = users[b].state
           /\ users'[b] = users[b] \/ users'[b].version = users[b].version + 1,
         \A c \in Client : requests'[c] = requests[c]
                             \/ requests'[c].op \notin {"register", "edit"}
  PROVE  SignUpsTold' /\ SawThePast' /\ People!OnlyRacesHurt'
<1>1. People!Live' = People!Live
  BY DEF People!Live
<1>2. SignUpsTold'
  BY <1>1 DEF SignUpsTold
<1>3. People!OnlyRacesHurt'
  BY <1>1 DEF People!OnlyRacesHurt
<1>4. ASSUME NEW c \in Client, requests'[c].op = "edit"
      PROVE  LET r == requests'[c] IN
             /\ users'[r.on].state = "live"
             /\ r.saw.version <= users'[r.on].version
             /\ r.saw.version = users'[r.on].version => r.saw = users'[r.on]
  <2> DEFINE r == requests[c]
  <2>1. requests'[c] = r /\ r.op = "edit"
    BY <1>4
  <2>2. r.on \in Client /\ r.saw.version \in Nat /\ users[r.on].version \in Nat
    BY <2>1, AccountRequestShape DEF AccountsTyped
  <2>3. /\ users[r.on].state = "live"
        /\ r.saw.version <= users[r.on].version
        /\ r.saw.version = users[r.on].version => r.saw = users[r.on]
    BY <2>1 DEF SawThePast
  <2> HIDE DEF r
  <2>4. QED
    BY <2>1, <2>2, <2>3
<1>5. SawThePast'
  BY <1>4 DEF SawThePast
<1>6. QED
  BY <1>2, <1>3, <1>5
-----------------------------------------------------------------------------
LEMMA AccountOpens ==
  ASSUME AccountInv, NEW c \in Client, NEW r \in AccountRequest, People!Opens(c, r),
         r.op = "register" => People!Live = {},
         r.op = "edit" => r.saw = users[r.on] /\ users[r.on].state = "live"
  PROVE  AccountInv'
<1> USE DEF AccountInv
<1>1. /\ UNCHANGED <<users, sessions, signUps>> /\ made' = made + 1
      /\ requests' = [requests EXCEPT ![c] = r]
  BY DEF People!Opens, People!Within
<1>2. AccountsTyped'
  BY <1>1 DEF AccountsTyped
<1>3. SessionsRooted' /\ People!OneLiveSession' /\ People!OnlyRacesHurt'
  BY <1>1 DEF SessionsRooted, Opened, People!OneLiveSession, People!OnlyRacesHurt, People!Live
<1>4. /\ requests'[c] = r
      /\ \A d \in Client \ {c} : requests'[d] = requests[d]
  BY <1>1 DEF AccountsTyped
<1>5. SignUpsTold'
  BY <1>1, <1>4 DEF SignUpsTold, People!Live
<1>6. SawThePast'
  <2>1. ASSUME NEW d \in Client, requests'[d].op = "edit"
        PROVE  LET q == requests'[d] IN
               /\ users[q.on].state = "live"
               /\ q.saw.version <= users[q.on].version
               /\ q.saw.version = users[q.on].version => q.saw = users[q.on]
    <3>1. CASE d = c
      <4>1. r.on \in Client /\ users[r.on].version \in Nat
        BY <2>1, <3>1, <1>4, AccountRequestShape DEF AccountsTyped
      <4>2. QED
        BY <2>1, <3>1, <1>4, <4>1
    <3>2. CASE d # c
      BY <2>1, <3>2, <1>4 DEF SawThePast
    <3>3. QED
      BY <3>1, <3>2
  <2>2. QED
    BY <2>1, <1>1 DEF SawThePast
<1>7. QED
  BY <1>2, <1>3, <1>5, <1>6

LEMMA AccountRegisters ==
  ASSUME AccountInv, NEW c \in Client, NEW a \in Client, NEW s \in Item, People!Register(c, a, s)
  PROVE  AccountInv'
<1> USE DEF AccountInv
<1> DEFINE r == requests[c]
           Told(d) == [requests[d] EXCEPT !.overtaken = TRUE]
<1>1. /\ r.op = "register" /\ users[a].state = "absent"
      /\ users' = [users EXCEPT ![a] = [state |-> "live", born |-> r.born, name |-> r.name,
                                        version |-> 1]]
      /\ sessions[s].state = "absent"
      /\ sessions' = [sessions EXCEPT ![s] = [state |-> "live", user |-> a, family |-> s]]
      /\ requests' = [d \in Client |-> IF d = c THEN People!Closed
                                       ELSE IF requests[d].op = "register" THEN Told(d)
                                       ELSE requests[d]]
      /\ signUps' = IF r.overtaken THEN signUps \cup {a} ELSE signUps
      /\ UNCHANGED made
  BY DEF People!Register, People!AddSession
<1>2. r \in [op : {"register"}, name : Look, born : Nat, overtaken : BOOLEAN]
  BY <1>1, AccountRequestShape DEF AccountsTyped
<1>3. ASSUME NEW d \in Client, requests[d].op = "register"
      PROVE  /\ Told(d) \in [op : {"register"}, name : Look, born : Nat, overtaken : BOOLEAN]
             /\ Told(d).overtaken
  <2>1. requests[d] \in [op : {"register"}, name : Look, born : Nat, overtaken : BOOLEAN]
    BY <1>3, AccountRequestShape DEF AccountsTyped
  <2>2. QED
    BY <2>1
<1> HIDE DEF r, Told
<1>4. AccountsTyped'
  <2>1. requests' \in [Client -> AccountRequest]
    BY <1>1, <1>3 DEF AccountsTyped, AccountRequest
  <2>2. users' \in [Client -> [state : {"absent", "live"}, born : Nat, name : Look, version : Nat]]
    BY <1>1, <1>2 DEF AccountsTyped
  <2>3. sessions' \in [Item -> [state : {"absent", "live", "revoked"},
                               user : Client \cup {Nothing}, family : Item]]
    BY <1>1 DEF AccountsTyped
  <2>4. QED
    BY <2>1, <2>2, <2>3, <1>1 DEF AccountsTyped
<1>5. /\ users'[a].state = "live"
      /\ \A b \in Client \ {a} : users'[b] = users[b]
  BY <1>1 DEF AccountsTyped
<1>6. SessionsRooted' /\ People!OneLiveSession'
  <2>1. \A b \in Client : users[b].state = "live" => users'[b].state = "live"
    BY <1>5
  <2>2. ~Opened(s)
    BY <1>1 DEF Opened
  <2>3. QED
    BY <1>1, <1>5, <2>1, <2>2, SessionAdded
<1>7. \A d \in Client : requests'[d].op = "register" => requests'[d].overtaken
  BY <1>1, <1>3 DEF People!Closed
<1>8. SignUpsTold'
  BY <1>7 DEF SignUpsTold
<1>9. ASSUME NEW d \in Client, requests'[d].op = "edit"
      PROVE  requests'[d] = requests[d]
  <2>1. d # c
    BY <1>1, <1>9 DEF People!Closed
  <2>2. requests[d].op # "register"
    BY <1>1, <1>3, <1>9, <2>1
  <2>3. QED
    BY <1>1, <2>1, <2>2
<1>10. SawThePast'
  <2>1. ASSUME NEW d \in Client, requests'[d].op = "edit"
        PROVE  LET q == requests'[d] IN
               /\ users'[q.on].state = "live"
               /\ q.saw.version <= users'[q.on].version
               /\ q.saw.version = users'[q.on].version => q.saw = users'[q.on]
    <3> DEFINE q == requests[d]
    <3>1. requests'[d] = q /\ q.op = "edit"
      BY <1>9, <2>1
    <3>2. /\ users[q.on].state = "live"
          /\ q.saw.version <= users[q.on].version
          /\ q.saw.version = users[q.on].version => q.saw = users[q.on]
      BY <3>1 DEF SawThePast
    <3>3. q.on \in Client
      BY <3>1, AccountRequestShape DEF AccountsTyped
    <3> HIDE DEF q
    <3>4. users'[q.on] = users[q.on]
      BY <3>2, <3>3, <1>1, <1>5
    <3>5. QED
      BY <3>1, <3>2, <3>4
  <2>2. QED
    BY <2>1 DEF SawThePast
<1>11. People!OnlyRacesHurt'
  <2>1. \A b \in People!Live' : b # a => b \in People!Live
    BY <1>5 DEF People!Live
  <2>2. People!Live # {} => a \in signUps'
    BY <1>1 DEF SignUpsTold, r
  <2>3. signUps \subseteq signUps'
    BY <1>1
  <2>4. QED
    BY <2>1, <2>2, <2>3 DEF People!OnlyRacesHurt
<1>12. QED
  BY <1>4, <1>6, <1>8, <1>10, <1>11

LEMMA AccountLogin ==
  ASSUME AccountInv, NEW a \in Client, NEW s \in Item, People!Login(a, s)
  PROVE  AccountInv'
<1> USE DEF AccountInv
<1>1. /\ users[a].state = "live" /\ sessions[s].state = "absent" /\ made' = made + 1
      /\ users' = [users EXCEPT ![a].version = @ + 1]
      /\ sessions' = [sessions EXCEPT ![s] = [state |-> "live", user |-> a, family |-> s]]
      /\ UNCHANGED <<requests, signUps>>
  BY DEF People!Login, People!Within, People!AddSession, People!ByEmail, People!Live
<1>2. \A b \in Client : /\ users'[b].state = users[b].state
                        /\ users'[b] = users[b] \/ users'[b].version = users[b].version + 1
  BY <1>1 DEF AccountsTyped
<1>3. AccountsTyped'
  BY <1>1 DEF AccountsTyped
<1>4. SessionsRooted' /\ People!OneLiveSession'
  BY <1>1, <1>2, SessionAdded DEF Opened
<1>5. SignUpsTold' /\ SawThePast' /\ People!OnlyRacesHurt'
  BY <1>1, <1>2, AccountsKept
<1>6. QED
  BY <1>3, <1>4, <1>5

LEMMA AccountRotates ==
  ASSUME AccountInv, NEW c \in Client, NEW new \in Item, People!Rotate(c, new)
  PROVE  AccountInv'
<1> USE DEF AccountInv
<1> DEFINE s == requests[c].on
<1>1. /\ requests[c].op = "rotate" /\ sessions[new].state = "absent"
      /\ requests' = [requests EXCEPT ![c] = People!Closed]
           \/ /\ sessions[s].state = "live"
              /\ requests' = [People!Unlisted(sessions[s].family) EXCEPT ![c] = People!Closed]
      /\ UNCHANGED <<made, users, signUps>>
      /\ sessions' = IF sessions[s].state = "live"
                       THEN [sessions EXCEPT ![s].state = "revoked",
                                             ![new] = [sessions[s] EXCEPT !.state = "live"]]
                       ELSE sessions
  BY DEF People!Rotate, People!Ends, People!Revocable
<1>2. s \in Item
  BY <1>1, AccountRequestShape DEF AccountsTyped
<1> HIDE DEF s
<1>3. ASSUME NEW d \in Client
      PROVE  /\ requests'[d] \in AccountRequest
             /\ requests'[d] = requests[d] \/ requests'[d].op \notin {"register", "edit"}
  <2>1. sessions[s].family \in Item
    BY <1>2 DEF AccountsTyped
  <2>2. \/ requests'[d] \in {requests[d], People!Closed}
        \/ requests'[d] = People!Unlisted(sessions[s].family)[d]
    BY <1>1 DEF AccountsTyped, People!Unlisted
  <2>3. QED
    BY <2>1, <2>2, UnlistedIs DEF AccountsTyped, AccountRequest, People!Closed
<1>4. SignUpsTold' /\ SawThePast' /\ People!OnlyRacesHurt'
  BY <1>1, <1>3, AccountsKept
<1>5. requests' \in [Client -> AccountRequest]
  <2>1. requests' = [d \in Client |-> requests'[d]]
    BY <1>1 DEF AccountsTyped, People!Unlisted
  <2>2. QED
    BY <2>1, <1>3
<1>6. CASE sessions[s].state # "live"
  <2>1. sessions' = sessions
    BY <1>1, <1>6
  <2>2. SessionsRooted' /\ People!OneLiveSession'
    <3>1. users' = users
      BY <1>1
    <3>2. QED
      BY <2>1, <3>1 DEF SessionsRooted, Opened, People!OneLiveSession
  <2>3. QED
    BY <2>1, <2>2, <1>1, <1>4, <1>5 DEF AccountsTyped
<1>7. CASE sessions[s].state = "live"
  <2> DEFINE row == sessions[s]
  <2>1. sessions' = [sessions EXCEPT ![s] = [row EXCEPT !.state = "revoked"], ![new] = row]
    <3>1. [row EXCEPT !.state = "live"] = row
      BY <1>2, <1>7 DEF AccountsTyped
    <3>2. QED
      BY <3>1, <1>1, <1>7
  <2>2. row \in [state : {"live"}, user : Client \cup {Nothing}, family : Item]
    BY <1>2, <1>7 DEF AccountsTyped
  <2>3. new # s
    BY <1>1, <1>7
  <2>4. /\ sessions'[new] = row
        /\ sessions'[s].state = "revoked" /\ sessions'[s].user = row.user
        /\ sessions'[s].family = row.family
        /\ \A t \in Item \ {s, new} : sessions'[t] = sessions[t]
    BY <1>2, <2>1, <2>2, <2>3 DEF AccountsTyped
  <2>5. AccountsTyped'
    BY <1>1, <1>2, <1>5, <2>1, <2>2 DEF AccountsTyped
  <2>6. \A t \in Item : /\ sessions[t].state # "absent" => sessions'[t].state # "absent"
                        /\ sessions'[t].state # "absent" =>
                             \E u \in Item : /\ sessions[u].state # "absent"
                                             /\ sessions'[t].family = sessions[u].family
                                             /\ sessions'[t].user = sessions[u].user
    BY <1>2, <1>7, <2>2, <2>4
  <2>7. SessionsRooted'
    <3>1. SUFFICES ASSUME NEW t \in Item, sessions'[t].state # "absent"
                   PROVE  /\ sessions'[sessions'[t].family].state # "absent"
                          /\ sessions'[t].user \in Client
                          /\ users[sessions'[t].user].state = "live"
      BY <1>1 DEF SessionsRooted, Opened
    <3>2. PICK u \in Item : /\ sessions[u].state # "absent"
                            /\ sessions'[t].family = sessions[u].family
                            /\ sessions'[t].user = sessions[u].user
      BY <2>6, <3>1
    <3>3. sessions[u].family \in Item
      BY DEF AccountsTyped
    <3>4. QED
      BY <2>6, <3>2, <3>3 DEF SessionsRooted, Opened
  <2>8. People!OneLiveSession'
    <3>1. SUFFICES ASSUME NEW t \in Item, NEW u \in Item, sessions'[t].state # "absent",
                          sessions'[u].state # "absent", sessions'[t].family = sessions'[u].family
                   PROVE  /\ sessions'[t].user = sessions'[u].user
                          /\ sessions'[t].state = "live" /\ sessions'[u].state = "live" => t = u
      BY DEF People!OneLiveSession
    <3>2. sessions'[t].user = sessions'[u].user
      BY <3>1, <2>6 DEF People!OneLiveSession
    <3>3. \A v \in Item \ {new} : sessions'[v].state = "live" =>
            v # s /\ sessions[v].state = "live" /\ sessions'[v].family = sessions[v].family
      BY <2>4
    <3>4. \A v \in Item \ {s} : sessions[v].state = "live" => sessions[v].family # row.family
      BY <1>2, <1>7 DEF People!OneLiveSession
    <3>5. QED
      BY <3>1, <3>2, <3>3, <3>4, <2>4 DEF People!OneLiveSession
  <2>9. QED
    BY <2>5, <2>7, <2>8, <1>4
<1>8. QED
  BY <1>6, <1>7

LEMMA AccountRevokes ==
  ASSUME AccountInv, NEW c \in Client,
         People!ListFamily(c) \/ People!RevokeListed(c) \/ \E s \in Item : People!Logout(s)
  PROVE  AccountInv'
<1> USE DEF AccountInv
<1>1. ASSUME People!ListFamily(c)
      PROVE  AccountInv'
  <2> DEFINE r == [op |-> "revoke", of |-> sessions[requests[c].on].family, missed |-> FALSE,
                   family |-> {t \in Item : /\ sessions[t].state = "live"
                                            /\ sessions[t].family
                                                 = sessions[requests[c].on].family}]
  <2>1. requests' = [requests EXCEPT ![c] = r] /\ UNCHANGED <<users, sessions, made, signUps>>
    BY <1>1 DEF People!ListFamily
  <2>2. r \in AccountRequest /\ r.op = "revoke"
    <3>1. requests[c].on \in Item
      BY <1>1, AccountRequestShape DEF People!ListFamily, AccountsTyped
    <3>2. QED
      BY <3>1 DEF AccountRequest, AccountsTyped
  <2> HIDE DEF r
  <2>3. AccountsTyped'
    BY <2>1, <2>2 DEF AccountsTyped
  <2>4. SessionsRooted' /\ People!OneLiveSession'
    BY <2>1 DEF SessionsRooted, Opened, People!OneLiveSession
  <2>5. SignUpsTold' /\ SawThePast' /\ People!OnlyRacesHurt'
    <3>1. \A d \in Client : requests'[d] = requests[d] \/ requests'[d] = r
      BY <2>1 DEF AccountsTyped
    <3>2. QED
      BY <2>1, <2>2, <3>1, AccountsKept
  <2>6. QED
    BY <2>3, <2>4, <2>5
<1>2. ASSUME People!RevokeListed(c)
      PROVE  AccountInv'
  <2>1. /\ requests' = [requests EXCEPT ![c] = People!Closed] /\ UNCHANGED <<users, made, signUps>>
        /\ sessions' = [s \in Item |-> IF s \in requests[c].family /\ sessions[s].state = "live"
                                         THEN [sessions[s] EXCEPT !.state = "revoked"]
                                         ELSE sessions[s]]
    BY <1>2 DEF People!RevokeListed, People!Ends, People!Revocable
  <2>2. AccountsTyped'
    <3>1. requests' \in [Client -> AccountRequest]
      BY <2>1 DEF AccountsTyped, AccountRequest
    <3>2. sessions' \in [Item -> [state : {"absent", "live", "revoked"},
                                 user : Client \cup {Nothing}, family : Item]]
      BY <2>1 DEF AccountsTyped
    <3>3. QED
      BY <2>1, <3>1, <3>2 DEF AccountsTyped
  <2>3. SessionsRooted' /\ People!OneLiveSession'
    <3>1. ASSUME NEW t \in Item
          PROVE  /\ sessions'[t].user = sessions[t].user
                 /\ sessions'[t].family = sessions[t].family
                 /\ sessions'[t].state = sessions[t].state
                      \/ (sessions[t].state = "live" /\ sessions'[t].state = "revoked")
      <4>1. sessions'[t] = sessions[t]
              \/ /\ sessions[t].state = "live"
                 /\ sessions'[t] = [sessions[t] EXCEPT !.state = "revoked"]
        BY <2>1 DEF AccountsTyped
      <4>2. QED
        BY <4>1 DEF AccountsTyped
    <3>2. \A b \in Client : users[b].state = "live" => users'[b].state = "live"
      BY <2>1
    <3>3. QED
      BY <3>1, <3>2, SessionsRevoked
  <2>4. SignUpsTold' /\ SawThePast' /\ People!OnlyRacesHurt'
    <3>1. \A d \in Client : requests'[d] = requests[d] \/ requests'[d] = People!Closed
      BY <2>1 DEF AccountsTyped
    <3>2. QED
      BY <2>1, <3>1, AccountsKept DEF People!Closed
  <2>5. QED
    BY <2>2, <2>3, <2>4
<1>3. ASSUME NEW s \in Item, People!Logout(s)
      PROVE  AccountInv'
  <2>1. /\ sessions[s].state = "live" /\ made' = made + 1 /\ UNCHANGED <<users, requests, signUps>>
        /\ sessions' = [sessions EXCEPT ![s].state = "revoked"]
    BY <1>3 DEF People!Logout, People!Within
  <2>2. AccountsTyped'
    BY <2>1 DEF AccountsTyped
  <2>3. SessionsRooted' /\ People!OneLiveSession'
    <3>1. ASSUME NEW t \in Item
          PROVE  /\ sessions'[t].user = sessions[t].user
                 /\ sessions'[t].family = sessions[t].family
                 /\ sessions'[t].state = sessions[t].state
                      \/ (sessions[t].state = "live" /\ sessions'[t].state = "revoked")
      <4>1. sessions'[t] = sessions[t]
              \/ /\ sessions[t].state = "live"
                 /\ sessions'[t] = [sessions[t] EXCEPT !.state = "revoked"]
        BY <2>1 DEF AccountsTyped
      <4>2. QED
        BY <4>1 DEF AccountsTyped
    <3>2. \A b \in Client : users[b].state = "live" => users'[b].state = "live"
      BY <2>1
    <3>3. QED
      BY <3>1, <3>2, SessionsRevoked
  <2>4. SignUpsTold' /\ SawThePast' /\ People!OnlyRacesHurt'
    BY <2>1, AccountsKept
  <2>5. QED
    BY <2>2, <2>3, <2>4
<1>4. QED
  BY <1>1, <1>2, <1>3

LEMMA AccountEdited ==
  ASSUME AccountInv, NEW c \in Client, People!UpdateProfile(c)
  PROVE  AccountInv' /\ (users' # users => users[requests[c].on] = requests[c].saw)
<1> USE DEF AccountInv
<1> DEFINE r == requests[c]
<1>1. /\ r.op = "edit" /\ requests' = [requests EXCEPT ![c] = People!Closed]
      /\ UNCHANGED <<made, sessions, signUps>>
      /\ users' = IF users[r.on].version = r.saw.version
                    THEN [users EXCEPT ![r.on].name = r.name, ![r.on].version = @ + 1]
                    ELSE users
  BY DEF People!UpdateProfile, People!Ends, People!MayEdit
<1>2. r.on \in Client /\ r.name \in Look
  BY <1>1, AccountRequestShape DEF AccountsTyped
<1>3. users' # users => users[r.on] = r.saw
  BY <1>1 DEF SawThePast
<1> HIDE DEF r
<1>4. users' \in [Client -> [state : {"absent", "live"}, born : Nat, name : Look, version : Nat]]
  BY <1>1, <1>2 DEF AccountsTyped
<1>5. \A b \in Client : /\ users'[b].state = users[b].state
                        /\ users'[b] = users[b] \/ users'[b].version = users[b].version + 1
  BY <1>1, <1>2 DEF AccountsTyped
<1>6. AccountsTyped'
  <2>1. requests' \in [Client -> AccountRequest]
    BY <1>1 DEF AccountsTyped, AccountRequest
  <2>2. QED
    BY <2>1, <1>1, <1>4 DEF AccountsTyped
<1>7. SessionsRooted' /\ People!OneLiveSession'
  <2>1. sessions' = sessions /\ \A b \in Client : users'[b].state = users[b].state
    BY <1>1, <1>5
  <2>2. QED
    BY <2>1 DEF SessionsRooted, Opened, People!OneLiveSession
<1>8. SignUpsTold' /\ SawThePast' /\ People!OnlyRacesHurt'
  <2>1. \A d \in Client : requests'[d] = requests[d] \/ requests'[d] = People!Closed
    BY <1>1 DEF AccountsTyped
  <2>2. \A d \in Client : requests'[d] = requests[d] \/ requests'[d].op \notin {"register", "edit"}
    BY <2>1 DEF People!Closed
  <2>3. UNCHANGED signUps
    BY <1>1
  <2>4. QED
    BY <1>5, <2>2, <2>3, AccountsKept
<1>9. QED
  BY <1>3, <1>6, <1>7, <1>8 DEF r
-----------------------------------------------------------------------------
LEMMA AccountStep ==
  ASSUME AccountInv, People!Next
  PROVE  /\ AccountInv'
         /\ \A c \in Client : requests[c].op = "edit" /\ requests'[c] = People!Closed
              /\ users' # users => users[requests[c].on] = requests[c].saw
<1>1. ASSUME NEW c \in Client, NEW r \in AccountRequest, People!Opens(c, r),
             r.op = "register" => People!Live = {},
             r.op = "edit" => r.saw = users[r.on] /\ users[r.on].state = "live"
      PROVE  AccountInv' /\ users' = users
  BY <1>1, AccountOpens DEF People!Opens
<1>2. ASSUME NEW c \in Client, NEW n \in Look, People!BeginRegister(c, n)
      PROVE  AccountInv' /\ users' = users
  <2> DEFINE r == [op |-> "register", name |-> n, born |-> made + 1, overtaken |-> FALSE]
  <2>1. r \in AccountRequest /\ r.op = "register"
    BY DEF AccountInv, AccountsTyped, AccountRequest
  <2>2. People!Opens(c, r) /\ People!Live = {}
    BY <1>2 DEF People!BeginRegister, People!FreeAddress
  <2> HIDE DEF r
  <2>3. QED
    BY <2>1, <2>2, <1>1
<1>3. ASSUME NEW c \in Client, NEW n \in Look, NEW s \in Item, People!BeginEdit(c, s, n)
      PROVE  AccountInv' /\ users' = users
  <2> DEFINE a == sessions[s].user
             r == [op |-> "edit", on |-> a, name |-> n, saw |-> users[a]]
  <2>1. a \in Client /\ users[a].state = "live"
    BY <1>3 DEF People!BeginEdit, AccountInv, SessionsRooted, Opened
  <2>2. People!Opens(c, r)
    BY <1>3 DEF People!BeginEdit
  <2> HIDE DEF a
  <2>3. r \in AccountRequest /\ r.op = "edit" /\ r.on = a /\ r.saw = users[a]
    BY <2>1 DEF AccountInv, AccountsTyped, AccountRequest
  <2> HIDE DEF r
  <2>4. QED
    BY <2>1, <2>2, <2>3, <1>1
<1>4. ASSUME NEW c \in Client, NEW s \in Item, People!BeginRefresh(c, s)
      PROVE  AccountInv' /\ users' = users
  <2> DEFINE r == [op |-> IF sessions[s].state = "revoked" THEN "replayed" ELSE "rotate",
                   on |-> s]
  <2>1. People!Opens(c, r)
    BY <1>4 DEF People!BeginRefresh
  <2>2. r \in AccountRequest /\ r.op \in {"replayed", "rotate"}
    BY DEF AccountRequest
  <2> HIDE DEF r
  <2>3. QED
    BY <2>1, <2>2, <1>1
<1>5. ASSUME NEW c \in Client, NEW a \in Client, NEW s \in Item, People!Register(c, a, s)
      PROVE  AccountInv' /\ requests[c].op # "edit"
                /\ \A d \in Client : requests[d].op = "edit" /\ d # c => requests'[d] = requests[d]
  BY <1>5, AccountRegisters DEF People!Register
<1>6. ASSUME NEW c \in Client, People!UpdateProfile(c)
      PROVE  /\ AccountInv' /\ (users' # users => users[requests[c].on] = requests[c].saw)
             /\ \A d \in Client : d # c => requests'[d] = requests[d]
  BY <1>6, AccountEdited DEF People!UpdateProfile, People!Ends, AccountInv, AccountsTyped
<1>7. ASSUME NEW a \in Client, NEW s \in Item, People!Login(a, s)
      PROVE  AccountInv' /\ requests' = requests
  BY <1>7, AccountLogin DEF People!Login
<1>8. ASSUME NEW c \in Client,
             \/ \E new \in Item : People!Rotate(c, new)
             \/ People!ListFamily(c) \/ People!RevokeListed(c)
             \/ \E s \in Item : People!Logout(s)
      PROVE  AccountInv' /\ users' = users
  BY <1>8, AccountRotates, AccountRevokes
     DEF People!Rotate, People!ListFamily, People!RevokeListed, People!Logout
<1>9. \A c \in Client : requests[c].op = "edit" => requests[c] # People!Closed
  BY DEF People!Closed
<1>10. QED
  <2>1. CASE \E c \in Client, a \in Client, s \in Item : People!Register(c, a, s)
    BY <2>1, <1>5, <1>9
  <2>2. CASE \E c \in Client : People!UpdateProfile(c)
    BY <2>2, <1>6, <1>9
  <2>3. CASE \E a \in Client, s \in Item : People!Login(a, s)
    BY <2>3, <1>7, <1>9
  <2>4. CASE \E s \in Item : People!Logout(s)
    <3>1. CASE Client = {}
      <4>1. PICK s \in Item : People!Logout(s)
        BY <2>4
      <4>2. sessions[s].user \in Client
        BY <4>1 DEF People!Logout, AccountInv, SessionsRooted, Opened
      <4>3. QED
        BY <3>1, <4>2
    <3>2. QED
      BY <2>4, <3>1, <1>8
  <2>5. CASE \E c \in Client :
               \/ \E n \in Look : \/ People!BeginRegister(c, n)
                                  \/ \E s \in Item : People!BeginEdit(c, s, n)
               \/ \E s \in Item : People!BeginRefresh(c, s) \/ People!Rotate(c, s)
               \/ People!ListFamily(c) \/ People!RevokeListed(c)
    BY <2>5, <1>2, <1>3, <1>4, <1>8
  <2>6. QED
    BY <2>1, <2>2, <2>3, <2>4, <2>5 DEF People!Next

LEMMA AccountInit == People!Init => AccountInv
<1> SUFFICES ASSUME People!Init PROVE AccountInv
  OBVIOUS
<1>1. PICK n \in Look : users = [a \in Client |-> [state |-> "absent", born |-> 0, name |-> n,
                                                   version |-> 1]]
  BY DEF People!Init
<1>2. /\ sessions = [s \in Item |-> [state |-> "absent", user |-> Nothing, family |-> s]]
      /\ requests = [c \in Client |-> People!Closed] /\ made = 0 /\ signUps = {}
  BY DEF People!Init
<1>3. AccountsTyped
  BY <1>1, <1>2 DEF AccountsTyped, AccountRequest
<1>4. SessionsRooted /\ SignUpsTold /\ SawThePast
  BY <1>1, <1>2 DEF SessionsRooted, Opened, SignUpsTold, SawThePast, People!Closed
<1>5. People!OneLiveSession /\ People!OnlyRacesHurt
  BY <1>1, <1>2 DEF People!OneLiveSession, People!OnlyRacesHurt, People!Live
<1>6. QED
  BY <1>3, <1>4, <1>5 DEF AccountInv
\* The families that a reused token has ended: no session of theirs lives, nor will a login
\* or a refresh add one; who is revoking a family and has missed nobody lists all of it that
\* lives.
FamilyInv ==
  /\ \A f \in swept : f \in Item /\ Opened(f)
  /\ People!ReuseEndsFamily
  /\ \A c \in Client :
       /\ requests[c].op = "replayed" => Opened(requests[c].on)
       /\ requests[c].op = "revoke" =>
            /\ Opened(requests[c].of)
            /\ ~requests[c].missed =>
                 \A t \in Item : sessions[t].state = "live" /\ sessions[t].family = requests[c].of
                                   => t \in requests[c].family

\* Sessions that end, a login that adds one of a family of its own, and requests that open,
\* end or are none of the two above.
LEMMA FamilyKept ==
  ASSUME AccountsTyped, FamilyInv, UNCHANGED swept,
         \A t \in Item : Opened(t) => /\ sessions'[t].state # "absent"
                                     /\ sessions'[t].family = sessions[t].family,
         \A t \in Item : sessions'[t].state = "live" =>
           sessions[t].state = "live" \/ (~Opened(t) /\ sessions'[t].family = t),
         \A c \in Client :
           \/ requests'[c] = requests[c] \/ requests'[c].op \notin {"replayed", "revoke"}
           \/ requests'[c].op = "replayed" /\ requests'[c].on \in Item /\ Opened(requests'[c].on)
  PROVE  FamilyInv'
<1>1. \A f \in swept' : f \in Item /\ sessions'[f].state # "absent"
  BY DEF FamilyInv, Opened
<1>2. People!ReuseEndsFamily'
  <2> SUFFICES ASSUME NEW t \in Item, sessions'[t].state = "live"
               PROVE  sessions'[t].family \notin swept
    BY DEF People!ReuseEndsFamily
  <2>1. CASE sessions[t].state = "live"
    BY <2>1 DEF FamilyInv, People!ReuseEndsFamily, Opened
  <2>2. CASE ~Opened(t) /\ sessions'[t].family = t
    BY <2>2 DEF FamilyInv
  <2>3. QED
    BY <2>1, <2>2
<1>3. ASSUME NEW c \in Client, requests'[c].op = "replayed"
      PROVE  sessions'[requests'[c].on].state # "absent"
  <2>1. CASE requests'[c] = requests[c]
    <3>1. Opened(requests[c].on)
      BY <1>3, <2>1 DEF FamilyInv
    <3>2. requests[c].on \in Item
      BY <1>3, <2>1, AccountRequestShape DEF AccountsTyped
    <3>3. QED
      BY <2>1, <3>1, <3>2 DEF Opened
  <2>2. CASE requests'[c] # requests[c]
    BY <1>3, <2>2 DEF Opened
  <2>3. QED
    BY <2>1, <2>2
<1>4. ASSUME NEW c \in Client, requests'[c].op = "revoke"
      PROVE  /\ sessions'[requests'[c].of].state # "absent"
             /\ ~requests'[c].missed =>
                  \A t \in Item : sessions'[t].state = "live" /\ sessions'[t].family = requests'[c].of
                                    => t \in requests'[c].family
  <2> DEFINE r == requests[c]
  <2>1. requests'[c] = r /\ r.op = "revoke"
    BY <1>4
  <2>2. r.of \in Item
    BY <2>1, AccountRequestShape DEF AccountsTyped
  <2>3. /\ Opened(r.of)
        /\ ~r.missed => \A t \in Item : sessions[t].state = "live" /\ sessions[t].family = r.of
                                          => t \in r.family
    BY <2>1 DEF FamilyInv
  <2> HIDE DEF r
  <2>4. sessions'[r.of].state # "absent"
    BY <2>2, <2>3 DEF Opened
  <2>5. ASSUME NEW t \in Item, sessions'[t].state = "live", sessions'[t].family = r.of
        PROVE  sessions[t].state = "live" /\ sessions[t].family = r.of
    BY <2>2, <2>3, <2>5 DEF Opened
  <2>6. QED
    BY <2>1, <2>3, <2>4, <2>5
<1>5. QED
  BY <1>1, <1>2, <1>3, <1>4 DEF FamilyInv, Opened

\* A rotation lets one session take the place of another of its family; that family has not
\* been ended, and those who are revoking it have missed the new member.
LEMMA FamilyRotates ==
  ASSUME AccountInv, FamilyInv, NEW c \in Client, NEW new \in Item, People!Rotate(c, new)
  PROVE  FamilyInv'
<1> USE DEF AccountInv
<1> DEFINE s == requests[c].on
<1>1. s \in Item /\ requests[c].op = "rotate" /\ sessions[new].state = "absent"
  BY AccountRequestShape DEF People!Rotate, AccountsTyped
<1>2. CASE sessions[s].state # "live"
  <2>1. requests' = [requests EXCEPT ![c] = People!Closed] /\ UNCHANGED <<sessions, swept>>
    BY <1>2 DEF People!Rotate, People!Ends, People!Revocable
  <2>2. \A d \in Client : requests'[d] = requests[d] \/ requests'[d].op = "none"
    BY <2>1 DEF AccountsTyped, People!Closed
  <2>3. QED
    BY <2>1, <2>2, FamilyKept DEF Opened
<1>3. CASE sessions[s].state = "live"
  <2> DEFINE row == sessions[s]
             f == sessions[s].family
  <2>1. /\ UNCHANGED swept
        /\ requests' = [People!Unlisted(f) EXCEPT ![c] = People!Closed]
        /\ sessions' = [sessions EXCEPT ![s].state = "revoked",
                                        ![new] = [row EXCEPT !.state = "live"]]
    BY <1>3 DEF People!Rotate, People!Ends, People!Revocable
  <2>2. f \in Item /\ new # s /\ f \notin swept
    BY <1>1, <1>3 DEF AccountsTyped, FamilyInv, People!ReuseEndsFamily
  <2>3. /\ sessions'[new].state = "live" /\ sessions'[new].family = f
        /\ sessions'[s].state = "revoked" /\ sessions'[s].family = f
        /\ \A t \in Item \ {s, new} : sessions'[t] = sessions[t]
    BY <1>1, <2>1, <2>2 DEF AccountsTyped
  <2> HIDE DEF s, f
  <2>4. \A t \in Item : Opened(t) => sessions'[t].state # "absent"
    BY <2>3 DEF Opened
  <2>5. People!ReuseEndsFamily'
    <3> SUFFICES ASSUME NEW t \in Item, sessions'[t].state = "live"
                 PROVE  sessions'[t].family \notin swept
      BY <2>1 DEF People!ReuseEndsFamily
    <3>1. CASE t = new
      BY <2>2, <2>3, <3>1
    <3>2. CASE t # new
      <4>1. sessions'[t] = sessions[t]
        BY <2>3, <3>2
      <4>2. QED
        BY <4>1 DEF FamilyInv, People!ReuseEndsFamily
    <3>3. QED
      BY <3>1, <3>2
  <2>6. ASSUME NEW d \in Client, requests'[d].op = "replayed"
        PROVE  sessions'[requests'[d].on].state # "absent"
    <3>1. requests'[d] = requests[d]
      <4>1. requests'[d] \in {People!Closed, People!Unlisted(f)[d]}
        BY <2>1 DEF AccountsTyped, People!Unlisted
      <4>2. QED
        BY <2>2, <2>6, <4>1, UnlistedIs DEF People!Closed
    <3>2. requests[d].on \in Item
      BY <2>6, <3>1, AccountRequestShape DEF AccountsTyped
    <3>3. QED
      BY <2>4, <2>6, <3>1, <3>2 DEF FamilyInv
  <2>7. ASSUME NEW d \in Client, requests'[d].op = "revoke"
        PROVE  /\ sessions'[requests'[d].of].state # "absent"
               /\ ~requests'[d].missed =>
                    \A t \in Item : sessions'[t].state = "live" /\ sessions'[t].family = requests'[d].of
                                      => t \in requests'[d].family
    <3> DEFINE q == requests'[d]
               r == requests[d]
    <3>1. \/ q = r /\ q.of # f
          \/ r.op = "revoke" /\ q.of = f /\ q.missed
      <4>1. requests'[d] \in {People!Closed, People!Unlisted(f)[d]}
        BY <2>1 DEF AccountsTyped, People!Unlisted
      <4>2. QED
        BY <2>2, <2>7, <4>1, UnlistedIs DEF People!Closed
    <3>2. CASE q = r /\ q.of # f
      <4>1. r.op = "revoke" /\ r.of \in Item
        BY <2>7, <3>2, AccountRequestShape DEF AccountsTyped
      <4>2. /\ Opened(r.of)
            /\ ~r.missed => \A t \in Item : sessions[t].state = "live" /\ sessions[t].family = r.of
                                              => t \in r.family
        BY <4>1 DEF FamilyInv
      <4> HIDE DEF q, r
      <4>3. \A t \in Item : sessions'[t].state = "live" /\ sessions'[t].family = r.of
                             => sessions[t].state = "live" /\ sessions[t].family = r.of
        BY <2>3, <3>2
      <4>4. QED
        BY <2>4, <3>2, <4>1, <4>2, <4>3 DEF q
    <3>3. CASE r.op = "revoke" /\ q.of = f /\ q.missed
      <4>1. sessions'[f].state # "absent"
        BY <1>1, <1>3, <2>2, <2>4 DEF SessionsRooted, Opened, f
      <4>2. QED
        BY <3>3, <4>1
    <3>4. QED
      BY <3>1, <3>2, <3>3
  <2>8. QED
    <3>1. \A g \in swept' : g \in Item /\ sessions'[g].state # "absent"
      BY <2>1, <2>4 DEF FamilyInv
    <3>2. QED
      BY <3>1, <2>5, <2>6, <2>7 DEF FamilyInv, Opened
<1>4. QED
  BY <1>2, <1>3

\* The live members of a family are listed ...
LEMMA FamilyListed ==
  ASSUME AccountInv, FamilyInv, NEW c \in Client, People!ListFamily(c)
  PROVE  FamilyInv'
<1> USE DEF AccountInv
<1> DEFINE r == requests'[c]
<1>1. /\ requests[c].op = "replayed" /\ requests[c].on \in Item
      /\ UNCHANGED <<sessions, swept>>
      /\ \A d \in Client \ {c} : requests'[d] = requests[d]
  BY AccountRequestShape DEF People!ListFamily, AccountsTyped
<1>2. /\ r.op = "revoke" /\ r.of = sessions[requests[c].on].family
      /\ r.family = {t \in Item : sessions[t].state = "live" /\ sessions[t].family = r.of}
  BY DEF People!ListFamily, AccountsTyped
<1>3. Opened(r.of)
  BY <1>1, <1>2 DEF FamilyInv, SessionsRooted
<1> HIDE DEF r
<1>4. \A d \in Client : requests'[d].op = "revoke" =>
        /\ Opened(requests'[d].of)
        /\ ~requests'[d].missed =>
             \A t \in Item : sessions[t].state = "live" /\ sessions[t].family = requests'[d].of
                               => t \in requests'[d].family
  BY <1>1, <1>2, <1>3 DEF FamilyInv, r
<1>5. \A d \in Client : requests'[d].op = "replayed" => Opened(requests'[d].on)
  BY <1>1, <1>2 DEF FamilyInv, r
<1>6. QED
  BY <1>1, <1>4, <1>5 DEF FamilyInv, Opened, People!ReuseEndsFamily

\* ... and revoked, which ends the family if nobody joined it in between.
LEMMA FamilyRevoked ==
  ASSUME AccountInv, FamilyInv, NEW c \in Client, People!RevokeListed(c)
  PROVE  FamilyInv'
<1> USE DEF AccountInv
<1> DEFINE r == requests[c]
<1>1. /\ r.op = "revoke"
      /\ requests' = [requests EXCEPT ![c] = People!Closed]
      /\ swept' = IF r.missed THEN swept ELSE swept \cup {r.of}
      /\ sessions' = [t \in Item |-> IF t \in r.family /\ sessions[t].state = "live"
                                        THEN [sessions[t] EXCEPT !.state = "revoked"]
                                        ELSE sessions[t]]
  BY DEF People!RevokeListed, People!Ends, People!Revocable
<1>2. r.of \in Item
  BY <1>1, AccountRequestShape DEF AccountsTyped
<1>3. /\ Opened(r.of)
      /\ ~r.missed => \A t \in Item : sessions[t].state = "live" /\ sessions[t].family = r.of
                                        => t \in r.family
  BY <1>1 DEF FamilyInv
<1> HIDE DEF r
<1>4. ASSUME NEW t \in Item
      PROVE  /\ sessions'[t].family = sessions[t].family
             /\ sessions'[t].state = IF t \in r.family /\ sessions[t].state = "live"
                                        THEN "revoked" ELSE sessions[t].state
  BY <1>1 DEF AccountsTyped
<1>5. \A t \in Item : Opened(t) => sessions'[t].state # "absent"
  BY <1>4 DEF Opened
<1>6. People!ReuseEndsFamily'
  <2> SUFFICES ASSUME NEW t \in Item, sessions'[t].state = "live"
               PROVE  sessions'[t].family \notin swept'
    BY DEF People!ReuseEndsFamily
  <2>1. sessions[t].state = "live" /\ t \notin r.family /\ sessions'[t].family = sessions[t].family
    BY <1>4
  <2>2. sessions[t].family \notin swept
    BY <2>1 DEF FamilyInv, People!ReuseEndsFamily
  <2>3. QED
    BY <1>1, <1>3, <2>1, <2>2
<1>7. \A f \in swept' : f \in Item /\ sessions'[f].state # "absent"
  BY <1>1, <1>2, <1>3, <1>5 DEF FamilyInv
<1>8. ASSUME NEW d \in Client, requests'[d].op \in {"replayed", "revoke"}
      PROVE  requests'[d] = requests[d]
  BY <1>1, <1>8 DEF AccountsTyped, People!Closed
<1>9. ASSUME NEW d \in Client, requests'[d].op = "replayed"
      PROVE  sessions'[requests'[d].on].state # "absent"
  <2>1. requests'[d] = requests[d]
    BY <1>8, <1>9
  <2>2. requests[d].on \in Item /\ Opened(requests[d].on)
    BY <1>9, <2>1, AccountRequestShape DEF AccountsTyped, FamilyInv
  <2>3. QED
    BY <1>5, <2>1, <2>2
<1>10. ASSUME NEW d \in Client, requests'[d].op = "revoke"
       PROVE  /\ sessions'[requests'[d].of].state # "absent"
              /\ ~requests'[d].missed =>
                   \A t \in Item : sessions'[t].state = "live" /\ sessions'[t].family = requests'[d].of
                                     => t \in requests'[d].family
  <2> DEFINE q == requests[d]
  <2>1. requests'[d] = q
    BY <1>8, <1>10
  <2>2. q.of \in Item
    BY <1>10, <2>1, AccountRequestShape DEF AccountsTyped
  <2>3. /\ Opened(q.of)
        /\ ~q.missed => \A t \in Item : sessions[t].state = "live" /\ sessions[t].family = q.of
                                          => t \in q.family
    BY <1>10, <2>1 DEF FamilyInv
  <2> HIDE DEF q
  <2>4. QED
    BY <1>4, <1>5, <2>1, <2>2, <2>3
<1>11. QED
  BY <1>6, <1>7, <1>9, <1>10 DEF FamilyInv, Opened

LEMMA FamilyStep ==
  ASSUME AccountInv, FamilyInv, People!Next
  PROVE  FamilyInv'
<1> USE DEF AccountInv
<1>1. ASSUME NEW c \in Client, NEW r \in AccountRequest, People!Opens(c, r),
             r.op # "revoke", r.op = "replayed" => Opened(r.on)
      PROVE  FamilyInv'
  <2>1. UNCHANGED <<sessions, swept>> /\ requests' = [requests EXCEPT ![c] = r]
    BY <1>1 DEF People!Opens
  <2>2. r.op = "replayed" => r.on \in Item
    BY AccountRequestShape
  <2>3. \A d \in Client : requests'[d] = requests[d] \/ requests'[d] = r
    BY <2>1 DEF AccountsTyped
  <2>4. QED
    BY <1>1, <2>1, <2>2, <2>3, FamilyKept DEF Opened
<1>2. ASSUME NEW c \in Client, NEW n \in Look, People!BeginRegister(c, n)
      PROVE  FamilyInv'
  <2> DEFINE r == [op |-> "register", name |-> n, born |-> made + 1, overtaken |-> FALSE]
  <2>1. r \in AccountRequest /\ r.op = "register"
    BY DEF AccountsTyped, AccountRequest
  <2>2. People!Opens(c, r)
    BY <1>2 DEF People!BeginRegister
  <2> HIDE DEF r
  <2>3. QED
    BY <2>1, <2>2, <1>1
<1>3. ASSUME NEW c \in Client, NEW n \in Look, NEW s \in Item, People!BeginEdit(c, s, n)
      PROVE  FamilyInv'
  <2> DEFINE a == sessions[s].user
             r == [op |-> "edit", on |-> a, name |-> n, saw |-> users[a]]
  <2>1. a \in Client
    BY <1>3 DEF People!BeginEdit, SessionsRooted, Opened
  <2>2. People!Opens(c, r)
    BY <1>3 DEF People!BeginEdit
  <2> HIDE DEF a
  <2>3. r \in AccountRequest /\ r.op = "edit"
    BY <2>1 DEF AccountsTyped, AccountRequest
  <2> HIDE DEF r
  <2>4. QED
    BY <2>2, <2>3, <1>1
<1>4. ASSUME NEW c \in Client, NEW s \in Item, People!BeginRefresh(c, s)
      PROVE  FamilyInv'
  <2> DEFINE r == [op |-> IF sessions[s].state = "revoked" THEN "replayed" ELSE "rotate",
                   on |-> s]
  <2>1. People!Opens(c, r) /\ Opened(s)
    BY <1>4 DEF People!BeginRefresh, Opened
  <2>2. r \in AccountRequest /\ r.op \in {"replayed", "rotate"} /\ r.on = s
    BY DEF AccountRequest
  <2> HIDE DEF r
  <2>3. QED
    BY <2>1, <2>2, <1>1
<1>5. ASSUME NEW s \in Item, NEW a \in Client,
             People!Login(a, s) \/ \E c \in Client : People!Register(c, a, s)
      PROVE  FamilyInv'
  <2>1. /\ sessions[s].state = "absent" /\ UNCHANGED swept
        /\ sessions' = [sessions EXCEPT ![s] = [state |-> "live", user |-> a, family |-> s]]
    BY <1>5 DEF People!Login, People!Register, People!AddSession
  <2>2. /\ ~Opened(s) /\ sessions'[s].family = s
        /\ \A t \in Item \ {s} : sessions'[t] = sessions[t]
    BY <2>1 DEF AccountsTyped, Opened
  <2>3. ASSUME NEW d \in Client
        PROVE  requests'[d] = requests[d] \/ requests'[d].op \notin {"replayed", "revoke"}
    <3>1. CASE People!Login(a, s)
      BY <3>1 DEF People!Login
    <3>2. CASE \E c \in Client : People!Register(c, a, s)
      <4>1. \/ requests'[d] = requests[d] \/ requests'[d] = People!Closed
            \/ /\ requests[d].op = "register"
               /\ requests'[d] = [requests[d] EXCEPT !.overtaken = TRUE]
        BY <3>2 DEF People!Register
      <4>2. requests[d].op = "register" => requests[d] \in
              [op : {"register"}, name : Look, born : Nat, overtaken : BOOLEAN]
        BY AccountRequestShape DEF AccountsTyped
      <4>3. QED
        BY <4>1, <4>2 DEF People!Closed
    <3>3. QED
      BY <1>5, <3>1, <3>2
  <2>4. QED
    BY <2>1, <2>2, <2>3, FamilyKept DEF Opened
<1>6. ASSUME NEW s \in Item, People!Logout(s)
      PROVE  FamilyInv'
  <2>1. /\ UNCHANGED <<requests, swept>> /\ sessions[s].state = "live"
        /\ sessions' = [sessions EXCEPT ![s].state = "revoked"]
    BY <1>6 DEF People!Logout
  <2>2. /\ sessions'[s].state = "revoked" /\ sessions'[s].family = sessions[s].family
        /\ \A t \in Item \ {s} : sessions'[t] = sessions[t]
    BY <2>1 DEF AccountsTyped
  <2>3. QED
    BY <2>1, <2>2, FamilyKept DEF Opened
<1>7. ASSUME NEW c \in Client, People!UpdateProfile(c)
      PROVE  FamilyInv'
  <2>1. UNCHANGED <<sessions, swept>> /\ requests' = [requests EXCEPT ![c] = People!Closed]
    BY <1>7 DEF People!UpdateProfile, People!Ends
  <2>2. \A d \in Client : requests'[d] = requests[d] \/ requests'[d].op = "none"
    BY <2>1 DEF AccountsTyped, People!Closed
  <2>3. QED
    BY <2>1, <2>2, FamilyKept DEF Opened
<1>8. QED
  BY <1>2, <1>3, <1>4, <1>5, <1>6, <1>7, FamilyRotates, FamilyListed, FamilyRevoked DEF People!Next

LEMMA FamilyInit == People!Init => FamilyInv
BY DEF People!Init, FamilyInv, People!ReuseEndsFamily, People!Closed
-----------------------------------------------------------------------------
(***************************************************************************)
(* Media assets                                                            *)
(***************************************************************************)
VideoRow == [state : Assets!State, note : Look, marker : Assets!Marker]

Pass ==
  {Assets!Idle}
    \cup [at : {"lock", "read", "release"}]
    \cup [at : {"work"}, note : Look, stale : BOOLEAN]
    \cup [at : {"register"}, note : Look, stale : BOOLEAN, made : SUBSET Preview]

AssetsTyped ==
  /\ video \in VideoRow /\ claimed \in BOOLEAN
  /\ previews \in [Preview -> Assets!State] /\ stored \subseteq Preview
  /\ promo \in [Client -> Assets!Answer] /\ pass \in [Client -> Pass]

\* A pass registers what it has stored, and until it is stale, what it read of the video
\* is so.
PassesRead ==
  \A w \in Client :
    /\ pass[w].at = "register" => pass[w].made \subseteq stored
    /\ pass[w].at \in {"work", "register"} /\ ~pass[w].stale =>
         video.state = "live" /\ video.note = pass[w].note

\* A conflict of coordinates is with a row that is there.
ConflictsAreReal == \A c \in Client : promo[c] = "conflict" => video.state # "absent"

AssetInv ==
  AssetsTyped /\ PassesRead /\ ConflictsAreReal /\ Assets!MarkerIsTrue /\ Assets!PromotedOnce

LEMMA PassShape ==
  ASSUME NEW r \in Pass
  PROVE  /\ r.at = "work" => r \in [at : {"work"}, note : Look, stale : BOOLEAN]
         /\ r.at = "register" => r \in [at : {"register"}, note : Look, stale : BOOLEAN,
                                        made : SUBSET Preview]
BY DEF Pass, Assets!Idle

\* What Stale does to the passes.
LEMMA StalePasses ==
  ASSUME AssetsTyped
  PROVE  /\ Assets!Stale \in [Client -> Pass]
         /\ \A w \in Client :
              /\ Assets!Stale[w].at = pass[w].at
              /\ pass[w].at \in {"work", "register"} => Assets!Stale[w].stale
              /\ pass[w].at = "register" => Assets!Stale[w].made = pass[w].made
<1>1. ASSUME NEW w \in Client
      PROVE  LET q == Assets!Stale[w] IN
             /\ q \in Pass /\ q.at = pass[w].at
             /\ pass[w].at \in {"work", "register"} => q.stale
             /\ pass[w].at = "register" => q.made = pass[w].made
  <2> DEFINE r == pass[w]
             told == [r EXCEPT !.stale = TRUE]
  <2>1. r \in Pass
    BY DEF AssetsTyped
  <2>2. Assets!Stale[w] = IF r.at \in {"work", "register"} THEN told ELSE r
    BY DEF Assets!Stale
  <2> HIDE DEF r
  <2>3. CASE r.at = "work"
    <3>1. told \in [at : {"work"}, note : Look, stale : BOOLEAN] /\ told.stale
      BY <2>1, <2>3, PassShape
    <3>2. Assets!Stale[w] = told /\ told \in Pass /\ told.at = "work"
      BY <2>2, <2>3, <3>1 DEF Pass
    <3> HIDE DEF told
    <3>3. QED
      BY <2>3, <3>1, <3>2 DEF r
  <2>4. CASE r.at = "register"
    <3>1. /\ told \in [at : {"register"}, note : Look, stale : BOOLEAN, made : SUBSET Preview]
          /\ told.stale /\ told.made = r.made
      BY <2>1, <2>4, PassShape
    <3>2. Assets!Stale[w] = told /\ told \in Pass /\ told.at = "register"
      BY <2>2, <2>4, <3>1 DEF Pass
    <3> HIDE DEF told
    <3>3. QED
      BY <2>4, <3>1, <3>2 DEF r
  <2>5. CASE r.at \notin {"work", "register"}
    <3> HIDE DEF told
    <3>1. Assets!Stale[w] = r
      BY <2>2, <2>5
    <3>2. QED
      BY <2>1, <2>5, <3>1 DEF r
  <2>6. QED
    BY <2>3, <2>4, <2>5
<1>2. Assets!Stale = [w \in Client |-> Assets!Stale[w]]
  BY DEF Assets!Stale
<1>3. QED
  BY <1>1, <1>2

\* A pass goes on, and the database keeps its rows.
LEMMA PassGoesOn ==
  ASSUME AssetInv, NEW w \in Client, NEW r \in Pass,
         pass' = [pass EXCEPT ![w] = r],
         UNCHANGED <<video, claimed, previews, promo>>,
         stored \subseteq stored', stored' \subseteq Preview,
         r.at = "work" => r.note = video.note /\ video.state = "live",
         r.at = "register" =>
           /\ r.made \subseteq stored'
           /\ pass[w].at = "work" /\ r.note = pass[w].note /\ r.stale = pass[w].stale
  PROVE  AssetInv'
<1> USE DEF AssetInv
<1>1. AssetsTyped'
  BY DEF AssetsTyped
<1>2. pass'[w] = r /\ \A v \in Client \ {w} : pass'[v] = pass[v]
  BY DEF AssetsTyped
<1>3. PassesRead'
  BY <1>2 DEF PassesRead
<1>4. ConflictsAreReal' /\ Assets!PromotedOnce'
  BY DEF ConflictsAreReal, Assets!PromotedOnce
<1>5. Assets!MarkerIsTrue'
  BY DEF Assets!MarkerIsTrue
<1>6. QED
  BY <1>1, <1>3, <1>4, <1>5

LEMMA VideoRewritten ==
  ASSUME NEW v \in VideoRow, NEW n \in Look, NEW m \in Assets!Marker
  PROVE  [v EXCEPT !.note = n, !.marker = m] = [state |-> v.state, note |-> n, marker |-> m]
<1> DEFINE q == [v EXCEPT !.note = n]
<1>1. q = [state |-> v.state, note |-> n, marker |-> v.marker]
  BY DEF VideoRow
<1> HIDE DEF q
<1>2. [q EXCEPT !.marker = m] = [state |-> v.state, note |-> n, marker |-> m]
  BY <1>1
<1>3. QED
  BY <1>2, Zenon DEF q

\* A client changes the video, and every pass that has read it is stale.
LEMMA VideoChanged ==
  ASSUME AssetInv, NEW row \in VideoRow, video' = row, pass' = Assets!Stale,
         UNCHANGED <<previews, stored, promo>>,
         video.state = "live", row.state \in {"live", "deleted"}, claimed' \in BOOLEAN,
         \/ row.marker = video.marker /\ claimed' = claimed
         \/ row.marker = Assets!Unmarked \/ claimed'
  PROVE  AssetInv'
<1> USE DEF AssetInv
<1>1. AssetsTyped'
  BY StalePasses DEF AssetsTyped
<1>2. PassesRead'
  BY StalePasses DEF PassesRead
<1>3. ConflictsAreReal' /\ Assets!PromotedOnce'
  BY DEF ConflictsAreReal, Assets!PromotedOnce
<1>4. Assets!MarkerIsTrue'
  BY DEF Assets!MarkerIsTrue, Assets!Unmarked, Assets!TARGET
<1>5. QED
  BY <1>1, <1>2, <1>3, <1>4

LEMMA MediaEdited ==
  ASSUME AssetInv, Claim \subseteq Assets!Marker,
         \/ \E n \in Look, marker \in Claim \cup {Assets!Unmarked, video.marker} :
              Assets!UpdateMedia(n, marker)
         \/ Assets!DeleteVideo
  PROVE  AssetInv'
<1> USE DEF AssetInv
<1>1. ASSUME NEW n \in Look, NEW marker \in Claim \cup {Assets!Unmarked, video.marker},
             Assets!UpdateMedia(n, marker)
      PROVE  AssetInv'
  <2> DEFINE row == [video EXCEPT !.note = n, !.marker = marker]
  <2>1. /\ video.state = "live" /\ video' = row /\ pass' = Assets!Stale
        /\ UNCHANGED <<previews, stored, promo>>
        /\ claimed' = IF marker = video.marker THEN claimed ELSE marker # Assets!Unmarked
    BY <1>1, Zenon DEF Assets!UpdateMedia
  <2>2. video \in VideoRow /\ marker \in Assets!Marker
    BY DEF AssetsTyped, VideoRow, Assets!Marker, Assets!Unmarked, Assets!TARGET
  <2>3. row = [state |-> video.state, note |-> n, marker |-> marker]
    BY <2>2, VideoRewritten
  <2>4. row \in VideoRow /\ row.state = "live" /\ row.marker = marker
    BY <2>1, <2>2, <2>3 DEF VideoRow
  <2>5. claimed' \in BOOLEAN
    BY <2>1 DEF AssetsTyped
  <2> HIDE DEF row
  <2>6. QED
    BY <2>1, <2>4, <2>5, VideoChanged
<1>2. ASSUME Assets!DeleteVideo
      PROVE  AssetInv'
  <2> DEFINE row == [video EXCEPT !.state = "deleted"]
  <2>1. /\ video.state = "live" /\ video' = row /\ pass' = Assets!Stale
        /\ UNCHANGED <<claimed, previews, stored, promo>>
    BY <1>2 DEF Assets!DeleteVideo
  <2>2. row \in VideoRow /\ row.state = "deleted" /\ row.marker = video.marker
    BY DEF AssetsTyped, VideoRow, Assets!State
  <2>3. claimed' \in BOOLEAN
    BY <2>1 DEF AssetsTyped
  <2> HIDE DEF row
  <2>4. QED
    BY <2>1, <2>2, <2>3, VideoChanged
<1>3. QED
  BY <1>1, <1>2

LEMMA PreviewDeleted ==
  ASSUME AssetInv, NEW k \in Preview, Assets!DeletePreview(k)
  PROVE  AssetInv'
<1> USE DEF AssetInv
<1>1. /\ previews[k] = "live" /\ previews' = [previews EXCEPT ![k] = "deleted"]
      /\ UNCHANGED <<video, claimed, stored, promo, pass>>
  BY DEF Assets!DeletePreview
<1>2. AssetsTyped'
  BY <1>1 DEF AssetsTyped, Assets!State
<1>3. PassesRead' /\ ConflictsAreReal' /\ Assets!PromotedOnce'
  BY <1>1 DEF PassesRead, ConflictsAreReal, Assets!PromotedOnce
<1>4. Assets!MarkerIsTrue'
  <2>1. \A j \in Preview : previews'[j] # "absent" <=> previews[j] # "absent"
    BY <1>1 DEF AssetsTyped
  <2>2. video.marker.shows \subseteq Preview
    BY DEF AssetsTyped, VideoRow, Assets!Marker
  <2>3. QED
    BY <1>1, <2>1, <2>2 DEF Assets!MarkerIsTrue
<1>5. QED
  BY <1>2, <1>3, <1>4

LEMMA PromotionGoesOn ==
  ASSUME AssetInv, NEW c \in Client,
         Assets!CopyVideo(c) \/ Assets!RegisterVideo(c) \/ Assets!LookUpVideo(c)
  PROVE  AssetInv'
<1> USE DEF AssetInv
<1>1. ASSUME NEW from \in Assets!Answer, NEW to \in Assets!Answer, Assets!Promotes(c, from, to)
      PROVE  /\ promo[c] = from /\ promo' \in [Client -> Assets!Answer]
             /\ promo'[c] = to /\ \A d \in Client \ {c} : promo'[d] = promo[d]
             /\ UNCHANGED <<claimed, previews, stored, pass>>
  BY <1>1 DEF Assets!Promotes, AssetsTyped
<1>2. \A a \in {"none", "copied", "conflict", "promoted", "noop", "failed"} : a \in Assets!Answer
  BY DEF Assets!Answer
<1>3. ASSUME UNCHANGED video, NEW from \in Assets!Answer, NEW to \in Assets!Answer,
             Assets!Promotes(c, from, to), to # "promoted",
             to = "conflict" => video.state # "absent",
             to = "failed" => video.state = "deleted",
             to = "noop" => video.state # "absent"
      PROVE  AssetInv'
  <2>1. AssetsTyped' /\ PassesRead' /\ Assets!MarkerIsTrue'
    BY <1>1, <1>3 DEF AssetsTyped, PassesRead, Assets!MarkerIsTrue
  <2>2. ConflictsAreReal' /\ Assets!PromotedOnce'
    BY <1>1, <1>3 DEF ConflictsAreReal, Assets!PromotedOnce
  <2>3. QED
    BY <2>1, <2>2
<1>4. ASSUME Assets!Promotes(c, "copied", "promoted"), video.state = "absent",
             video' = [video EXCEPT !.state = "live"]
      PROVE  AssetInv'
  <2>1. /\ video' \in VideoRow /\ video'.state = "live" /\ video'.note = video.note
        /\ video'.marker = video.marker
    BY <1>4 DEF AssetsTyped, VideoRow, Assets!State
  <2>2. /\ promo' \in [Client -> Assets!Answer] /\ promo'[c] = "promoted"
        /\ \A d \in Client \ {c} : promo'[d] = promo[d]
        /\ UNCHANGED <<claimed, previews, stored, pass>>
    BY <1>1, <1>2, <1>4
  <2>3. AssetsTyped' /\ PassesRead' /\ Assets!MarkerIsTrue'
    BY <1>4, <2>1, <2>2 DEF AssetsTyped, PassesRead, Assets!MarkerIsTrue
  <2>4. \A d \in Client : promo[d] \notin {"promoted", "noop", "failed", "conflict"}
    BY <1>4 DEF ConflictsAreReal, Assets!PromotedOnce
  <2>5. ConflictsAreReal' /\ Assets!PromotedOnce'
    BY <2>1, <2>2, <2>4 DEF ConflictsAreReal, Assets!PromotedOnce
  <2>6. QED
    BY <2>3, <2>5
<1>5. CASE Assets!CopyVideo(c)
  BY <1>2, <1>3, <1>5 DEF Assets!CopyVideo
<1>6. CASE Assets!RegisterVideo(c)
  BY <1>2, <1>3, <1>4, <1>6 DEF Assets!RegisterVideo, Assets!TakenCoords
<1>7. CASE Assets!LookUpVideo(c)
  <2> DEFINE to == IF video.state = "live" THEN "noop" ELSE "failed"
  <2>1. UNCHANGED video /\ Assets!Promotes(c, "conflict", to)
    BY <1>7 DEF Assets!LookUpVideo
  <2>2. video.state # "absent" /\ video.state \in {"absent", "live", "deleted"}
    BY <2>1, <1>1, <1>2 DEF ConflictsAreReal, AssetsTyped, VideoRow, Assets!State
  <2>3. to \in {"noop", "failed"} /\ (to = "failed" => video.state = "deleted")
    BY <2>2
  <2> HIDE DEF to
  <2>4. QED
    BY <1>2, <1>3, <2>1, <2>2, <2>3
<1>8. QED
  BY <1>5, <1>6, <1>7

LEMMA PreviewsRegistered ==
  ASSUME AssetInv, NEW w \in Client, Assets!RegisterPreviews(w)
  PROVE  /\ AssetInv'
         /\ \A v \in Client \ {w} : pass'[v].at = pass[v].at
         /\ video'.note # video.note => pass[w].stale
         /\ previews' # previews /\ video.state = "deleted" => pass[w].stale
<1> USE DEF AssetInv
<1> DEFINE r == pass[w]
           row == [video EXCEPT !.note = r.note, !.marker = Assets!MarkerOf(r.made)]
           others == IF video'.note # video.note THEN Assets!Stale ELSE pass
<1>1. /\ r.at = "register"
      /\ IF Assets!Collides(w)
           THEN UNCHANGED <<video, claimed, previews>>
           ELSE /\ previews' = [k \in Preview |-> IF k \in r.made THEN "live" ELSE previews[k]]
                /\ IF video.state = "live" THEN video' = row /\ claimed' = FALSE
                                           ELSE UNCHANGED <<video, claimed>>
      /\ pass' = [others EXCEPT ![w] = [at |-> "release"]]
      /\ UNCHANGED <<stored, promo>>
  BY DEF Assets!RegisterPreviews, Assets!Augmented
<1>2. /\ r \in [at : {"register"}, note : Look, stale : BOOLEAN, made : SUBSET Preview]
      /\ r.made \subseteq stored
      /\ ~r.stale => video.state = "live" /\ video.note = r.note
  BY <1>1, PassShape DEF AssetsTyped, PassesRead
<1>3. /\ row \in VideoRow /\ row.state = video.state /\ row.note = r.note
      /\ row.marker.shows = r.made
      /\ row.marker.version = Assets!TARGET => r.made = Preview
  <2> DEFINE m == Assets!MarkerOf(r.made)
  <2>1. /\ m \in Assets!Marker /\ m.shows = r.made
        /\ m.version = Assets!TARGET => r.made = Preview
    BY <1>2 DEF Assets!Marker, Assets!MarkerOf, Assets!TARGET
  <2> HIDE DEF m
  <2>2. video \in VideoRow /\ r.note \in Look
    BY <1>2 DEF AssetsTyped
  <2>3. row = [video EXCEPT !.note = r.note, !.marker = m]
    BY DEF row, m
  <2>4. row = [state |-> video.state, note |-> r.note, marker |-> m]
    BY <2>1, <2>2, <2>3, VideoRewritten, Zenon
  <2> HIDE DEF row
  <2>5. QED
    BY <2>1, <2>2, <2>4 DEF VideoRow
<1> HIDE DEF r, row
<1>4. /\ \/ video' = video /\ claimed' = claimed
         \/ /\ video' = row /\ video.state = "live" /\ claimed' = FALSE
            /\ \A k \in r.made : previews'[k] # "absent"
      /\ previews' \in [Preview -> Assets!State]
      /\ \A k \in Preview : /\ previews[k] # "absent" => previews'[k] # "absent"
                            /\ previews'[k] # "absent" => previews[k] # "absent" \/ k \in r.made
  <2>1. r.made \subseteq Preview
    BY <1>2
  <2>2. CASE Assets!Collides(w)
    <3>1. UNCHANGED <<video, claimed, previews>>
      BY <1>1, <2>2
    <3>2. QED
      BY <3>1 DEF AssetsTyped
  <2>3. CASE ~Assets!Collides(w)
    <3>1. previews' = [k \in Preview |-> IF k \in r.made THEN "live" ELSE previews[k]]
      BY <1>1, <2>3
    <3>2. \/ video' = video /\ claimed' = claimed
          \/ video' = row /\ video.state = "live" /\ claimed' = FALSE
      BY <1>1, <2>3, Zenon
    <3>3. /\ previews' \in [Preview -> Assets!State]
          /\ \A k \in Preview : previews'[k] = IF k \in r.made THEN "live" ELSE previews[k]
      BY <3>1 DEF AssetsTyped, Assets!State
    <3>4. QED
      BY <2>1, <3>2, <3>3
  <2>4. QED
    BY <2>2, <2>3
<1>5. video'.note # video.note => video' = row
  BY <1>4
<1>6. others \in [Client -> Pass]
      /\ \A v \in Client : /\ others[v].at = pass[v].at
                           /\ others[v].at = "register" => others[v].made = pass[v].made
                           /\ others[v].at \in {"work", "register"} =>
                                others[v].stale \/ (others = pass /\ video'.note = video.note)
  BY StalePasses DEF AssetsTyped
<1> HIDE DEF others
<1>7. /\ pass' \in [Client -> Pass] /\ pass'[w].at = "release"
      /\ \A v \in Client \ {w} : pass'[v] = others[v]
  BY <1>1, <1>6 DEF Pass
<1>8. AssetsTyped'
  BY <1>1, <1>3, <1>4, <1>7 DEF AssetsTyped
<1>9. video'.state = video.state
  BY <1>3, <1>4
<1>10. PassesRead'
  BY <1>1, <1>6, <1>7, <1>9 DEF PassesRead
<1>11. ConflictsAreReal' /\ Assets!PromotedOnce'
  BY <1>1, <1>9 DEF ConflictsAreReal, Assets!PromotedOnce
<1>12. Assets!MarkerIsTrue'
  <2>1. \A k \in Preview : previews'[k] # "absent" => k \in stored'
    BY <1>1, <1>2, <1>4 DEF Assets!MarkerIsTrue
  <2>2. CASE video' = video /\ claimed' = claimed
    BY <2>1, <2>2, <1>4, <1>8 DEF Assets!MarkerIsTrue, AssetsTyped, VideoRow, Assets!Marker
  <2>3. CASE video' = row /\ \A k \in r.made : previews'[k] # "absent"
    BY <2>1, <2>3, <1>2, <1>3, <1>4 DEF Assets!MarkerIsTrue
  <2>4. QED
    BY <2>2, <2>3, <1>4
<1>13. /\ \A v \in Client \ {w} : pass'[v].at = pass[v].at
       /\ video'.note # video.note => r.stale
       /\ previews' # previews /\ video.state = "deleted" => r.stale
  BY <1>2, <1>3, <1>5, <1>6, <1>7
<1>14. QED
  BY <1>8, <1>10, <1>11, <1>12, <1>13 DEF r

\* A step of a pass that does not register.
LEMMA PassStep ==
  ASSUME AssetInv, NEW w \in Client,
         \/ Assets!ListEnrichable(w) \/ Assets!AcquireLease(w) \/ Assets!ReadAgain(w)
         \/ Assets!ReleaseLease(w) \/ Assets!MaterializeFails(w) \/ Assets!Crash(w)
         \/ \E found \in SUBSET Preview : Assets!Produce(w, found)
  PROVE  AssetInv' /\ UNCHANGED <<video, previews>>
<1> DEFINE Read == [at |-> "work", note |-> video.note, stale |-> FALSE]
<1>1. /\ Assets!Idle \in Pass /\ [at |-> "lock"] \in Pass /\ [at |-> "read"] \in Pass
      /\ [at |-> "release"] \in Pass /\ Read \in Pass
      /\ Assets!Idle.at \notin {"work", "register"}
      /\ \A at \in {"lock", "read", "release"} : [at |-> at].at = at
      /\ Read.at = "work" /\ Read.note = video.note
  BY DEF Pass, Assets!Idle, AssetInv, AssetsTyped, VideoRow
<1>2. ASSUME NEW r \in Pass, Assets!Goes(w, r), Assets!KeepsData,
             r.at = "work" => r.note = video.note /\ video.state = "live",
             r.at # "register"
      PROVE  AssetInv' /\ UNCHANGED <<video, previews>>
  <2>1. /\ pass' = [pass EXCEPT ![w] = r] /\ UNCHANGED <<video, claimed, previews, promo>>
        /\ stored' = stored /\ stored \subseteq Preview
    BY <1>2 DEF Assets!Goes, Assets!KeepsData, AssetInv, AssetsTyped
  <2>2. QED
    BY <2>1, <1>2, PassGoesOn
<1> HIDE DEF Read
<1>3. CASE Assets!ListEnrichable(w) \/ Assets!AcquireLease(w) \/ Assets!ReleaseLease(w)
             \/ Assets!MaterializeFails(w) \/ Assets!Crash(w)
  BY <1>1, <1>2, <1>3
     DEF Assets!ListEnrichable, Assets!AcquireLease, Assets!ReleaseLease, Assets!MaterializeFails,
         Assets!Crash
<1>4. CASE Assets!ReadAgain(w)
  <2>1. CASE Assets!Enrichable
    <3>1. Assets!Goes(w, Read) /\ Assets!KeepsData /\ video.state = "live"
      BY <1>4, <2>1 DEF Assets!ReadAgain, Assets!Enrichable, Read
    <3>2. QED
      BY <1>1, <1>2, <3>1
  <2>2. CASE ~Assets!Enrichable
    <3>1. Assets!Goes(w, [at |-> "release"]) /\ Assets!KeepsData
      BY <1>4, <2>2 DEF Assets!ReadAgain
    <3>2. QED
      BY <1>1, <1>2, <3>1
  <2>3. QED
    BY <2>1, <2>2
<1>5. ASSUME NEW found \in SUBSET Preview, Assets!Produce(w, found)
      PROVE  AssetInv' /\ UNCHANGED <<video, previews>>
  <2> DEFINE r == [at |-> "register", note |-> pass[w].note, stale |-> pass[w].stale,
                   made |-> found]
  <2>1. /\ pass[w].at = "work" /\ pass' = [pass EXCEPT ![w] = r]
        /\ UNCHANGED <<video, claimed, previews, promo>> /\ stored' = stored \cup found
    BY <1>5 DEF Assets!Produce, Assets!Goes
  <2>2. pass[w].note \in Look /\ pass[w].stale \in BOOLEAN
    BY <2>1, PassShape DEF AssetInv, AssetsTyped
  <2>3. /\ r \in Pass /\ r.at = "register" /\ r.note = pass[w].note /\ r.stale = pass[w].stale
        /\ r.made = found
    BY <2>2 DEF Pass
  <2>4. stored' \subseteq Preview
    BY <2>1 DEF AssetInv, AssetsTyped
  <2> HIDE DEF r
  <2>5. QED
    BY <2>1, <2>3, <2>4, PassGoesOn
<1>6. QED
  BY <1>3, <1>4, <1>5

LEMMA AssetStep ==
  ASSUME AssetInv, Claim \subseteq Assets!Marker, Assets!Next
  PROVE  /\ AssetInv'
         /\ \A w \in Client :
              pass[w].at = "register" /\ pass'[w].at = "release" =>
                /\ video'.note # video.note => pass[w].stale
                /\ previews' # previews /\ video.state = "deleted" => pass[w].stale
<1>1. ASSUME NEW v \in Client, Assets!RegisterPreviews(v)
      PROVE  /\ AssetInv'
             /\ \A w \in Client :
                  pass[w].at = "register" /\ pass'[w].at = "release" =>
                    /\ video'.note # video.note => pass[w].stale
                    /\ previews' # previews /\ video.state = "deleted" => pass[w].stale
  BY <1>1, PreviewsRegistered
<1>2. ASSUME NEW v \in Client,
             \/ Assets!ListEnrichable(v) \/ Assets!AcquireLease(v) \/ Assets!ReadAgain(v)
             \/ Assets!ReleaseLease(v) \/ Assets!MaterializeFails(v) \/ Assets!Crash(v)
             \/ \E found \in SUBSET Preview : Assets!Produce(v, found)
      PROVE  AssetInv' /\ UNCHANGED <<video, previews>>
  BY <1>2, PassStep
<1>3. ASSUME NEW c \in Client,
             Assets!CopyVideo(c) \/ Assets!RegisterVideo(c) \/ Assets!LookUpVideo(c)
      PROVE  AssetInv' /\ UNCHANGED pass
  BY <1>3, PromotionGoesOn
     DEF Assets!CopyVideo, Assets!RegisterVideo, Assets!LookUpVideo, Assets!Promotes
<1>4. ASSUME \/ \E n \in Look, marker \in Claim \cup {Assets!Unmarked, video.marker} :
                  Assets!UpdateMedia(n, marker)
             \/ Assets!DeleteVideo
      PROVE  AssetInv' /\ pass' = Assets!Stale
  BY <1>4, MediaEdited, Zenon DEF Assets!UpdateMedia, Assets!DeleteVideo
<1>5. ASSUME NEW k \in Preview, Assets!DeletePreview(k)
      PROVE  AssetInv' /\ UNCHANGED pass
  BY <1>5, PreviewDeleted DEF Assets!DeletePreview
<1>6. ASSUME Assets!LeaseLapses
      PROVE  AssetInv' /\ UNCHANGED pass
  <2>1. UNCHANGED <<video, claimed, previews, stored, promo, pass>>
    BY <1>6 DEF Assets!LeaseLapses
  <2>2. QED
    BY <2>1 DEF AssetInv, AssetsTyped, PassesRead, ConflictsAreReal, Assets!MarkerIsTrue,
                Assets!PromotedOnce
<1>7. pass' \in {pass, Assets!Stale} =>
        \A w \in Client : ~(pass[w].at = "register" /\ pass'[w].at = "release")
  BY StalePasses DEF AssetInv
<1>8. Preview \in SUBSET Preview
  OBVIOUS
<1>9. QED
  BY <1>1, <1>2, <1>3, <1>4, <1>5, <1>6, <1>7, <1>8 DEF Assets!Next, Assets!WorkerStep

LEMMA AssetInit == Thumbnail \in Preview /\ Assets!Init => AssetInv
<1> SUFFICES ASSUME Thumbnail \in Preview, Assets!Init PROVE AssetInv
  OBVIOUS
<1>1. PICK n \in Look :
        \/ video = [state |-> "absent", note |-> n, marker |-> Assets!Unmarked] /\ stored = {}
        \/ /\ video = [state |-> "live", note |-> n,
                       marker |-> [version |-> 0, shows |-> {Thumbnail}]]
           /\ stored = {Thumbnail}
  BY DEF Assets!Init
<1>2. /\ previews = [k \in Preview |-> IF k \in stored THEN "live" ELSE "absent"]
      /\ promo = [c \in Client |-> "none"] /\ pass = [w \in Client |-> Assets!Idle]
      /\ claimed = FALSE
  BY DEF Assets!Init
<1>3. AssetsTyped
  <2>1. /\ video \in VideoRow /\ stored \subseteq Preview
        /\ previews \in [Preview -> Assets!State]
    BY <1>1, <1>2 DEF VideoRow, Assets!State, Assets!Marker, Assets!Unmarked, Assets!TARGET
  <2>2. promo \in [Client -> Assets!Answer] /\ pass \in [Client -> Pass]
    BY <1>2 DEF Assets!Answer, Pass
  <2>3. claimed \in BOOLEAN
    BY <1>2
  <2>4. QED
    BY <2>1, <2>2, <2>3 DEF AssetsTyped
<1>4. PassesRead /\ ConflictsAreReal /\ Assets!PromotedOnce
  BY <1>2 DEF PassesRead, ConflictsAreReal, Assets!PromotedOnce, Assets!Idle
<1>5. Assets!MarkerIsTrue
  <2>1. /\ \A k \in Preview : previews[k] # "absent" => k \in stored
        /\ \A k \in video.marker.shows : previews[k] # "absent"
        /\ video.marker.version # Assets!TARGET
    BY <1>1, <1>2 DEF Assets!Unmarked, Assets!TARGET
  <2>2. QED
    BY <2>1 DEF Assets!MarkerIsTrue
<1>6. QED
  BY <1>3, <1>4, <1>5 DEF AssetInv
-----------------------------------------------------------------------------
(***************************************************************************)
(* The library                                                             *)
(***************************************************************************)
EntryRow == [state : Shelf!State, folder : Item \cup {Nothing}, name : Title, uses : Nat,
             version : Nat]

LibraryRequest ==
  {Shelf!Closed}
    \cup [op : {"create"}, parent : Item \cup {Nothing}, name : Title, by : SUBSET Shelf!Op]
    \cup [op : {"move", "rename"}, on : Item, parent : Item \cup {Nothing}, name : Title,
          renames : BOOLEAN, phase : {"walk", "write"}, at : Item \cup {Nothing}, steps : Nat,
          by : SUBSET Shelf!Op]
    \cup [op : {"detach"}, on : Item, by : SUBSET Shelf!Op]
    \cup [op : {"delete"}, on : Item, freed : SUBSET Film, by : SUBSET Shelf!Op]
    \cup [op : {"add"}, on : Film, folder : Item \cup {Nothing}, name : Title,
          by : SUBSET Shelf!Op]
    \cup [op : {"edit"}, on : Film, folder : Item \cup {Nothing}, name : Title,
          saw : EntryRow, by : SUBSET Shelf!Op]

LibraryTyped ==
  /\ folders \in [Item -> [state : Shelf!State, parent : Item \cup {Nothing}, name : Title]]
  /\ entries \in [Film -> EntryRow] /\ media \subseteq Film
  /\ calls \in [Client -> LibraryRequest]

Known == {f \in Item : folders[f].state # "absent"}
ParentsKnown == \A f \in Known : folders[f].parent \in Known \cup {Nothing}

\* What the checks of an open request have found holds, or it has been overtaken.
Stands(r, p) == p \in Known \cup {Nothing} /\ (p \in Shelf!Places \/ "delete" \in r.by)

CreatesInPlace(r) ==
  r.op = "create" =>
    Stands(r, r.parent) /\ (r.by = {} => ~Shelf!Taken(r.parent, r.name, Nothing))

UpdatesInPlace(r) ==
  r.op \in {"move", "rename"} =>
    /\ r.on \in Known
    /\ r.by = {} =>
         /\ r.op = "rename" => r.parent = folders[r.on].parent
         /\ ~r.renames => r.name = folders[r.on].name
         /\ r.phase = "write" => ~Shelf!Taken(r.parent, r.name, r.on)
    /\ r.op = "move" => IF r.phase = "walk" /\ r.steps = 0 THEN r.at = r.parent
                        ELSE Stands(r, r.parent)

DeletesEmpty(r) ==
  r.op \in {"detach", "delete"} =>
    Shelf!Children(r.on) = {} \/ r.by \cap {"create", "move"} # {}

\* A deletion has unfiled what is in its folder, but for what was filed behind its back.
FreesAll(r) ==
  r.op = "delete" => Shelf!FiledIn(r.on) \subseteq r.freed \/ r.by \cap {"add", "edit"} # {}

FilesInPlace(r) ==
  /\ r.op = "add" => Stands(r, r.folder)
  /\ r.op = "edit" => \/ r.folder \in Shelf!Places \/ "delete" \in r.by
                      \/ Shelf!Overtaken({"add", "edit"}, {"delete"}, {r.on})
                      \/ Shelf!Overtaken({"delete"}, {"add", "edit"}, {r.folder})

SawEntry(r) ==
  r.op = "edit" =>
    /\ entries[r.on].state # "absent" /\ r.saw.version <= entries[r.on].version
    /\ r.saw.version = entries[r.on].version => r.saw = entries[r.on]

\* No set of these folders has all their parents in it.
Acyclic(D) == \A S \in SUBSET D : S # {} => \E f \in S : folders[f].parent \notin S

\* While no move overtakes a move, the walk has passed folders W that lead from the new
\* parent to where it is and do not hold the folder itself; they are of a set D that has
\* no cycle, the live ones and those that were live when the walk began.
Passed(r, D, W) ==
  /\ D \subseteq Known /\ Shelf!LiveFolders \subseteq D /\ Acyclic(D)
  /\ W \subseteq D /\ r.on \notin W /\ r.parent \in W \cup {r.at}
  /\ \A g \in W : \/ folders[g].parent \in W \cup {r.at}
                  \/ r.at = Nothing /\ folders[folders[g].parent].state = "deleted"
  /\ IF r.phase = "walk" THEN Cardinality(W) = r.steps ELSE r.at = Nothing

MovesCrossed == Shelf!Overtaken({"move"}, {"move"}, Item)

WalksUp(r) ==
  r.op = "move" /\ "move" \notin r.by /\ ~MovesCrossed =>
    \E D \in SUBSET Item : \E W \in SUBSET D : Passed(r, D, W)

RequestStands(r) ==
  /\ CreatesInPlace(r) /\ UpdatesInPlace(r) /\ DeletesEmpty(r) /\ FilesInPlace(r)
  /\ FreesAll(r) /\ SawEntry(r) /\ WalksUp(r)

\* The four parts of OnlyRacesHurt.
NoCycle == Acyclic(Shelf!LiveFolders) \/ MovesCrossed
Orphan(g, f) == g \in Shelf!LiveFolders /\ folders[g].parent = f /\ f \notin Shelf!LiveFolders
NoOrphan ==
  \A f, g \in Item :
    Orphan(g, f) => \/ Shelf!Overtaken({"create", "move"}, {"delete"}, {g})
                    \/ Shelf!Overtaken({"delete"}, {"create", "move"}, {f})
NoStray ==
  \A m \in Film : entries[m].state = "live" /\ entries[m].folder \notin Shelf!Places =>
    \/ Shelf!Overtaken({"add", "edit"}, {"delete"}, {m})
    \/ Shelf!Overtaken({"delete"}, {"add", "edit"}, {entries[m].folder})
Twins(f, g) == /\ f \in Shelf!LiveFolders /\ g \in Shelf!LiveFolders /\ f # g
               /\ folders[f].parent = folders[g].parent /\ folders[f].name = folders[g].name
NoTwins ==
  \A f, g \in Item :
    Twins(f, g) => /\ folders[f].parent = Nothing
                   /\ Shelf!Overtaken({"create", "move", "rename"}, Shelf!Op, {f, g})

TreeIsSound == NoCycle /\ NoOrphan /\ NoStray /\ NoTwins

LibraryInv ==
  /\ LibraryTyped /\ ParentsKnown
  /\ \A c \in Client : RequestStands(calls[c])
  /\ TreeIsSound


LEMMA HurtParts == Shelf!OnlyRacesHurt <=> TreeIsSound
<1>1. Shelf!Cyclic <=> ~Acyclic(Shelf!LiveFolders)
  BY DEF Shelf!Cyclic, Acyclic
<1>2. {"create"} \cup Shelf!FolderOp = {"create", "move", "rename"}
  BY DEF Shelf!FolderOp
<1>3. (\A f, g \in Shelf!LiveFolders :
         f # g /\ folders[f].parent = folders[g].parent /\ folders[f].name = folders[g].name =>
           /\ folders[f].parent = Nothing
           /\ Shelf!Overtaken({"create", "move", "rename"}, Shelf!Op, {f, g})) <=> NoTwins
  BY DEF NoTwins, Twins, Shelf!LiveFolders
<1>4. QED
  BY <1>1, <1>2, <1>3 DEF Shelf!OnlyRacesHurt, TreeIsSound, NoCycle, MovesCrossed,
                          NoOrphan, Orphan, NoStray

LEMMA OpsAre ==
  Shelf!Op = {"none", "create", "detach", "delete", "add", "edit", "move", "rename"}
BY DEF Shelf!Op, Shelf!FolderOp

\* What an open request knows, by what it is.
LEMMA CallShape ==
  ASSUME NEW r \in LibraryRequest
  PROVE  /\ r.op \in Shelf!Op /\ (r.op = "none" <=> r = Shelf!Closed)
         /\ r # Shelf!Closed => r.by \in SUBSET Shelf!Op
         /\ r.op = "create" => r \in [op : {"create"}, parent : Item \cup {Nothing},
                                      name : Title, by : SUBSET Shelf!Op]
         /\ r.op \in {"move", "rename"} =>
              r \in [op : {"move", "rename"}, on : Item, parent : Item \cup {Nothing},
                     name : Title, renames : BOOLEAN, phase : {"walk", "write"},
                     at : Item \cup {Nothing}, steps : Nat, by : SUBSET Shelf!Op]
         /\ r.op = "detach" => r \in [op : {"detach"}, on : Item, by : SUBSET Shelf!Op]
         /\ r.op = "delete" => r \in [op : {"delete"}, on : Item, freed : SUBSET Film,
                                      by : SUBSET Shelf!Op]
         /\ r.op = "add" => r \in [op : {"add"}, on : Film, folder : Item \cup {Nothing},
                                   name : Title, by : SUBSET Shelf!Op]
         /\ r.op = "edit" => r \in [op : {"edit"}, on : Film, folder : Item \cup {Nothing},
                                    name : Title, saw : EntryRow, by : SUBSET Shelf!Op]
BY OpsAre DEF LibraryRequest, Shelf!Closed

\* A request that another one overtakes is told so.
Told(r, o) == [r EXCEPT !.by = r.by \cup {o}]

LEMMA ToldFields ==
  ASSUME NEW r \in LibraryRequest, r # Shelf!Closed, NEW o \in Shelf!Op
  PROVE  LET q == Told(r, o) IN
         /\ q \in LibraryRequest /\ q # Shelf!Closed
         /\ q.op = r.op /\ q.by = r.by \cup {o}
         /\ r.op = "create" => q.parent = r.parent /\ q.name = r.name
         /\ r.op \in {"move", "rename"} =>
              /\ q.on = r.on /\ q.parent = r.parent /\ q.name = r.name /\ q.renames = r.renames
              /\ q.phase = r.phase /\ q.at = r.at /\ q.steps = r.steps
         /\ r.op = "detach" => q.on = r.on
         /\ r.op = "delete" => q.on = r.on /\ q.freed = r.freed
         /\ r.op = "add" => q.on = r.on /\ q.folder = r.folder
         /\ r.op = "edit" => q.on = r.on /\ q.folder = r.folder /\ q.saw = r.saw
<1>1. r.by \cup {o} \in SUBSET Shelf!Op /\ r.op \in Shelf!Op /\ r.op # "none"
  BY CallShape
<1>2. CASE r.op = "create"
  BY <1>1, <1>2, CallShape DEF Told, LibraryRequest, Shelf!Closed
<1>3. CASE r.op \in {"move", "rename"}
  BY <1>1, <1>3, CallShape DEF Told, LibraryRequest, Shelf!Closed
<1>4. CASE r.op \in {"detach", "delete"}
  <2>1. CASE r.op = "detach"
    BY <1>1, <2>1, CallShape DEF Told, LibraryRequest, Shelf!Closed
  <2>2. CASE r.op = "delete"
    BY <1>1, <2>2, CallShape DEF Told, LibraryRequest, Shelf!Closed
  <2>3. QED
    BY <1>4, <2>1, <2>2
<1>5. CASE r.op = "add"
  BY <1>1, <1>5, CallShape DEF Told, LibraryRequest, Shelf!Closed
<1>6. CASE r.op = "edit"
  BY <1>1, <1>6, CallShape DEF Told, LibraryRequest, Shelf!Closed
<1>7. QED
  BY <1>1, <1>2, <1>3, <1>4, <1>5, <1>6, OpsAre
-----------------------------------------------------------------------------
(***************************************************************************)
(* Folders without a cycle                                                 *)
(***************************************************************************)
\* A folder that nobody lies in closes no cycle.
LEMMA LeafAdded ==
  ASSUME NEW D \in SUBSET Item, NEW f \in Item, Acyclic(D),
         \A g \in D : folders'[g].parent = folders[g].parent /\ folders[g].parent # f,
         folders'[f].parent # f
  PROVE  Acyclic(D \cup {f})'
<1> SUFFICES ASSUME NEW S \in SUBSET (D \cup {f}), S # {}, \A g \in S : folders'[g].parent \in S
             PROVE  FALSE
  BY DEF Acyclic
<1>1. \A g \in S \ {f} : folders[g].parent \in S \ {f}
  OBVIOUS
<1>2. S \ {f} # {}
  <2>1. PICK g \in S : TRUE
    OBVIOUS
  <2>2. QED
    BY <2>1
<1>3. S \ {f} \in SUBSET D
  OBVIOUS
<1>4. QED
  BY <1>1, <1>2, <1>3 DEF Acyclic

\* Fewer folders that lie where they lay have no cycle either.
LEMMA AcyclicPart ==
  ASSUME NEW D \in SUBSET Item, NEW E \in SUBSET D, Acyclic(D),
         \A g \in E : folders'[g].parent = folders[g].parent
  PROVE  Acyclic(E)'
<1> SUFFICES ASSUME NEW S \in SUBSET E, S # {}, \A g \in S : folders'[g].parent \in S
             PROVE  FALSE
  BY DEF Acyclic
<1>1. S \in SUBSET D /\ \A g \in S : folders[g].parent \in S
  OBVIOUS
<1>2. QED
  BY <1>1 DEF Acyclic

\* A walk that has ended at a root allows the move: it closes no cycle.
LEMMA MoveKeepsAcyclic ==
  ASSUME LibraryTyped, NEW r, r.on \in Item, r.parent \in Item \cup {Nothing}, r.at = Nothing,
         NEW D \in SUBSET Item, NEW W \in SUBSET D, Passed(r, D, W),
         folders'[r.on].parent = r.parent,
         \A g \in Item \ {r.on} : folders'[g].parent = folders[g].parent,
         Shelf!LiveFolders' = Shelf!LiveFolders
  PROVE  Acyclic(Shelf!LiveFolders)'
<1> SUFFICES ASSUME NEW S \in SUBSET Shelf!LiveFolders, S # {},
                    \A g \in S : folders'[g].parent \in S
             PROVE  FALSE
  BY DEF Acyclic
<1>1. S \subseteq Item /\ S \subseteq D /\ Nothing \notin S
  BY StudioAssumption DEF Passed, Shelf!LiveFolders
<1>2. CASE r.on \notin S
  BY <1>1, <1>2 DEF Passed, Acyclic
<1>3. CASE r.on \in S
  <2> DEFINE T == S \cap W
  <2>1. r.parent \in T
    BY <1>1, <1>3 DEF Passed
  <2>2. ASSUME NEW g \in T
        PROVE  folders[g].parent \in T
    <3>1. g # r.on /\ folders[g].parent \in S
      BY <1>1 DEF Passed
    <3>2. folders[folders[g].parent].state = "live"
      BY <3>1 DEF Shelf!LiveFolders
    <3>3. folders[g].parent \in W
      BY <1>1, <3>1, <3>2 DEF Passed
    <3>4. QED
      BY <3>1, <3>3
  <2>3. T \in SUBSET D /\ T # {}
    BY <2>1
  <2> HIDE DEF T
  <2>4. QED
    BY <2>2, <2>3 DEF Passed, Acyclic
<1>4. QED
  BY <1>2, <1>3
-----------------------------------------------------------------------------
(***************************************************************************)
(* What a commit does to the requests that are open                        *)
(***************************************************************************)
\* The rows after a commit of the operation o, as far as other requests look at them.
CommitsAs(o) ==
  /\ \A f \in Known : f \in Known'
  /\ o # "delete" => \A f \in Shelf!LiveFolders : f \in Shelf!LiveFolders'
  /\ o \notin {"create", "move"} =>
       \A f \in Shelf!LiveFolders' : folders'[f].parent = folders[f].parent
  /\ o # "move" => \A f \in Known : folders'[f].parent = folders[f].parent
  /\ o # "create" => \A f \in Shelf!LiveFolders' : f \in Shelf!LiveFolders
  /\ o = "create" => \E f \in Item \ Known :
       /\ Shelf!LiveFolders' = Shelf!LiveFolders \cup {f}
       /\ f \in Known' /\ folders'[f].parent \in Known \cup {Nothing}
  /\ \A f \in Item : folders[f].state = "deleted" => folders'[f].state = "deleted"
  /\ \A m \in Film : entries[m].state # "absent" =>
       /\ entries'[m].state # "absent"
       /\ entries'[m] = entries[m] \/ entries'[m].version = entries[m].version + 1
  /\ o \notin {"add", "edit"} =>
       \A m \in Film : entries'[m].state = "live" /\ entries'[m].folder # Nothing =>
                         entries[m].state = "live" /\ entries[m].folder = entries'[m].folder
  /\ races \subseteq races'

LEMMA KnownLive == Shelf!LiveFolders \subseteq Known
BY DEF Shelf!LiveFolders, Known

LEMMA OvertakenStays ==
  ASSUME NEW ops, NEW by, NEW on, races \subseteq races', Shelf!Overtaken(ops, by, on)
  PROVE  \E r \in races' : r.op \in ops /\ r.by \in by /\ r.on \in on
BY DEF Shelf!Overtaken

LEMMA CrossedStays ==
  ASSUME races \subseteq races'
  PROVE  MovesCrossed => MovesCrossed'
BY OvertakenStays DEF MovesCrossed, Shelf!Overtaken

\* A check that stands goes on standing, or the request is told of the deletion.
LEMMA StandsOn ==
  ASSUME NEW d \in Client, NEW o, CommitsAs(o), NEW p \in Item \cup {Nothing}, Stands(calls[d], p),
         calls'[d].by = calls[d].by \cup {o} \/ (calls'[d].by = calls[d].by /\ o = "none")
  PROVE  /\ p \in Known' \cup {Nothing}
         /\ p \in Shelf!Places' \/ "delete" \in calls'[d].by
BY DEF Stands, CommitsAs, Shelf!Places

LEMMA SawStays ==
  ASSUME LibraryTyped, NEW d \in Client, NEW o, CommitsAs(o), SawEntry(calls[d]),
         calls[d].op = "edit",
         calls'[d].op = calls[d].op, calls'[d].on = calls[d].on, calls'[d].saw = calls[d].saw
  PROVE  SawEntry(calls[d])'
<1> DEFINE r == calls[d]
<1>1. r.on \in Film /\ r.saw.version \in Nat
  BY CallShape DEF LibraryTyped, EntryRow
<1>2. entries[r.on].version \in Nat
  BY <1>1 DEF LibraryTyped, EntryRow
<1>3. /\ entries[r.on].state # "absent" /\ r.saw.version <= entries[r.on].version
      /\ r.saw.version = entries[r.on].version => r.saw = entries[r.on]
  BY DEF SawEntry
<1>4. /\ entries'[r.on].state # "absent"
      /\ entries'[r.on] = entries[r.on] \/ entries'[r.on].version = entries[r.on].version + 1
  BY <1>1, <1>3 DEF CommitsAs
<1> HIDE DEF r
<1>5. /\ entries'[r.on].state # "absent" /\ r.saw.version <= entries'[r.on].version
      /\ r.saw.version = entries'[r.on].version => r.saw = entries'[r.on]
  BY <1>1, <1>2, <1>3, <1>4
<1>6. QED
  BY <1>5 DEF SawEntry, r

\* What a walk has passed stays passed, whatever commits but a move.
LEMMA PassedStays ==
  ASSUME LibraryTyped, ParentsKnown, NEW d \in Client, NEW o, CommitsAs(o), o # "move",
         calls[d].op = "move", calls'[d].op = "move", calls'[d].on = calls[d].on,
         calls'[d].parent = calls[d].parent, calls'[d].at = calls[d].at,
         calls'[d].phase = calls[d].phase, calls'[d].steps = calls[d].steps,
         NEW D \in SUBSET Item, NEW W \in SUBSET D, Passed(calls[d], D, W)
  PROVE  \E E \in SUBSET Item : \E V \in SUBSET E : Passed(calls[d], E, V)'
<1>1. \A f \in Known : folders'[f].parent = folders[f].parent /\ f \in Known'
  BY DEF CommitsAs
<1>2. D \subseteq Known /\ Shelf!LiveFolders \subseteq D /\ Acyclic(D)
  BY DEF Passed
<1>3. \A g \in W : \/ folders'[g].parent \in W \cup {calls[d].at}
                   \/ calls[d].at = Nothing /\ folders'[folders'[g].parent].state = "deleted"
  <2>1. ASSUME NEW g \in W, folders[folders[g].parent].state = "deleted",
               folders[g].parent \notin W \cup {Nothing}
        PROVE  folders'[folders'[g].parent].state = "deleted"
    <3>1. g \in Known /\ folders[g].parent \in Item
      BY <2>1, <1>2 DEF Known, LibraryTyped
    <3>2. QED
      BY <2>1, <3>1, <1>1 DEF CommitsAs
  <2>2. \A g \in W : folders'[g].parent = folders[g].parent
    BY <1>1, <1>2
  <2>3. QED
    BY <2>1, <2>2 DEF Passed
<1>4. ASSUME NEW E \in SUBSET Item, D \subseteq E, E \subseteq Known', Shelf!LiveFolders' \subseteq E,
             Acyclic(E)'
      PROVE  \E F \in SUBSET Item : \E V \in SUBSET F : Passed(calls[d], F, V)'
  <2>1. Passed(calls[d], E, W)'
    BY <1>3, <1>4 DEF Passed
  <2>2. W \in SUBSET E
    BY <1>4
  <2>3. QED
    BY <2>1, <2>2
<1>5. CASE o # "create"
  <2>1. Acyclic(D)'
    BY <1>1, <1>2, AcyclicPart
  <2>2. Shelf!LiveFolders' \subseteq D
    BY <1>2, <1>5 DEF CommitsAs
  <2>3. QED
    BY <1>1, <1>2, <1>4, <2>1, <2>2
<1>6. CASE o = "create"
  <2>1. PICK f \in Item \ Known :
          /\ Shelf!LiveFolders' = Shelf!LiveFolders \cup {f}
          /\ f \in Known' /\ folders'[f].parent \in Known \cup {Nothing}
    BY <1>6 DEF CommitsAs
  <2>2. Acyclic(D \cup {f})'
    <3>1. \A g \in D : folders'[g].parent = folders[g].parent /\ folders[g].parent # f
      BY <1>1, <1>2, <2>1, StudioAssumption DEF ParentsKnown
    <3>2. folders'[f].parent # f
      BY <2>1, StudioAssumption
    <3>3. QED
      BY <1>2, <3>1, <3>2, LeafAdded
  <2>3. D \cup {f} \subseteq Known' /\ Shelf!LiveFolders' \subseteq D \cup {f}
    BY <1>1, <1>2, <2>1
  <2>4. QED
    BY <1>4, <2>2, <2>3
<1>7. QED
  BY <1>5, <1>6

\* A request that is open when another one commits still stands, now that it is told.
LEMMA Bystander ==
  ASSUME LibraryTyped, ParentsKnown, NEW d \in Client, RequestStands(calls[d]),
         calls[d] # Shelf!Closed, NEW o \in Shelf!Op, CommitsAs(o), calls'[d] = Told(calls[d], o)
  PROVE  RequestStands(calls[d])'
<1> DEFINE r == calls[d]
           q == calls'[d]
<1>1. /\ q.op = r.op /\ q.by = r.by \cup {o} /\ q.by # {}
      /\ r.op = "create" => q.parent = r.parent /\ q.name = r.name
      /\ r.op \in {"move", "rename"} =>
           /\ q.on = r.on /\ q.parent = r.parent /\ q.name = r.name /\ q.renames = r.renames
           /\ q.phase = r.phase /\ q.at = r.at /\ q.steps = r.steps
      /\ r.op = "detach" => q.on = r.on
      /\ r.op = "delete" => q.on = r.on /\ q.freed = r.freed
      /\ r.op = "add" => q.on = r.on /\ q.folder = r.folder
      /\ r.op = "edit" => q.on = r.on /\ q.folder = r.folder /\ q.saw = r.saw
  <2>1. r \in LibraryRequest /\ r # Shelf!Closed /\ q = Told(r, o)
    BY DEF LibraryTyped
  <2> HIDE DEF r, q
  <2>2. QED
    BY <2>1, ToldFields
<1>2. \A p \in Item \cup {Nothing} : Stands(r, p) =>
        /\ p \in Known' \cup {Nothing}
        /\ p \in Shelf!Places' \/ "delete" \in q.by
  BY <1>1, StandsOn
<1>3. CreatesInPlace(calls[d])'
  <2>1. r.op = "create" => r.parent \in Item \cup {Nothing}
    BY CallShape DEF LibraryTyped
  <2>2. QED
    BY <1>1, <1>2, <2>1 DEF RequestStands, CreatesInPlace, Stands
<1>4. UpdatesInPlace(calls[d])'
  <2>1. r.op \in {"move", "rename"} => r.parent \in Item \cup {Nothing} /\ r.on \in Item
    BY CallShape DEF LibraryTyped
  <2>2. r.op \in {"move", "rename"} => r.on \in Known'
    BY DEF RequestStands, UpdatesInPlace, CommitsAs
  <2>3. r.op = "move" => IF r.phase = "walk" /\ r.steps = 0 THEN r.at = r.parent
                         ELSE Stands(r, r.parent)
    BY DEF RequestStands, UpdatesInPlace
  <2>4. QED
    BY <1>1, <1>2, <2>1, <2>2, <2>3 DEF UpdatesInPlace, Stands
<1>5. DeletesEmpty(calls[d])'
  <2>1. r.op \in {"detach", "delete"} =>
          Shelf!Children(r.on) = {} \/ r.by \cap {"create", "move"} # {}
    BY DEF RequestStands, DeletesEmpty
  <2>2. ASSUME r.op \in {"detach", "delete"}, o \notin {"create", "move"}, Shelf!Children(r.on) = {}
        PROVE  {f \in Shelf!LiveFolders' : folders'[f].parent = q.on} = {}
    BY <1>1, <2>2 DEF CommitsAs, Shelf!Children
  <2>3. QED
    BY <1>1, <2>1, <2>2 DEF DeletesEmpty, Shelf!Children
<1>6. FilesInPlace(calls[d])'
  <2>1. /\ r.op \in {"add", "edit"} => r.folder \in Item \cup {Nothing}
        /\ r.op = "add" => Stands(r, r.folder)
        /\ r.op = "edit" => \/ r.folder \in Shelf!Places \/ "delete" \in r.by
                            \/ Shelf!Overtaken({"add", "edit"}, {"delete"}, {r.on})
                            \/ Shelf!Overtaken({"delete"}, {"add", "edit"}, {r.folder})
    BY CallShape DEF LibraryTyped, RequestStands, FilesInPlace
  <2>2. r.folder \in Shelf!Places => r.folder \in Shelf!Places' \/ "delete" \in q.by
    BY <1>1 DEF CommitsAs, Shelf!Places
  <2>3. Shelf!Overtaken({"add", "edit"}, {"delete"}, {r.on}) =>
          \E x \in races' : x.op \in {"add", "edit"} /\ x.by \in {"delete"} /\ x.on \in {r.on}
    BY OvertakenStays DEF CommitsAs
  <2>4. Shelf!Overtaken({"delete"}, {"add", "edit"}, {r.folder}) =>
          \E x \in races' : x.op \in {"delete"} /\ x.by \in {"add", "edit"} /\ x.on \in {r.folder}
    BY OvertakenStays DEF CommitsAs
  <2> HIDE DEF r, q
  <2>5. /\ q.op = "add" => /\ q.folder \in Known' \cup {Nothing}
                           /\ q.folder \in Shelf!Places' \/ "delete" \in q.by
        /\ q.op = "edit" =>
             \/ q.folder \in Shelf!Places' \/ "delete" \in q.by
             \/ \E x \in races' : x.op \in {"add", "edit"} /\ x.by \in {"delete"} /\ x.on \in {q.on}
             \/ \E x \in races' : /\ x.op \in {"delete"} /\ x.by \in {"add", "edit"}
                                  /\ x.on \in {q.folder}
    BY <1>1, <1>2, <2>1, <2>2, <2>3, <2>4
  <2>6. QED
    BY <2>5 DEF FilesInPlace, Stands, Shelf!Overtaken, q
<1>7. SawEntry(calls[d])'
  <2>1. CASE r.op = "edit"
    BY <1>1, <2>1, SawStays DEF RequestStands
  <2>2. CASE r.op # "edit"
    BY <1>1, <2>2 DEF SawEntry
  <2>3. QED
    BY <2>1, <2>2
<1>8. WalksUp(calls[d])'
  <2>1. SUFFICES ASSUME q.op = "move", "move" \notin q.by, ~MovesCrossed'
                 PROVE  \E D \in SUBSET Item : \E W \in SUBSET D : Passed(calls[d], D, W)'
    BY DEF WalksUp
  <2>2. r.op = "move" /\ "move" \notin r.by /\ o # "move" /\ ~MovesCrossed
    BY <1>1, <2>1, CrossedStays DEF CommitsAs
  <2>3. PICK D \in SUBSET Item : \E W \in SUBSET D : Passed(r, D, W)
    BY <2>2 DEF RequestStands, WalksUp
  <2>4. PICK W \in SUBSET D : Passed(r, D, W)
    BY <2>3
  <2>5. QED
    BY <1>1, <2>1, <2>2, <2>4, PassedStays
<1>9. FreesAll(calls[d])'
  <2>1. SUFFICES ASSUME q.op = "delete", o \notin {"add", "edit"},
                        Shelf!FiledIn(r.on) \subseteq r.freed
                 PROVE  {m \in Film : entries'[m].state = "live" /\ entries'[m].folder = q.on}
                          \subseteq q.freed
    BY <1>1 DEF RequestStands, FreesAll, Shelf!FiledIn
  <2>2. r.op = "delete" /\ q.on = r.on /\ q.freed = r.freed
    BY <1>1, <2>1
  <2>3. r.on \in Item
    BY <2>2, CallShape DEF LibraryTyped
  <2>4. QED
    BY <2>1, <2>2, <2>3, StudioAssumption DEF CommitsAs, Shelf!FiledIn
<1>10. QED
  BY <1>3, <1>4, <1>5, <1>6, <1>7, <1>8, <1>9 DEF RequestStands

\* A request stands as long as the rows it looked at and the races stay as they are.
LEMMA StandsStill ==
  ASSUME NEW d \in Client, NEW r, calls'[d] = r, RequestStands(r),
         UNCHANGED <<folders, races, entries>>
  PROVE  RequestStands(calls[d])'
<1>1. /\ Shelf!LiveFolders' = Shelf!LiveFolders /\ Known' = Known
      /\ Shelf!Places' = Shelf!Places
  BY DEF Shelf!LiveFolders, Known, Shelf!Places
<1>2. CreatesInPlace(calls[d])'
  BY <1>1 DEF RequestStands, CreatesInPlace, Stands, Shelf!Taken, Shelf!Children
<1>3. UpdatesInPlace(calls[d])'
  BY <1>1 DEF RequestStands, UpdatesInPlace, Stands, Shelf!Taken, Shelf!Children
<1>4. DeletesEmpty(calls[d])'
  BY <1>1 DEF RequestStands, DeletesEmpty, Shelf!Children
<1>5. FilesInPlace(calls[d])'
  BY <1>1 DEF RequestStands, FilesInPlace, Stands, Shelf!Overtaken
<1>6. SawEntry(calls[d])'
  BY DEF RequestStands, SawEntry
<1>7. WalksUp(calls[d])'
  BY <1>1 DEF RequestStands, WalksUp, Passed, Acyclic, MovesCrossed, Shelf!Overtaken
<1>8. FreesAll(calls[d])'
  BY DEF RequestStands, FreesAll, Shelf!FiledIn
<1>9. QED
  BY <1>2, <1>3, <1>4, <1>5, <1>6, <1>7, <1>8 DEF RequestStands

\* A step of one request that changes no row.
LEMMA CallGoesOn ==
  ASSUME LibraryInv, NEW c \in Client, NEW r \in LibraryRequest, RequestStands(r),
         calls' = [calls EXCEPT ![c] = r], UNCHANGED <<folders, races, entries, media>>
  PROVE  LibraryInv'
<1>1. LibraryTyped' /\ ParentsKnown'
  BY DEF LibraryInv, LibraryTyped, ParentsKnown, Known
<1>2. ASSUME NEW d \in Client
      PROVE  RequestStands(calls[d])'
  <2>1. CASE d = c
    <3>1. calls'[d] = r
      BY <2>1 DEF LibraryInv, LibraryTyped
    <3>2. QED
      BY <3>1, StandsStill
  <2>2. CASE d # c
    <3>1. PICK q : q = calls[d]
      OBVIOUS
    <3>2. calls'[d] = q /\ RequestStands(q)
      BY <2>2, <3>1 DEF LibraryInv, LibraryTyped
    <3>3. QED
      BY <3>2, StandsStill
  <2>3. QED
    BY <2>1, <2>2
<1>3. TreeIsSound'
  BY DEF LibraryInv, TreeIsSound, NoCycle, Acyclic, MovesCrossed, NoOrphan, Orphan, NoStray,
         NoTwins, Twins, Shelf!LiveFolders, Shelf!Places, Shelf!Overtaken
<1>4. QED
  BY <1>1, <1>2, <1>3 DEF LibraryInv

\* What a commit of c leaves of the requests and of the races.
LEMMA CommitsFields ==
  ASSUME LibraryTyped, NEW c \in Client, NEW on, calls[c] # Shelf!Closed, Shelf!Commits(c, on)
  PROVE  /\ calls' \in [Client -> LibraryRequest] /\ calls'[c] = Shelf!Closed
         /\ \A d \in Client \ {c} : IF calls[d] = Shelf!Closed THEN calls'[d] = Shelf!Closed
                                    ELSE calls'[d] = Told(calls[d], calls[c].op)
         /\ races \subseteq races' /\ UNCHANGED media
         /\ \A o \in calls[c].by : [op |-> calls[c].op, on |-> on, by |-> o] \in races'
<1>1. /\ calls' = [d \in Client |-> IF d = c \/ calls[d] = Shelf!Closed THEN Shelf!Closed
                                    ELSE Told(calls[d], calls[c].op)]
      /\ races' = races \cup {[op |-> calls[c].op, on |-> on, by |-> o] : o \in calls[c].by}
      /\ UNCHANGED media
  BY DEF Shelf!Commits, Told
<1>2. \A d \in Client : calls[d] \in LibraryRequest
  BY DEF LibraryTyped
<1>3. calls[c].op \in Shelf!Op
  BY <1>2, CallShape
<1>4. \A d \in Client : calls[d] # Shelf!Closed => Told(calls[d], calls[c].op) \in LibraryRequest
  BY <1>2, <1>3, ToldFields
<1>5. calls' \in [Client -> LibraryRequest]
  BY <1>1, <1>4 DEF LibraryRequest
<1>6. QED
  BY <1>1, <1>5

\* A commit of c leaves the requests standing and the races recorded.
LEMMA CommitStands ==
  ASSUME LibraryInv, NEW c \in Client, NEW on, calls[c] # Shelf!Closed, Shelf!Commits(c, on),
         CommitsAs(calls[c].op)
  PROVE  /\ calls' \in [Client -> LibraryRequest]
         /\ \A d \in Client : RequestStands(calls[d])'
<1>1. LibraryTyped /\ ParentsKnown
  BY DEF LibraryInv
<1>2. calls[c].op \in Shelf!Op
  BY <1>1, CallShape DEF LibraryTyped
<1>3. ASSUME NEW d \in Client, calls'[d] = Shelf!Closed
      PROVE  RequestStands(calls[d])'
  BY <1>3 DEF RequestStands, CreatesInPlace, UpdatesInPlace, DeletesEmpty, FreesAll, FilesInPlace,
              SawEntry, WalksUp, Shelf!Closed
<1>4. ASSUME NEW d \in Client
      PROVE  RequestStands(calls[d])'
  <2>1. CASE d = c \/ calls[d] = Shelf!Closed
    BY <2>1, <1>1, <1>3, CommitsFields
  <2>2. CASE d # c /\ calls[d] # Shelf!Closed
    <3>1. calls'[d] = Told(calls[d], calls[c].op)
      BY <2>2, <1>1, CommitsFields
    <3>2. RequestStands(calls[d])
      BY DEF LibraryInv
    <3>3. QED
      BY <1>1, <1>2, <2>2, <3>1, <3>2, Bystander
  <2>3. QED
    BY <2>1, <2>2
<1>5. QED
  BY <1>1, <1>4, CommitsFields

\* A race that was there, or that this commit has lost, is there.
LEMMA RaceTold ==
  ASSUME LibraryTyped, NEW c \in Client, NEW on, calls[c] # Shelf!Closed, Shelf!Commits(c, on),
         NEW ops, NEW by, NEW ons,
         \/ Shelf!Overtaken(ops, by, ons)
         \/ calls[c].op \in ops /\ on \in ons /\ calls[c].by \cap by # {}
  PROVE  Shelf!Overtaken(ops, by, ons)'
<1> SUFFICES \E r \in races' : r.op \in ops /\ r.by \in by /\ r.on \in ons
  BY DEF Shelf!Overtaken
<1>1. CASE Shelf!Overtaken(ops, by, ons)
  BY <1>1, OvertakenStays, CommitsFields
<1>2. CASE calls[c].op \in ops /\ on \in ons /\ calls[c].by \cap by # {}
  <2>1. PICK o \in calls[c].by : o \in by
    BY <1>2
  <2>2. [op |-> calls[c].op, on |-> on, by |-> o] \in races'
    BY <2>1, CommitsFields
  <2>3. QED
    BY <1>2, <2>1, <2>2
<1>3. QED
  BY <1>1, <1>2
-----------------------------------------------------------------------------
(***************************************************************************)
(* The commits, one by one                                                 *)
(***************************************************************************)
FolderRow == [state : Shelf!State, parent : Item \cup {Nothing}, name : Title]

LEMMA FolderAdded ==
  ASSUME LibraryInv, NEW c \in Client, NEW f \in Item, Shelf!AddFolder(c, f),
         ~Shelf!RefusedByIndex(calls[c].parent, calls[c].name, f)
  PROVE  LibraryInv'
<1> DEFINE r == calls[c]
<1> USE DEF LibraryInv
<1>1. /\ r.op = "create" /\ folders[f].state = "absent"
      /\ folders' = [folders EXCEPT ![f] = [state |-> "live", parent |-> r.parent,
                                            name |-> r.name]]
      /\ Shelf!Commits(c, f) /\ UNCHANGED entries
  BY DEF Shelf!AddFolder
<1>2. /\ r.parent \in Item \cup {Nothing} /\ r.name \in Title /\ r.by \in SUBSET Shelf!Op
      /\ r # Shelf!Closed
  BY <1>1, CallShape DEF LibraryTyped, Shelf!Closed
<1>3. Stands(r, r.parent) /\ (r.by = {} => ~Shelf!Taken(r.parent, r.name, Nothing))
  BY <1>1 DEF RequestStands, CreatesInPlace
<1>4. /\ folders' \in [Item -> FolderRow]
      /\ folders'[f].state = "live" /\ folders'[f].parent = r.parent /\ folders'[f].name = r.name
      /\ \A g \in Item \ {f} : folders'[g] = folders[g]
  BY <1>1, <1>2 DEF LibraryTyped, FolderRow, Shelf!State
<1>5. /\ f \notin Known /\ f \notin Shelf!LiveFolders
      /\ Shelf!LiveFolders' = Shelf!LiveFolders \cup {f} /\ Known' = Known \cup {f}
  BY <1>1, <1>4 DEF Known, Shelf!LiveFolders
<1>6. r.parent \in Known \cup {Nothing} /\ r.parent # f
  BY <1>3, <1>5, StudioAssumption DEF Stands
<1>7. CommitsAs("create")
  <2>1. \A m \in Film : entries'[m] = entries[m]
    BY <1>1
  <2>2. races \subseteq races'
    BY <1>1, <1>2, CommitsFields
  <2>3. \A g \in Item : folders[g].state = "deleted" => folders'[g].state = "deleted"
    BY <1>1, <1>4
  <2>4. \A g \in Known : folders'[g].parent = folders[g].parent
    BY <1>4, <1>5 DEF Known
  <2>5. \E g \in Item \ Known : /\ Shelf!LiveFolders' = Shelf!LiveFolders \cup {g}
                               /\ g \in Known' /\ folders'[g].parent \in Known \cup {Nothing}
    BY <1>4, <1>5, <1>6
  <2>6. QED
    BY <1>1, <1>5, <2>1, <2>2, <2>3, <2>4, <2>5 DEF CommitsAs
<1>8. LibraryTyped' /\ \A d \in Client : RequestStands(calls[d])'
  BY <1>1, <1>2, <1>4, <1>7, CommitStands, CommitsFields DEF LibraryTyped, FolderRow
<1>9. ParentsKnown'
  BY <1>4, <1>5, <1>6 DEF ParentsKnown, Known
<1>10. ASSUME NEW ops, NEW by, NEW ons,
              \/ Shelf!Overtaken(ops, by, ons)
              \/ r.op \in ops /\ f \in ons /\ r.by \cap by # {}
       PROVE  Shelf!Overtaken(ops, by, ons)'
  BY <1>1, <1>2, <1>10, RaceTold
<1>11. NoCycle /\ NoOrphan /\ NoStray /\ NoTwins
  BY DEF TreeIsSound
<1>12. NoCycle'
  <2>1. CASE MovesCrossed
    BY <2>1, <1>7, CrossedStays DEF CommitsAs, NoCycle
  <2>2. CASE Acyclic(Shelf!LiveFolders)
    <3>1. \A g \in Shelf!LiveFolders :
            folders'[g].parent = folders[g].parent /\ folders[g].parent # f
      BY <1>4, <1>5, KnownLive, StudioAssumption DEF ParentsKnown, Shelf!LiveFolders
    <3>2. Acyclic(Shelf!LiveFolders \cup {f})'
      <4>1. PICK D : D = Shelf!LiveFolders
        OBVIOUS
      <4>2. Acyclic(D \cup {f})'
        BY <2>2, <3>1, <1>4, <1>6, <4>1, LeafAdded DEF Shelf!LiveFolders
      <4>3. Shelf!LiveFolders' \cup {f} = D \cup {f}
        BY <1>5, <4>1
      <4>4. QED
        BY <4>2, <4>3 DEF Acyclic
    <3>3. QED
      BY <3>2, <1>5 DEF NoCycle, Acyclic
  <2>3. QED
    BY <2>1, <2>2, <1>11 DEF NoCycle
<1>13. NoOrphan'
  <2>1. SUFFICES ASSUME NEW h \in Item, NEW g \in Item, Orphan(g, h)'
                 PROVE  \/ Shelf!Overtaken({"create", "move"}, {"delete"}, {g})'
                        \/ Shelf!Overtaken({"delete"}, {"create", "move"}, {h})'
    BY DEF NoOrphan
  <2>2. CASE g = f
    <3>1. r.parent = h /\ h \notin Shelf!Places
      BY <2>1, <2>2, <1>4, <1>5, StudioAssumption DEF Orphan, Shelf!Places
    <3>2. "delete" \in r.by
      BY <3>1, <1>3 DEF Stands
    <3>3. r.op \in {"create", "move"} /\ f \in {g} /\ r.by \cap {"delete"} # {}
      BY <2>2, <3>2, <1>1
    <3>4. QED
      BY <3>3, <1>10
  <2>3. CASE g # f
    <3>1. Orphan(g, h)
      BY <2>1, <2>3, <1>4, <1>5 DEF Orphan
    <3>2. \/ Shelf!Overtaken({"create", "move"}, {"delete"}, {g})
          \/ Shelf!Overtaken({"delete"}, {"create", "move"}, {h})
      BY <3>1, <1>11 DEF NoOrphan
    <3>3. QED
      BY <3>2, <1>10
  <2>4. QED
    BY <2>2, <2>3
<1>14. NoStray'
  <2>1. Shelf!Places \subseteq Shelf!Places'
    BY <1>5 DEF Shelf!Places
  <2>2. ASSUME NEW m \in Film, entries'[m].state = "live", entries'[m].folder \notin Shelf!Places'
        PROVE  \/ Shelf!Overtaken({"add", "edit"}, {"delete"}, {m})'
               \/ Shelf!Overtaken({"delete"}, {"add", "edit"}, {entries[m].folder})'
    <3>1. \/ Shelf!Overtaken({"add", "edit"}, {"delete"}, {m})
          \/ Shelf!Overtaken({"delete"}, {"add", "edit"}, {entries'[m].folder})
      BY <2>1, <2>2, <1>1, <1>11 DEF NoStray
    <3>2. QED
      BY <3>1, <1>10
  <2>3. QED
    BY <2>2 DEF NoStray
<1>15. NoTwins'
  <2>1. ASSUME NEW g \in Shelf!LiveFolders, folders[g].parent = r.parent, folders[g].name = r.name
        PROVE  r.parent = Nothing /\ r.by # {}
    <3>1. g # f /\ g # Nothing
      BY <1>5, StudioAssumption DEF Shelf!LiveFolders
    <3>2. Shelf!Taken(r.parent, r.name, f) /\ Shelf!Taken(r.parent, r.name, Nothing)
      BY <2>1, <3>1 DEF Shelf!Taken, Shelf!Children
    <3>3. QED
      BY <3>2, <1>3 DEF Shelf!RefusedByIndex
  <2>2. SUFFICES ASSUME NEW g \in Item, NEW h \in Item, Twins(g, h)'
                 PROVE  /\ folders'[g].parent = Nothing
                        /\ Shelf!Overtaken({"create", "move", "rename"}, Shelf!Op, {g, h})'
    BY DEF NoTwins
  <2>3. CASE g # f /\ h # f
    <3>1. Twins(g, h) /\ folders'[g] = folders[g]
      BY <2>2, <2>3, <1>4, <1>5 DEF Twins
    <3>2. folders[g].parent = Nothing
            /\ Shelf!Overtaken({"create", "move", "rename"}, Shelf!Op, {g, h})
      BY <3>1, <1>11 DEF NoTwins
    <3>3. QED
      BY <3>1, <3>2, <1>10
  <2>4. CASE g = f \/ h = f
    <3>1. PICK i \in Shelf!LiveFolders :
            folders[i].parent = r.parent /\ folders[i].name = r.name
      <4>1. DEFINE i == IF g = f THEN h ELSE g
      <4>2. /\ i # f /\ i \in Item /\ i \in Shelf!LiveFolders'
            /\ folders'[i].parent = folders'[f].parent /\ folders'[i].name = folders'[f].name
        BY <2>2, <2>4 DEF Twins
      <4> HIDE DEF i
      <4>3. i \in Shelf!LiveFolders /\ folders[i].parent = r.parent /\ folders[i].name = r.name
        BY <4>2, <1>4, <1>5
      <4>4. QED
        BY <4>3
    <3>2. r.parent = Nothing /\ r.by \cap Shelf!Op # {}
      BY <3>1, <2>1, <1>2
    <3>3. folders'[g].parent = Nothing
      BY <2>2, <2>4, <3>2, <1>4 DEF Twins
    <3>4. f \in {g, h} /\ r.op \in {"create", "move", "rename"}
      BY <2>4, <1>1
    <3>5. QED
      BY <3>2, <3>3, <3>4, <1>10
  <2>5. QED
    BY <2>3, <2>4
<1>16. QED
  BY <1>8, <1>9, <1>12, <1>13, <1>14, <1>15 DEF TreeIsSound

\* The row of a folder that is updated.
UpdatedRow(r) == [folders[r.on] EXCEPT !.parent = IF r.op = "move" THEN r.parent ELSE @,
                                       !.name = IF r.renames THEN r.name ELSE @]

LEMMA UpdatedRowIs ==
  ASSUME LibraryTyped, NEW r, r.on \in Item, r.parent \in Item \cup {Nothing}, r.name \in Title
  PROVE  /\ UpdatedRow(r) \in FolderRow /\ UpdatedRow(r).state = folders[r.on].state
         /\ UpdatedRow(r).parent = IF r.op = "move" THEN r.parent ELSE folders[r.on].parent
         /\ UpdatedRow(r).name = IF r.renames THEN r.name ELSE folders[r.on].name
<1> DEFINE old == folders[r.on]
           p == IF r.op = "move" THEN r.parent ELSE old.parent
           n == IF r.renames THEN r.name ELSE old.name
<1>1. old \in FolderRow /\ p \in Item \cup {Nothing} /\ n \in Title
  BY DEF LibraryTyped, FolderRow
<1>2. UpdatedRow(r) = [old EXCEPT !.parent = p, !.name = n]
  BY Zenon DEF UpdatedRow
<1> HIDE DEF old, p, n
<1>3. [old EXCEPT !.parent = p, !.name = n] = [state |-> old.state, parent |-> p, name |-> n]
  <2> DEFINE q == [old EXCEPT !.parent = p]
  <2>1. q = [state |-> old.state, parent |-> p, name |-> old.name]
    BY <1>1 DEF FolderRow
  <2> HIDE DEF q
  <2>2. [q EXCEPT !.name = n] = [state |-> old.state, parent |-> p, name |-> n]
    BY <2>1
  <2>3. QED
    BY <2>2, Zenon DEF q
<1>4. QED
  BY <1>1, <1>2, <1>3 DEF FolderRow, old, p, n

LEMMA FolderUpdated ==
  ASSUME LibraryInv, NEW c \in Client, calls[c].op \in {"move", "rename"},
         calls[c].phase = "write", calls[c].on \in Shelf!LiveFolders,
         ~Shelf!RefusedByIndex(UpdatedRow(calls[c]).parent, UpdatedRow(calls[c]).name,
                               calls[c].on),
         folders' = [folders EXCEPT ![calls[c].on] = UpdatedRow(calls[c])],
         Shelf!Commits(c, calls[c].on), UNCHANGED entries
  PROVE  LibraryInv'
<1> DEFINE r == calls[c]
           f == calls[c].on
           row == UpdatedRow(calls[c])
<1> USE DEF LibraryInv
<1>1. /\ r \in [op : {"move", "rename"}, on : Item, parent : Item \cup {Nothing}, name : Title,
               renames : BOOLEAN, phase : {"walk", "write"}, at : Item \cup {Nothing},
               steps : Nat, by : SUBSET Shelf!Op]
      /\ r # Shelf!Closed
  BY CallShape DEF LibraryTyped, Shelf!Closed
<1>2. /\ row \in FolderRow /\ row.state = "live"
      /\ row.parent = IF r.op = "move" THEN r.parent ELSE folders[f].parent
      /\ row.name = IF r.renames THEN r.name ELSE folders[f].name
  BY <1>1, UpdatedRowIs DEF Shelf!LiveFolders
<1>3. /\ r.by = {} => /\ r.op = "rename" => r.parent = folders[f].parent
                      /\ ~r.renames => r.name = folders[f].name
                      /\ ~Shelf!Taken(r.parent, r.name, f)
      /\ r.op = "move" => Stands(r, r.parent)
  BY DEF RequestStands, UpdatesInPlace
<1> HIDE DEF row
<1>4. /\ folders' \in [Item -> FolderRow] /\ folders'[f] = row
      /\ \A g \in Item \ {f} : folders'[g] = folders[g]
      /\ f \in Item
  BY <1>1, <1>2 DEF LibraryTyped, FolderRow, row
<1>5. \A g \in Item : folders'[g].state = folders[g].state
  BY <1>2, <1>4 DEF Shelf!LiveFolders
<1>6. Shelf!LiveFolders' = Shelf!LiveFolders /\ Known' = Known /\ Shelf!Places' = Shelf!Places
  BY <1>5 DEF Shelf!LiveFolders, Known, Shelf!Places
<1>7. r.op # "move" => \A g \in Item : folders'[g].parent = folders[g].parent
  BY <1>2, <1>4
<1>8. CommitsAs(r.op)
  <2>1. races \subseteq races'
    BY <1>1, CommitsFields
  <2>2. \A g \in Item : folders[g].state = "deleted" => folders'[g].state = "deleted"
    BY <1>5
  <2>3. \A g \in Known \cup Shelf!LiveFolders : g \in Item
    BY DEF Known, Shelf!LiveFolders
  <2>4. \A m \in Film : entries'[m] = entries[m]
    OBVIOUS
  <2>5. r.op \in {"move", "rename"}
    OBVIOUS
  <2> HIDE DEF r
  <2>6. QED
    BY <1>6, <1>7, <2>1, <2>2, <2>3, <2>4, <2>5 DEF CommitsAs
<1>9. LibraryTyped' /\ \A d \in Client : RequestStands(calls[d])'
  BY <1>1, <1>4, <1>8, CommitStands, CommitsFields DEF LibraryTyped, FolderRow
<1>10. ParentsKnown'
  <2>1. \A g \in Known : folders'[g].parent \in Known \cup {Nothing}
    BY <1>2, <1>3, <1>4, <1>6 DEF ParentsKnown, Known, Stands
  <2>2. QED
    BY <2>1, <1>6 DEF ParentsKnown
<1>11. ASSUME NEW ops, NEW by, NEW ons,
              \/ Shelf!Overtaken(ops, by, ons)
              \/ r.op \in ops /\ f \in ons /\ r.by \cap by # {}
       PROVE  Shelf!Overtaken(ops, by, ons)'
  BY <1>1, <1>11, RaceTold
<1>12. NoCycle /\ NoOrphan /\ NoStray /\ NoTwins
  BY DEF TreeIsSound
<1>13. NoCycle'
  <2>1. CASE MovesCrossed
    BY <2>1, <1>8, CrossedStays DEF CommitsAs, NoCycle
  <2>2. CASE r.op = "move" /\ "move" \in r.by
    <3>1. r.op \in {"move"} /\ f \in Item /\ r.by \cap {"move"} # {}
      BY <2>2, <1>4
    <3>2. QED
      BY <3>1, <1>11 DEF NoCycle, MovesCrossed
  <2>3. CASE r.op # "move" /\ ~MovesCrossed
    <3>1. PICK D : D = Shelf!LiveFolders
      OBVIOUS
    <3>2. D \in SUBSET Item /\ Acyclic(D) /\ \A g \in D : folders'[g].parent = folders[g].parent
      BY <2>3, <3>1, <1>7, <1>12 DEF NoCycle, Shelf!LiveFolders
    <3>3. Acyclic(D)'
      BY <3>2, AcyclicPart
    <3>4. QED
      BY <3>1, <3>3, <1>6 DEF NoCycle, Acyclic
  <2>4. CASE r.op = "move" /\ "move" \notin r.by /\ ~MovesCrossed
    <3>1. PICK D \in SUBSET Item : \E W \in SUBSET D : Passed(r, D, W)
      BY <2>4 DEF RequestStands, WalksUp
    <3>2. PICK W \in SUBSET D : Passed(r, D, W)
      BY <3>1
    <3>3. r.at = Nothing
      BY <3>2 DEF Passed
    <3>4. /\ folders'[r.on].parent = r.parent
          /\ \A g \in Item \ {r.on} : folders'[g].parent = folders[g].parent
      BY <2>4, <1>2, <1>4
    <3>5. r.on \in Item /\ r.parent \in Item \cup {Nothing}
      BY <1>1
    <3>6. Acyclic(Shelf!LiveFolders)'
      BY <3>2, <3>3, <3>4, <3>5, <1>6, MoveKeepsAcyclic
    <3>7. QED
      BY <3>6 DEF NoCycle
  <2>5. QED
    BY <2>1, <2>2, <2>3, <2>4
<1>14. NoOrphan'
  <2>1. SUFFICES ASSUME NEW h \in Item, NEW g \in Item, Orphan(g, h)'
                 PROVE  \/ Shelf!Overtaken({"create", "move"}, {"delete"}, {g})'
                        \/ Shelf!Overtaken({"delete"}, {"create", "move"}, {h})'
    BY DEF NoOrphan
  <2>2. CASE g = f /\ r.op = "move"
    <3>1. r.parent = h /\ h \notin Shelf!Places
      BY <2>1, <2>2, <1>2, <1>4, <1>6, StudioAssumption DEF Orphan, Shelf!Places
    <3>2. "delete" \in r.by
      BY <2>2, <3>1, <1>3 DEF Stands
    <3>3. r.op \in {"create", "move"} /\ f \in {g} /\ r.by \cap {"delete"} # {}
      BY <2>2, <3>2
    <3>4. QED
      BY <3>3, <1>11
  <2>3. CASE g # f \/ r.op # "move"
    <3>1. Orphan(g, h)
      BY <2>1, <2>3, <1>4, <1>6, <1>7 DEF Orphan
    <3>2. \/ Shelf!Overtaken({"create", "move"}, {"delete"}, {g})
          \/ Shelf!Overtaken({"delete"}, {"create", "move"}, {h})
      BY <3>1, <1>12 DEF NoOrphan
    <3>3. QED
      BY <3>2, <1>11
  <2>4. QED
    BY <2>2, <2>3
<1>15. NoStray'
  <2>1. ASSUME NEW m \in Film, entries'[m].state = "live", entries'[m].folder \notin Shelf!Places'
        PROVE  \/ Shelf!Overtaken({"add", "edit"}, {"delete"}, {m})'
               \/ Shelf!Overtaken({"delete"}, {"add", "edit"}, {entries[m].folder})'
    <3>1. \/ Shelf!Overtaken({"add", "edit"}, {"delete"}, {m})
          \/ Shelf!Overtaken({"delete"}, {"add", "edit"}, {entries'[m].folder})
      BY <2>1, <1>6, <1>12 DEF NoStray
    <3>2. QED
      BY <3>1, <1>11
  <2>2. QED
    BY <2>1 DEF NoStray
<1>16. NoTwins'
  <2>1. ASSUME NEW g \in Shelf!LiveFolders \ {f}, folders[g].parent = row.parent,
               folders[g].name = row.name
        PROVE  row.parent = Nothing /\ r.by # {}
    <3>1. Shelf!Taken(row.parent, row.name, f)
      BY <2>1 DEF Shelf!Taken, Shelf!Children
    <3>2. row.parent = Nothing
      BY <3>1 DEF Shelf!RefusedByIndex, row
    <3>3. r.by = {} => row.parent = r.parent /\ row.name = r.name
      BY <1>1, <1>2, <1>3
    <3>4. QED
      BY <3>1, <3>2, <3>3, <1>3
  <2>2. SUFFICES ASSUME NEW g \in Item, NEW h \in Item, Twins(g, h)'
                 PROVE  /\ folders'[g].parent = Nothing
                        /\ Shelf!Overtaken({"create", "move", "rename"}, Shelf!Op, {g, h})'
    BY DEF NoTwins
  <2>3. CASE g # f /\ h # f
    <3>1. Twins(g, h) /\ folders'[g] = folders[g]
      BY <2>2, <2>3, <1>4, <1>6 DEF Twins
    <3>2. folders[g].parent = Nothing
            /\ Shelf!Overtaken({"create", "move", "rename"}, Shelf!Op, {g, h})
      BY <3>1, <1>12 DEF NoTwins
    <3>3. QED
      BY <3>1, <3>2, <1>11
  <2>4. CASE g = f \/ h = f
    <3>1. PICK i \in Shelf!LiveFolders \ {f} :
            folders[i].parent = row.parent /\ folders[i].name = row.name
      <4> DEFINE i == IF g = f THEN h ELSE g
      <4>1. /\ i # f /\ i \in Item /\ i \in Shelf!LiveFolders'
            /\ folders'[i].parent = folders'[f].parent /\ folders'[i].name = folders'[f].name
        BY <2>2, <2>4 DEF Twins
      <4> HIDE DEF i
      <4>2. /\ i \in Shelf!LiveFolders \ {f}
            /\ folders[i].parent = row.parent /\ folders[i].name = row.name
        BY <4>1, <1>4, <1>6
      <4>3. QED
        BY <4>2
    <3>2. row.parent = Nothing /\ r.by \cap Shelf!Op # {}
      BY <3>1, <2>1, <1>1
    <3>3. folders'[g].parent = Nothing
      BY <2>2, <2>4, <3>2, <1>4 DEF Twins
    <3>4. f \in {g, h} /\ r.op \in {"create", "move", "rename"}
      BY <2>4
    <3>5. QED
      BY <3>2, <3>3, <3>4, <1>11
  <2>5. QED
    BY <2>3, <2>4
<1>17. QED
  BY <1>9, <1>10, <1>13, <1>14, <1>15, <1>16 DEF TreeIsSound

\* An entry that is unfiled, deleted or used has a later version.
LEMMA EntryUnfiled ==
  ASSUME NEW e \in EntryRow, NEW p
  PROVE  [e EXCEPT !.folder = p, !.version = @ + 1]
           = [state |-> e.state, folder |-> p, name |-> e.name, uses |-> e.uses,
              version |-> e.version + 1]
<1> DEFINE q == [e EXCEPT !.folder = p]
<1>1. q = [state |-> e.state, folder |-> p, name |-> e.name, uses |-> e.uses,
           version |-> e.version]
  BY DEF EntryRow
<1> HIDE DEF q
<1>2. [q EXCEPT !.version = @ + 1]
        = [state |-> e.state, folder |-> p, name |-> e.name, uses |-> e.uses,
           version |-> e.version + 1]
  BY <1>1
<1>3. QED
  BY <1>2, Zenon DEF q

LEMMA EntryDeleted ==
  ASSUME NEW e \in EntryRow, NEW s
  PROVE  [e EXCEPT !.state = s, !.version = @ + 1]
           = [state |-> s, folder |-> e.folder, name |-> e.name, uses |-> e.uses,
              version |-> e.version + 1]
<1> DEFINE q == [e EXCEPT !.state = s]
<1>1. q = [state |-> s, folder |-> e.folder, name |-> e.name, uses |-> e.uses,
           version |-> e.version]
  BY DEF EntryRow
<1> HIDE DEF q
<1>2. [q EXCEPT !.version = @ + 1]
        = [state |-> s, folder |-> e.folder, name |-> e.name, uses |-> e.uses,
           version |-> e.version + 1]
  BY <1>1
<1>3. QED
  BY <1>2, Zenon DEF q

LEMMA EntryUsed ==
  ASSUME NEW e \in EntryRow
  PROVE  [e EXCEPT !.uses = @ + 1, !.version = @ + 1]
           = [state |-> e.state, folder |-> e.folder, name |-> e.name, uses |-> e.uses + 1,
              version |-> e.version + 1]
<1> DEFINE q == [e EXCEPT !.uses = @ + 1]
<1>1. q = [state |-> e.state, folder |-> e.folder, name |-> e.name, uses |-> e.uses + 1,
           version |-> e.version]
  BY DEF EntryRow
<1> HIDE DEF q
<1>2. [q EXCEPT !.version = @ + 1]
        = [state |-> e.state, folder |-> e.folder, name |-> e.name, uses |-> e.uses + 1,
           version |-> e.version + 1]
  BY <1>1
<1>3. QED
  BY <1>2, Zenon DEF q

LEMMA EntryEdited ==
  ASSUME NEW e \in EntryRow, NEW p, NEW n
  PROVE  [e EXCEPT !.folder = p, !.name = n, !.version = @ + 1]
           = [state |-> e.state, folder |-> p, name |-> n, uses |-> e.uses,
              version |-> e.version + 1]
<1> DEFINE q == [e EXCEPT !.folder = p]
           k == [q EXCEPT !.name = n]
<1>1. q = [state |-> e.state, folder |-> p, name |-> e.name, uses |-> e.uses,
           version |-> e.version]
  BY DEF EntryRow
<1> HIDE DEF q
<1>2. k = [state |-> e.state, folder |-> p, name |-> n, uses |-> e.uses, version |-> e.version]
  BY <1>1
<1> HIDE DEF k
<1>3. [k EXCEPT !.version = @ + 1]
        = [state |-> e.state, folder |-> p, name |-> n, uses |-> e.uses,
           version |-> e.version + 1]
  BY <1>2
<1>4. QED
  BY <1>3, Zenon DEF q, k

\* The entries, when those of F are unfiled.
Unfiled(F) == [m \in Film |-> IF m \in F THEN [entries[m] EXCEPT !.folder = Nothing, !.version = @ + 1]
                                        ELSE entries[m]]

LEMMA FolderDeleted ==
  ASSUME LibraryInv, NEW c \in Client, calls[c].op = "delete",
         calls[c].on \in Shelf!LiveFolders,
         folders' = [folders EXCEPT ![calls[c].on].state = "deleted"],
         entries' = Unfiled(calls[c].freed), Shelf!Commits(c, calls[c].on)
  PROVE  LibraryInv'
<1> DEFINE r == calls[c]
           f == calls[c].on
<1> USE DEF LibraryInv
<1>1. /\ r \in [op : {"delete"}, on : Item, freed : SUBSET Film, by : SUBSET Shelf!Op]
      /\ r # Shelf!Closed
  BY CallShape DEF LibraryTyped, Shelf!Closed
<1>2. /\ folders' \in [Item -> FolderRow] /\ f \in Item
      /\ folders'[f].state = "deleted"
      /\ \A g \in Item : /\ folders'[g].parent = folders[g].parent
                         /\ folders'[g].name = folders[g].name
                         /\ g # f => folders'[g] = folders[g]
  BY <1>1 DEF LibraryTyped, FolderRow, Shelf!State
<1>3. /\ Shelf!LiveFolders' = Shelf!LiveFolders \ {f} /\ Known' = Known
      /\ Shelf!Places' = Shelf!Places \ {f}
  BY <1>2, StudioAssumption DEF Shelf!LiveFolders, Known, Shelf!Places
<1>4. ASSUME NEW m \in Film
      PROVE  /\ entries'[m] \in EntryRow
             /\ IF m \in r.freed
                  THEN /\ entries'[m].folder = Nothing /\ entries'[m].state = entries[m].state
                       /\ entries'[m].version = entries[m].version + 1
                  ELSE entries'[m] = entries[m]
  <2>1. entries[m] \in EntryRow
    BY DEF LibraryTyped
  <2>2. CASE m \in r.freed
    <3>1. entries'[m] = [entries[m] EXCEPT !.folder = Nothing, !.version = @ + 1]
      BY <2>2, Zenon DEF Unfiled
    <3>2. entries'[m] = [state |-> entries[m].state, folder |-> Nothing, name |-> entries[m].name,
                         uses |-> entries[m].uses, version |-> entries[m].version + 1]
      BY <2>1, <3>1, EntryUnfiled, Zenon
    <3>3. QED
      BY <2>1, <2>2, <3>2 DEF EntryRow
  <2>3. CASE m \notin r.freed
    BY <2>1, <2>3, Zenon DEF Unfiled
  <2>4. QED
    BY <2>2, <2>3
<1>5. entries' \in [Film -> EntryRow]
  <2>1. entries' = [m \in Film |-> entries'[m]]
    BY Zenon DEF Unfiled
  <2>2. QED
    BY <1>4, <2>1
<1>6. CommitsAs("delete")
  <2>1. races \subseteq races'
    BY <1>1, CommitsFields
  <2>2. \A g \in Item : folders[g].state = "deleted" => folders'[g].state = "deleted"
    BY <1>2
  <2>3. \A m \in Film : entries[m].state # "absent" =>
          /\ entries'[m].state # "absent"
          /\ entries'[m] = entries[m] \/ entries'[m].version = entries[m].version + 1
    BY <1>4
  <2>4. \A g \in Known \cup Shelf!LiveFolders : g \in Item
    BY DEF Known, Shelf!LiveFolders
  <2>5. \A m \in Film : entries'[m].state = "live" /\ entries'[m].folder # Nothing =>
                           entries[m].state = "live" /\ entries[m].folder = entries'[m].folder
    BY <1>4
  <2>6. QED
    BY <1>2, <1>3, <2>1, <2>2, <2>3, <2>4, <2>5 DEF CommitsAs
<1>7. LibraryTyped' /\ \A d \in Client : RequestStands(calls[d])'
  BY <1>1, <1>2, <1>5, <1>6, CommitStands, CommitsFields DEF LibraryTyped, FolderRow
<1>8. ParentsKnown'
  BY <1>2, <1>3 DEF ParentsKnown, Known
<1>9. ASSUME NEW ops, NEW by, NEW ons,
             \/ Shelf!Overtaken(ops, by, ons)
             \/ r.op \in ops /\ f \in ons /\ r.by \cap by # {}
      PROVE  Shelf!Overtaken(ops, by, ons)'
  BY <1>1, <1>9, RaceTold
<1>10. NoCycle /\ NoOrphan /\ NoStray /\ NoTwins
  BY DEF TreeIsSound
<1>11. NoCycle'
  <2>1. CASE MovesCrossed
    BY <2>1, <1>6, CrossedStays DEF CommitsAs, NoCycle
  <2>2. CASE Acyclic(Shelf!LiveFolders)
    <3>1. PICK D, E : D = Shelf!LiveFolders /\ E = Shelf!LiveFolders \ {f}
      OBVIOUS
    <3>2. Acyclic(E)'
      BY <2>2, <3>1, <1>2, AcyclicPart DEF Shelf!LiveFolders
    <3>3. QED
      BY <3>1, <3>2, <1>3 DEF NoCycle, Acyclic
  <2>3. QED
    BY <2>1, <2>2, <1>10 DEF NoCycle
<1>12. NoOrphan'
  <2>1. SUFFICES ASSUME NEW h \in Item, NEW g \in Item, Orphan(g, h)'
                 PROVE  \/ Shelf!Overtaken({"create", "move"}, {"delete"}, {g})'
                        \/ Shelf!Overtaken({"delete"}, {"create", "move"}, {h})'
    BY DEF NoOrphan
  <2>2. CASE h = f
    <3>1. g \in Shelf!Children(f)
      BY <2>1, <2>2, <1>2, <1>3 DEF Orphan, Shelf!Children
    <3>2. r.by \cap {"create", "move"} # {}
      BY <3>1 DEF RequestStands, DeletesEmpty
    <3>3. r.op \in {"delete"} /\ f \in {h}
      BY <2>2
    <3>4. QED
      BY <3>2, <3>3, <1>9
  <2>3. CASE h # f
    <3>1. Orphan(g, h)
      BY <2>1, <2>3, <1>2, <1>3 DEF Orphan
    <3>2. \/ Shelf!Overtaken({"create", "move"}, {"delete"}, {g})
          \/ Shelf!Overtaken({"delete"}, {"create", "move"}, {h})
      BY <3>1, <1>10 DEF NoOrphan
    <3>3. QED
      BY <3>2, <1>9
  <2>4. QED
    BY <2>2, <2>3
<1>13. NoStray'
  <2>1. ASSUME NEW m \in Film, entries'[m].state = "live", entries'[m].folder \notin Shelf!Places'
        PROVE  \/ Shelf!Overtaken({"add", "edit"}, {"delete"}, {m})'
               \/ Shelf!Overtaken({"delete"}, {"add", "edit"}, {entries[m].folder})'
    <3>1. m \notin r.freed /\ entries'[m] = entries[m]
      BY <2>1, <1>3, <1>4, StudioAssumption DEF Shelf!Places
    <3>2. CASE entries[m].folder = f
      <4>1. m \in Shelf!FiledIn(f)
        BY <2>1, <3>1, <3>2 DEF Shelf!FiledIn
      <4>2. r.by \cap {"add", "edit"} # {} /\ r.op \in {"delete"} /\ f \in {entries'[m].folder}
        BY <3>1, <3>2, <4>1 DEF RequestStands, FreesAll
      <4>3. QED
        BY <4>2, <1>9
    <3>3. CASE entries[m].folder # f
      <4>1. \/ Shelf!Overtaken({"add", "edit"}, {"delete"}, {m})
            \/ Shelf!Overtaken({"delete"}, {"add", "edit"}, {entries'[m].folder})
        BY <2>1, <3>1, <3>3, <1>3, <1>10 DEF NoStray
      <4>2. QED
        BY <4>1, <1>9
    <3>4. QED
      BY <3>2, <3>3
  <2>2. QED
    BY <2>1 DEF NoStray
<1>14. NoTwins'
  <2>1. SUFFICES ASSUME NEW g \in Item, NEW h \in Item, Twins(g, h)'
                 PROVE  /\ folders'[g].parent = Nothing
                        /\ Shelf!Overtaken({"create", "move", "rename"}, Shelf!Op, {g, h})'
    BY DEF NoTwins
  <2>2. Twins(g, h)
    BY <2>1, <1>2, <1>3 DEF Twins
  <2>3. /\ folders[g].parent = Nothing
        /\ Shelf!Overtaken({"create", "move", "rename"}, Shelf!Op, {g, h})
    BY <2>2, <1>10 DEF NoTwins
  <2>4. QED
    BY <2>3, <1>2, <1>9
<1>15. QED
  BY <1>7, <1>8, <1>11, <1>12, <1>13, <1>14 DEF TreeIsSound
-----------------------------------------------------------------------------
(***************************************************************************)
(* Entries: the folders stay as they are                                   *)
(***************************************************************************)
\* An entry may come to lie in a deleted folder only by a race on it.
LEMMA EntryWritten ==
  ASSUME LibraryInv, NEW m \in Film, UNCHANGED folders, races \subseteq races',
         entries' \in [Film -> EntryRow], media' \subseteq Film,
         \A n \in Film \ {m} : entries'[n] = entries[n],
         entries[m].state # "absent" =>
           /\ entries'[m].state # "absent"
           /\ entries'[m] = entries[m] \/ entries'[m].version = entries[m].version + 1,
         \/ entries'[m].state # "live"
         \/ entries'[m].folder \in Shelf!Places
         \/ entries[m].state = "live" /\ entries'[m].folder = entries[m].folder
         \/ Shelf!Overtaken({"add", "edit"}, {"delete"}, {m})'
         \/ Shelf!Overtaken({"delete"}, {"add", "edit"}, {entries[m].folder})'
  PROVE  /\ ParentsKnown' /\ TreeIsSound'
         /\ \A o \in {"add", "edit"} : CommitsAs(o)
         /\ \/ entries'[m].state # "live"
            \/ entries[m].state = "live" /\ entries'[m].folder = entries[m].folder
            => CommitsAs("none")
<1> USE DEF LibraryInv
<1>1. Shelf!LiveFolders' = Shelf!LiveFolders /\ Known' = Known /\ Shelf!Places' = Shelf!Places
  BY DEF Shelf!LiveFolders, Known, Shelf!Places
<1>2. ParentsKnown'
  BY <1>1 DEF ParentsKnown
<1>3. ASSUME NEW ops, NEW by, NEW ons, Shelf!Overtaken(ops, by, ons)
      PROVE  Shelf!Overtaken(ops, by, ons)'
  BY <1>3, OvertakenStays DEF Shelf!Overtaken
<1>4. NoCycle /\ NoOrphan /\ NoStray /\ NoTwins
  BY DEF TreeIsSound
<1>5. NoCycle'
  BY <1>1, <1>4, CrossedStays DEF NoCycle, Acyclic
<1>6. NoOrphan'
  <2>1. ASSUME NEW h \in Item, NEW g \in Item, Orphan(g, h)'
        PROVE  \/ Shelf!Overtaken({"create", "move"}, {"delete"}, {g})'
               \/ Shelf!Overtaken({"delete"}, {"create", "move"}, {h})'
    <3>1. Orphan(g, h)
      BY <2>1, <1>1 DEF Orphan
    <3>2. QED
      BY <3>1, <1>3, <1>4 DEF NoOrphan
  <2>2. QED
    BY <2>1 DEF NoOrphan
<1>7. NoStray'
  <2>1. ASSUME NEW n \in Film, entries'[n].state = "live", entries'[n].folder \notin Shelf!Places'
        PROVE  \/ Shelf!Overtaken({"add", "edit"}, {"delete"}, {n})'
               \/ Shelf!Overtaken({"delete"}, {"add", "edit"}, {entries[n].folder})'
    <3>1. CASE entries[n].state = "live" /\ entries[n].folder = entries'[n].folder
      BY <2>1, <3>1, <1>1, <1>3, <1>4 DEF NoStray
    <3>2. CASE n = m /\ ~(entries[n].state = "live" /\ entries[n].folder = entries'[n].folder)
      BY <2>1, <3>2, <1>1
    <3>3. QED
      BY <2>1, <3>1, <3>2
  <2>2. QED
    BY <2>1 DEF NoStray
<1>8. NoTwins'
  <2>1. ASSUME NEW g \in Item, NEW h \in Item, Twins(g, h)'
        PROVE  /\ folders'[g].parent = Nothing
               /\ Shelf!Overtaken({"create", "move", "rename"}, Shelf!Op, {g, h})'
    <3>1. Twins(g, h)
      BY <2>1, <1>1 DEF Twins
    <3>2. QED
      BY <3>1, <1>3, <1>4 DEF NoTwins
  <2>2. QED
    BY <2>1 DEF NoTwins
<1>9. /\ \A o \in {"add", "edit"} : CommitsAs(o)
      /\ \/ entries'[m].state # "live"
         \/ entries[m].state = "live" /\ entries'[m].folder = entries[m].folder
         => CommitsAs("none")
  BY <1>1 DEF CommitsAs
<1>10. QED
  BY <1>2, <1>5, <1>6, <1>7, <1>8, <1>9 DEF TreeIsSound

LEMMA AssetAdded ==
  ASSUME LibraryInv, NEW c \in Client, Shelf!AddAsset(c), entries[calls[c].on].state = "absent"
  PROVE  LibraryInv'
<1>0. PICK r, m : r = calls[c] /\ m = calls[c].on
  OBVIOUS
<1>1. /\ r.op = "add" /\ Shelf!Commits(c, m) /\ UNCHANGED folders
      /\ entries' = [entries EXCEPT ![m] = [state |-> "live", folder |-> r.folder,
                                            name |-> r.name, uses |-> 0, version |-> 1]]
  BY <1>0 DEF Shelf!AddAsset
<1>2. /\ r \in [op : {"add"}, on : Film, folder : Item \cup {Nothing}, name : Title,
               by : SUBSET Shelf!Op]
      /\ r # Shelf!Closed /\ LibraryTyped
  BY <1>0, <1>1, CallShape DEF LibraryInv, LibraryTyped, Shelf!Closed
<1>3. /\ entries' \in [Film -> EntryRow] /\ entries'[m].folder = r.folder
      /\ \A n \in Film \ {m} : entries'[n] = entries[n]
  BY <1>0, <1>1, <1>2 DEF LibraryTyped, EntryRow, Shelf!State
<1>4. \/ r.folder \in Shelf!Places
      \/ Shelf!Overtaken({"add", "edit"}, {"delete"}, {m})'
  <2>1. Stands(r, r.folder)
    BY <1>0, <1>1 DEF LibraryInv, RequestStands, FilesInPlace
  <2>2. ASSUME NEW ops, NEW by, NEW ons, r.op \in ops /\ m \in ons /\ r.by \cap by # {}
        PROVE  Shelf!Overtaken(ops, by, ons)'
    BY <1>0, <1>1, <1>2, <2>2, RaceTold
  <2>3. CASE "delete" \in r.by
    <3>1. r.op \in {"add", "edit"} /\ m \in {m} /\ r.by \cap {"delete"} # {}
      BY <1>1, <2>3
    <3>2. QED
      BY <3>1, <2>2
  <2>4. QED
    BY <2>1, <2>3 DEF Stands
<1>5. /\ m \in Film /\ races \subseteq races' /\ media' \subseteq Film
      /\ calls' \in [Client -> LibraryRequest]
  BY <1>0, <1>1, <1>2, CommitsFields DEF LibraryTyped
<1>6. ParentsKnown' /\ TreeIsSound' /\ CommitsAs("add")
  <2>1. entries[m].state = "absent"
    BY <1>0
  <2>2. QED
    BY <1>1, <1>3, <1>4, <1>5, <2>1, EntryWritten
<1>7. \A d \in Client : RequestStands(calls[d])'
  BY <1>0, <1>1, <1>2, <1>6, CommitStands
<1>8. QED
  BY <1>1, <1>2, <1>3, <1>5, <1>6, <1>7 DEF LibraryInv, LibraryTyped

LEMMA AssetEdited ==
  ASSUME LibraryInv, NEW c \in Client, Shelf!UpdateAsset(c), Shelf!MayEdit(calls[c])
  PROVE  LibraryInv' /\ entries[calls[c].on] = calls[c].saw
<1>0. PICK r, m : r = calls[c] /\ m = calls[c].on
  OBVIOUS
<1>1. /\ r.op = "edit" /\ Shelf!Commits(c, m) /\ UNCHANGED folders
      /\ entries' = [entries EXCEPT ![m].folder = r.folder, ![m].name = r.name,
                                    ![m].version = @ + 1]
  BY <1>0, Zenon DEF Shelf!UpdateAsset
<1>2. /\ r \in [op : {"edit"}, on : Film, folder : Item \cup {Nothing}, name : Title,
               saw : EntryRow, by : SUBSET Shelf!Op]
      /\ r # Shelf!Closed /\ LibraryTyped
  BY <1>0, <1>1, CallShape DEF LibraryInv, LibraryTyped, Shelf!Closed
<1>3. entries[m] = r.saw
  BY <1>0, <1>1 DEF LibraryInv, RequestStands, SawEntry, Shelf!MayEdit
<1>4. /\ entries' \in [Film -> EntryRow] /\ entries'[m].folder = r.folder
      /\ entries'[m].state = entries[m].state /\ entries'[m].version = entries[m].version + 1
      /\ \A n \in Film \ {m} : entries'[n] = entries[n]
  <2> DEFINE row == [entries[m] EXCEPT !.folder = r.folder, !.name = r.name, !.version = @ + 1]
  <2>1. entries' = [entries EXCEPT ![m] = row]
    BY <1>1, <1>2 DEF LibraryTyped
  <2>2. entries[m] \in EntryRow /\ m \in Film
    BY <1>0, <1>2 DEF LibraryTyped
  <2>3. row = [state |-> entries[m].state, folder |-> r.folder, name |-> r.name,
               uses |-> entries[m].uses, version |-> entries[m].version + 1]
    BY <2>2, EntryEdited, Zenon
  <2>4. /\ row \in EntryRow /\ row.state = entries[m].state /\ row.folder = r.folder
        /\ row.version = entries[m].version + 1
    BY <1>2, <2>2, <2>3 DEF EntryRow
  <2> HIDE DEF row
  <2>5. QED
    BY <1>2, <2>1, <2>2, <2>4 DEF LibraryTyped
<1>5. /\ m \in Film /\ races \subseteq races' /\ media' \subseteq Film
      /\ calls' \in [Client -> LibraryRequest]
  BY <1>0, <1>1, <1>2, CommitsFields DEF LibraryTyped
<1>6. \/ r.folder \in Shelf!Places
      \/ Shelf!Overtaken({"add", "edit"}, {"delete"}, {m})'
      \/ Shelf!Overtaken({"delete"}, {"add", "edit"}, {entries[m].folder})'
  <2>1. \/ r.folder \in Shelf!Places \/ "delete" \in r.by
        \/ Shelf!Overtaken({"add", "edit"}, {"delete"}, {m})
        \/ Shelf!Overtaken({"delete"}, {"add", "edit"}, {r.folder})
    BY <1>0, <1>1 DEF LibraryInv, RequestStands, FilesInPlace
  <2>2. ASSUME NEW ops, NEW by, NEW ons,
               \/ Shelf!Overtaken(ops, by, ons)
               \/ r.op \in ops /\ m \in ons /\ r.by \cap by # {}
        PROVE  Shelf!Overtaken(ops, by, ons)'
    BY <1>0, <1>1, <1>2, <2>2, RaceTold
  <2>3. CASE "delete" \in r.by
    <3>1. r.op \in {"add", "edit"} /\ m \in {m} /\ r.by \cap {"delete"} # {}
      BY <1>1, <2>3
    <3>2. QED
      BY <3>1, <2>2
  <2>4. CASE Shelf!Overtaken({"add", "edit"}, {"delete"}, {m})
    BY <2>4, <2>2
  <2>5. CASE Shelf!Overtaken({"delete"}, {"add", "edit"}, {r.folder})
    <3>1. PICK p : p = entries'[m].folder
      OBVIOUS
    <3>2. Shelf!Overtaken({"delete"}, {"add", "edit"}, {p})
      BY <2>5, <3>1, <1>4
    <3>3. \E x \in races' : x.op \in {"delete"} /\ x.by \in {"add", "edit"} /\ x.on \in {p}
      BY <3>2, <1>5, OvertakenStays
    <3>4. QED
      BY <3>1, <3>3 DEF Shelf!Overtaken
  <2>6. QED
    BY <2>1, <2>3, <2>4, <2>5
<1>7. ParentsKnown' /\ TreeIsSound' /\ CommitsAs("edit")
  <2>1. entries[m].state = "live"
    BY <1>0 DEF Shelf!MayEdit
  <2>2. QED
    BY <1>1, <1>4, <1>5, <1>6, <2>1, EntryWritten
<1>8. \A d \in Client : RequestStands(calls[d])'
  BY <1>0, <1>1, <1>2, <1>7, CommitStands
<1>9. QED
  BY <1>0, <1>1, <1>2, <1>3, <1>4, <1>5, <1>7, <1>8 DEF LibraryInv, LibraryTyped

\* A statement of its own on an entry: nobody is told, but the version is a later one.
LEMMA EntryTouched ==
  ASSUME LibraryInv, NEW m \in Film, Shelf!DeleteAsset(m) \/ Shelf!RecordUse(m)
  PROVE  LibraryInv'
<1> DEFINE e == entries[m]
           gone == [e EXCEPT !.state = "deleted", !.version = @ + 1]
           used == [e EXCEPT !.uses = @ + 1, !.version = @ + 1]
<1>1. LibraryTyped /\ e \in EntryRow
  BY DEF LibraryInv, LibraryTyped
<1>2. /\ e.state = "live" /\ UNCHANGED <<folders, media, calls, races>>
      /\ \/ entries' = [entries EXCEPT ![m] = gone]
         \/ entries' = [entries EXCEPT ![m] = used]
  <2>1. CASE Shelf!DeleteAsset(m)
    BY <2>1, <1>1 DEF Shelf!DeleteAsset, LibraryTyped
  <2>2. CASE Shelf!RecordUse(m)
    BY <2>2, <1>1 DEF Shelf!RecordUse, Shelf!Listed, LibraryTyped
  <2>3. QED
    BY <2>1, <2>2
<1>3. /\ gone \in EntryRow /\ gone.state = "deleted" /\ gone.version = e.version + 1
  <2>1. gone = [state |-> "deleted", folder |-> e.folder, name |-> e.name, uses |-> e.uses,
                version |-> e.version + 1]
    BY <1>1, EntryDeleted, Zenon
  <2>2. QED
    BY <1>1, <2>1 DEF EntryRow, Shelf!State
<1>4. /\ used \in EntryRow /\ used.state = e.state /\ used.version = e.version + 1
      /\ used.folder = e.folder
  <2>1. used = [state |-> e.state, folder |-> e.folder, name |-> e.name, uses |-> e.uses + 1,
                version |-> e.version + 1]
    BY <1>1, EntryUsed, Zenon
  <2>2. QED
    BY <1>1, <2>1 DEF EntryRow
<1> HIDE DEF gone, used
<1>5. /\ entries' \in [Film -> EntryRow] /\ media' \subseteq Film /\ races \subseteq races'
      /\ \A n \in Film \ {m} : entries'[n] = entries[n]
      /\ entries'[m].version = e.version + 1 /\ entries'[m].state # "absent"
      /\ \/ entries'[m].state # "live"
         \/ e.state = "live" /\ entries'[m].folder = e.folder
  BY <1>1, <1>2, <1>3, <1>4 DEF LibraryTyped
<1>6. ParentsKnown' /\ TreeIsSound' /\ CommitsAs("none")
  BY <1>2, <1>5, EntryWritten
<1>7. ASSUME NEW d \in Client
      PROVE  RequestStands(calls[d])'
  <2>1. RequestStands(calls[d]) /\ calls'[d] = calls[d]
    BY <1>2 DEF LibraryInv
  <2>2. /\ Shelf!LiveFolders' = Shelf!LiveFolders /\ Known' = Known
        /\ Shelf!Places' = Shelf!Places
    BY <1>2 DEF Shelf!LiveFolders, Known, Shelf!Places
  <2>3. PICK r : r = calls[d]
    OBVIOUS
  <2>4. calls'[d] = r /\ RequestStands(r) /\ UNCHANGED <<folders, races>>
    BY <1>2, <2>1, <2>3
  <2>5. CreatesInPlace(calls[d])'
    BY <2>2, <2>4 DEF RequestStands, CreatesInPlace, Stands, Shelf!Taken, Shelf!Children
  <2>6. UpdatesInPlace(calls[d])'
    BY <2>2, <2>4 DEF RequestStands, UpdatesInPlace, Stands, Shelf!Taken, Shelf!Children
  <2>7. DeletesEmpty(calls[d])'
    BY <2>2, <2>4 DEF RequestStands, DeletesEmpty, Shelf!Children
  <2>8. FilesInPlace(calls[d])'
    BY <2>2, <2>4 DEF RequestStands, FilesInPlace, Stands, Shelf!Overtaken
  <2>9. WalksUp(calls[d])'
    BY <2>2, <2>4 DEF RequestStands, WalksUp, Passed, Acyclic, MovesCrossed, Shelf!Overtaken
  <2>10. SawEntry(calls[d])'
    <3>1. CASE calls[d].op = "edit"
      BY <1>1, <1>6, <2>1, <3>1, SawStays DEF RequestStands
    <3>2. CASE calls[d].op # "edit"
      BY <2>1, <3>2 DEF SawEntry
    <3>3. QED
      BY <3>1, <3>2
  <2>11. FreesAll(calls[d])'
    <3>1. r \in LibraryRequest
      BY <1>1, <2>3 DEF LibraryTyped
    <3>2. r.op = "delete" => r.on \in Item
      BY <3>1, CallShape
    <3>3. \A n \in Film : entries'[n].state = "live" /\ entries'[n].folder # Nothing =>
                             entries[n].state = "live" /\ entries[n].folder = entries'[n].folder
      BY <1>6 DEF CommitsAs
    <3>4. FreesAll(r)
      BY <2>4 DEF RequestStands
    <3>5. QED
      BY <2>4, <3>2, <3>3, <3>4, StudioAssumption DEF FreesAll, Shelf!FiledIn
  <2>12. QED
    BY <2>5, <2>6, <2>7, <2>8, <2>9, <2>10, <2>11 DEF RequestStands
<1>8. QED
  BY <1>1, <1>2, <1>5, <1>6, <1>7 DEF LibraryInv, LibraryTyped

\* The library goes on when media assets are deleted, or nothing of it changes.
LEMMA LibraryKept ==
  ASSUME LibraryInv, UNCHANGED <<folders, entries, calls, races>>, media' \subseteq media
  PROVE  LibraryInv'
<1>1. LibraryTyped' /\ ParentsKnown'
  BY DEF LibraryInv, LibraryTyped, ParentsKnown, Known
<1>2. ASSUME NEW d \in Client
      PROVE  RequestStands(calls[d])'
  <2>1. PICK q : q = calls[d]
    OBVIOUS
  <2>2. calls'[d] = q /\ RequestStands(q)
    BY <2>1 DEF LibraryInv
  <2>3. QED
    BY <2>2, StandsStill
<1>3. TreeIsSound'
  BY DEF LibraryInv, TreeIsSound, NoCycle, Acyclic, MovesCrossed, NoOrphan, Orphan, NoStray,
         NoTwins, Twins, Shelf!LiveFolders, Shelf!Places, Shelf!Overtaken
<1>4. QED
  BY <1>1, <1>2, <1>3 DEF LibraryInv
-----------------------------------------------------------------------------
(***************************************************************************)
(* Requests open, look and are refused                                     *)
(***************************************************************************)
LEMMA ClosedStands == Shelf!Closed \in LibraryRequest /\ RequestStands(Shelf!Closed)
BY DEF LibraryRequest, RequestStands, CreatesInPlace, UpdatesInPlace, DeletesEmpty, FreesAll, FilesInPlace,
       SawEntry, WalksUp, Shelf!Closed

LEMMA CallRefused ==
  ASSUME LibraryInv, NEW c \in Client, Shelf!Refused(c)
  PROVE  LibraryInv'
<1>1. calls' = [calls EXCEPT ![c] = Shelf!Closed] /\ UNCHANGED <<folders, races, entries, media>>
  BY DEF Shelf!Refused, Shelf!Learns
<1>2. QED
  BY <1>1, ClosedStands, CallGoesOn

LEMMA CallOpens ==
  ASSUME LibraryInv, NEW c \in Client, NEW r \in LibraryRequest, RequestStands(r),
         Shelf!Opens(c, r)
  PROVE  LibraryInv'
<1>1. calls' = [calls EXCEPT ![c] = r] /\ UNCHANGED <<folders, races, entries, media>>
  BY DEF Shelf!Opens
<1>2. QED
  BY <1>1, CallGoesOn

LEMMA CallLearns ==
  ASSUME LibraryInv, NEW c \in Client, NEW r \in LibraryRequest, RequestStands(r),
         Shelf!Learns(c, r)
  PROVE  LibraryInv'
<1>1. calls' = [calls EXCEPT ![c] = r] /\ UNCHANGED <<folders, races, entries, media>>
  BY DEF Shelf!Learns
<1>2. QED
  BY <1>1, CallGoesOn

LEMMA CreateOpens ==
  ASSUME LibraryInv, NEW c \in Client, NEW p \in Item \cup {Nothing}, NEW n \in Title,
         Shelf!BeginCreate(c, p, n)
  PROVE  LibraryInv'
<1> DEFINE r == [op |-> "create", parent |-> p, name |-> n, by |-> {}]
<1>1. r \in LibraryRequest
  BY DEF LibraryRequest
<1>2. CreatesInPlace(r)
  BY KnownLive DEF Shelf!BeginCreate, CreatesInPlace, Stands, Shelf!Places
<1>3. RequestStands(r)
  BY <1>2 DEF RequestStands, UpdatesInPlace, DeletesEmpty, FreesAll, FilesInPlace, SawEntry, WalksUp
<1>4. Shelf!Opens(c, r)
  BY DEF Shelf!BeginCreate
<1>5. QED
  BY <1>1, <1>3, <1>4, CallOpens

LEMMA UpdateOpens ==
  ASSUME LibraryInv, NEW c \in Client, NEW f \in Item, NEW p \in Item \cup {Nothing},
         NEW n \in Title, Shelf!BeginUpdate(c, f, p, n)
  PROVE  LibraryInv'
<1> DEFINE was == folders[f]
           r == [op |-> IF p = was.parent THEN "rename" ELSE "move", on |-> f,
                 parent |-> p, name |-> n, renames |-> n # was.name, phase |-> "walk",
                 at |-> IF p = was.parent THEN Nothing ELSE p, steps |-> 0, by |-> {}]
<1>1. r \in LibraryRequest
  BY DEF LibraryRequest
<1>2. f \in Shelf!LiveFolders /\ Shelf!Opens(c, r)
  BY DEF Shelf!BeginUpdate
<1>3. UpdatesInPlace(r)
  BY <1>2, KnownLive DEF UpdatesInPlace
<1>4. WalksUp(r)
  <2>1. SUFFICES ASSUME r.op = "move", ~MovesCrossed
                 PROVE  \E D \in SUBSET Item : \E W \in SUBSET D : Passed(r, D, W)
    BY DEF WalksUp
  <2>2. Acyclic(Shelf!LiveFolders)
    BY <2>1 DEF LibraryInv, TreeIsSound, NoCycle
  <2>3. Passed(r, Shelf!LiveFolders, {})
    BY <2>1, <2>2, KnownLive, FS_EmptySet DEF Passed
  <2>4. Shelf!LiveFolders \in SUBSET Item
    BY DEF Shelf!LiveFolders
  <2>5. QED
    BY <2>3, <2>4
<1>5. RequestStands(r)
  BY <1>3, <1>4 DEF RequestStands, CreatesInPlace, DeletesEmpty, FreesAll, FilesInPlace, SawEntry
<1>6. QED
  BY <1>1, <1>2, <1>5, CallOpens

LEMMA DeleteOpens ==
  ASSUME LibraryInv, NEW c \in Client, NEW f \in Item, Shelf!BeginDelete(c, f)
  PROVE  LibraryInv'
<1> DEFINE r == [op |-> "detach", on |-> f, by |-> {}]
<1>1. r \in LibraryRequest
  BY DEF LibraryRequest
<1>2. Shelf!Children(f) = {} /\ Shelf!Opens(c, r)
  BY DEF Shelf!BeginDelete, Shelf!MayDelete
<1>3. RequestStands(r)
  BY <1>2 DEF RequestStands, CreatesInPlace, UpdatesInPlace, DeletesEmpty, FreesAll, FilesInPlace,
              SawEntry, WalksUp
<1>4. QED
  BY <1>1, <1>2, <1>3, CallOpens

\* The entries that are in the folder are detached, and what was filed before is among them.
LEMMA FolderDetached ==
  ASSUME LibraryInv, NEW c \in Client, Shelf!Detach(c)
  PROVE  LibraryInv'
<1>0. PICK q : q = calls[c]
  OBVIOUS
<1> DEFINE r == [op |-> "delete", on |-> q.on, freed |-> Shelf!FiledIn(q.on),
                 by |-> q.by \ {"add", "edit"}]
<1>1. q.op = "detach" /\ Shelf!Learns(c, r)
  BY <1>0 DEF Shelf!Detach
<1>2. q \in [op : {"detach"}, on : Item, by : SUBSET Shelf!Op]
  BY <1>0, <1>1, CallShape DEF LibraryInv, LibraryTyped
<1>3. r \in LibraryRequest
  BY <1>2 DEF LibraryRequest, Shelf!FiledIn
<1>4. DeletesEmpty(r)
  <2>1. Shelf!Children(q.on) = {} \/ q.by \cap {"create", "move"} # {}
    BY <1>0, <1>1 DEF LibraryInv, RequestStands, DeletesEmpty
  <2>2. q.by \cap {"create", "move"} # {} => r.by \cap {"create", "move"} # {}
    OBVIOUS
  <2>3. QED
    BY <2>1, <2>2 DEF DeletesEmpty
<1>5. RequestStands(r)
  BY <1>4 DEF RequestStands, CreatesInPlace, UpdatesInPlace, FreesAll, FilesInPlace, SawEntry,
              WalksUp
<1>6. QED
  BY <1>1, <1>3, <1>5, CallLearns

LEMMA AddOpens ==
  ASSUME LibraryInv, NEW c \in Client, NEW m \in Film, NEW p \in Item \cup {Nothing},
         NEW n \in Title, Shelf!BeginAdd(c, m, p, n)
  PROVE  LibraryInv'
<1> DEFINE r == [op |-> "add", on |-> m, folder |-> p, name |-> n, by |-> {}]
<1>1. r \in LibraryRequest
  BY DEF LibraryRequest
<1>2. p \in Shelf!Places /\ Shelf!Opens(c, r)
  BY DEF Shelf!BeginAdd
<1>3. FilesInPlace(r)
  BY <1>2, KnownLive DEF FilesInPlace, Stands, Shelf!Places
<1>4. RequestStands(r)
  BY <1>3 DEF RequestStands, CreatesInPlace, UpdatesInPlace, DeletesEmpty, FreesAll, SawEntry, WalksUp
<1>5. QED
  BY <1>1, <1>2, <1>4, CallOpens

LEMMA EditOpens ==
  ASSUME LibraryInv, NEW c \in Client, NEW m \in Film, NEW p \in Item \cup {Nothing},
         NEW n \in Title, Shelf!BeginEdit(c, m, p, n)
  PROVE  LibraryInv'
<1> DEFINE r == [op |-> "edit", on |-> m, folder |-> p, name |-> n, saw |-> entries[m],
                 by |-> {}]
<1>1. entries[m] \in EntryRow
  BY DEF LibraryInv, LibraryTyped
<1>2. r \in LibraryRequest
  BY <1>1 DEF LibraryRequest
<1>3. /\ entries[m].state = "live" /\ Shelf!Opens(c, r)
      /\ p \in Shelf!Places \/ p = entries[m].folder
  BY DEF Shelf!BeginEdit, Shelf!Listed
<1>4. FilesInPlace(r)
  <2>1. NoStray
    BY DEF LibraryInv, TreeIsSound
  <2>2. QED
    BY <1>3, <2>1 DEF FilesInPlace, NoStray
<1>5. SawEntry(r)
  BY <1>1, <1>3 DEF SawEntry, EntryRow
<1>6. RequestStands(r)
  BY <1>4, <1>5 DEF RequestStands, CreatesInPlace, UpdatesInPlace, DeletesEmpty, FreesAll, WalksUp
<1>7. QED
  BY <1>2, <1>3, <1>6, CallOpens

\* An update that has looked further.
LEMMA LookedFields ==
  ASSUME NEW r \in [op : {"move", "rename"}, on : Item, parent : Item \cup {Nothing},
                    name : Title, renames : BOOLEAN, phase : {"walk", "write"},
                    at : Item \cup {Nothing}, steps : Nat, by : SUBSET Shelf!Op],
         NEW q, NEW phase \in {"walk", "write"}, NEW at \in Item \cup {Nothing},
         NEW steps \in Nat,
         q = [op |-> r.op, on |-> r.on, parent |-> r.parent, name |-> r.name,
              renames |-> r.renames, phase |-> phase, at |-> at, steps |-> steps, by |-> r.by]
  PROVE  /\ q \in LibraryRequest
         /\ UpdatesInPlace(q) /\ WalksUp(q) => RequestStands(q)
<1>1. q \in LibraryRequest
  BY DEF LibraryRequest
<1>2. q.op \in {"move", "rename"}
  OBVIOUS
<1>3. QED
  BY <1>1, <1>2 DEF RequestStands, CreatesInPlace, DeletesEmpty, FreesAll, FilesInPlace, SawEntry

\* One step up the ancestors of the new parent.
LEMMA WalkGoesOn ==
  ASSUME LibraryInv, NEW c \in Client, Shelf!Walk(c)
  PROVE  LibraryInv'
<1>0. PICK r : r = calls[c]
  OBVIOUS
<1>1. /\ r.op \in {"move", "rename"} /\ r.phase = "walk" /\ r.at # Nothing
      /\ LibraryTyped /\ ParentsKnown /\ RequestStands(r)
  BY <1>0 DEF Shelf!Walk, Shelf!WalkEnds, Shelf!FolderOp, LibraryInv
<1>2. r \in [op : {"move", "rename"}, on : Item, parent : Item \cup {Nothing}, name : Title,
             renames : BOOLEAN, phase : {"walk", "write"}, at : Item \cup {Nothing},
             steps : Nat, by : SUBSET Shelf!Op]
  BY <1>0, <1>1, CallShape DEF LibraryTyped
<1>3. /\ r.on \in Known
      /\ r.by = {} => /\ r.op = "rename" => r.parent = folders[r.on].parent
                      /\ ~r.renames => r.name = folders[r.on].name
      /\ r.op = "move" => IF r.steps = 0 THEN r.at = r.parent ELSE Stands(r, r.parent)
  BY <1>1 DEF RequestStands, UpdatesInPlace
<1>4. CASE Shelf!Refused(c)
  BY <1>4, CallRefused
<1>5. ASSUME r.at # r.on, r.at \in Shelf!LiveFolders,
             Shelf!Learns(c, [r EXCEPT !.at = folders[r.at].parent, !.steps = @ + 1])
      PROVE  LibraryInv'
  <2>1. folders[r.at].parent \in Item \cup {Nothing} /\ r.at \in Item
    BY <1>1, <1>2 DEF LibraryTyped
  <2>2. PICK q : q = [op |-> r.op, on |-> r.on, parent |-> r.parent, name |-> r.name,
                      renames |-> r.renames, phase |-> "walk", at |-> folders[r.at].parent,
                      steps |-> r.steps + 1, by |-> r.by]
    OBVIOUS
  <2>3. [r EXCEPT !.at = folders[r.at].parent, !.steps = @ + 1] = q
    <3> DEFINE p == folders[r.at].parent
               k == [r EXCEPT !.at = p]
    <3>1. k = [op |-> r.op, on |-> r.on, parent |-> r.parent, name |-> r.name,
               renames |-> r.renames, phase |-> r.phase, at |-> p, steps |-> r.steps,
               by |-> r.by]
      BY <1>2
    <3> HIDE DEF k
    <3>2. [k EXCEPT !.steps = @ + 1] = q
      BY <1>1, <2>2, <3>1
    <3>3. QED
      BY <3>2, Zenon DEF k
  <2>4. /\ q.op = r.op /\ q.on = r.on /\ q.parent = r.parent /\ q.name = r.name
        /\ q.renames = r.renames /\ q.phase = "walk" /\ q.at = folders[r.at].parent
        /\ q.steps = r.steps + 1 /\ q.by = r.by
    BY <2>2
  <2>5. UpdatesInPlace(q)
    <3>1. r.op = "move" => Stands(r, r.parent)
      BY <1>3, <1>5, KnownLive DEF Stands, Shelf!Places
    <3>2. r.steps + 1 # 0
      BY <1>2
    <3>3. QED
      BY <1>3, <2>4, <3>1, <3>2 DEF UpdatesInPlace, Stands
  <2>6. WalksUp(q)
    <3>1. SUFFICES ASSUME r.op = "move", "move" \notin r.by, ~MovesCrossed
                   PROVE  \E D \in SUBSET Item : \E W \in SUBSET D : Passed(q, D, W)
      BY <2>4 DEF WalksUp
    <3>2. PICK D \in SUBSET Item : \E W \in SUBSET D : Passed(r, D, W)
      BY <1>1, <3>1 DEF RequestStands, WalksUp
    <3>3. PICK W \in SUBSET D : Passed(r, D, W)
      BY <3>2
    <3>4. /\ Acyclic(D) /\ D \subseteq Known /\ Shelf!LiveFolders \subseteq D
          /\ r.on \notin W /\ r.parent \in W \cup {r.at} /\ Cardinality(W) = r.steps
          /\ \A g \in W : folders[g].parent \in W \cup {r.at}
      BY <1>1, <3>3 DEF Passed
    <3>5. r.at \notin W
      <4>1. ASSUME r.at \in W
            PROVE  \A g \in W : folders[g].parent \in W
        BY <3>4, <4>1
      <4>2. QED
        BY <3>4, <4>1 DEF Acyclic
    <3>6. PICK V : V = W \cup {r.at}
      OBVIOUS
    <3>7. V \in SUBSET D
      BY <1>5, <3>4, <3>6
    <3>8. Cardinality(V) = r.steps + 1
      <4>1. IsFiniteSet(W)
        BY StudioAssumption, FS_Subset
      <4>2. QED
        BY <3>4, <3>5, <3>6, <4>1, FS_AddElement
    <3>9. \A g \in V : folders[g].parent \in V \cup {q.at}
      BY <2>4, <3>4, <3>6
    <3>10. Passed(q, D, V)
      BY <1>5, <2>4, <3>4, <3>6, <3>7, <3>8, <3>9 DEF Passed
    <3>11. QED
      BY <3>7, <3>10
  <2>7. q \in LibraryRequest /\ RequestStands(q)
    <3>1. r.steps + 1 \in Nat
      BY <1>2
    <3>2. QED
      BY <1>2, <2>1, <2>2, <2>5, <2>6, <3>1, LookedFields
  <2>8. QED
    BY <1>5, <2>3, <2>7, CallLearns
<1>6. ASSUME r.at # r.on, r.at \notin Shelf!LiveFolders, r.at # r.parent,
             Shelf!Learns(c, [r EXCEPT !.at = Nothing])
      PROVE  LibraryInv'
  <2>1. PICK q : q = [op |-> r.op, on |-> r.on, parent |-> r.parent, name |-> r.name,
                      renames |-> r.renames, phase |-> "walk", at |-> Nothing,
                      steps |-> r.steps, by |-> r.by]
    OBVIOUS
  <2>2. [r EXCEPT !.at = Nothing] = q
    BY <1>1, <1>2, <2>1
  <2>3. /\ q.op = r.op /\ q.on = r.on /\ q.parent = r.parent /\ q.name = r.name
        /\ q.renames = r.renames /\ q.phase = "walk" /\ q.at = Nothing
        /\ q.steps = r.steps /\ q.by = r.by
    BY <2>1
  <2>4. UpdatesInPlace(q)
    BY <1>3, <1>6, <2>3 DEF UpdatesInPlace, Stands
  <2>5. WalksUp(q)
    <3>1. SUFFICES ASSUME r.op = "move", "move" \notin r.by, ~MovesCrossed
                   PROVE  \E D \in SUBSET Item : \E W \in SUBSET D : Passed(q, D, W)
      BY <2>3 DEF WalksUp
    <3>2. PICK D \in SUBSET Item : \E W \in SUBSET D : Passed(r, D, W)
      BY <1>1, <3>1 DEF RequestStands, WalksUp
    <3>3. PICK W \in SUBSET D : Passed(r, D, W)
      BY <3>2
    <3>4. /\ Acyclic(D) /\ D \subseteq Known /\ Shelf!LiveFolders \subseteq D
          /\ r.on \notin W /\ r.parent \in W \cup {r.at} /\ Cardinality(W) = r.steps
          /\ \A g \in W : folders[g].parent \in W \cup {r.at}
      BY <1>1, <3>3 DEF Passed
    <3>5. ASSUME NEW g \in W, folders[g].parent \notin W
          PROVE  folders[folders[g].parent].state = "deleted"
      <4>1. folders[g].parent = r.at /\ r.at \in Item
        BY <1>1, <1>2, <3>4, <3>5
      <4>2. r.at \in Known
        BY <1>1, <3>4, <4>1 DEF ParentsKnown
      <4>3. folders[r.at].state \in Shelf!State
        BY <1>1, <4>1 DEF LibraryTyped
      <4>4. folders[r.at].state = "deleted"
        BY <1>6, <4>1, <4>2, <4>3 DEF Known, Shelf!LiveFolders, Shelf!State
      <4>5. QED
        BY <4>1, <4>4
    <3>6. Passed(q, D, W)
      BY <1>6, <2>3, <3>4, <3>5 DEF Passed
    <3>7. QED
      BY <3>6
  <2>6. q \in LibraryRequest /\ RequestStands(q)
    BY <1>2, <2>1, <2>4, <2>5, LookedFields
  <2>7. QED
    BY <1>6, <2>2, <2>6, CallLearns
<1>7. QED
  BY <1>0, <1>4, <1>5, <1>6 DEF Shelf!Walk

\* The walk has ended and the name is looked at.
LEMMA NameChecked ==
  ASSUME LibraryInv, NEW c \in Client, Shelf!CheckName(c)
  PROVE  LibraryInv'
<1>0. PICK r : r = calls[c]
  OBVIOUS
<1>1. /\ r.op \in {"move", "rename"} /\ r.phase = "walk"
      /\ r.at = Nothing \/ r.steps > Cardinality(Item)
      /\ LibraryTyped /\ RequestStands(r)
  <2>1. r.op \in {"move", "rename"} /\ r.phase = "walk" /\ Shelf!WalkEnds(r)
    BY <1>0 DEF Shelf!CheckName, Shelf!FolderOp
  <2>2. r.at = Nothing \/ r.steps > Cardinality(Item)
    BY <2>1, Zenon DEF Shelf!WalkEnds, Shelf!Cardinality, Cardinality
  <2>3. LibraryTyped /\ RequestStands(r)
    BY <1>0 DEF LibraryInv
  <2>4. QED
    BY <2>1, <2>2, <2>3
<1>2. r \in [op : {"move", "rename"}, on : Item, parent : Item \cup {Nothing}, name : Title,
             renames : BOOLEAN, phase : {"walk", "write"}, at : Item \cup {Nothing},
             steps : Nat, by : SUBSET Shelf!Op]
  BY <1>0, <1>1, CallShape DEF LibraryTyped
<1>3. /\ r.on \in Known
      /\ r.by = {} => /\ r.op = "rename" => r.parent = folders[r.on].parent
                      /\ ~r.renames => r.name = folders[r.on].name
      /\ r.op = "move" => IF r.steps = 0 THEN r.at = r.parent ELSE Stands(r, r.parent)
  BY <1>1 DEF RequestStands, UpdatesInPlace
<1>4. CASE Shelf!Refused(c)
  BY <1>4, CallRefused
<1>5. ASSUME ~Shelf!Taken(r.parent, r.name, r.on),
             Shelf!Learns(c, [r EXCEPT !.phase = "write", !.at = Nothing, !.steps = 0])
      PROVE  LibraryInv'
  <2>1. PICK q : q = [op |-> r.op, on |-> r.on, parent |-> r.parent, name |-> r.name,
                      renames |-> r.renames, phase |-> "write", at |-> Nothing,
                      steps |-> 0, by |-> r.by]
    OBVIOUS
  <2>2. [r EXCEPT !.phase = "write", !.at = Nothing, !.steps = 0] = q
    <3> DEFINE k == [r EXCEPT !.phase = "write"]
               l == [k EXCEPT !.at = Nothing]
    <3>1. k = [op |-> r.op, on |-> r.on, parent |-> r.parent, name |-> r.name,
               renames |-> r.renames, phase |-> "write", at |-> r.at, steps |-> r.steps,
               by |-> r.by]
      BY <1>2
    <3> HIDE DEF k
    <3>2. l = [op |-> r.op, on |-> r.on, parent |-> r.parent, name |-> r.name,
               renames |-> r.renames, phase |-> "write", at |-> Nothing, steps |-> r.steps,
               by |-> r.by]
      BY <3>1
    <3> HIDE DEF l
    <3>3. [l EXCEPT !.steps = 0] = q
      BY <2>1, <3>2
    <3>4. QED
      BY <3>3, Zenon DEF k, l
  <2>3. /\ q.op = r.op /\ q.on = r.on /\ q.parent = r.parent /\ q.name = r.name
        /\ q.renames = r.renames /\ q.phase = "write" /\ q.at = Nothing
        /\ q.steps = 0 /\ q.by = r.by
    BY <2>1
  <2>4. Cardinality(Item) \in Nat
    BY StudioAssumption, FS_CardinalityType
  <2>5. UpdatesInPlace(q)
    <3>1. r.op = "move" => Stands(r, r.parent)
      BY <1>1, <1>2, <1>3, <2>4 DEF Stands, Shelf!Places
    <3>2. QED
      BY <1>3, <1>5, <2>3, <3>1 DEF UpdatesInPlace, Stands
  <2>6. WalksUp(q)
    <3>1. SUFFICES ASSUME r.op = "move", "move" \notin r.by, ~MovesCrossed
                   PROVE  \E D \in SUBSET Item : \E W \in SUBSET D : Passed(q, D, W)
      BY <2>3 DEF WalksUp
    <3>2. PICK D \in SUBSET Item : \E W \in SUBSET D : Passed(r, D, W)
      BY <1>1, <3>1 DEF RequestStands, WalksUp
    <3>3. PICK W \in SUBSET D : Passed(r, D, W)
      BY <3>2
    <3>4. Cardinality(W) = r.steps
      BY <1>1, <3>3 DEF Passed
    <3>5. Cardinality(W) <= Cardinality(Item)
      <4>1. W \subseteq Item
        OBVIOUS
      <4>2. QED
        BY <4>1, StudioAssumption, FS_Subset
    <3>6. r.at = Nothing
      BY <1>1, <1>2, <2>4, <3>4, <3>5
    <3>7. Passed(q, D, W)
      BY <1>1, <2>3, <3>3, <3>6 DEF Passed
    <3>8. QED
      BY <3>7
  <2>7. q \in LibraryRequest /\ RequestStands(q)
    BY <1>2, <2>1, <2>5, <2>6, LookedFields
  <2>8. QED
    BY <1>5, <2>2, <2>7, CallLearns
<1>6. QED
  BY <1>0, <1>4, <1>5 DEF Shelf!CheckName
-----------------------------------------------------------------------------
\* Only an edit of c closes an edit of c with entries changed.
SeenEdit(c) == calls[c].op = "edit" /\ calls'[c] = Shelf!Closed /\ entries' # entries
                 => entries[calls[c].on] = calls[c].saw

LEMMA LibraryStep ==
  ASSUME LibraryInv, Shelf!Next
  PROVE  LibraryInv' /\ \A c \in Client : SeenEdit(c)
<1>1. LibraryTyped
  BY DEF LibraryInv
<1>2. ASSUME NEW c \in Client, calls[c].op # "edit",
             \A d \in Client \ {c} : calls[d] # Shelf!Closed => calls'[d] # Shelf!Closed
      PROVE  \A d \in Client : SeenEdit(d)
  BY <1>2 DEF SeenEdit, Shelf!Closed
<1>3. ASSUME UNCHANGED entries
      PROVE  \A d \in Client : SeenEdit(d)
  BY <1>3 DEF SeenEdit
<1>4. ASSUME NEW c \in Client, NEW on, calls[c] # Shelf!Closed, Shelf!Commits(c, on),
             NEW d \in Client \ {c}, calls[d] # Shelf!Closed
      PROVE  calls'[d] # Shelf!Closed
  <2>1. calls[c] \in LibraryRequest /\ calls[d] \in LibraryRequest
    BY <1>1 DEF LibraryTyped
  <2>2. calls'[d] = Told(calls[d], calls[c].op)
    BY <1>1, <1>4, CommitsFields
  <2>3. calls[c].op \in Shelf!Op
    BY <2>1, CallShape
  <2>4. QED
    BY <1>4, <2>1, <2>2, <2>3, ToldFields
<1>5. ASSUME NEW c \in Client, NEW p \in Item \cup {Nothing}, NEW n \in Title,
             \/ Shelf!BeginCreate(c, p, n)
             \/ \E f \in Item : Shelf!BeginUpdate(c, f, p, n)
             \/ \E m \in Film : Shelf!BeginAdd(c, m, p, n) \/ Shelf!BeginEdit(c, m, p, n)
      PROVE  LibraryInv' /\ \A d \in Client : SeenEdit(d)
  <2>1. UNCHANGED entries
    BY <1>5 DEF Shelf!BeginCreate, Shelf!BeginUpdate, Shelf!BeginAdd, Shelf!BeginEdit, Shelf!Opens
  <2>2. QED
    BY <1>3, <1>5, <2>1, CreateOpens, UpdateOpens, AddOpens, EditOpens
<1>6. ASSUME NEW c \in Client, NEW f \in Item, Shelf!BeginDelete(c, f)
      PROVE  LibraryInv' /\ \A d \in Client : SeenEdit(d)
  BY <1>3, <1>6, DeleteOpens DEF Shelf!BeginDelete, Shelf!Opens
<1>7. ASSUME NEW c \in Client, Shelf!Refused(c)
      PROVE  LibraryInv' /\ \A d \in Client : SeenEdit(d)
  BY <1>3, <1>7, CallRefused DEF Shelf!Refused, Shelf!Learns
<1>8. ASSUME NEW c \in Client, NEW f \in Item, Shelf!AddFolder(c, f)
      PROVE  LibraryInv' /\ \A d \in Client : SeenEdit(d)
  <2>1. CASE Shelf!RefusedByIndex(calls[c].parent, calls[c].name, f)
    BY <1>7, <1>8, <2>1 DEF Shelf!AddFolder
  <2>2. CASE ~Shelf!RefusedByIndex(calls[c].parent, calls[c].name, f)
    BY <1>3, <1>8, <2>2, FolderAdded DEF Shelf!AddFolder
  <2>3. QED
    BY <2>1, <2>2
<1>9. ASSUME NEW c \in Client, Shelf!Walk(c) \/ Shelf!CheckName(c)
      PROVE  LibraryInv' /\ \A d \in Client : SeenEdit(d)
  <2>1. UNCHANGED entries
    BY <1>9 DEF Shelf!Walk, Shelf!CheckName, Shelf!Refused, Shelf!Learns
  <2>2. QED
    BY <1>3, <1>9, <2>1, WalkGoesOn, NameChecked
<1>10. ASSUME NEW c \in Client, Shelf!UpdateFolder(c)
       PROVE  LibraryInv' /\ \A d \in Client : SeenEdit(d)
  <2> DEFINE row == UpdatedRow(calls[c])
  <2>1. /\ calls[c].op \in {"move", "rename"} /\ calls[c].phase = "write"
        /\ IF \/ calls[c].on \notin Shelf!LiveFolders
              \/ Shelf!RefusedByIndex(row.parent, row.name, calls[c].on)
             THEN Shelf!Refused(c)
             ELSE /\ folders' = [folders EXCEPT ![calls[c].on] = row]
                  /\ Shelf!Commits(c, calls[c].on)
                  /\ UNCHANGED entries
    BY <1>10, Zenon DEF Shelf!UpdateFolder, UpdatedRow, Shelf!FolderOp
  <2> HIDE DEF row
  <2>2. CASE \/ calls[c].on \notin Shelf!LiveFolders
             \/ Shelf!RefusedByIndex(row.parent, row.name, calls[c].on)
    BY <1>7, <2>1, <2>2
  <2>3. CASE /\ calls[c].on \in Shelf!LiveFolders
             /\ ~Shelf!RefusedByIndex(row.parent, row.name, calls[c].on)
    <3>1. LibraryInv'
      BY <2>1, <2>3, FolderUpdated DEF row
    <3>2. QED
      BY <1>3, <2>1, <2>3, <3>1
  <2>4. QED
    BY <2>2, <2>3
<1>11. ASSUME NEW c \in Client, Shelf!DeleteFolder(c)
       PROVE  LibraryInv' /\ \A d \in Client : SeenEdit(d)
  <2>1. CASE calls[c].on \notin Shelf!LiveFolders
    BY <1>7, <1>11, <2>1 DEF Shelf!DeleteFolder
  <2>2. CASE calls[c].on \in Shelf!LiveFolders
    <3>1. /\ calls[c].op = "delete"
          /\ folders' = [folders EXCEPT ![calls[c].on].state = "deleted"]
          /\ entries' = Unfiled(calls[c].freed) /\ Shelf!Commits(c, calls[c].on)
      BY <1>11, <2>2, Zenon DEF Shelf!DeleteFolder, Unfiled
    <3>2. LibraryInv'
      BY <2>2, <3>1, FolderDeleted
    <3>3. calls[c] # Shelf!Closed
      BY <3>1 DEF Shelf!Closed
    <3>4. QED
      BY <1>2, <1>4, <3>1, <3>2, <3>3
  <2>3. QED
    BY <2>1, <2>2
<1>12. ASSUME NEW c \in Client, Shelf!AddAsset(c)
       PROVE  LibraryInv' /\ \A d \in Client : SeenEdit(d)
  <2>1. CASE entries[calls[c].on].state # "absent"
    BY <1>7, <1>12, <2>1 DEF Shelf!AddAsset
  <2>2. CASE entries[calls[c].on].state = "absent"
    <3>1. calls[c].op = "add" /\ Shelf!Commits(c, calls[c].on)
      BY <1>12, <2>2 DEF Shelf!AddAsset
    <3>2. calls[c] # Shelf!Closed
      BY <3>1 DEF Shelf!Closed
    <3>3. QED
      BY <1>2, <1>4, <1>12, <2>2, <3>1, <3>2, AssetAdded
  <2>3. QED
    BY <2>1, <2>2
<1>13. ASSUME NEW c \in Client, Shelf!UpdateAsset(c)
       PROVE  LibraryInv' /\ \A d \in Client : SeenEdit(d)
  <2>1. CASE ~Shelf!MayEdit(calls[c])
    BY <1>7, <1>13, <2>1 DEF Shelf!UpdateAsset
  <2>2. CASE Shelf!MayEdit(calls[c])
    <3>1. calls[c].op = "edit" /\ Shelf!Commits(c, calls[c].on)
      BY <1>13, <2>2, Zenon DEF Shelf!UpdateAsset
    <3>2. calls[c] # Shelf!Closed
      BY <3>1 DEF Shelf!Closed
    <3>3. LibraryInv' /\ entries[calls[c].on] = calls[c].saw
      BY <1>13, <2>2, AssetEdited
    <3>4. \A d \in Client \ {c} : SeenEdit(d)
      BY <1>4, <3>1, <3>2 DEF SeenEdit, Shelf!Closed
    <3>5. SeenEdit(c)
      BY <3>3 DEF SeenEdit
    <3>6. QED
      BY <3>3, <3>4, <3>5
  <2>3. QED
    BY <2>1, <2>2
<1>14. ASSUME NEW m \in Film, Shelf!DeleteAsset(m) \/ Shelf!RecordUse(m) \/ Shelf!DeleteMedia(m)
       PROVE  LibraryInv' /\ \A d \in Client : SeenEdit(d)
  <2>1. UNCHANGED calls
    BY <1>14 DEF Shelf!DeleteAsset, Shelf!RecordUse, Shelf!DeleteMedia
  <2>2. \A d \in Client : SeenEdit(d)
    BY <2>1 DEF SeenEdit, Shelf!Closed
  <2>3. CASE Shelf!DeleteAsset(m) \/ Shelf!RecordUse(m)
    BY <2>2, <2>3, EntryTouched
  <2>4. CASE Shelf!DeleteMedia(m)
    BY <2>2, <2>4, LibraryKept DEF Shelf!DeleteMedia
  <2>5. QED
    BY <1>14, <2>3, <2>4
<1>15. ASSUME NEW c \in Client, Shelf!Detach(c)
       PROVE  LibraryInv' /\ \A d \in Client : SeenEdit(d)
  BY <1>3, <1>15, FolderDetached DEF Shelf!Detach, Shelf!Learns
<1>16. QED
  BY <1>5, <1>6, <1>8, <1>9, <1>10, <1>11, <1>12, <1>13, <1>14, <1>15
     DEF Shelf!Next, Shelf!Place

LEMMA LibraryInit == Shelf!Init => LibraryInv
<1> SUFFICES ASSUME Shelf!Init
             PROVE  LibraryInv
  OBVIOUS
<1>1. /\ folders \in [Item -> [state : {"absent", "live"}, parent : Item \cup {Nothing},
                               name : Title]]
      /\ \A f \in Item :
           IF f \in Shelf!LiveFolders
             THEN /\ folders[f].parent \in Shelf!Places
                  /\ ~Shelf!Taken(folders[f].parent, folders[f].name, f)
             ELSE folders[f].parent = Nothing
      /\ ~Shelf!Cyclic
      /\ entries \in [Film -> [state : {"absent", "live"}, folder : Shelf!Places,
                               name : {Shelf!Unused}, uses : {0}, version : {1}]]
      /\ media = Film /\ calls = [c \in Client |-> Shelf!Closed] /\ races = {}
  BY DEF Shelf!Init, Shelf!Place
<1>2. Shelf!Places \subseteq Item \cup {Nothing}
  BY DEF Shelf!Places, Shelf!LiveFolders
<1>3. LibraryTyped
  <2>1. entries \in [Film -> EntryRow]
    <3>1. Shelf!Unused \in Title
      BY StudioAssumption DEF Shelf!Unused
    <3>2. QED
      BY <1>1, <1>2, <3>1 DEF EntryRow, Shelf!State
  <2>2. folders \in [Item -> [state : Shelf!State, parent : Item \cup {Nothing}, name : Title]]
    BY <1>1 DEF Shelf!State
  <2>3. QED
    BY <1>1, <2>1, <2>2, ClosedStands DEF LibraryTyped
<1>4. ParentsKnown
  BY <1>1, KnownLive DEF ParentsKnown, Known, Shelf!LiveFolders, Shelf!Places
<1>5. \A c \in Client : RequestStands(calls[c])
  BY <1>1, ClosedStands
<1>6. TreeIsSound
  <2>1. NoCycle
    BY <1>1 DEF NoCycle, Acyclic, Shelf!Cyclic
  <2>2. NoOrphan
    BY <1>1, StudioAssumption DEF NoOrphan, Orphan, Shelf!Places
  <2>3. NoStray
    BY <1>1 DEF NoStray
  <2>4. ASSUME NEW f \in Item, NEW g \in Item, Twins(f, g)
        PROVE  FALSE
    <3>1. g \in Shelf!Children(folders[f].parent) \ {f} /\ folders[g].name = folders[f].name
      BY <2>4 DEF Twins, Shelf!Children
    <3>2. Shelf!Taken(folders[f].parent, folders[f].name, f)
      BY <3>1 DEF Shelf!Taken
    <3>3. QED
      BY <1>1, <2>4, <3>2 DEF Twins
  <2>5. QED
    BY <2>1, <2>2, <2>3, <2>4 DEF NoTwins, TreeIsSound
<1>7. QED
  BY <1>3, <1>4, <1>5, <1>6 DEF LibraryInv
-----------------------------------------------------------------------------
(***************************************************************************)
(* The studio: each behaviour works on one part and leaves the others      *)
(***************************************************************************)
StudioInv == LibraryInv /\ AssetInv /\ AccountInv /\ FamilyInv
studioVars == <<part, libraryVars, assetVars, worldVars, accountVars>>

LEMMA AssetsUntouched ==
  ASSUME AssetInv, UNCHANGED assetVars
  PROVE  AssetInv'
<1>1. AssetsTyped' /\ PassesRead' /\ ConflictsAreReal'
  BY DEF AssetInv, AssetsTyped, PassesRead, ConflictsAreReal, assetVars
<1>2. Assets!MarkerIsTrue' /\ Assets!PromotedOnce'
  BY DEF AssetInv, Assets!MarkerIsTrue, Assets!PromotedOnce, assetVars
<1>3. QED
  BY <1>1, <1>2 DEF AssetInv

LEMMA AccountsUntouched ==
  ASSUME AccountInv, FamilyInv, UNCHANGED accountVars
  PROVE  AccountInv' /\ FamilyInv'
<1>1. AccountsTyped' /\ SessionsRooted' /\ SignUpsTold' /\ SawThePast'
  BY DEF AccountInv, AccountsTyped, SessionsRooted, SignUpsTold, SawThePast, Opened, People!Live,
         accountVars
<1>2. People!OneLiveSession' /\ People!OnlyRacesHurt'
  BY DEF AccountInv, People!OneLiveSession, People!OnlyRacesHurt, People!Live, accountVars
<1>3. FamilyInv'
  BY DEF FamilyInv, People!ReuseEndsFamily, Opened, accountVars
<1>4. QED
  BY <1>1, <1>2, <1>3 DEF AccountInv

LEMMA StudioBegins == StudioInit => StudioInv
BY LibraryInit, AssetInit, AccountInit, FamilyInit, StudioAssumption DEF StudioInit, StudioInv

LEMMA StudioStep ==
  ASSUME StudioInv, [StudioNext]_studioVars
  PROVE  /\ StudioInv'
         /\ [\A c \in Client : SeenEdit(c)]_libraryVars
         /\ [\A c \in Client : requests[c].op = "edit" /\ requests'[c] = People!Closed
               /\ users' # users => users[requests[c].on] = requests[c].saw]_accountVars
         /\ [\A w \in Client : pass[w].at = "register" /\ pass'[w].at = "release" =>
               /\ video'.note # video.note => pass[w].stale
               /\ previews' # previews /\ video.state = "deleted" => pass[w].stale]_assetVars
<1>1. LibraryInv /\ AssetInv /\ AccountInv /\ FamilyInv
  BY DEF StudioInv
<1>2. ASSUME UNCHANGED libraryVars
      PROVE  LibraryInv'
  <2>1. UNCHANGED <<folders, entries, calls, races>> /\ media' \subseteq media
    BY <1>2 DEF libraryVars
  <2>2. QED
    BY <1>1, <2>1, LibraryKept
<1>3. UNCHANGED assetVars => AssetInv'
  BY <1>1, AssetsUntouched
<1>4. UNCHANGED accountVars => AccountInv' /\ FamilyInv'
  BY <1>1, AccountsUntouched
<1>5. CASE Shelf!Next /\ UNCHANGED <<assetVars, worldVars, accountVars>>
  <2>1. LibraryInv' /\ \A c \in Client : SeenEdit(c)
    BY <1>1, <1>5, LibraryStep
  <2>2. QED
    BY <1>3, <1>4, <1>5, <2>1 DEF StudioInv
<1>6. CASE Assets!Next /\ UNCHANGED <<libraryVars, worldVars, accountVars>>
  <2>1. /\ AssetInv'
        /\ \A w \in Client :
             pass[w].at = "register" /\ pass'[w].at = "release" =>
               /\ video'.note # video.note => pass[w].stale
               /\ previews' # previews /\ video.state = "deleted" => pass[w].stale
    BY <1>1, <1>6, AssetStep, StudioAssumption
  <2>2. QED
    BY <1>2, <1>4, <1>6, <2>1 DEF StudioInv
<1>7. CASE People!Next /\ UNCHANGED <<libraryVars, assetVars, worldVars>>
  <2>1. /\ AccountInv' /\ FamilyInv'
        /\ \A c \in Client : requests[c].op = "edit" /\ requests'[c] = People!Closed
             /\ users' # users => users[requests[c].on] = requests[c].saw
    BY <1>1, <1>7, AccountStep, FamilyStep
  <2>2. QED
    BY <1>2, <1>3, <1>7, <2>1 DEF StudioInv
<1>8. CASE UNCHANGED <<libraryVars, assetVars, accountVars>>
  BY <1>2, <1>3, <1>4, <1>8 DEF StudioInv
<1>9. QED
  BY <1>5, <1>6, <1>7, <1>8 DEF StudioNext, studioVars

LEMMA StudioInductive == StudioSpec => []StudioInv
<1>1. StudioInv /\ [StudioNext]_studioVars => StudioInv'
  BY StudioStep
<1>2. QED
  BY <1>1, StudioBegins, PTL DEF StudioSpec, studioVars

\* The folders of a library form a cycle, hold something in a deleted folder or share a name
\* only through a request that was overtaken: between its checks and its write, or between the
\* two statements that delete a folder (use_cases/library); and two accounts share an e-mail
\* address only through a sign-up overtaken so (register_user.py).
THEOREM OnlyRacesProven == StudioSpec => []OnlyRacesHurt
<1>1. StudioInv => OnlyRacesHurt
  BY HurtParts DEF StudioInv, LibraryInv, AccountInv, OnlyRacesHurt
<1>2. QED
  BY <1>1, StudioInductive, PTL

\* However many clients promote a generation, one registers its video and the others are told
\* the truth of it (promote_generation_assets.py); however many present the tokens of one
\* login, one session of its family lives, and none once a reused token has ended the family,
\* unless the revocation missed a session that a rotation added to its list
\* (refresh_session.py).
THEOREM OnceWonProven == StudioSpec => []OnceWon
<1>1. StudioInv => OnceWon
  BY DEF StudioInv, AssetInv, AccountInv, FamilyInv, OnceWon
<1>2. QED
  BY <1>1, StudioInductive, PTL

\* A library entry and a profile are changed only from the row their client had seen:
\* whatever came between, the fence on the version refuses the write (update_asset,
\* update_profile).
THEOREM EditsProven == StudioSpec => EditsWhatWasSeen
<1>1. StudioInv /\ [StudioNext]_studioVars =>
        [\A c \in Client : calls[c].op = "edit" /\ calls'[c] = Shelf!Closed /\ entries' # entries
           => entries[calls[c].on] = calls[c].saw]_libraryVars
  BY StudioStep DEF SeenEdit
<1>2. StudioInv /\ [StudioNext]_studioVars =>
        [\A c \in Client : requests[c].op = "edit" /\ requests'[c] = People!Closed
           /\ users' # users => users[requests[c].on] = requests[c].saw]_accountVars
  BY StudioStep
<1>3. QED
  BY <1>1, <1>2, StudioInductive, PTL
     DEF StudioSpec, studioVars, EditsWhatWasSeen, Shelf!EditsWhatWasSeen,
         People!EditsWhatWasSeen, libraryVars, accountVars, Shelf!libraryVars,
         People!accountVars

\* Unless a client wrote it, an enrichment marker tells of registered rows over stored objects,
\* and a version of all of them, after every step; and a pass overwrites a description, or
\* registers previews of a deleted video, only when the video was changed after its read
\* (enrich_generated_media.py).
THEOREM EnrichmentProven == StudioSpec => EnrichmentIsHonest
<1>1. StudioInv /\ [StudioNext]_studioVars => [Assets!MarkerIsTrue']_assetVars
  BY StudioStep DEF StudioInv, AssetInv
<1>2. StudioInv /\ [StudioNext]_studioVars =>
        [\A w \in Client :
           pass[w].at = "register" /\ pass'[w].at = "release" =>
             /\ video'.note # video.note => pass[w].stale
             /\ previews' # previews /\ video.state = "deleted" => pass[w].stale]_assetVars
  BY StudioStep
<1>3. UNCHANGED assetVars => UNCHANGED Assets!assetVars
  BY DEF assetVars, Assets!assetVars, Assets!leaseVars
<1>4. QED
  BY <1>1, <1>2, <1>3, StudioInductive, PTL
     DEF StudioSpec, studioVars, EnrichmentIsHonest, Assets!PassesKeepWhatTheyRead
=============================================================================
