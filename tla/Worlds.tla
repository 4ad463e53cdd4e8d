------------------------------- MODULE Worlds -------------------------------
(***************************************************************************)
(* The world of one creator (identity_repository.py,                       *)
(* use_cases/identity): a root with a look and a version, and a cast of    *)
(* characters, locations and props, each under a key of its own.           *)
(*                                                                         *)
(* Children carry no version; every write is fenced on the root's and      *)
(* bumps it.  A generation that names the world keeps a snapshot of it     *)
(* (CreateGeneration._bind_world): four statements of one READ COMMITTED   *)
(* transaction, between which others may commit.                           *)
(***************************************************************************)
EXTENDS Naturals, FiniteSets, Sequences

CONSTANTS Client, Generation,
          Key,         \* the keys of children
          Look,        \* what the attributes of a root or a child say
          Nothing,     \* no child, or a look nobody has read yet
          Kinds,       \* characters, locations and props, in the order they are read
          Cap,         \* MAX_CHARACTERS, MAX_LOCATIONS, MAX_PROPS
          MaxVersion   \* bound on the writes of a behaviour

ASSUME WorldsAssumption ==
  /\ IsFiniteSet(Key) /\ Nothing \notin Look
  /\ Len(Kinds) \in Nat \ {0}
  /\ \A m, n \in 1..Len(Kinds) : Kinds[m] = Kinds[n] => m = n
  /\ Cap \in [{Kinds[n] : n \in 1..Len(Kinds)} -> Nat \ {0}]
  /\ DOMAIN Cap \cap {"none", "root", "bound"} = {}
  /\ MaxVersion \in Nat \ {0}

VARIABLES
  world,      \* [live, version, look, cast]: the profile and its children
  writes,     \* writes[c]: the request client c has open
  snapshots,  \* snapshots[g]: the world as generation g has read it, or is reading it
  worlds      \* ghost: every world that was committed

worldVars == <<world, writes, snapshots, worlds>>

Kind == DOMAIN Cap
Child == Look \cup {Nothing}
NoCast == [k \in Kind |-> [i \in Key |-> Nothing]]
World == [version : 1..MaxVersion, look : Look, cast : [Kind -> [Key -> Child]]]
Closed == [op |-> "none"]
Request == {Closed} \cup [op : {"write"}, expects : 1..MaxVersion, root : Look]
             \cup [op : {"write", "add", "change", "remove"}, expects : 1..MaxVersion,
                   kind : Kind, key : Key, child : Child]
Unread == [at |-> "none"]
Snapshot == [at : {"root", "bound"} \cup Kind, version : 1..MaxVersion, look : Look,
             cast : [Kind -> [Key -> Child]], overtaken : BOOLEAN]

Children(cast, k) == {i \in Key : cast[k][i] # Nothing}
WithinCaps(cast) == \A k \in Kind : Cardinality(Children(cast, k)) <= Cap[k]
Of(w) == [version |-> w.version, look |-> w.look, cast |-> w.cast]

\* CreateIdentityProfile writes the root and the children it is given, here at most one,
\* in one commit.
Init == /\ \E look \in Look, i \in Key, child \in Child :
             /\ child \in {look, Nothing}
             /\ world = [live |-> TRUE, version |-> 1, look |-> look,
                         cast |-> [NoCast EXCEPT ![Kinds[1]][i] = child]]
        /\ writes = [c \in Client |-> Closed]
        /\ snapshots = [g \in Generation |-> Unread]
        /\ worlds = {Of(world)}
-----------------------------------------------------------------------------
(***************************************************************************)
(* Writes.  get_profile reads the root, whose version is the one the       *)
(* client expects (412 if not), and then the children.                     *)
(***************************************************************************)
Opens(c, r) == /\ writes[c] = Closed /\ world.live /\ world.version < MaxVersion
               /\ writes' = [writes EXCEPT ![c] = r]
               /\ UNCHANGED <<world, snapshots, worlds>>

\* UpdateIdentityProfile of what differs from the root.
UpdateIdentityProfile(c, look) ==
  look # world.look /\ Opens(c, [op |-> "write", expects |-> world.version, root |-> look])

\* A request about one child.
BeginChild(c, op, k, i, child) ==
  Opens(c, [op |-> op, expects |-> world.version, kind |-> k, key |-> i, child |-> child])
AddIdentityChild(c, k, i, look) == BeginChild(c, "add", k, i, look)
UpdateIdentityChild(c, k, i, look) == BeginChild(c, "change", k, i, look)
RemoveIdentityChild(c, k, i) == BeginChild(c, "remove", k, i, Nothing)

\* The cap (422) and the key (409) of a new child, the presence (404) of an old one,
\* and a change that changes nothing.
Judged(r) ==
  LET children == Children(world.cast, r.kind) IN
  IF r.op = "add" THEN Cardinality(children) + 1 <= Cap[r.kind] /\ r.key \notin children
                  ELSE r.key \in children /\ world.cast[r.kind][r.key] # r.child

ReadChildren(c) ==
  LET r == writes[c] IN
  /\ r.op \in {"add", "change", "remove"}
  /\ writes' = [writes EXCEPT ![c] =
       IF Judged(r) THEN [op |-> "write", expects |-> r.expects, kind |-> r.kind,
                          key |-> r.key, child |-> r.child]
                    ELSE Closed]
  /\ UNCHANGED <<world, snapshots, worlds>>

\* _bump_root.  (Mutant: without the fence.)
Unfenced(r) == world.live
Fenced(r) == world.live /\ world.version = r.expects

Written(r) ==
  IF "root" \in DOMAIN r
    THEN [world EXCEPT !.version = world.version + 1, !.look = r.root]
    ELSE [world EXCEPT !.version = world.version + 1, !.cast[r.kind][r.key] = r.child]

\* What the generations that are reading have read is overtaken.
Overtakes == [g \in Generation |-> IF snapshots[g].at \in {"none", "bound"} THEN snapshots[g]
                                   ELSE [snapshots[g] EXCEPT !.overtaken = TRUE]]

Write(c) ==
  LET r == writes[c] IN
  /\ r.op = "write"
  /\ Fenced(r) => world.version < MaxVersion
  /\ writes' = [writes EXCEPT ![c] = Closed]
  /\ IF Fenced(r)
       THEN /\ world' = Written(r)
            /\ worlds' = worlds \cup {Of(world')}
            /\ snapshots' = Overtakes
       ELSE UNCHANGED <<world, snapshots, worlds>>

\* DeleteIdentityProfile takes the children along.
DeleteWorld ==
  /\ world.live
  /\ world' = [world EXCEPT !.live = FALSE, !.cast = NoCast]
  /\ snapshots' = Overtakes
  /\ UNCHANGED <<writes, worlds>>
-----------------------------------------------------------------------------
(***************************************************************************)
(* CreateGeneration._bind_world: the root, then the children kind by kind. *)
(***************************************************************************)
ReadRoot(g) ==
  /\ snapshots[g] = Unread /\ world.live
  /\ snapshots' = [snapshots EXCEPT ![g] =
       [at |-> "root", version |-> world.version, look |-> world.look, cast |-> NoCast,
        overtaken |-> FALSE]]
  /\ UNCHANGED <<world, writes, worlds>>

\* After the last kind, snapshot_of freezes what was read, and the generation carries it.
ReadKind(g, n) ==
  LET k == Kinds[n] IN
  /\ snapshots[g].at = IF n = 1 THEN "root" ELSE Kinds[n - 1]
  /\ snapshots' = [snapshots EXCEPT ![g].at = IF n = Len(Kinds) THEN "bound" ELSE k,
                                    ![g].cast[k] = world.cast[k]]
  /\ UNCHANGED <<world, writes, worlds>>

Next ==
  \/ \E c \in Client :
       \/ \E look \in Look : UpdateIdentityProfile(c, look)
       \/ \E k \in Kind, i \in Key :
            \/ RemoveIdentityChild(c, k, i)
            \/ \E look \in Look : \/ AddIdentityChild(c, k, i, look)
                                 \/ UpdateIdentityChild(c, k, i, look)
       \/ ReadChildren(c) \/ Write(c)
  \/ \E g \in Generation : ReadRoot(g) \/ \E n \in 1..Len(Kinds) : ReadKind(g, n)
  \/ DeleteWorld

Spec == Init /\ [][Next]_worldVars
-----------------------------------------------------------------------------
(***************************************************************************)
(* Properties                                                              *)
(***************************************************************************)
TypeOK ==
  /\ world \in [live : BOOLEAN, version : 1..MaxVersion, look : Look,
                cast : [Kind -> [Key -> Child]]]
  /\ writes \in [Client -> Request]
  /\ snapshots \in [Generation -> {Unread} \cup Snapshot]
  /\ worlds \subseteq World

\* However many requests count the children before one of them writes, no world holds
\* more than the planner can cast.
CapsHold == WithinCaps(world.cast) /\ \A w \in worlds : WithinCaps(w.cast)

\* A version names one world, and the snapshot a generation carries is the world of its
\* version, unless a write or the deletion was committed between its statements; even
\* then its root is that world's, and no child of it is of another key or look than the
\* world had at some time.
SnapshotNamesWorld ==
  /\ \A v, w \in worlds : v.version = w.version => v = w
  /\ \A g \in Generation :
       LET s == snapshots[g] IN
       s.at = "bound" =>
         /\ s.overtaken \/ Of(s) \in worlds
         /\ \E w \in worlds : w.version = s.version /\ w.look = s.look
         /\ \A k \in Kind : \/ Children(s.cast, k) = {}
                            \/ \E w \in worlds : w.version >= s.version /\ w.cast[k] = s.cast[k]

\* Both, of every world and every snapshot.
WorldsHold == CapsHold /\ SnapshotNamesWorld

\* identity_repository.py: "A world must never be half-edited when a generation snapshots
\* it"; identity_runtime/profile.py: "A snapshot must never straddle two states."
SnapshotIsOfOneWorld ==
  \A g \in Generation : snapshots[g].at = "bound" => Of(snapshots[g]) \in worlds
=============================================================================
