---------------------------- MODULE DatabaseTree ----------------------------
(***************************************************************************)
(* The JSON trees of the Realtime Database: the in-memory backend          *)
(* (backend.rs), which resolves server values itself, and the mirror of    *)
(* api.rs, to which every write of this client is applied with other code. *)
(* Both change under one call here; DatabaseMirror has the interleavings.  *)
(*                                                                         *)
(* A tree is a function from the paths of its nodes to Object, Null or the *)
(* number of a leaf.  Priorities (".value", ".priority") are left out.     *)
(***************************************************************************)
EXTENDS Integers, SequencesExt, TLC

CONSTANTS Paths,      \* the paths written; <<>> is the root
          Key,        \* the child of an object that is written
          MaxNumber,  \* bound: the largest number
          MaxOps      \* bound: operations

VARIABLES data,    \* InMemoryBackend.data
          mirror,  \* DatabaseInner.mirror
          ops,     \* operations so far
          erased   \* history: a null was written below a leaf

dtVars == <<data, mirror, ops, erased>>

Object == -1
Null == -2
Increment == -3   \* {".sv": {"increment": 1}}

Leaf(v) == <<>> :> v
Values == {Leaf(1), Leaf(Null), Leaf(Increment), (<<>> :> Object) @@ (<<Key>> :> Increment)}

Parents(path) == {SubSeq(path, 1, n) : n \in 0 .. Len(path) - 1}
Relative(q, path) == SubSeq(q, Len(path) + 1, Len(q))
Outside(root, path) == {q \in DOMAIN root : ~IsPrefix(path, q)}
Restricted(root, nodes) == [q \in nodes |-> root[q]]

Init ==
  /\ data = Leaf(Object)
  /\ mirror = Leaf(Object)
  /\ ops = 0
  /\ erased = FALSE

\* The value replaces what is at the path; what is above becomes an object.
set_at_path(root, path, value) ==
  IF path = <<>> THEN value
  ELSE LET placed == {path \o r : r \in DOMAIN value}
       IN [q \in Outside(root, path) \cup Parents(path) \cup placed |->
             IF q \in placed THEN value[Relative(q, path)] ELSE IF q \in Parents(path) THEN Object ELSE root[q]]

get_at_path(root, path) ==
  IF path \in DOMAIN root
  THEN [r \in {Relative(q, path) : q \in DOMAIN root \ Outside(root, path)} |-> root[path \o r]]
  ELSE Leaf(Null)

\* Nothing is created or replaced on the way down.
delete_at_path(root, path) ==
  IF path = <<>> THEN Leaf(Null) ELSE Restricted(root, Outside(root, path))

\* Mutant of apply_realtime_value: a null is stored like any value.
apply_realtime_value_StoresNull(root, path, value) ==
  IF path = <<>> \/ value # Leaf(Null) THEN set_at_path(root, path, value) ELSE root

\* A null removes the child; the objects above it are made on the way.
apply_realtime_value(root, path, value) ==
  IF path = <<>> \/ value # Leaf(Null) THEN set_at_path(root, path, value)
  ELSE LET parent == SubSeq(path, 1, Len(path) - 1)
           above == Parents(parent)
       IN [q \in Outside(root, path) \cup above \cup {parent} |->
             IF q \in above THEN Object ELSE IF q \in DOMAIN root THEN root[q] ELSE Object]

\* The number an increment adds to.
Current(root, path) == LET found == get_at_path(root, path)[<<>>] IN IF found >= 0 THEN found ELSE 0

contains_server_value(value) == \E r \in DOMAIN value : value[r] = Increment

\* Server values are resolved against what is stored at their place.
resolve_locally(root, path, value) ==
  IF ~contains_server_value(value) THEN value
  ELSE [r \in DOMAIN value |-> IF value[r] = Increment THEN Current(root, path \o r) + 1 ELSE value[r]]

Fits(value) == \A r \in DOMAIN value : value[r] <= MaxNumber

\* A null written here meets a leaf on the way.
NullBelowLeaf(path, value) == value = Leaf(Null) /\ \E q \in Parents(path) : Current(data, q) > 0 \/ Current(mirror, q) > 0

\* What an operation leaves in the two trees.
applies(newData, newMirror, erases) ==
  /\ ops < MaxOps /\ ops' = ops + 1
  /\ data' = newData
  /\ mirror' = newMirror
  /\ erased' = (erased \/ erases)

\* DatabaseReference::set
Set(path, value) ==
  LET resolved == resolve_locally(data, path, value)
  IN /\ Fits(resolved)
     /\ applies(set_at_path(data, path, resolved), apply_realtime_value(mirror, path, resolved),
                NullBelowLeaf(path, value))

\* DatabaseReference::remove
RemoveValue(path) ==
  applies(delete_at_path(data, path), apply_realtime_value(mirror, path, Leaf(Null)), NullBelowLeaf(path, Leaf(Null)))

\* DatabaseReference::update, the pairs one after the other: the second
\* resolves against what the first stored.
Update(path1, value1, path2, value2) ==
  LET first == resolve_locally(data, path1, value1)
      stored == set_at_path(data, path1, first)
      second == resolve_locally(stored, path2, value2)
  IN /\ path1 # <<>> /\ path2 # <<>> /\ path1 # path2
     /\ Fits(first) /\ Fits(second)
     /\ applies(set_at_path(stored, path2, second),
                apply_realtime_value(apply_realtime_value(mirror, path1, first), path2, second),
                \/ NullBelowLeaf(path1, value1) \/ NullBelowLeaf(path2, value2)
                \/ value2 = Leaf(Null) /\ path1 \in Parents(path2))

\* A transaction that read what is there: a null result deletes.
CompareAndSet(path, value) ==
  LET resolved == resolve_locally(data, path, value)
  IN /\ Fits(resolved)
     /\ applies(IF resolved = Leaf(Null) THEN delete_at_path(data, path) ELSE set_at_path(data, path, resolved),
                apply_realtime_value(mirror, path, resolved), NullBelowLeaf(path, value))

Next ==
  \E path \in Paths, value \in Values :
    \/ Set(path, value) \/ CompareAndSet(path, value) \/ RemoveValue(path)
    \/ \E path2 \in Paths, value2 \in Values : Update(path, value, path2, value2)

Spec == Init /\ [][Next]_dtVars
-----------------------------------------------------------------------------
WellFormed(root) ==
  \A q \in DOMAIN root : \A r \in Parents(q) : r \in DOMAIN root /\ root[r] = Object

TypeOK == WellFormed(data) /\ WellFormed(mirror)

\* What the database holds: its leaves, since null and empty objects are absent.
Leaves(root) == {<<q, root[q]>> : q \in {r \in DOMAIN root : root[r] >= 0}}

\* The mirror and the backend keep the same data through sets, multi-path
\* updates, increments, removals and transactions, although different code
\* applies each write -- unless a null was written below a leaf, where
\* set_at_path and apply_realtime_value both destroy the leaf, in different
\* cases.
MirrorMatchesBackend == ~erased => Leaves(data) = Leaves(mirror)
=============================================================================
