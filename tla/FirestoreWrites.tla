--------------------------- MODULE FirestoreWrites ---------------------------
(***************************************************************************)
(* Firestore writes: what set, merge and update make of the caller's data  *)
(* (operations.rs), the batches (write_batch.rs) and transactions          *)
(* (transaction.rs) that stage them, and the in-memory store that applies  *)
(* them (in_memory.rs).  The store keeps documents and versions    *)
(* under two locks; tasks of a multi-threaded runtime interleave wherever  *)
(* a lock is released.                                                     *)
(*                                                                         *)
(* A document is the set of its leaves: a function from field paths, none  *)
(* a prefix of another, to values.  A map without a field is a leaf.       *)
(***************************************************************************)
EXTENDS Integers, Sequences, FiniteSets, SequencesExt

CONSTANTS Tasks, Keys,
          Payloads,      \* the data of sets and updates
          MAX_BATCH_WRITES,
          MaxWrites      \* bound: writes staged in all

VARIABLES documents,  \* InMemoryDatastore.documents
          versions,   \* .versions: the next one, and each document's, 0 for none
          tasks, past

writeVars == <<documents, versions, tasks, past>>

Value(kind, n) == [kind |-> kind, n |-> n, of |-> <<>>]
Integer(n) == Value("integer", n)
Array(elements) == [kind |-> "array", n |-> 0, of |-> elements]
EmptyMap == Value("emptyMap", 0)
Time == Value("timestamp", 0)
SubMap == Value("map", 0)     \* the value at a path with leaves below it
Absent == Value("absent", 0)

\* FieldValue sentinels
DeleteField == Value("delete", 0)
ServerTimestamp == Value("serverTimestamp", 0)
Increment(operand) == [kind |-> "increment", n |-> operand.n, of |-> <<operand>>]
ArrayUnion(elements) == [kind |-> "union", n |-> 0, of |-> elements]
ArrayRemove(elements) == [kind |-> "remove", n |-> 0, of |-> elements]
IsSentinel(v) == v.kind \in {"delete", "serverTimestamp", "increment", "union", "remove"}

NoDocument == [exists |-> FALSE, leaves |-> <<>>]
Document(leaves) == [exists |-> TRUE, leaves |-> leaves]
NoLeaves == <<>>   \* the function with an empty domain

Replace == [merge |-> FALSE, fields |-> {}]
MergeAll == [merge |-> TRUE, fields |-> {}]
MergeFields(fields) == [merge |-> FALSE, fields |-> fields]

\* Precondition
None == [kind |-> "none", n |-> 0]
Exists(yes) == [kind |-> "exists", n |-> IF yes THEN 1 ELSE 0]
UpdateTime(version) == [kind |-> "updateTime", n |-> version]

\* A batch without a write; `conditional`: it is a transaction, `read` the
\* version of each document it read, 0 for none.
Idle == [pc |-> "idle", writes |-> <<>>, conditional |-> FALSE, at |-> 1, read |-> [k \in Keys |-> -1]]

Init ==
  /\ documents = [k \in Keys |-> NoDocument]
  /\ versions = [next |-> 0, of |-> [k \in Keys |-> 0]]
  /\ tasks = [t \in Tasks |-> Idle]
  /\ past = [staged |-> 0, overlapped |-> FALSE, torn |-> FALSE]

TypeOK ==
  /\ \A k \in Keys : documents[k].exists \in BOOLEAN /\ versions.of[k] \in 0 .. versions.next
  /\ \A t \in Tasks : (tasks[t].conditional \/ Len(tasks[t].writes) <= MAX_BATCH_WRITES) /\ tasks[t].at \in 1 .. Len(tasks[t].writes) + 1
  /\ past.staged \in 0 .. MaxWrites

(***************************************************************************)
(* Fields                                                                  *)
(***************************************************************************)
Above(p, q) == IsStrictPrefix(p, q)
Keep(leaves, paths) == [p \in paths |-> leaves[p]]

value_for_field_path(leaves, p) ==
  IF p \in DOMAIN leaves THEN leaves[p]
  ELSE IF \E q \in DOMAIN leaves : Above(p, q) THEN SubMap ELSE Absent

\* A scalar on the way becomes a map, a map in the place is replaced.
set_value_at_field_path(leaves, p, v) ==
  LET stay == {q \in DOMAIN leaves : q # p /\ ~Above(p, q) /\ ~Above(q, p)}
  IN [q \in stay \cup {p} |-> IF q = p THEN v ELSE leaves[q]]

\* The map around the field stays, if empty.
remove_value_at_field_path(leaves, p) ==
  LET stay == {q \in DOMAIN leaves : q # p /\ ~Above(p, q)}
      emptied == IF stay # DOMAIN leaves /\ Len(p) > 1 /\ ~\E q \in stay : Above(Front(p), q) THEN {Front(p)} ELSE {}
  IN [q \in stay \cup emptied |-> IF q \in emptied THEN EmptyMap ELSE leaves[q]]

\* A set of paths one after the other, in the order of their names; none is
\* above another.
Paths == UNION {DOMAIN d : d \in Payloads}
PathOrder == SetToSeq(Paths)
InOrder(paths) == SelectSeq(PathOrder, LAMBDA p : p \in paths)

\* Every path of the mask takes its value from the data, or is removed.
masked(leaves, data, mask) ==
  FoldLeft(LAMBDA acc, p : IF p \in DOMAIN data THEN set_value_at_field_path(acc, p, data[p]) ELSE remove_value_at_field_path(acc, p),
           leaves, InOrder(mask))

Elements(v) == IF v.kind = "array" THEN v.of ELSE <<>>

array_union(current, additions) ==
  Array(FoldLeft(LAMBDA acc, e : IF Contains(acc, e) THEN acc ELSE Append(acc, e), Elements(current), additions))

array_remove(current, removals) == Array(SelectSeq(Elements(current), LAMBDA e : ~Contains(removals, e)))

numeric_increment(current, operand) == IF current.kind = "integer" THEN Integer(current.n + operand.n) ELSE operand

transformed(current, op) ==
  CASE op.kind = "serverTimestamp" -> Time
    [] op.kind = "union" -> array_union(current, op.of)
    [] op.kind = "remove" -> array_remove(current, op.of)
    [] op.kind = "increment" -> numeric_increment(current, op.of[1])

apply_field_transforms(leaves, transforms) ==
  FoldLeft(LAMBDA acc, p : set_value_at_field_path(acc, p, transformed(value_for_field_path(acc, p), transforms[p])),
           leaves, InOrder(DOMAIN transforms))

(***************************************************************************)
(* Encoding                                                                *)
(***************************************************************************)
\* No sentinel within an array, no operand that is not a number.
validate_sentinel_usage(data) ==
  \A p \in DOMAIN data :
    /\ data[p].kind \in {"array", "union", "remove"} => \A i \in DOMAIN data[p].of : ~IsSentinel(data[p].of[i])
    /\ data[p].kind = "increment" => data[p].of[1].kind = "integer"

\* sanitize_for_write: plain fields, without the maps that have none left,
\* transforms, and the fields to delete.
Plain(data) == {p \in DOMAIN data : ~IsSentinel(data[p]) /\ data[p] # EmptyMap}
Transforms(data) == {p \in DOMAIN data : IsSentinel(data[p]) /\ data[p] # DeleteField}
Deleted(data) == {p \in DOMAIN data : data[p] = DeleteField}

Write(op, key, data, all, mask) ==
  [op |-> op, key |-> key, data |-> Keep(data, Plain(data)), all |-> all, mask |-> mask,
   transforms |-> Keep(data, Transforms(data)), pre |-> None]

is_merge(options) == options.merge \/ options.fields # {}

\* validate_mask_against_available, and what a merge must have.
Settable(data, options) ==
  LET available == Plain(data) \cup Transforms(data) \cup Deleted(data)
  IN /\ validate_sentinel_usage(data)
     /\ Deleted(data) # {} => is_merge(options)
     /\ options.fields \subseteq available
     /\ options.merge => available # {}

\* Mutant of encode_set_data: fields to delete are not in the mask.
encode_set_data_ForgetsDeleted(key, data, options) ==
  Write("set", key, data, ~is_merge(options), IF options.fields # {} THEN options.fields ELSE Plain(data) \cup Transforms(data))

\* The mask of a merge has all fields of the data, transforms included.
encode_set_data(key, data, options) ==
  Write("set", key, data, ~is_merge(options),
        IF options.fields # {} THEN options.fields ELSE Plain(data) \cup Transforms(data) \cup Deleted(data))

Updatable(data) == validate_sentinel_usage(data) /\ Plain(data) \cup Transforms(data) \cup Deleted(data) # {}

\* The mask of an update has no transforms.
encode_update_document_data(key, data) == Write("update", key, data, FALSE, Plain(data) \cup Deleted(data))

(***************************************************************************)
(* The in-memory store                                                     *)
(***************************************************************************)
apply_set(document, w) ==
  Document(apply_field_transforms(IF w.all THEN w.data ELSE masked(document.leaves, w.data, w.mask), w.transforms))

apply_update(document, w) == Document(apply_field_transforms(masked(document.leaves, w.data, w.mask), w.transforms))

applied(document, w) ==
  CASE w.op = "set" -> apply_set(document, w)
    [] w.op = "update" -> apply_update(document, w)
    [] w.op = "delete" -> NoDocument
    [] w.op = "verify" -> document

\* An update needs its document.
Applicable(document, w) == w.op = "update" => document.exists

At(t, pc) == tasks[t].pc = pc
goes(t, job) == tasks' = [tasks EXCEPT ![t] = job]
Current(t) == tasks[t].writes[tasks[t].at]

\* Transaction::new; Idle is WriteBatch::new.
Transact(t) ==
  /\ tasks[t] = Idle
  /\ goes(t, [Idle EXCEPT !.conditional = TRUE])
  /\ UNCHANGED <<documents, versions, past>>

ensure_capacity(t) == Len(tasks[t].writes) < MAX_BATCH_WRITES
written(t, key) == \E i \in DOMAIN tasks[t].writes : tasks[t].writes[i].key = key
\* The first write of a transaction to a document is pinned to what was read.
Pinned(t, key) == tasks[t].conditional /\ ~written(t, key) /\ tasks[t].read[key] # -1

precondition_for(t, key) ==
  IF ~Pinned(t, key) THEN None
  ELSE IF tasks[t].read[key] = 0 THEN Exists(FALSE) ELSE UpdateTime(tasks[t].read[key])

precondition_for_update(t, key) ==
  IF ~tasks[t].conditional THEN None
  ELSE IF Pinned(t, key) THEN UpdateTime(tasks[t].read[key]) ELSE Exists(TRUE)

stages(t, w, precondition) ==
  /\ At(t, "idle") /\ (tasks[t].conditional \/ ensure_capacity(t)) /\ past.staged < MaxWrites
  /\ goes(t, [tasks[t] EXCEPT !.writes = Append(@, [w EXCEPT !.pre = precondition])])
  /\ past' = [past EXCEPT !.staged = @ + 1]
  /\ UNCHANGED <<documents, versions>>

StageSet(t, key, data, options) ==
  Settable(data, options) /\ stages(t, encode_set_data(key, data, options), precondition_for(t, key))

\* "Can't update a document that doesn't exist."
StageUpdate(t, key, data) ==
  /\ Updatable(data) /\ (Pinned(t, key) => tasks[t].read[key] # 0)
  /\ stages(t, encode_update_document_data(key, data), precondition_for_update(t, key))

Bare(op, key) == [Write("delete", key, NoLeaves, TRUE, {}) EXCEPT !.op = op]
StageDelete(t, key) == stages(t, Bare("delete", key), precondition_for(t, key))

\* A transaction's get, before its writes: batch_get_documents takes the data
\* under the lock of the documents, and the version.  A second read changes
\* nothing.
Read(t, key) ==
  /\ At(t, "idle") /\ tasks[t].conditional /\ tasks[t].writes = <<>> /\ tasks[t].read[key] = -1
  /\ documents[key].exists => versions.of[key] # 0   \* else record_version fails
  /\ goes(t, [tasks[t] EXCEPT !.read[key] = IF documents[key].exists THEN versions.of[key] ELSE 0])
  /\ UNCHANGED <<documents, versions, past>>

Busy(t) == ~At(t, "idle")

\* A verify entry for every document only read.
finish(t) ==
  LET only == {k \in Keys : tasks[t].read[k] # -1 /\ ~written(t, k)}
  IN tasks[t].writes \o SetToSeq({[Bare("verify", k) EXCEPT !.pre = precondition_for(t, k)] : k \in only})

\* commit, commit_with_results; commit_conditional of a transaction.
Commit(t) ==
  /\ At(t, "idle") /\ finish(t) # <<>>
  /\ goes(t, [tasks[t] EXCEPT !.pc = IF tasks[t].conditional THEN "checking" ELSE "applying", !.writes = finish(t)])
  /\ past' = [past EXCEPT !.overlapped = @ \/ \E u \in Tasks : Busy(u)]
  /\ UNCHANGED <<documents, versions>>

check_precondition(w) ==
  CASE w.pre.kind = "none" -> TRUE
    [] w.pre.kind = "exists" -> (w.pre.n = 1) = (versions.of[w.key] # 0)
    [] w.pre.kind = "updateTime" -> w.pre.n = versions.of[w.key]

\* A transaction that fails is tried again from the start.
ends(t) == goes(t, Idle)
proceeds(t) == IF tasks[t].at < Len(tasks[t].writes) THEN goes(t, [tasks[t] EXCEPT !.pc = "applying", !.at = @ + 1]) ELSE ends(t)

\* The function of a transaction returns an error, a batch is dropped.
Discard(t) ==
  /\ At(t, "idle") /\ tasks[t] # Idle
  /\ ends(t)
  /\ UNCHANGED <<documents, versions, past>>

\* One precondition after the other.
Check(t) ==
  /\ At(t, "checking")
  /\ IF ~check_precondition(Current(t)) THEN ends(t)
     ELSE IF tasks[t].at < Len(tasks[t].writes) THEN goes(t, [tasks[t] EXCEPT !.at = @ + 1])
     ELSE goes(t, [tasks[t] EXCEPT !.pc = "applying", !.at = 1])
  /\ UNCHANGED <<documents, versions, past>>

\* One write after the other: the document, under its lock.
Apply(t) ==
  /\ At(t, "applying") /\ Applicable(documents[Current(t).key], Current(t))
  /\ documents' = [documents EXCEPT ![Current(t).key] = applied(@, Current(t))]
  /\ IF Current(t).op = "verify" THEN proceeds(t) ELSE goes(t, [tasks[t] EXCEPT !.pc = "versioning"])
  /\ UNCHANGED <<versions, past>>

\* The commit ends with an error, and what was applied stays.
ApplyFails(t) ==
  /\ At(t, "applying") /\ ~Applicable(documents[Current(t).key], Current(t))
  /\ ends(t)
  /\ past' = [past EXCEPT !.torn = @ \/ tasks[t].at > 1]
  /\ UNCHANGED <<documents, versions>>

\* Mutant of Version: a deleted document gets a version too.
Version_OfDeleted(t) ==
  /\ At(t, "versioning")
  /\ versions' = [next |-> versions.next + 1, of |-> [versions.of EXCEPT ![Current(t).key] = versions.next + 1]]
  /\ proceeds(t)
  /\ UNCHANGED <<documents, past>>

\* bump_version, forget_version: the version, under its own lock.
Version(t) ==
  /\ At(t, "versioning")
  /\ versions' = IF Current(t).op = "delete" THEN [versions EXCEPT !.of[Current(t).key] = 0]
                 ELSE [next |-> versions.next + 1, of |-> [versions.of EXCEPT ![Current(t).key] = versions.next + 1]]
  /\ proceeds(t)
  /\ UNCHANGED <<documents, past>>

Options(data) == {Replace, MergeAll} \cup {MergeFields({p}) : p \in DOMAIN data}

Steps(t) ==
  \/ \E k \in Keys, d \in Payloads : StageUpdate(t, k, d) \/ \E o \in Options(d) : StageSet(t, k, d, o)
  \/ \E k \in Keys : StageDelete(t, k) \/ Read(t, k)
  \/ Transact(t) \/ Discard(t) \/ Commit(t) \/ Check(t) \/ Apply(t) \/ ApplyFails(t) \/ Version(t)

Next == \E t \in Tasks : Steps(t)

Spec == Init /\ [][Next]_writeVars
-----------------------------------------------------------------------------
\* What data means for a stored document: each field set, deleted or
\* transformed from the value it has there.
Meaning(document, data) ==
  FoldLeft(LAMBDA acc, p :
             IF data[p] = DeleteField THEN remove_value_at_field_path(acc, p)
             ELSE set_value_at_field_path(acc, p, IF IsSentinel(data[p]) THEN transformed(value_for_field_path(acc, p), data[p]) ELSE data[p]),
           document.leaves, InOrder(DOMAIN data))

\* Transforms that depend on the stored value.
Relative(data) == {p \in DOMAIN data : data[p].kind \in {"increment", "union", "remove"}}
HasEmptyMap(data) == \E p \in DOMAIN data : data[p] = EmptyMap

\* An update does to the document exactly what its data says, field by field,
\* and so does a merge, save for transforms of a stored value and empty maps.
WritesMeanTheirData ==
  \A k \in Keys, data \in Payloads :
    ~HasEmptyMap(data) =>
      /\ Updatable(data) => apply_update(documents[k], encode_update_document_data(k, data)).leaves = Meaning(documents[k], data)
      /\ Settable(data, MergeAll) /\ Relative(data) = {} =>
           apply_set(documents[k], encode_set_data(k, data, MergeAll)).leaves = Meaning(documents[k], data)

\* As long as commits do not overlap, a document has a version exactly when it
\* exists, unless its version is about to be set.
VersionsTrackDocuments ==
  ~past.overlapped =>
    \A k \in Keys : (documents[k].exists <=> versions.of[k] # 0) \/ \E t \in Tasks : At(t, "versioning") /\ Current(t).key = k

\* commit_conditional checks "every precondition before applying anything so the
\* commit stays atomic": a transaction starts to apply its writes to the very
\* versions it read.
AppliesToWhatWasRead ==
  \A t \in Tasks : (At(t, "applying") /\ tasks[t].conditional /\ tasks[t].at = 1) =>
    \A i \in DOMAIN tasks[t].writes : check_precondition(tasks[t].writes[i])

\* Merging data into a document keeps what the data does not replace: a
\* transform of a field starts from the value stored there.
MergeTransformsTheStoredValue ==
  \A k \in Keys, data \in Payloads :
    Settable(data, MergeAll) /\ ~HasEmptyMap(data) =>
      apply_set(documents[k], encode_set_data(k, data, MergeAll)).leaves = Meaning(documents[k], data)

\* A batch is committed as a whole or not at all.
BatchesAreAtomic == ~past.torn
=============================================================================
