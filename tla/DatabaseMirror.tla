--------------------------- MODULE DatabaseMirror ---------------------------
(***************************************************************************)
(* The local mirror of a Database (api.rs): writes go to the server over   *)
(* REST and are applied locally when the answer comes, the realtime reader *)
(* applies what the server pushes, a new listener seeds its path with a    *)
(* read, and every change is dispatched to the listeners.  A step is what  *)
(* a task does between two awaits or locks.                                *)
(*                                                                         *)
(* The tree is one location and its children.  A path is the set of the    *)
(* children below it: all of them, or one.  A value is the number of the   *)
(* write that made it, 0 when there is none.  The server (external) pushes *)
(* every change of a listened path, in order; RealtimeRepo models how the  *)
(* listens come and go.                                                    *)
(***************************************************************************)
EXTENDS Naturals, Sequences, FiniteSets, TLC

CONSTANTS Keys,       \* children of the location
          Targets,    \* for each listener, the kinds and paths it may be registered for
          WritePaths, \* the paths written
          MaxIds,     \* bound: listeners ever registered
          MaxRegistering, \* bound: registrations under way at once
          Writers,    \* tasks of the application that write
          MaxWrites   \* bound: writes, ours and others'

VARIABLES server,   \* the tree at the server, and the writes made so far
          wire,     \* pushes on the way to the reader
          mirror,   \* DatabaseInner.mirror
          table,    \* DatabaseInner.listeners: id -> [kind, path]
          jobs,     \* what each task is doing
          seen,     \* what the callbacks told each listener, kept until `raced`
          past      \* history for the properties

dmVars == <<server, wire, mirror, table, jobs, seen, past>>

Versions == 0 .. MaxWrites
Trees == [Keys -> Versions]
Paths == {Keys} \cup {{k} : k \in Keys}
Kinds == {"value", "added", "changed", "removed", "query"}
Ids == 1 .. MaxIds
reader == <<0, "reader">>
Listening(i) == <<i, "listener">>
Tasks == Writers \cup {Listening(i) : i \in Ids} \cup {reader}
Absent == [kind |-> "none", path |-> {}]

Null == [k \in Keys |-> 0]
Idle == [pc |-> "idle", path |-> {}, val |-> Null, old |-> Null, new |-> Null, todo |-> {}, calls |-> {}]
TargetsOf == [kind : Kinds, path : Paths]

TypeOK ==
  /\ server \in [tree : Trees, writes : Versions]
  /\ \A n \in 1 .. Len(wire) : wire[n].path \subseteq Keys /\ wire[n].val \in Trees
  /\ mirror \in Trees
  /\ table \in [Ids -> [kind : Kinds \cup {"none"}, path : Paths \cup {{}}]]
  /\ \A t \in Tasks : /\ jobs[t].pc \in {"idle", "writing", "applying", "dispatching", "calling", "listening", "seeding", "placing", "telling"}
                      /\ {jobs[t].val, jobs[t].old, jobs[t].new} \subseteq Trees
                      /\ jobs[t].path \subseteq Keys /\ jobs[t].todo \subseteq Keys
                      /\ jobs[t].calls \subseteq [id : Ids, target : TargetsOf]
  /\ seen \in [Ids -> Trees]
  /\ past \in [raced : BOOLEAN, used : 0 .. MaxIds, missed : SUBSET Ids]

Init ==
  /\ server = [tree |-> Null, writes |-> 0]
  /\ wire = <<>>
  /\ mirror = Null
  /\ table = [i \in Ids |-> Absent]
  /\ jobs = [t \in Tasks |-> Idle]
  /\ seen = [i \in Ids |-> Null]
  /\ past = [raced |-> FALSE, used |-> 0, missed |-> {}]

At(t, pc) == jobs[t].pc = pc
goes(t, job) == jobs' = [jobs EXCEPT ![t] = job]
Attached == {i \in Ids : table[i].kind # "none"}

(***************************************************************************)
(* Paths and values                                                        *)
(***************************************************************************)
\* One of the two paths is a prefix of the other.
paths_related(a, b) == a \cap b # {}

\* The value replaces what is at the path; null removes it.
apply_realtime_value(root, path, val) == [k \in Keys |-> IF k \in path THEN val[k] ELSE root[k]]

value_at_path(root, path) == [k \in Keys |-> IF k \in path THEN root[k] ELSE 0]

children(root) == {k \in Keys : root[k] # 0}

\* The children an event of this kind is raised for.
emit_child_events(event, old, new) ==
  CASE event = "added" -> children(new) \ children(old)
    [] event = "changed" -> {k \in children(new) \cap children(old) : old[k] # new[k]}
    [] OTHER -> children(old) \ children(new)

\* Mutant of told: a listener that overlaps the change is told of nothing.
told_Nothing(l, old, new) == seen[l.id]

\* What a listener knows after a change was dispatched to it.  A value
\* listener is not called when its view is as before; a query listener reads
\* its window from the server; the others keep the children they were told of.
told(l, old, new) ==
  LET before == value_at_path(old, l.target.path)
      after == value_at_path(new, l.target.path)
      kind == l.target.kind
  IN CASE kind = "value" -> IF before = after THEN seen[l.id] ELSE after
       [] kind = "query" -> value_at_path(server.tree, l.target.path)
       [] OTHER -> [k \in Keys |-> IF k \in emit_child_events(kind, before, after) THEN new[k] ELSE seen[l.id][k]]

\* `seen` matters until something raced.
tells(after) == seen' = IF past'.raced THEN [i \in Ids |-> Null] ELSE after

\* The listeners a change is dispatched to: copied from the table, called one by one.
matching(path) == {[id |-> i, target |-> table[i]] : i \in {j \in Attached : paths_related(table[j].path, path)}}

(***************************************************************************)
(* The server                                                              *)
(***************************************************************************)
\* The paths the server was told to listen to.
Listened == UNION {table[i].path : i \in {j \in Attached : ~At(Listening(j), "listening")}}

Pushes(path, val) ==
  IF path \cap Listened = {} THEN <<>> ELSE <<[path |-> path \cap Listened, val |-> value_at_path(val, path \cap Listened)]>>

\* A write of these children: the new tree and the number of the write.
writes(path, present) ==
  /\ server.writes < MaxWrites
  /\ LET n == server.writes + 1
         tree == [k \in Keys |-> IF k \notin path THEN server.tree[k] ELSE IF k \in present THEN n ELSE 0]
     IN /\ server' = [tree |-> tree, writes |-> n]
        /\ wire' = wire \o Pushes(path, tree)

OthersWrite(path, present) ==
  /\ writes(path, present)
  /\ UNCHANGED <<mirror, table, jobs, seen, past>>

(***************************************************************************)
(* set, remove, update, run_transaction's commit                           *)
(***************************************************************************)
\* The write reaches the server; `update` applies its children one by one.
Write(w, path, present, update) ==
  /\ At(w, "idle")
  /\ writes(path, present)
  /\ goes(w, [Idle EXCEPT !.pc = "writing", !.val = value_at_path(server'.tree, path), !.path = path,
                          !.todo = IF update THEN path ELSE {}])
  /\ UNCHANGED <<mirror, table, seen, past>>

\* The request fails, before or after the server applied it.
WriteFails(w) ==
  /\ At(w, "writing")
  /\ goes(w, Idle)
  /\ UNCHANGED <<server, wire, mirror, table, seen, past>>

\* Another task is between its change of the mirror and its last callback.
Overlaps(t) == \E u \in Tasks \ {t} : jobs[u].pc \in {"applying", "dispatching", "calling", "placing", "telling"}

\* The data is no longer what the server has.
Superseded(t, path) == \E k \in path : jobs[t].val[k] # server.tree[k]

\* apply_local_write: the mirror under its lock ...
ApplyLocalWrite(w) ==
  /\ At(w, "writing")
  /\ \E path \in (IF jobs[w].todo = {} THEN {jobs[w].path} ELSE {{k} : k \in jobs[w].todo}) :
       /\ mirror' = apply_realtime_value(mirror, path, jobs[w].val)
       /\ goes(w, [jobs[w] EXCEPT !.pc = "dispatching", !.path = path, !.old = mirror, !.new = mirror', !.todo = @ \ path])
       /\ past' = [past EXCEPT !.raced = @ \/ Overlaps(w) \/ Superseded(w, path)]
  /\ UNCHANGED <<server, wire, table>>
  /\ tells(seen)

\* With the last listener called, `update` goes on to its next child.
resumes(t, calls) ==
  goes(t, IF calls # {} THEN [jobs[t] EXCEPT !.pc = "calling", !.calls = calls]
          ELSE IF jobs[t].todo = {} THEN Idle ELSE [jobs[t] EXCEPT !.pc = "writing", !.calls = {}])

\* ... then dispatch_listeners: the listeners are collected ...
Dispatch(t) ==
  /\ At(t, "dispatching")
  /\ resumes(t, matching(jobs[t].path))
  /\ UNCHANGED <<server, wire, mirror, table, seen, past>>

\* ... and called, in any order; a snapshot makes up for what a listener missed ...
Tell(t) ==
  /\ At(t, "calling")
  /\ \E l \in jobs[t].calls :
       LET view == told(l, jobs[t].old, jobs[t].new)
       IN /\ past' = [past EXCEPT !.missed = IF l.target.kind = "query" \/ (l.target.kind = "value" /\ view # seen[l.id])
                                              THEN @ \ {l.id} ELSE @]
          /\ tells(IF table[l.id] = l.target THEN [seen EXCEPT ![l.id] = view] ELSE seen)
          /\ resumes(t, jobs[t].calls \ {l})
  /\ UNCHANGED <<server, wire, mirror, table>>

\* ... until a query listener's read fails.  The rest are not called, nor the rest of an
\* `update` applied: its caller gets the error, the reader logs it.
TellFails(t) ==
  /\ At(t, "calling")
  /\ \E l \in jobs[t].calls :
       /\ l.target.kind = "query"
       /\ past' = [past EXCEPT !.missed = @ \cup ({m.id : m \in jobs[t].calls} \cap Attached)]
  /\ goes(t, Idle)
  /\ UNCHANGED <<server, wire, mirror, table, seen>>

(***************************************************************************)
(* handle_realtime_data                                                    *)
(***************************************************************************)
\* The mirror is copied and the copy changed ...
ReaderTakes ==
  /\ At(reader, "idle") /\ wire # <<>>
  /\ wire' = Tail(wire)
  /\ goes(reader, [Idle EXCEPT !.pc = "applying", !.path = Head(wire).path, !.old = mirror,
                               !.new = apply_realtime_value(mirror, Head(wire).path, Head(wire).val)])
  /\ past' = [past EXCEPT !.raced = @ \/ Overlaps(reader)]
  /\ UNCHANGED <<server, mirror, table>>
  /\ tells(seen)

\* ... and the copy stored, whatever the mirror is by now.
ReaderStores ==
  /\ At(reader, "applying")
  /\ mirror' = jobs[reader].new
  /\ goes(reader, [jobs[reader] EXCEPT !.pc = "dispatching"])
  /\ past' = [past EXCEPT !.raced = @ \/ Overlaps(reader)]
  /\ UNCHANGED <<server, wire, table>>
  /\ tells(seen)

(***************************************************************************)
(* register_listener and remove_listener                                   *)
(***************************************************************************)
\* The listener is in the table before anything else ...
RegisterListener(i, target) ==
  /\ i = past.used + 1
  /\ Cardinality({j \in Ids : ~At(Listening(j), "idle")}) < MaxRegistering
  /\ table' = [table EXCEPT ![i] = target]
  /\ past' = [past EXCEPT !.used = i]
  /\ goes(Listening(i), [Idle EXCEPT !.pc = "listening", !.path = target.path])
  /\ UNCHANGED <<server, wire, mirror, seen>>

\* ... the server is told, and answers with the data ...
ListenStarts(i) ==
  /\ At(Listening(i), "listening")
  /\ IF i \in Attached
     THEN /\ goes(Listening(i), [jobs[Listening(i)] EXCEPT !.pc = "seeding"])
          /\ wire' = wire \o <<[path |-> jobs[Listening(i)].path, val |-> value_at_path(server.tree, jobs[Listening(i)].path)]>>
     ELSE goes(Listening(i), Idle) /\ UNCHANGED wire
  /\ UNCHANGED <<server, mirror, table, seen, past>>

\* ... the path is read over REST, unless it is a query's ...
SeedRead(i) ==
  /\ At(Listening(i), "seeding")
  /\ goes(Listening(i), [jobs[Listening(i)] EXCEPT !.pc = "placing", !.val = value_at_path(server.tree, jobs[Listening(i)].path)])
  /\ UNCHANGED <<server, wire, mirror, table, seen, past>>

\* A failed read removes the listener again.
SeedFails(i) ==
  /\ At(Listening(i), "seeding")
  /\ table' = [table EXCEPT ![i] = Absent]
  /\ goes(Listening(i), Idle)
  /\ UNCHANGED <<server, wire, mirror, past>>
  /\ tells([seen EXCEPT ![i] = Null])

\* ... placed in the mirror, without telling the other listeners ...
SeedMirror(i) ==
  /\ At(Listening(i), "placing")
  /\ mirror' = IF table[i].kind = "query" THEN mirror
               ELSE apply_realtime_value(mirror, jobs[Listening(i)].path, jobs[Listening(i)].val)
  /\ goes(Listening(i), [jobs[Listening(i)] EXCEPT !.pc = "telling", !.new = mirror'])
  /\ past' = [past EXCEPT !.raced = @ \/ Overlaps(Listening(i)) \/ Superseded(Listening(i), jobs[Listening(i)].path) \/ (mirror' # mirror /\ Attached # {i})]
  /\ UNCHANGED <<server, wire, table>>
  /\ tells(seen)

\* ... and the first callback is made.
FirstEvent(i) ==
  /\ At(Listening(i), "telling")
  /\ past' = [past EXCEPT !.missed = IF table[i].kind \in {"value", "query"} THEN @ \ {i} ELSE @]
  /\ tells([seen EXCEPT ![i] =
       CASE table[i].kind = "value" -> value_at_path(jobs[Listening(i)].new, jobs[Listening(i)].path)
         [] table[i].kind = "query" -> value_at_path(server.tree, jobs[Listening(i)].path)
         [] table[i].kind = "added" -> [k \in Keys |-> IF k \in jobs[Listening(i)].path /\ jobs[Listening(i)].new[k] # 0 THEN jobs[Listening(i)].new[k] ELSE @[k]]
         [] OTHER -> @])
  /\ goes(Listening(i), Idle)
  /\ UNCHANGED <<server, wire, mirror, table>>

\* The first read of a query fails: the error is returned, and the listener stays in the
\* table without a handle.
FirstEventFails(i) ==
  /\ At(Listening(i), "telling") /\ table[i].kind = "query"
  /\ goes(Listening(i), Idle)
  /\ past' = [past EXCEPT !.missed = @ \cup ({i} \cap Attached)]
  /\ UNCHANGED <<server, wire, mirror, table, seen>>

\* The handle is dropped, or the server revokes the path.
RemoveListener(i) ==
  /\ i \in Attached
  /\ table' = [table EXCEPT ![i] = Absent]
  /\ past' = [past EXCEPT !.raced = @ \/ ~At(Listening(i), "idle"), !.missed = @ \ {i}]
  /\ UNCHANGED <<server, wire, mirror, jobs>>
  /\ tells([seen EXCEPT ![i] = Null])

\* fail_listeners, after an error action or the end of the connection: what
\* was on the way is lost with it.
FailListeners ==
  /\ Attached # {} /\ At(reader, "idle")
  /\ table' = [i \in Ids |-> Absent]
  /\ wire' = <<>>
  /\ past' = [past EXCEPT !.raced = TRUE, !.missed = {}]
  /\ UNCHANGED <<server, mirror, jobs>>
  /\ tells(seen)

Next ==
  \/ \E path \in WritePaths : \E present \in {path, {}} :
       \/ OthersWrite(path, present)
       \/ \E w \in Writers : Write(w, path, present, FALSE) \/ Write(w, path, present, TRUE)
  \/ \E w \in Writers : WriteFails(w) \/ ApplyLocalWrite(w)
  \/ \E t \in Tasks : Dispatch(t) \/ Tell(t) \/ TellFails(t)
  \/ ReaderTakes \/ ReaderStores \/ FailListeners
  \/ \E i \in Ids : \/ \E target \in Targets[i] : RegisterListener(i, target)
                    \/ ListenStarts(i) \/ SeedRead(i) \/ SeedFails(i) \/ SeedMirror(i) \/ FirstEvent(i)
                    \/ FirstEventFails(i) \/ RemoveListener(i)

Spec == Init /\ [][Next]_dmVars
-----------------------------------------------------------------------------
\* A reference listener at the path or above it: `get` reads the mirror.
is_synced(path) == \E i \in Attached : table[i].kind # "query" /\ path \subseteq table[i].path

Quiet == wire = <<>> /\ \A t \in Tasks : At(t, "idle")

\* When nothing is on the way, the mirror holds the server's data wherever
\* `get` answers from it, and value and query listeners were last told their view --
\* unless data was applied after newer data, two tasks changed the mirror at
\* once, a seed changed what another listener sees, or a registration was cut
\* short.  A query listener whose read failed, and the listeners it kept from
\* being called, have `missed` a callback until a later one makes up for it; the
\* mirror is exact all the same.
ViewsAreExact ==
  Quiet /\ ~past.raced =>
    /\ \A k \in Keys : is_synced({k}) => mirror[k] = server.tree[k]
    /\ \A i \in Attached \ past.missed :
         /\ table[i].kind \in {"value", "query"} => seen[i] = value_at_path(server.tree, table[i].path)
         /\ table[i].kind = "added" => children(value_at_path(server.tree, table[i].path)) \subseteq children(seen[i])
=============================================================================
