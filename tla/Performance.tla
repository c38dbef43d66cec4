---------------------------- MODULE Performance -----------------------------
(***************************************************************************)
(* Performance Monitoring (performance/api.rs, storage.rs, transport.rs):  *)
(* traces and network requests are put in a queue when they stop, and      *)
(* flushes take batches off it to upload, putting back what was not taken. *)
(* The queue is in memory, in memory and a file, or in IndexedDB, where    *)
(* it is read and written as a whole with nothing held in between.         *)
(***************************************************************************)
EXTENDS Integers, Sequences, FiniteSets

CONSTANTS Traces, Requests,   \* handles: TraceHandle, NetworkTraceHandle
          Flushes,            \* flush_once under way: the loop's, triggered or asked for
          BatchSize,
          MaxFaults, MaxSends, MaxSettings \* bounds: failures, uploads tried, switches turned

VARIABLES backend, queue, file,
          collecting, instrumenting,   \* PerformanceRuntimeSettings
          handles, flushes,
          uploaded,                    \* how often the endpoint got a record
          counts,
          disturbed   \* history: an answer or a write was lost, the program stopped, or IndexedDB was used twice at once

performanceVars == <<backend, queue, file, collecting, instrumenting, handles, flushes, uploaded, counts, disturbed>>

Handles == Traces \cup Requests
Torn == <<"torn">>
NoFlush == [pc |-> "idle", batch |-> <<>>, loaded |-> <<>>]
NoHandle == [pc |-> "new", marked |-> FALSE, loaded |-> <<>>]

\* A batch has a record; a file half written is not a queue.
ConstantsOK == BatchSize \in Nat \ {0} /\ "torn" \notin Handles

\* create_trace_store
Init ==
  /\ backend \in {"memory", "file", "indexedDb"}
  /\ queue = <<>> /\ file = <<>>
  /\ collecting \in BOOLEAN /\ instrumenting = collecting   \* resolve
  /\ handles = [h \in Handles |-> NoHandle]
  /\ flushes = [f \in Flushes |-> NoFlush]
  /\ uploaded = [h \in Handles |-> 0]
  /\ counts = [faults |-> 0, sends |-> 0, settings |-> 0]
  /\ disturbed = FALSE

Handle(h, pc) == handles[h].pc = pc
Flush(f, pc) == flushes[f].pc = pc
moves(h, pc) == handles' = [handles EXCEPT ![h].pc = pc]
goes(f, flush) == flushes' = [flushes EXCEPT ![f] = flush]
fault == counts.faults < MaxFaults /\ counts' = [counts EXCEPT !.faults = @ + 1]
settings == <<backend, collecting, instrumenting>>

TypeOK ==
  /\ \A f \in Flushes : Len(flushes[f].batch) <= BatchSize
  /\ \A h \in Handles : handles[h].pc \in {"new", "running", "asking", "stopped", "pushing", "putting", "kept", "dropped", "completed"}
  /\ backend # "file" => file \in Seq(Handles)

(***************************************************************************)
(* Handles                                                                 *)
(***************************************************************************)
Start(h) ==
  /\ Handle(h, "new") /\ moves(h, "running")
  /\ UNCHANGED <<settings, queue, file, flushes, uploaded, counts, disturbed>>

MarkResponseInitiated(h) ==
  /\ h \in Requests /\ Handle(h, "running") /\ ~handles[h].marked
  /\ handles' = [handles EXCEPT ![h].marked = TRUE]
  /\ UNCHANGED <<settings, queue, file, flushes, uploaded, counts, disturbed>>

\* stop: a network request asks for an App Check token first.
Stop(h) ==
  /\ Handle(h, "running") /\ moves(h, IF h \in Requests THEN "asking" ELSE "stopped")
  /\ UNCHANGED <<settings, queue, file, flushes, uploaded, counts, disturbed>>

TokenAnswered(h) ==
  /\ Handle(h, "asking") /\ moves(h, "stopped")
  /\ UNCHANGED <<settings, queue, file, flushes, uploaded, counts, disturbed>>

\* TraceHandle.record, and the traces instrumentation makes by itself
Record(h) ==
  /\ h \in Traces /\ Handle(h, "new") /\ moves(h, "stopped")
  /\ UNCHANGED <<settings, queue, file, flushes, uploaded, counts, disturbed>>

\* store_trace, store_network_request: each has a switch of its own; requests
\* hold the history's lock until they are in the queue.
Store(h) ==
  /\ Handle(h, "stopped")
  /\ h \in Requests => \A o \in Requests : ~Handle(o, "pushing") /\ ~Handle(o, "putting")
  /\ IF IF h \in Traces THEN collecting ELSE instrumenting
     THEN moves(h, "pushing") ELSE moves(h, "completed")
  /\ UNCHANGED <<settings, queue, file, flushes, uploaded, counts, disturbed>>

(***************************************************************************)
(* The store                                                               *)
(***************************************************************************)
\* persist_queue rewrites the file, or fails.
Persisted(q) ==
  \/ file' = (IF backend = "file" THEN q ELSE file) /\ UNCHANGED <<counts, disturbed>>
  \/ backend = "file" /\ fault /\ file' \in {file, Torn} /\ disturbed' = TRUE

InUse == (\E f \in Flushes : Flush(f, "loaded") \/ Flush(f, "reloaded")) \/ (\E h \in Handles : Handle(h, "putting"))
locked == backend # "indexedDb"

\* push: a record that cannot be persisted is still in the queue.
Push(h) ==
  /\ Handle(h, "pushing") /\ locked
  /\ queue' = Append(queue, h) /\ Persisted(queue')
  /\ moves(h, "kept")
  /\ UNCHANGED <<settings, flushes, uploaded>>

PushLoads(h) ==
  /\ Handle(h, "pushing") /\ ~locked
  /\ handles' = [handles EXCEPT ![h].pc = "putting", ![h].loaded = file]
  /\ disturbed' = (disturbed \/ InUse)
  /\ UNCHANGED <<settings, queue, file, flushes, uploaded, counts>>

PushStores(h) ==
  /\ Handle(h, "putting")
  /\ file' = Append(handles[h].loaded, h)
  /\ handles' = [handles EXCEPT ![h].pc = "kept", ![h].loaded = <<>>]
  /\ UNCHANGED <<settings, queue, flushes, uploaded, counts, disturbed>>

\* load_queue or store_queue fails: that is logged, `stop` returns Ok, the record is nowhere.
PushFails(h) ==
  /\ ~locked /\ (Handle(h, "pushing") \/ Handle(h, "putting"))
  /\ fault
  /\ handles' = [handles EXCEPT ![h].pc = "dropped", ![h].loaded = <<>>]
  /\ UNCHANGED <<settings, queue, file, flushes, uploaded, disturbed>>

taken(q) == SubSeq(q, 1, IF Len(q) < BatchSize THEN Len(q) ELSE BatchSize)

\* Mutant of rest: the batch's last record stays in the queue.
rest_OffByOne(q) == SubSeq(q, IF taken(q) = <<>> THEN 1 ELSE Len(taken(q)), Len(q))

rest(q) == SubSeq(q, Len(taken(q)) + 1, Len(q))

\* flush_once, once it may run: drain.  What could not be persisted is lost
\* to the flush but not taken back either.
Drain(f) ==
  /\ Flush(f, "draining") /\ locked
  /\ queue' = rest(queue) /\ Persisted(queue')
  /\ goes(f, IF counts' # counts \/ queue = <<>> THEN NoFlush ELSE [NoFlush EXCEPT !.pc = "drained", !.batch = taken(queue)])
  /\ UNCHANGED <<settings, handles, uploaded>>

DrainLoads(f) ==
  /\ Flush(f, "draining") /\ ~locked
  /\ goes(f, [NoFlush EXCEPT !.pc = "loaded", !.loaded = file])
  /\ disturbed' = (disturbed \/ InUse)
  /\ UNCHANGED <<settings, queue, file, handles, uploaded, counts>>

DrainStores(f) ==
  /\ Flush(f, "loaded")
  /\ file' = rest(flushes[f].loaded)
  /\ goes(f, IF flushes[f].loaded = <<>> THEN NoFlush ELSE [NoFlush EXCEPT !.pc = "drained", !.batch = taken(flushes[f].loaded)])
  /\ UNCHANGED <<settings, queue, handles, uploaded, counts, disturbed>>

\* load_queue or store_queue fails: the queue stays as it was.
DrainFails(f) ==
  /\ ~locked /\ (Flush(f, "draining") \/ Flush(f, "loaded"))
  /\ fault
  /\ goes(f, NoFlush)
  /\ UNCHANGED <<settings, queue, file, handles, uploaded, disturbed>>

(***************************************************************************)
(* The transport                                                           *)
(***************************************************************************)
\* trigger_flush, flush_transport, the loop of run
FlushOnce(f) ==
  /\ Flush(f, "idle") /\ collecting
  /\ goes(f, [NoFlush EXCEPT !.pc = "draining"])
  /\ UNCHANGED <<settings, queue, file, handles, uploaded, counts, disturbed>>

\* build_payload asks for the installation's id, with or without success.
Send(f) ==
  /\ Flush(f, "drained") /\ counts.sends < MaxSends /\ counts' = [counts EXCEPT !.sends = @ + 1]
  /\ goes(f, [flushes[f] EXCEPT !.pc = "sent"])
  /\ UNCHANGED <<settings, queue, file, handles, uploaded, disturbed>>

arrived(batch) == uploaded' = [h \in Handles |-> uploaded[h] + Cardinality({i \in DOMAIN batch : batch[i] = h})]

Uploaded(f) ==
  /\ Flush(f, "sent")
  /\ arrived(flushes[f].batch) /\ goes(f, NoFlush)
  /\ UNCHANGED <<settings, queue, file, handles, counts, disturbed>>

\* HttpTransportClient.send fails: refused, or taken and the answer lost.
SendFails(f, lost) ==
  /\ Flush(f, "sent")
  /\ goes(f, [flushes[f] EXCEPT !.pc = "requeueing"])
  /\ IF lost THEN arrived(flushes[f].batch) /\ disturbed' = TRUE ELSE UNCHANGED <<uploaded, disturbed>>
  /\ UNCHANGED <<settings, queue, file, handles, counts>>

requeued(f) == IF Len(flushes[f].batch) = 1 THEN NoFlush ELSE [NoFlush EXCEPT !.pc = "requeueing", !.batch = Tail(flushes[f].batch)]

\* requeue pushes them one by one, and gives up at the first that fails.
Requeue(f) ==
  /\ Flush(f, "requeueing") /\ locked
  /\ queue' = Append(queue, Head(flushes[f].batch)) /\ Persisted(queue')
  /\ goes(f, IF counts' # counts THEN NoFlush ELSE requeued(f))
  /\ UNCHANGED <<settings, handles, uploaded>>

RequeueLoads(f) ==
  /\ Flush(f, "requeueing") /\ ~locked
  /\ goes(f, [flushes[f] EXCEPT !.pc = "reloaded", !.loaded = file])
  /\ disturbed' = (disturbed \/ InUse)
  /\ UNCHANGED <<settings, queue, file, handles, uploaded, counts>>

RequeueStores(f) ==
  /\ Flush(f, "reloaded")
  /\ file' = Append(flushes[f].loaded, Head(flushes[f].batch))
  /\ goes(f, requeued(f))
  /\ UNCHANGED <<settings, queue, handles, uploaded, counts, disturbed>>

\* load_queue or store_queue fails: the record and the rest of its batch are dropped.
RequeueFails(f) ==
  /\ ~locked /\ (Flush(f, "requeueing") \/ Flush(f, "reloaded"))
  /\ fault
  /\ handles' = [h \in Handles |-> IF \E i \in DOMAIN flushes[f].batch : flushes[f].batch[i] = h
                                   THEN [handles[h] EXCEPT !.pc = "dropped"] ELSE handles[h]]
  /\ goes(f, NoFlush)
  /\ UNCHANGED <<settings, queue, file, uploaded, disturbed>>

ApplySettings(data, instrumentation) ==
  /\ <<data, instrumentation>> # <<collecting, instrumenting>>
  /\ counts.settings < MaxSettings /\ counts' = [counts EXCEPT !.settings = @ + 1]
  /\ collecting' = data /\ instrumenting' = instrumentation
  /\ UNCHANGED <<backend, queue, file, handles, flushes, uploaded, disturbed>>

\* The program starts again: a file that cannot be read is an empty queue.
Restart ==
  /\ fault
  /\ queue' = IF backend = "file" /\ file # Torn THEN file ELSE <<>>
  /\ flushes' = [f \in Flushes |-> NoFlush]
  /\ handles' = [h \in Handles |-> IF Handle(h, "new") \/ Handle(h, "kept") THEN handles[h] ELSE [NoHandle EXCEPT !.pc = "completed"]]
  /\ disturbed' = (disturbed \/ backend = "memory" \/ (\E f \in Flushes : ~Flush(f, "idle"))
                   \/ (\E h \in Handles : Handle(h, "pushing") \/ Handle(h, "putting")))
  /\ UNCHANGED <<settings, file, uploaded>>

Next ==
  \/ \E h \in Handles :
       \/ Start(h) \/ MarkResponseInitiated(h) \/ Stop(h) \/ TokenAnswered(h) \/ Record(h) \/ Store(h)
       \/ Push(h) \/ PushLoads(h) \/ PushStores(h) \/ PushFails(h)
  \/ \E f \in Flushes :
       \/ FlushOnce(f) \/ Drain(f) \/ DrainLoads(f) \/ DrainStores(f) \/ DrainFails(f) \/ Send(f) \/ Uploaded(f)
       \/ \E lost \in BOOLEAN : SendFails(f, lost)
       \/ Requeue(f) \/ RequeueLoads(f) \/ RequeueStores(f) \/ RequeueFails(f)
  \/ \E data, instrumentation \in BOOLEAN : ApplySettings(data, instrumentation)
  \/ Restart

Spec == Init /\ [][Next]_performanceVars
-----------------------------------------------------------------------------
In(h, s) == Cardinality({i \in DOMAIN s : s[i] = h})
Queued == IF locked THEN queue ELSE file

\* The batches on their way out, or back; what IndexedDB is about to store again
\* is not counted twice.
Waiting(h) ==
  In(h, Queued) + uploaded[h]
  + Cardinality({f \in Flushes : In(h, flushes[f].batch) > 0 /\ ~Flush(f, "loaded")})
  + IF Handle(h, "pushing") \/ Handle(h, "putting") THEN 1 ELSE 0

\* A record is in one place at a time: about to be queued, in the queue, in one
\* batch, or uploaded, once.  However flushes overlap, with uploads refused and
\* put back, IndexedDB failing and the program started again in between, it is
\* neither lost nor uploaded twice, unless an answer or a write of the file is lost
\* or IndexedDB is used twice at once.  The exception by name: a record whose push into
\* IndexedDB failed, its own or requeue's, and what came after it in requeue's batch,
\* is `dropped`, without a word to the caller.
RecordsAreUploadedOnce ==
  ~disturbed => \A h \in Handles :
    /\ Waiting(h) <= 1
    /\ Handle(h, "kept") => Waiting(h) = 1
=============================================================================
