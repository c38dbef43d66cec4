-------------------------- MODULE FirestoreListener --------------------------
(***************************************************************************)
(* A snapshot listener (api/listener.rs) on one target of the Firestore    *)
(* Listen stream: run_listener reopens the stream, pump_stream feeds each  *)
(* message to the WatchChangeAggregator and, at a global NO_CHANGE with a  *)
(* read time, folds the drained RemoteEvent into the view and raises a     *)
(* snapshot.                                                               *)
(*                                                                         *)
(* The backend is external: it knows the result set of the query at every  *)
(* read time and streams the difference to what the client must hold, from *)
(* nothing or from a resume token.  A document is its update time, Absent  *)
(* when it does not match the query.                                       *)
(***************************************************************************)
EXTENDS Integers, Sequences, FiniteSets, SequencesExt

CONSTANTS Docs,       \* document keys that can match the query
          MaxTime,    \* bound: read times the backend reaches
          MaxDrops,   \* bound: streams that are dropped or cannot be opened
          MaxQueued,  \* bound: messages in the stream at once
          ServerMay   \* liberties of the backend, a subset of Liberties

\* token: CURRENT carries a resume token.  moveOut: on a resumed stream,
\* too, a document that leaves the query may be sent as a DocumentChange with
\* removed_target_ids.  readd: a document leaves and returns between two
\* snapshots.  lateReset: RESET
\* follows documents of the same batch.  earlyFilter: an existence filter
\* precedes CURRENT.  unavailable: a stream cannot be opened for now.
\* reject: the target is rejected for good.
Liberties == {"token", "moveOut", "readd", "lateReset", "earlyFilter", "unavailable", "reject"}

ASSUME DocsAssumption == IsFiniteSet(Docs)
ASSUME ServerMayAssumption == ServerMay \subseteq Liberties
ASSUME BoundsAssumption == MaxTime \in Nat \ {0} /\ MaxDrops \in Nat /\ MaxQueued \in Nat \ {0}

VARIABLES hist,     \* backend: result set at each read time
          server,   \* backend: its side of the open stream
          channel,  \* messages of the stream the client has not taken
          drops,    \* streams lost so far
          phase,    \* run_listener
          token,    \* run_listener: resume_token, 0 for None
          agg,      \* pump_stream: aggregator and saw_existence_filter
          view,     \* QueryViewSink
          snap,     \* last snapshot handed to the callback
          past      \* history: what went wrong with them, see NothingPast

clientVars == <<phase, token, agg, view, snap, past>>
vars == <<hist, server, channel, drops, clientVars>>

Absent == 0
NoUpdate == -1
NoToken == 0
Versions == 0 .. MaxTime
Results == [Docs -> Versions]
Nothing == [d \in Docs |-> Absent]
Matching(result) == {d \in Docs : result[d] # Absent}

now == Len(hist)
latest == hist[now]
\* The result set the stream is bringing the client to.
target == hist[server.at]

(***************************************************************************)
(* State of a fresh stream and of a fresh sink.                            *)
(***************************************************************************)
\* WatchChangeAggregator::new; removed, current and dirty are TargetState's,
\* `known` says whether the target has one.
NewAggregator ==
  [known |-> FALSE, current |-> FALSE, dirty |-> FALSE, removed |-> {}, docs |-> {},
   updates |-> [d \in Docs |-> NoUpdate], reset |-> FALSE, sawFilter |-> FALSE]

NewSink == [docs |-> Nothing, current |-> FALSE, raised |-> FALSE, previous |-> Nothing]

\* The messages that lead the code astray, as far as the client can tell: a resume
\* token ahead of its snapshot, which a drop makes the next open resume from
\* (`ahead`), and changes the aggregator merges into the wrong documents (`batch`).
\* `view` and `snap` say that the view, and the last snapshot, come of such changes.
NothingPast == [ahead |-> FALSE, batch |-> FALSE, view |-> FALSE, snap |-> FALSE]

NewSession(result, resumed) ==
  [at |-> now, resumed |-> resumed, sent |-> result, current |-> FALSE, filtered |-> FALSE, wasReset |-> FALSE, touched |-> {},
   gone |-> {}, boundary |-> FALSE]

Messages ==
  [type : {"add", "reset"}] \cup [type : {"doc", "moved"}, doc : Docs, version : 1 .. MaxTime]
  \cup [type : {"gone"}, doc : Docs] \cup [type : {"current"}, token : Versions]
  \cup [type : {"filter"}, count : 0 .. Cardinality(Docs)]
  \cup [type : {"snapshot"}, time : 1 .. MaxTime] \cup [type : {"rejected"}]

TypeOK ==
  /\ hist \in Seq(Results) /\ now \in 1 .. MaxTime
  /\ server \in [at : Versions, resumed : BOOLEAN, sent : Results, current : BOOLEAN, filtered : BOOLEAN, wasReset : BOOLEAN,
                 touched : SUBSET Docs, gone : SUBSET Docs, boundary : BOOLEAN]
  /\ channel \in Seq(Messages) /\ Len(channel) <= MaxQueued
  /\ drops \in 0 .. MaxDrops
  /\ phase \in {"opening", "pumping", "failed"}
  /\ token \in 0 .. MaxTime
  /\ agg \in [known : BOOLEAN, current : BOOLEAN, dirty : BOOLEAN, removed : SUBSET Docs,
              docs : SUBSET Docs, updates : [Docs -> Versions \cup {NoUpdate}],
              reset : BOOLEAN, sawFilter : BOOLEAN]
  /\ view \in [docs : Results, current : BOOLEAN, raised : BOOLEAN, previous : Results]
  /\ snap \in [docs : Results, inSync : BOOLEAN, time : Versions]
  /\ past \in [ahead : BOOLEAN, batch : BOOLEAN, view : BOOLEAN, snap : BOOLEAN]

Init ==
  /\ hist \in {<<r>> : r \in [Docs -> {Absent, 1}]}
  /\ server = NewSession(Nothing, FALSE)
  /\ channel = <<>>
  /\ drops = 0
  /\ phase = "opening"
  /\ token = NoToken
  /\ agg = NewAggregator
  /\ view = NewSink
  /\ snap = [docs |-> Nothing, inSync |-> FALSE, time |-> 0]
  /\ past = NothingPast

(***************************************************************************)
(* The backend (external).                                                 *)
(***************************************************************************)
\* A write adds, changes or removes one document of the result set.
ResultChanges(d) ==
  /\ now < MaxTime
  /\ \E v \in {Absent, now + 1} :
       v # latest[d] /\ hist' = Append(hist, [latest EXCEPT ![d] = v])
  /\ UNCHANGED <<server, channel, drops, clientVars>>

Send(message) ==
  /\ phase = "pumping"
  /\ Len(channel) < MaxQueued
  /\ channel' = Append(channel, message)
  /\ UNCHANGED <<hist, drops, clientVars>>

\* The stream goes on to a newer result set, also in the middle of a batch.
StreamAdvances ==
  /\ phase = "pumping"
  /\ server.at < now
  /\ "readd" \in ServerMay \/ \A d \in server.gone : latest[d] = Absent
  /\ server' = [server EXCEPT !.at = now]
  /\ UNCHANGED <<hist, channel, drops, clientVars>>

\* The document as it is at that time, when the client does not have it so.
SendDocument(d) ==
  /\ server.sent[d] # target[d]
  /\ \/ /\ target[d] # Absent
        /\ Send([type |-> "doc", doc |-> d, version |-> target[d]])
        /\ server' = [server EXCEPT !.sent[d] = target[d], !.touched = @ \cup {d}, !.boundary = TRUE]
     \/ /\ target[d] = Absent
        /\ \/ Send([type |-> "gone", doc |-> d])
           \/ /\ server.resumed => "moveOut" \in ServerMay
              /\ Send([type |-> "moved", doc |-> d, version |-> server.at])
        /\ server' = [server EXCEPT !.sent[d] = Absent, !.touched = @ \cup {d}, !.gone = @ \cup {d},
                                    !.boundary = TRUE]

Consistent == server.sent = target

SendCurrent ==
  /\ Consistent /\ ~server.current
  /\ Send([type |-> "current", token |-> IF "token" \in ServerMay THEN server.at ELSE NoToken])
  /\ server' = [server EXCEPT !.current = TRUE, !.boundary = TRUE]

\* Global NO_CHANGE: the stream reached a consistent snapshot.
SendSnapshot ==
  /\ Consistent /\ server.current /\ server.boundary
  /\ Send([type |-> "snapshot", time |-> server.at])
  /\ server' = [server EXCEPT !.boundary = FALSE, !.touched = {}, !.gone = {}]

SendFilter ==
  /\ Consistent /\ ~server.filtered
  /\ server.current \/ "earlyFilter" \in ServerMay
  /\ Send([type |-> "filter", count |-> Cardinality(Matching(target))])
  /\ server' = [server EXCEPT !.filtered = TRUE, !.boundary = TRUE]

\* RESET: the initial state follows again.  At most one per stream.
SendReset ==
  /\ server.current /\ ~server.wasReset
  /\ server.touched = {} \/ "lateReset" \in ServerMay
  /\ Send([type |-> "reset"])
  /\ server' = [server EXCEPT !.sent = Nothing, !.current = FALSE, !.wasReset = TRUE, !.gone = {},
                              !.boundary = TRUE]

RejectTarget ==
  /\ "reject" \in ServerMay
  /\ Send([type |-> "rejected"])
  /\ UNCHANGED server

(***************************************************************************)
(* run_listener: opening and losing the stream.                            *)
(***************************************************************************)
\* open with AddTarget: the backend replays what changed since the token,
\* or everything.
Open ==
  /\ phase = "opening"
  /\ phase' = "pumping"
  /\ server' = NewSession(IF token = NoToken THEN Nothing ELSE hist[token], token # NoToken)
  /\ channel' = <<[type |-> "add"]>>
  /\ agg' = NewAggregator
  /\ UNCHANGED <<hist, drops, token, view, snap, past>>

\* open fails: the error goes to the callback and the listener ends.
OpenFails ==
  /\ "unavailable" \in ServerMay
  /\ phase = "opening"
  /\ drops < MaxDrops
  /\ drops' = drops + 1
  /\ phase' = "failed"
  /\ UNCHANGED <<hist, server, channel, token, agg, view, snap, past>>

\* StreamOutcome::Retry: without a token the view starts over; with one, what the
\* aggregator had gathered is gone.
reopen(resume, sink) ==
  /\ phase' = "opening"
  /\ token' = resume
  /\ view' = IF resume = NoToken THEN NewSink ELSE sink
  /\ channel' = <<>>

\* End of stream or a retryable status; what was on its way is lost.
StreamDrops ==
  /\ phase = "pumping"
  /\ drops < MaxDrops
  /\ drops' = drops + 1
  /\ reopen(token, view)
  /\ past' = [past EXCEPT !.ahead = FALSE, !.batch = FALSE,
                          !.view = token # NoToken /\ (past.view \/ past.ahead)]
  /\ UNCHANGED <<hist, server, agg, snap>>

(***************************************************************************)
(* pump_stream: one turn of its loop per message.                          *)
(***************************************************************************)
Takes(type) ==
  /\ phase = "pumping"
  /\ channel # <<>>
  /\ Head(channel).type = type

aggregates(a) ==
  /\ channel' = Tail(channel)
  /\ agg' = a
  /\ UNCHANGED <<hist, server, drops, phase, view, snap>>

\* The message is merged into the wrong documents.
strays(wrong) == past' = [past EXCEPT !.batch = @ \/ wrong]

\* TargetState::reset
state_reset(a) == [a EXCEPT !.removed = {}, !.current = FALSE, !.dirty = TRUE]

OnAdd ==
  /\ Takes("add")
  /\ aggregates([state_reset(agg) EXCEPT !.known = TRUE])
  /\ UNCHANGED <<token, past>>

\* Documents that came before RESET stay among the changes.
OnReset ==
  /\ Takes("reset")
  /\ aggregates([state_reset(agg) EXCEPT !.known = TRUE, !.reset = TRUE])
  /\ strays(\E d \in Docs : agg.updates[d] # NoUpdate)
  /\ UNCHANGED token

\* A token is kept for the next open as soon as it is seen, ahead of the snapshot.
OnCurrent ==
  /\ Takes("current")
  /\ token' = IF Head(channel).token = NoToken THEN token ELSE Head(channel).token
  /\ past' = [past EXCEPT !.ahead = @ \/ Head(channel).token # NoToken]
  /\ aggregates([agg EXCEPT !.known = TRUE, !.current = TRUE, !.dirty = TRUE])

\* Mutant of drop_document: the key leaves the target's set but the removal is
\* not recorded in the target state.
drop_document_Unrecorded(a, d) == [a EXCEPT !.known = TRUE, !.docs = @ \ {d}]

\* apply_doc_update without a document: counts only for a known document.
drop_document(a, d) ==
  IF d \in a.docs
  THEN [a EXCEPT !.known = TRUE, !.docs = @ \ {d}, !.removed = @ \cup {d}, !.dirty = TRUE]
  ELSE [a EXCEPT !.known = TRUE]

\* A document removed in this batch stays removed.
OnDocumentChange ==
  /\ Takes("doc")
  /\ strays(Head(channel).doc \in agg.removed)
  /\ LET m == Head(channel)
     IN aggregates([agg EXCEPT !.known = TRUE, !.docs = @ \cup {m.doc}, !.dirty = TRUE,
                               !.updates[m.doc] = m.version])
  /\ UNCHANGED token

\* A document the aggregator does not know, as on a resumed stream, is shown.
OnDocumentMovedOut ==
  /\ Takes("moved")
  /\ strays(Head(channel).doc \notin agg.docs)
  /\ LET m == Head(channel)
     IN aggregates([drop_document(agg, m.doc) EXCEPT !.updates[m.doc] = m.version])
  /\ UNCHANGED token

OnDocumentGone ==
  /\ Takes("gone")
  /\ LET m == Head(channel)
     IN aggregates([drop_document(agg, m.doc) EXCEPT !.updates[m.doc] = Absent])
  /\ UNCHANGED <<token, past>>

handle_existence_filter(a, count) ==
  IF Cardinality(a.docs) = count THEN a
  ELSE [(IF a.known THEN state_reset(a) ELSE a) EXCEPT !.reset = TRUE, !.docs = {}]

\* A filter that does not match before CURRENT: the rest of the batch is in sync.
OnFilter ==
  /\ Takes("filter")
  /\ strays(Cardinality(agg.docs) # Head(channel).count /\ ~agg.current)
  /\ aggregates([handle_existence_filter(agg, Head(channel).count) EXCEPT !.sawFilter = TRUE])
  /\ UNCHANGED token

(***************************************************************************)
(* QueryViewSink::apply on the drained event of the aggregator `a`.        *)
(***************************************************************************)
HasTargetChange(a) == a.known /\ (a.dirty \/ a.removed # {})

EventIsEmpty(a) ==
  ~HasTargetChange(a) /\ ~a.reset /\ \A d \in Docs : a.updates[d] = NoUpdate

DocsAfter(a) ==
  [d \in Docs |-> IF HasTargetChange(a) /\ d \in a.removed THEN Absent
                  ELSE IF a.updates[d] # NoUpdate THEN a.updates[d]
                  ELSE IF a.reset THEN Absent ELSE view.docs[d]]

CurrentAfter(a) == (view.current /\ ~a.reset) \/ (HasTargetChange(a) /\ a.current)

\* document_changes, compute_doc_changes(None, ..) before the first snapshot.
Added(docs) ==
  {d \in Docs : docs[d] # Absent /\ (view.raised => view.docs[d] = Absent)}
Modified(docs) ==
  {d \in Docs : view.raised /\ docs[d] # Absent /\ view.docs[d] \notin {Absent, docs[d]}}
Removed(docs) ==
  {d \in Docs : view.raised /\ docs[d] = Absent /\ view.previous[d] # Absent}
Changed(docs) == Added(docs) \cup Modified(docs) \cup Removed(docs)

\* Mutant of ShouldRaise: the first snapshot also needs a change, so an empty
\* result is never reported.
ShouldRaise_NeedsChange(docs, current) ==
  Changed(docs) # {} /\ (view.raised \/ current)

ShouldRaise(docs, current) ==
  IF view.raised THEN Changed(docs) # {} \/ current # view.current ELSE current

\* The sink after `apply`, and the callback.
SinkAfter(docs, current) ==
  IF ShouldRaise(docs, current)
  THEN [docs |-> docs, current |-> current, raised |-> TRUE, previous |-> docs]
  ELSE [view EXCEPT !.docs = docs, !.current = current]

calls_back(docs, current, time) ==
  IF ShouldRaise(docs, current)
  THEN snap' = [docs |-> docs, inSync |-> current, time |-> time]
  ELSE UNCHANGED snap

\* The aggregator after drain.
Drained(a) ==
  [a EXCEPT !.dirty = FALSE, !.removed = {}, !.reset = FALSE, !.sawFilter = FALSE,
            !.updates = [d \in Docs |-> NoUpdate]]

\* NO_CHANGE for all targets: token, drain, apply, and a fresh start without
\* token after an existence filter that did not match.
OnSnapshot ==
  /\ Takes("snapshot")
  /\ LET time == Head(channel).time
         a == [agg EXCEPT !.dirty = @ \/ agg.known]
         sink == IF EventIsEmpty(a) THEN view ELSE SinkAfter(DocsAfter(a), CurrentAfter(a))
         raised == ~EventIsEmpty(a) /\ ShouldRaise(DocsAfter(a), CurrentAfter(a))
         wrong == past.view \/ past.batch
     IN /\ IF EventIsEmpty(a) THEN UNCHANGED snap
           ELSE calls_back(DocsAfter(a), CurrentAfter(a), time)
        /\ agg' = Drained(a)
        /\ past' = [ahead |-> FALSE, batch |-> FALSE, view |-> wrong /\ ~(agg.sawFilter /\ agg.reset),
                    snap |-> IF raised THEN wrong ELSE past.snap]
        /\ IF agg.sawFilter /\ agg.reset
           THEN reopen(NoToken, sink)
           ELSE /\ token' = time
                /\ view' = sink
                /\ channel' = Tail(channel)
                /\ UNCHANGED phase
  /\ UNCHANGED <<hist, server, drops>>

\* REMOVE with a cause: the error goes to the callback, no reconnect.
OnRejected ==
  /\ Takes("rejected")
  /\ phase' = "failed"
  /\ channel' = <<>>
  /\ UNCHANGED <<hist, server, drops, token, agg, view, snap, past>>

OnMessage ==
  \/ OnAdd \/ OnReset \/ OnCurrent \/ OnDocumentChange \/ OnDocumentMovedOut
  \/ OnDocumentGone \/ OnFilter \/ OnSnapshot \/ OnRejected

ServerStep ==
  \/ StreamAdvances
  \/ \E d \in Docs : SendDocument(d)
  \/ SendCurrent \/ SendSnapshot

Next ==
  \/ ServerStep \/ SendFilter \/ SendReset \/ RejectTarget
  \/ \E d \in Docs : ResultChanges(d)
  \/ Open \/ OpenFails \/ StreamDrops \/ OnMessage

Spec == Init /\ [][Next]_vars

\* The runtime polls the listener's task; the backend answers on an open
\* stream.  Writes, filters, resets and drops need not happen.
FairSpec == Spec /\ WF_vars(Open) /\ WF_vars(OnMessage) /\ WF_vars(ServerStep)
-----------------------------------------------------------------------------
(***************************************************************************)
(* Properties.                                                             *)
(***************************************************************************)
\* A snapshot that claims to be in sync (from_cache false) is the result set
\* of the query at its read time, through drops, resumes, resets and
\* existence filters, unless the view it was raised from had gone wrong
\* (NothingPast).
InSyncSnapshotsAreExact ==
  snap.inSync /\ ~past.snap => snap.docs = hist[snap.time]

\* The resume token a reconnect sends promises no more, and no less, than the
\* view holds, unless the stream dropped between a token and its snapshot.
ResumePointIsInView ==
  phase = "opening" /\ token # NoToken /\ ~past.view => view.docs = hist[token]

\* What run_listener, pump_stream and QueryViewSink keep between them: an
\* in-sync snapshot is the result set at its time, and so is the view at the
\* token the next open resumes from.  Nothing but what NothingPast names makes
\* them wrong, and a view that starts over is right again.
SnapshotsAreExact == TypeOK /\ InSyncSnapshotsAreExact /\ ResumePointIsInView

\* A global NO_CHANGE "means everything up to here has been delivered"
\* (snapshot_read_time), so what it raises in sync is the result set: promised
\* for resumed streams too, whose backend sends only what changed since the token.
InSyncMeansDelivered == snap.inSync => snap.docs = hist[snap.time]

\* Once writes, drops, filters and resets cease, the listener reports the
\* final result set as in sync, and stays with it.
Converges == <>[](snap.inSync /\ snap.docs = latest)
=============================================================================
