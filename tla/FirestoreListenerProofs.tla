----------------------- MODULE FirestoreListenerProofs -----------------------
(***************************************************************************)
(* An in-sync snapshot is the result set of its read time, for any number  *)
(* of documents, read times, drops and messages in flight, and whatever    *)
(* liberties the backend takes: but for the messages NothingPast names,    *)
(* where the code goes wrong.                                              *)
(*                                                                         *)
(* The messages on their way decide what the client will be when it has    *)
(* taken them.  The invariant follows the client through them, message by  *)
(* message: at the end it agrees with what the backend takes it to hold,   *)
(* and each snapshot on its way is exact where it will be taken.  Taking a *)
(* message then changes nothing, and a message sent is judged as if it     *)
(* were taken at once.                                                     *)
(*                                                                         *)
(* The second part is about the services and requests of GenerativeAi, for *)
(* any tasks, apps, backends and calls.                                    *)
(***************************************************************************)
EXTENDS FirestoreListener, FiniteSetTheorems, SequenceTheorems, WellFoundedInduction, TLAPS

\* The client as far as the documents it shows depend on it: whether it goes on
\* with the stream, the aggregator, and the documents of the view.
Aggregators == [known : BOOLEAN, current : BOOLEAN, dirty : BOOLEAN, removed : SUBSET Docs,
                docs : SUBSET Docs, updates : [Docs -> Versions \cup {NoUpdate}],
                reset : BOOLEAN, sawFilter : BOOLEAN]
Clients == [goes : BOOLEAN, agg : Aggregators, docs : Results]
Sessions == [at : Versions, resumed : BOOLEAN, sent : Results, current : BOOLEAN, filtered : BOOLEAN, wasReset : BOOLEAN,
             touched : SUBSET Docs, gone : SUBSET Docs, boundary : BOOLEAN]
Pasts == [ahead : BOOLEAN, batch : BOOLEAN, view : BOOLEAN, snap : BOOLEAN]

\* What a snapshot would show of a document, and of all.
Pending(a, docs, d) ==
  IF d \in a.removed THEN Absent
  ELSE IF a.updates[d] # NoUpdate THEN a.updates[d]
  ELSE IF a.reset THEN Absent ELSE docs[d]
Shown(a, docs) == [d \in Docs |-> Pending(a, docs, d)]

\* The aggregator after a message other than a snapshot or a rejection.
Digest(a, m) ==
  CASE m.type = "add" -> [state_reset(a) EXCEPT !.known = TRUE]
    [] m.type = "reset" -> [state_reset(a) EXCEPT !.known = TRUE, !.reset = TRUE]
    [] m.type = "current" -> [a EXCEPT !.known = TRUE, !.current = TRUE, !.dirty = TRUE]
    [] m.type = "doc" -> [a EXCEPT !.known = TRUE, !.docs = @ \cup {m.doc}, !.dirty = TRUE, !.updates[m.doc] = m.version]
    [] m.type = "moved" -> [drop_document(a, m.doc) EXCEPT !.updates[m.doc] = m.version]
    [] m.type = "gone" -> [drop_document(a, m.doc) EXCEPT !.updates[m.doc] = Absent]
    [] m.type = "filter" -> [handle_existence_filter(a, m.count) EXCEPT !.sawFilter = TRUE]

\* The messages the aggregator merges into the wrong documents.
Strays(a, m) ==
  \/ m.type = "reset" /\ \E d \in Docs : a.updates[d] # NoUpdate
  \/ m.type = "doc" /\ m.doc \in a.removed
  \/ m.type = "moved" /\ m.doc \notin a.docs
  \/ m.type = "filter" /\ Cardinality(a.docs) # m.count /\ ~a.current

\* A client of which nothing is promised.
Lost == [goes |-> FALSE, agg |-> NewAggregator, docs |-> Nothing]

\* The client after one message.  After a rejection, and after a snapshot that makes
\* it start over, nothing in flight reaches it; and it may stray.
Step(c, m) ==
  IF ~c.goes \/ m.type = "rejected" \/ Strays(c.agg, m) THEN Lost
  ELSE IF m.type = "snapshot"
       THEN IF c.agg.sawFilter /\ c.agg.reset THEN Lost
            ELSE [goes |-> TRUE, agg |-> Drained(c.agg), docs |-> Shown(c.agg, c.docs)]
  ELSE [c EXCEPT !.agg = Digest(c.agg, m)]

\* An existence filter did not match, and no snapshot is in sync before CURRENT.
Adrift(a) == a.sawFilter /\ a.reset /\ ~a.current

\* What a message promises to the client that takes it.
Kept(c, m, h) ==
  /\ m.type = "current" => m.token <= Len(h)
  /\ m.type = "snapshot" => m.time \in 1 .. Len(h)
  /\ m.type = "snapshot" /\ c.goes => c.agg.known /\ (Adrift(c.agg) \/ Shown(c.agg, c.docs) = h[m.time])

\* The client and the backend when nothing is in flight.
Agree(c, s) ==
  c.goes =>
    /\ c.agg.known /\ (c.agg.current => s.current)
    /\ (Adrift(c.agg) /\ s.current) \/ Shown(c.agg, c.docs) = s.sent

\* The client's way through the messages in flight.
Foresees(ch, c, s, h) ==
  \E r \in [0 .. Len(ch) -> Clients] :
    /\ r[0] = c
    /\ \A i \in 1 .. Len(ch) : r[i] = Step(r[i - 1], ch[i]) /\ Kept(r[i - 1], ch[i], h)
    /\ Agree(r[Len(ch)], s)

Here == IF past.view \/ past.batch THEN Lost ELSE [goes |-> TRUE, agg |-> agg, docs |-> view.docs]

\* The view is what the token stands for, unless it is ahead.
Viewed ==
  /\ token <= now
  /\ ~past.view /\ ~past.ahead => view.docs = IF token = NoToken THEN Nothing ELSE hist[token]
  /\ phase = "opening" => ~past.ahead
SnapIsExact == snap.inSync /\ ~past.snap => snap.time \in 1 .. now /\ snap.docs = hist[snap.time]

IInv ==
  /\ TypeOK /\ Viewed /\ SnapIsExact
  /\ phase = "pumping" => server.at \in 1 .. now /\ Foresees(channel, Here, server, hist)

-----------------------------------------------------------------------------
\* Messages, and what the aggregator makes of them.
LEMMA MessageFields ==
  ASSUME NEW m \in Messages
  PROVE  /\ m.type \in {"add", "reset", "doc", "moved", "gone", "current", "filter", "snapshot", "rejected"}
         /\ m.type \in {"doc", "moved"} => m.doc \in Docs /\ m.version \in 1 .. MaxTime
         /\ m.type = "gone" => m.doc \in Docs
         /\ m.type = "current" => m.token \in Versions
         /\ m.type = "snapshot" => m.time \in 1 .. MaxTime
  BY DEF Messages

LEMMA Numbers == Absent \in Versions /\ 1 .. MaxTime \subseteq Versions /\ NoUpdate \notin Versions /\ Nothing \in Results
  BY BoundsAssumption DEF Absent, Versions, NoUpdate, Nothing, Results

LEMMA LostTyped == NewAggregator \in Aggregators /\ Lost \in Clients /\ ~Lost.goes
  BY Numbers DEF NewAggregator, Aggregators, Lost, Clients

LEMMA Dropped ==
  ASSUME NEW a \in Aggregators, NEW d \in Docs, NEW b, b = drop_document(a, d)
  PROVE  /\ b \in Aggregators
         /\ b.known /\ b.current = a.current /\ b.reset = a.reset /\ b.sawFilter = a.sawFilter
         /\ b.docs = a.docs \ {d} /\ b.removed = (IF d \in a.docs THEN a.removed \cup {d} ELSE a.removed)
         /\ b.updates = a.updates
<1>1. CASE d \in a.docs
  BY <1>1 DEF drop_document, Aggregators
<1>2. CASE d \notin a.docs
  BY <1>2 DEF drop_document, Aggregators
<1> QED BY <1>1, <1>2

LEMMA Updated ==
  ASSUME NEW a \in Aggregators, NEW d \in Docs, NEW v \in Versions
  PROVE  /\ [a EXCEPT !.updates[d] = v] \in Aggregators
         /\ [a EXCEPT !.updates[d] = v].updates = [a.updates EXCEPT ![d] = v]
         /\ \A f \in {"known", "current", "dirty", "removed", "docs", "reset", "sawFilter"} :
              [a EXCEPT !.updates[d] = v][f] = a[f]
  BY DEF Aggregators

LEMMA Filtered ==
  ASSUME NEW a \in Aggregators, NEW n
  PROVE  /\ handle_existence_filter(a, n) \in Aggregators
         /\ Cardinality(a.docs) = n => handle_existence_filter(a, n) = a
         /\ \/ handle_existence_filter(a, n) = a
            \/ /\ handle_existence_filter(a, n).reset
               /\ handle_existence_filter(a, n).known = a.known
               /\ a.known => ~handle_existence_filter(a, n).current
               /\ handle_existence_filter(a, n).removed \subseteq a.removed
               /\ handle_existence_filter(a, n).updates = a.updates
  BY DEF handle_existence_filter, state_reset, Aggregators

LEMMA DigestTyped ==
  ASSUME NEW a \in Aggregators, NEW m \in Messages, m.type \notin {"snapshot", "rejected"}
  PROVE  Digest(a, m) \in Aggregators
<1>1. CASE m.type \in {"add", "reset", "current"}
  BY <1>1 DEF Digest, state_reset, Aggregators
<1>2. CASE m.type = "doc"
  <2>1. m.doc \in Docs /\ m.version \in Versions
    BY <1>2, MessageFields, Numbers
  <2> QED BY <1>2, <2>1 DEF Digest, Aggregators
<1>3. CASE m.type = "moved"
  <2>1. m.doc \in Docs /\ m.version \in Versions
    BY <1>3, MessageFields, Numbers
  <2>2. PICK b \in Aggregators : b = drop_document(a, m.doc)
    BY <2>1, Dropped
  <2>3. Digest(a, m) = [b EXCEPT !.updates[m.doc] = m.version]
    BY <1>3, <2>2 DEF Digest
  <2> QED BY <2>1, <2>3, Updated
<1>4. CASE m.type = "gone"
  <2>1. m.doc \in Docs /\ Absent \in Versions
    BY <1>4, MessageFields, Numbers
  <2>2. PICK b \in Aggregators : b = drop_document(a, m.doc)
    BY <2>1, Dropped
  <2>3. Digest(a, m) = [b EXCEPT !.updates[m.doc] = Absent]
    BY <1>4, <2>2 DEF Digest
  <2> QED BY <2>1, <2>3, Updated
<1>5. CASE m.type = "filter"
  <2>1. Digest(a, m) = [handle_existence_filter(a, m.count) EXCEPT !.sawFilter = TRUE]
    BY <1>5 DEF Digest
  <2>2. PICK b \in Aggregators : b = handle_existence_filter(a, m.count)
    BY Filtered
  <2> QED BY <2>1, <2>2 DEF Aggregators
<1> QED BY <1>1, <1>2, <1>3, <1>4, <1>5, MessageFields

LEMMA ShownTyped ==
  ASSUME NEW a \in Aggregators, NEW docs \in Results
  PROVE  Shown(a, docs) \in Results
<1>1. ASSUME NEW d \in Docs PROVE Pending(a, docs, d) \in Versions
  BY Numbers DEF Pending, Aggregators, Results
<1> QED BY <1>1 DEF Shown, Results

\* Drained, the aggregator adds nothing to the view.
LEMMA DrainedFacts ==
  ASSUME NEW a \in Aggregators
  PROVE  /\ Drained(a) \in Aggregators
         /\ Drained(a).known = a.known /\ Drained(a).current = a.current /\ Drained(a).docs = a.docs
         /\ ~Drained(a).reset /\ ~Drained(a).sawFilter /\ Drained(a).removed = {}
         /\ Drained(a).updates = [d \in Docs |-> NoUpdate]
  BY DEF Drained, Aggregators

LEMMA StepTyped ==
  ASSUME NEW c \in Clients, NEW m \in Messages
  PROVE  Step(c, m) \in Clients
<1>1. c.goes \in BOOLEAN /\ c.agg \in Aggregators /\ c.docs \in Results
  BY DEF Clients
<1>2. CASE ~c.goes \/ m.type = "rejected" \/ Strays(c.agg, m)
  BY <1>2, LostTyped DEF Step
<1>3. CASE ~(~c.goes \/ m.type = "rejected" \/ Strays(c.agg, m)) /\ m.type = "snapshot"
  <2>1. Drained(c.agg) \in Aggregators /\ Shown(c.agg, c.docs) \in Results
    BY <1>1, DrainedFacts, ShownTyped
  <2> QED BY <1>3, <2>1, LostTyped DEF Step, Clients
<1>4. CASE ~(~c.goes \/ m.type = "rejected" \/ Strays(c.agg, m)) /\ m.type # "snapshot"
  <2>1. Digest(c.agg, m) \in Aggregators
    BY <1>1, <1>4, DigestTyped
  <2> QED BY <1>4, <2>1 DEF Step, Clients
<1> QED BY <1>2, <1>3, <1>4

\* Nothing reaches a client that is lost.
LEMMA LostStays ==
  ASSUME NEW c, NEW m, ~c.goes \/ m.type = "rejected" \/ Strays(c.agg, m)
  PROVE  Step(c, m) = Lost
  BY DEF Step

-----------------------------------------------------------------------------
\* Following the client through the messages in flight.

\* Taking the first message leaves the rest of the way as it was.
LEMMA Taken ==
  ASSUME NEW ch \in Seq(Messages), ch # <<>>, NEW c, NEW s, NEW h, Foresees(ch, c, s, h)
  PROVE  Foresees(Tail(ch), Step(c, Head(ch)), s, h) /\ Kept(c, Head(ch), h)
<1>1. PICK r \in [0 .. Len(ch) -> Clients] :
        /\ r[0] = c
        /\ \A i \in 1 .. Len(ch) : r[i] = Step(r[i - 1], ch[i]) /\ Kept(r[i - 1], ch[i], h)
        /\ Agree(r[Len(ch)], s)
  BY DEF Foresees
<1>2. Len(ch) \in Nat /\ Len(ch) >= 1 /\ Len(Tail(ch)) = Len(ch) - 1 /\ Head(ch) = ch[1]
      /\ \A i \in 1 .. Len(ch) - 1 : Tail(ch)[i] = ch[i + 1]
  BY EmptySeq, LenProperties, HeadTailProperties
<1>3. r[1] = Step(c, Head(ch)) /\ Kept(c, Head(ch), h)
  BY <1>1, <1>2
<1> DEFINE q == [i \in 0 .. Len(Tail(ch)) |-> r[i + 1]]
<1>4. q \in [0 .. Len(Tail(ch)) -> Clients] /\ q[0] = Step(c, Head(ch)) /\ q[Len(Tail(ch))] = r[Len(ch)]
  BY <1>1, <1>2, <1>3
<1>5. ASSUME NEW i \in 1 .. Len(Tail(ch))
      PROVE  q[i] = Step(q[i - 1], Tail(ch)[i]) /\ Kept(q[i - 1], Tail(ch)[i], h)
  <2>1. i + 1 \in 1 .. Len(ch) /\ i - 1 \in 0 .. Len(Tail(ch)) /\ (i + 1) - 1 = i /\ (i - 1) + 1 = i
    BY <1>2
  <2>2. q[i] = r[i + 1] /\ q[i - 1] = r[i] /\ Tail(ch)[i] = ch[i + 1]
    BY <1>2, <2>1
  <2> QED BY <1>1, <2>1, <2>2
<1> HIDE DEF q
<1> QED BY <1>1, <1>3, <1>4, <1>5 DEF Foresees

\* A message is sent: it is judged by the client at the end of the way.
LEMMA Sent ==
  ASSUME NEW ch \in Seq(Messages), NEW m \in Messages, NEW c, NEW s, NEW t, NEW h, Foresees(ch, c, s, h),
         \A e \in Clients : Agree(e, s) => Kept(e, m, h) /\ Agree(Step(e, m), t)
  PROVE  Foresees(Append(ch, m), c, t, h)
<1>1. PICK r \in [0 .. Len(ch) -> Clients] :
        /\ r[0] = c
        /\ \A i \in 1 .. Len(ch) : r[i] = Step(r[i - 1], ch[i]) /\ Kept(r[i - 1], ch[i], h)
        /\ Agree(r[Len(ch)], s)
  BY DEF Foresees
<1>2. Len(ch) \in Nat /\ Len(Append(ch, m)) = Len(ch) + 1 /\ Append(ch, m)[Len(ch) + 1] = m
      /\ \A i \in 1 .. Len(ch) : Append(ch, m)[i] = ch[i]
  BY LenProperties, AppendProperties
<1>3. PICK e \in Clients : e = r[Len(ch)]
  BY <1>1, <1>2
<1>4. Step(e, m) \in Clients /\ Kept(e, m, h) /\ Agree(Step(e, m), t)
  BY <1>1, <1>3, StepTyped
<1> DEFINE q == [i \in 0 .. Len(ch) + 1 |-> IF i = Len(ch) + 1 THEN Step(e, m) ELSE r[i]]
<1>5. q \in [0 .. Len(ch) + 1 -> Clients] /\ q[0] = c /\ q[Len(ch) + 1] = Step(e, m)
  BY <1>1, <1>2, <1>4
<1>6. ASSUME NEW i \in 1 .. Len(ch) + 1
      PROVE  q[i] = Step(q[i - 1], Append(ch, m)[i]) /\ Kept(q[i - 1], Append(ch, m)[i], h)
  <2>1. CASE i = Len(ch) + 1
    <3>1. q[i] = Step(e, m) /\ q[i - 1] = e /\ Append(ch, m)[i] = m
      BY <1>2, <1>3, <2>1
    <3> QED BY <1>4, <3>1
  <2>2. CASE i # Len(ch) + 1
    <3>1. i \in 1 .. Len(ch) /\ q[i] = r[i] /\ q[i - 1] = r[i - 1] /\ Append(ch, m)[i] = ch[i]
      BY <1>2, <2>2
    <3> QED BY <1>1, <3>1
  <2> QED BY <2>1, <2>2
<1> HIDE DEF q
<1> QED BY <1>2, <1>4, <1>5, <1>6 DEF Foresees

\* The backend, or its history, goes on without a message.
LEMMA GoesOn ==
  ASSUME NEW ch \in Seq(Messages), NEW c, NEW s, NEW t, NEW h, NEW g, Foresees(ch, c, s, h),
         \A e \in Clients : Agree(e, s) => Agree(e, t),
         \A e \in Clients : \A m \in Messages : Kept(e, m, h) => Kept(e, m, g)
  PROVE  Foresees(ch, c, t, g)
<1>1. PICK r \in [0 .. Len(ch) -> Clients] :
        /\ r[0] = c
        /\ \A i \in 1 .. Len(ch) : r[i] = Step(r[i - 1], ch[i]) /\ Kept(r[i - 1], ch[i], h)
        /\ Agree(r[Len(ch)], s)
  BY DEF Foresees
<1>2. Len(ch) \in Nat /\ \A i \in 1 .. Len(ch) : ch[i] \in Messages /\ i - 1 \in 0 .. Len(ch)
  BY LenProperties, ElementOfSeq
<1>3. r[Len(ch)] \in Clients /\ \A i \in 1 .. Len(ch) : r[i - 1] \in Clients
  <2>1. Len(ch) \in 0 .. Len(ch) /\ r \in [0 .. Len(ch) -> Clients]
    BY <1>1, <1>2
  <2>2. \A i \in 0 .. Len(ch) : r[i] \in Clients
    BY <2>1
  <2> QED BY <1>2, <2>1, <2>2
<1> QED BY <1>1, <1>2, <1>3 DEF Foresees

-----------------------------------------------------------------------------
\* Each message the backend sends, to a client that agrees with it.

\* A client that takes nothing any more agrees, whatever is sent.
LEMMA LostAgrees ==
  ASSUME NEW c \in Clients, NEW m, ~c.goes \/ m.type = "rejected" \/ Strays(c.agg, m), NEW t, NEW h,
         m.type = "current" => m.token <= Len(h), m.type # "snapshot"
  PROVE  Kept(c, m, h) /\ Agree(Step(c, m), t)
  BY LostStays, LostTyped DEF Kept, Agree

\* A document the client has not, or has otherwise, and that was not removed in this
\* batch.
LEMMA DocAgrees ==
  ASSUME NEW c \in Clients, NEW s \in Sessions, NEW t \in Sessions, NEW h, NEW d \in Docs, NEW v \in 1 .. MaxTime, NEW m,
         Agree(c, s), m = [type |-> "doc", doc |-> d, version |-> v],
         t.sent = [s.sent EXCEPT ![d] = v], t.current = s.current
  PROVE  Kept(c, m, h) /\ Agree(Step(c, m), t)
<1>1. CASE ~c.goes \/ Strays(c.agg, m)
  BY <1>1, LostAgrees
<1>2. CASE c.goes /\ ~Strays(c.agg, m)
  <2>1. PICK a \in Aggregators, docs \in Results : a = c.agg /\ docs = c.docs
    BY DEF Clients
  <2>2. PICK e : e = Step(c, m)
    OBVIOUS
  <2>3. /\ e.goes /\ e.docs = docs /\ e.agg.known /\ e.agg.current = a.current /\ e.agg.reset = a.reset
        /\ e.agg.sawFilter = a.sawFilter /\ e.agg.removed = a.removed
        /\ e.agg.updates = [a.updates EXCEPT ![d] = v]
    BY <1>2, <2>1, <2>2 DEF Step, Digest, Clients, Aggregators
  <2>4. a.updates \in [Docs -> Versions \cup {NoUpdate}] /\ v \in Versions /\ v # NoUpdate /\ v # Absent
    BY Numbers DEF Aggregators, Absent
  <2>5. d \notin a.removed
    BY <1>2, <2>1 DEF Strays
  <2>6. ASSUME Shown(a, docs) = s.sent PROVE Shown(e.agg, e.docs) = t.sent
    <3>1. ASSUME NEW x \in Docs PROVE Pending(e.agg, e.docs, x) = IF x = d THEN v ELSE Pending(a, docs, x)
      BY <2>3, <2>4, <2>5 DEF Pending
    <3>2. Shown(e.agg, e.docs) = [Shown(a, docs) EXCEPT ![d] = v]
      BY <3>1 DEF Shown
    <3> QED BY <2>6, <3>2
  <2>7. Adrift(e.agg) = Adrift(a)
    BY <2>3 DEF Adrift
  <2>8. Agree(e, t)
    BY <1>2, <2>1, <2>3, <2>6, <2>7 DEF Agree
  <2> QED BY <2>2, <2>8 DEF Kept
<1> QED BY <1>1, <1>2

\* A document that leaves the query: removed if the target had it, and no part of
\* what is shown.  One that is moved out comes with a version, so the target must
\* have had it.
LEMMA LeavingAgrees ==
  ASSUME NEW c \in Clients, NEW s \in Sessions, NEW t \in Sessions, NEW h, NEW d \in Docs, NEW m,
         Agree(c, s),
         \/ m = [type |-> "gone", doc |-> d]
         \/ \E v \in 1 .. MaxTime : m = [type |-> "moved", doc |-> d, version |-> v],
         t.sent = [s.sent EXCEPT ![d] = Absent], t.current = s.current
  PROVE  Kept(c, m, h) /\ Agree(Step(c, m), t)
<1>1. CASE ~c.goes \/ Strays(c.agg, m)
  BY <1>1, LostAgrees
<1>2. CASE c.goes /\ ~Strays(c.agg, m)
  <2>1. PICK a \in Aggregators, docs \in Results : a = c.agg /\ docs = c.docs
    BY DEF Clients
  <2>2. PICK e : e = Step(c, m)
    OBVIOUS
  <2>3. PICK b \in Aggregators : b = drop_document(a, d)
    BY Dropped
  <2>4. PICK v \in Versions : /\ e = [c EXCEPT !.agg = [b EXCEPT !.updates[d] = v]]
                              /\ v = Absent \/ d \in a.docs
    <3>1. CASE m = [type |-> "gone", doc |-> d]
      BY <1>2, <2>1, <2>2, <2>3, <3>1, Numbers DEF Step, Digest
    <3>2. ASSUME NEW v \in 1 .. MaxTime, m = [type |-> "moved", doc |-> d, version |-> v]
          PROVE  e = [c EXCEPT !.agg = [b EXCEPT !.updates[d] = v]] /\ v \in Versions /\ d \in a.docs
      <4>1. d \in a.docs
        BY <1>2, <2>1, <3>2 DEF Strays
      <4> QED BY <1>2, <2>1, <2>2, <2>3, <3>2, <4>1, Numbers DEF Step, Digest
    <3> QED BY <3>1, <3>2
  <2>5. PICK u \in Aggregators : u = [b EXCEPT !.updates[d] = v]
    BY <2>3, <2>4, Updated
  <2>6. e.goes /\ e.docs = docs /\ e.agg = u
    BY <1>2, <2>1, <2>4, <2>5 DEF Clients
  <2>7. /\ u.known /\ u.current = a.current /\ u.reset = a.reset /\ u.sawFilter = a.sawFilter
        /\ u.removed = (IF d \in a.docs THEN a.removed \cup {d} ELSE a.removed)
        /\ u.updates = [a.updates EXCEPT ![d] = v]
    <3>1. /\ u.known = b.known /\ u.current = b.current /\ u.reset = b.reset /\ u.sawFilter = b.sawFilter
          /\ u.removed = b.removed /\ u.updates = [b.updates EXCEPT ![d] = v]
      BY <2>5 DEF Aggregators
    <3>2. /\ b.known /\ b.current = a.current /\ b.reset = a.reset /\ b.sawFilter = a.sawFilter
          /\ b.removed = (IF d \in a.docs THEN a.removed \cup {d} ELSE a.removed)
          /\ b.updates = a.updates
      BY <2>3, Dropped
    <3> QED BY <3>1, <3>2
  <2>8. a.updates \in [Docs -> Versions \cup {NoUpdate}] /\ v # NoUpdate
    BY <2>4, Numbers DEF Aggregators
  <2>9. Adrift(u) = Adrift(a)
    BY <2>7 DEF Adrift
  <2>10. (Adrift(a) /\ s.current) \/ (Shown(u, docs) = t.sent)
    <3>1. SUFFICES ASSUME ~(Adrift(a) /\ s.current) PROVE Shown(u, docs) = t.sent
      OBVIOUS
    <3>2. Shown(a, docs) = s.sent
      BY <1>2, <2>1, <3>1 DEF Agree
    <3>3. Pending(u, docs, d) = Absent
      BY <2>4, <2>7, <2>8 DEF Pending
    <3>4. ASSUME NEW x \in Docs, x # d PROVE Pending(u, docs, x) = Pending(a, docs, x)
      BY <2>7, <2>8, <3>4 DEF Pending
    <3>5. Shown(u, docs) = [Shown(a, docs) EXCEPT ![d] = Absent]
      BY <3>3, <3>4 DEF Shown
    <3> QED BY <3>2, <3>5
  <2>11. Agree(e, t)
    BY <1>2, <2>1, <2>6, <2>7, <2>9, <2>10 DEF Agree
  <2> QED BY <2>2, <2>11 DEF Kept
<1> QED BY <1>1, <1>2

\* CURRENT, sent once until a reset.
LEMMA CurrentAgrees ==
  ASSUME NEW c \in Clients, NEW s \in Sessions, NEW t \in Sessions, NEW h, NEW m, NEW k,
         Agree(c, s), ~s.current, m = [type |-> "current", token |-> k], k <= Len(h),
         t.sent = s.sent, t.current
  PROVE  Kept(c, m, h) /\ Agree(Step(c, m), t)
<1>1. CASE ~c.goes \/ Strays(c.agg, m)
  BY <1>1, LostAgrees
<1>2. CASE c.goes /\ ~Strays(c.agg, m)
  <2>1. PICK a \in Aggregators, docs \in Results : a = c.agg /\ docs = c.docs
    BY DEF Clients
  <2>2. PICK e : e = Step(c, m)
    OBVIOUS
  <2>3. /\ e.goes /\ e.docs = docs /\ e.agg.known /\ e.agg.current /\ e.agg.reset = a.reset
        /\ e.agg.removed = a.removed /\ e.agg.updates = a.updates
    BY <1>2, <2>1, <2>2 DEF Step, Digest, Clients, Aggregators
  <2>4. Shown(e.agg, e.docs) = Shown(a, docs)
    BY <2>3 DEF Shown, Pending
  <2>5. Agree(e, t)
    BY <1>2, <2>1, <2>3, <2>4 DEF Agree
  <2> QED BY <2>2, <2>5 DEF Kept
<1> QED BY <1>1, <1>2

\* RESET, before which no document of the batch was sent: nothing is shown.
LEMMA ResetAgrees ==
  ASSUME NEW c \in Clients, NEW s \in Sessions, NEW t \in Sessions, NEW h, NEW m,
         Agree(c, s), m = [type |-> "reset"], t.sent = Nothing
  PROVE  Kept(c, m, h) /\ Agree(Step(c, m), t)
<1>1. CASE ~c.goes \/ Strays(c.agg, m)
  BY <1>1, LostAgrees
<1>2. CASE c.goes /\ ~Strays(c.agg, m)
  <2>1. PICK a \in Aggregators, docs \in Results : a = c.agg /\ docs = c.docs
    BY DEF Clients
  <2>2. PICK e : e = Step(c, m)
    OBVIOUS
  <2>3. /\ e.goes /\ e.docs = docs /\ e.agg.known /\ e.agg.reset /\ ~e.agg.current
        /\ e.agg.removed = {} /\ e.agg.updates = a.updates
    BY <1>2, <2>1, <2>2 DEF Step, Digest, state_reset, Clients, Aggregators
  <2>4. \A x \in Docs : a.updates[x] = NoUpdate
    BY <1>2, <2>1 DEF Strays
  <2>5. Shown(e.agg, e.docs) = Nothing
    BY <2>3, <2>4 DEF Shown, Pending, Nothing
  <2>6. Agree(e, t)
    BY <2>3, <2>5 DEF Agree
  <2> QED BY <2>2, <2>6 DEF Kept
<1> QED BY <1>1, <1>2

\* An existence filter: if it does not match a stream that is current, the client is
\* adrift until a reset.
LEMMA FilterAgrees ==
  ASSUME NEW c \in Clients, NEW s \in Sessions, NEW t \in Sessions, NEW h, NEW m, NEW n,
         Agree(c, s), m = [type |-> "filter", count |-> n],
         t.sent = s.sent, t.current = s.current
  PROVE  Kept(c, m, h) /\ Agree(Step(c, m), t)
<1>1. CASE ~c.goes \/ Strays(c.agg, m)
  BY <1>1, LostAgrees
<1>2. CASE c.goes /\ ~Strays(c.agg, m)
  <2>1. PICK a \in Aggregators, docs \in Results : a = c.agg /\ docs = c.docs
    BY DEF Clients
  <2>2. PICK e : e = Step(c, m)
    OBVIOUS
  <2>3. PICK b \in Aggregators : b = handle_existence_filter(a, n)
    BY Filtered
  <2>4. e = [c EXCEPT !.agg = [b EXCEPT !.sawFilter = TRUE]]
    BY <1>2, <2>1, <2>2, <2>3 DEF Step, Digest
  <2>5. /\ e.goes /\ e.docs = docs /\ e.agg.known = b.known /\ e.agg.current = b.current /\ e.agg.reset = b.reset
        /\ e.agg.sawFilter /\ e.agg.removed = b.removed /\ e.agg.updates = b.updates
    BY <1>2, <2>1, <2>4 DEF Clients, Aggregators
  <2>6. CASE b = a
    <3>1. Shown(e.agg, e.docs) = Shown(a, docs)
      BY <2>5, <2>6 DEF Shown, Pending
    <3>2. Adrift(a) => Adrift(e.agg)
      BY <2>5, <2>6 DEF Adrift
    <3> QED BY <1>2, <2>1, <2>2, <2>5, <2>6, <3>1, <3>2 DEF Agree, Kept
  <2>7. CASE b # a
    <3>1. Cardinality(a.docs) # n
      BY <2>3, <2>7, Filtered
    <3>2. a.current /\ s.current
      BY <1>2, <2>1, <3>1 DEF Strays, Agree
    <3>3. b.reset /\ b.known /\ ~b.current
      BY <1>2, <2>1, <2>3, <2>7, Filtered DEF Agree
    <3>4. Adrift(e.agg)
      BY <2>5, <3>3 DEF Adrift
    <3> QED BY <2>2, <2>5, <3>2, <3>3, <3>4 DEF Agree, Kept
  <2> QED BY <2>6, <2>7
<1> QED BY <1>1, <1>2

\* NO_CHANGE, at a consistent moment: the view becomes the result set, or the client
\* starts over.
LEMMA SnapshotAgrees ==
  ASSUME NEW c \in Clients, NEW s \in Sessions, NEW t \in Sessions, NEW h, NEW m,
         Agree(c, s), s.sent = h[s.at], s.at \in 1 .. Len(h), m = [type |-> "snapshot", time |-> s.at],
         t.sent = s.sent, t.current = s.current
  PROVE  Kept(c, m, h) /\ Agree(Step(c, m), t)
<1>1. CASE ~c.goes
  BY <1>1, LostStays, LostTyped DEF Kept, Agree
<1>2. CASE c.goes
  <2>1. PICK a \in Aggregators, docs \in Results : a = c.agg /\ docs = c.docs
    BY DEF Clients
  <2>2. PICK e : e = Step(c, m)
    OBVIOUS
  <2>3. e = IF a.sawFilter /\ a.reset THEN Lost ELSE [goes |-> TRUE, agg |-> Drained(a), docs |-> Shown(a, docs)]
    BY <1>2, <2>1, <2>2 DEF Step, Strays
  <2>4. Kept(c, m, h)
    BY <1>2, <2>1 DEF Kept, Agree
  <2>5. ASSUME e.goes PROVE Agree(e, t)
    <3>1. ~(a.sawFilter /\ a.reset)
      BY <2>3, <2>5, LostTyped
    <3>2. ~Adrift(a) /\ Shown(a, docs) = s.sent
      BY <1>2, <2>1, <3>1 DEF Agree, Adrift
    <3>3. PICK b \in Aggregators : b = Drained(a)
      BY DrainedFacts
    <3>4. /\ b.known /\ ~b.reset /\ b.removed = {} /\ b.current = a.current
          /\ \A x \in Docs : b.updates[x] = NoUpdate
      BY <1>2, <2>1, <3>3, DrainedFacts DEF Agree
    <3>5. e.agg = b /\ e.docs = s.sent
      BY <2>3, <3>1, <3>2, <3>3
    <3>6. Shown(b, s.sent) = s.sent
      BY <3>4 DEF Shown, Pending, Sessions, Results
    <3>7. a.current => t.current
      BY <1>2, <2>1 DEF Agree
    <3> QED BY <3>4, <3>5, <3>6, <3>7 DEF Agree
  <2> QED BY <2>2, <2>4, <2>5 DEF Agree
<1> QED BY <1>1, <1>2 DEF Clients

-----------------------------------------------------------------------------
\* The steps of the backend.

\* The types, by the names the lemmas above give them.
LEMMA Types ==
  TypeOK <=>
    /\ hist \in Seq(Results) /\ now \in 1 .. MaxTime
    /\ server \in Sessions
    /\ channel \in Seq(Messages) /\ Len(channel) <= MaxQueued
    /\ drops \in 0 .. MaxDrops /\ phase \in {"opening", "pumping", "failed"} /\ token \in 0 .. MaxTime
    /\ agg \in Aggregators
    /\ view \in [docs : Results, current : BOOLEAN, raised : BOOLEAN, previous : Results]
    /\ snap \in [docs : Results, inSync : BOOLEAN, time : Versions]
    /\ past \in Pasts
  BY DEF TypeOK, Sessions, Aggregators, Pasts

LEMMA HereTyped ==
  ASSUME TypeOK
  PROVE  Here \in Clients
  BY LostTyped DEF TypeOK, Here, Clients, Aggregators

\* A message that every client in agreement takes well.
LEMMA SendKeeps ==
  ASSUME IInv, NEW m \in Messages, Send(m), server' \in Sessions, server'.at = server.at,
         \A c \in Clients : Agree(c, server) => Kept(c, m, hist) /\ Agree(Step(c, m), server')
  PROVE  IInv'
<1>1. /\ phase = "pumping" /\ Len(channel) < MaxQueued /\ channel' = Append(channel, m)
      /\ UNCHANGED <<hist, drops, clientVars>>
  BY DEF Send
<1>2. channel \in Seq(Messages) /\ TypeOK /\ server.at \in 1 .. now /\ Foresees(channel, Here, server, hist)
  BY <1>1 DEF IInv, TypeOK
<1>3. channel' \in Seq(Messages) /\ Len(channel') <= MaxQueued
  BY <1>1, <1>2, AppendProperties, LenProperties, BoundsAssumption
<1>4. TypeOK'
  BY <1>1, <1>2, <1>3 DEF TypeOK, Sessions, clientVars, now
<1>5. Foresees(Append(channel, m), Here, server', hist)
  BY <1>2, Sent
<1>6. Here' = Here
  BY <1>1 DEF Here, clientVars
<1> QED BY <1>1, <1>2, <1>4, <1>5, <1>6 DEF IInv, Viewed, SnapIsExact, clientVars, now

\* A write extends the history and leaves what was.
LEMMA WriteKeeps ==
  ASSUME IInv, NEW d \in Docs, ResultChanges(d)
  PROVE  IInv'
<1>1. PICK v \in {Absent, now + 1} : hist' = Append(hist, [latest EXCEPT ![d] = v])
  BY DEF ResultChanges
<1>2. now < MaxTime /\ UNCHANGED <<server, channel, drops, clientVars>>
  BY DEF ResultChanges
<1>3. hist \in Seq(Results) /\ now \in 1 .. MaxTime /\ channel \in Seq(Messages) /\ TypeOK
  BY DEF IInv, TypeOK
<1>4. [latest EXCEPT ![d] = v] \in Results
  <2>1. latest \in Results
    BY <1>3, ElementOfSeq DEF latest, now
  <2>2. v \in Versions
    BY <1>2, <1>3, BoundsAssumption DEF Absent, Versions
  <2> QED BY <2>1, <2>2 DEF Results
<1>5. hist' \in Seq(Results) /\ now' = now + 1 /\ \A i \in 1 .. now : hist'[i] = hist[i]
  BY <1>1, <1>3, <1>4, AppendProperties DEF now
<1>6. TypeOK'
  BY <1>2, <1>3, <1>5, BoundsAssumption DEF TypeOK, clientVars
<1>7. Viewed' /\ SnapIsExact'
  BY <1>2, <1>3, <1>5 DEF IInv, Viewed, SnapIsExact, clientVars, TypeOK, NoToken
<1>8. ASSUME phase = "pumping" PROVE (server.at \in 1 .. now)' /\ Foresees(channel, Here, server, hist')
  <2>1. server.at \in 1 .. now /\ Foresees(channel, Here, server, hist)
    BY <1>8 DEF IInv
  <2>2. ASSUME NEW e \in Clients, NEW m \in Messages, Kept(e, m, hist) PROVE Kept(e, m, hist')
    <3>1. Len(hist') = Len(hist) + 1 /\ Len(hist) \in Nat /\ \A i \in 1 .. Len(hist) : hist'[i] = hist[i]
      BY <1>3, <1>5 DEF now
    <3>2. m.type = "current" => m.token \in Nat
      BY MessageFields, BoundsAssumption DEF Versions
    <3>3. m.type = "current" => m.token <= Len(hist')
      BY <2>2, <3>1, <3>2 DEF Kept
    <3>4. m.type = "snapshot" => m.time \in 1 .. Len(hist') /\ hist'[m.time] = hist[m.time]
      BY <2>2, <3>1 DEF Kept
    <3> QED BY <2>2, <3>3, <3>4 DEF Kept
  <2>3. Foresees(channel, Here, server, hist')
    BY <1>3, <2>1, <2>2, GoesOn
  <2> QED BY <1>2, <1>3, <1>5, <2>1, <2>3
<1>9. Here' = Here
  BY <1>2 DEF Here, clientVars
<1> QED BY <1>2, <1>6, <1>7, <1>8, <1>9 DEF IInv, clientVars

\* The stream goes on to a newer result set.
LEMMA AdvanceKeeps ==
  ASSUME IInv, StreamAdvances
  PROVE  IInv'
<1>1. /\ phase = "pumping" /\ server' = [server EXCEPT !.at = now] /\ UNCHANGED <<hist, channel, drops, clientVars>>
  BY DEF StreamAdvances
<1>2. /\ now \in 1 .. MaxTime /\ channel \in Seq(Messages) /\ TypeOK /\ server \in Sessions
      /\ Foresees(channel, Here, server, hist)
  BY <1>1, Types DEF IInv
<1>3. server' \in Sessions /\ server'.at = now
  BY <1>1, <1>2, Numbers DEF Sessions
<1>4. TypeOK'
  <2>1. UNCHANGED <<hist, channel, drops, phase, token, agg, view, snap, past>>
    BY <1>1 DEF clientVars
  <2> QED BY <1>2, <1>3, <2>1 DEF TypeOK, Sessions, now
<1>5. ASSUME NEW e \in Clients, Agree(e, server) PROVE Agree(e, server')
  <2>1. server'.sent = server.sent /\ server'.current = server.current
    BY <1>1, <1>2 DEF Sessions
  <2> QED BY <1>5, <2>1 DEF Agree
<1>6. Foresees(channel, Here, server', hist)
  BY <1>2, <1>5, GoesOn
<1>7. Here' = Here
  BY <1>1 DEF Here, clientVars
<1> QED BY <1>1, <1>2, <1>3, <1>4, <1>6, <1>7 DEF IInv, Viewed, SnapIsExact, clientVars, now

\* What the backend knows while a stream is open.
LEMMA Streaming ==
  ASSUME IInv, phase = "pumping"
  PROVE  /\ server \in Sessions /\ server.at \in 1 .. now /\ now \in 1 .. MaxTime /\ hist \in Seq(Results)
         /\ target \in Results /\ target = hist[server.at]
<1>1. /\ server \in Sessions /\ server.at \in 1 .. now /\ now \in 1 .. MaxTime /\ hist \in Seq(Results)
  BY Types DEF IInv
<1> QED BY <1>1, ElementOfSeq DEF target, now

LEMMA DocumentKeeps ==
  ASSUME IInv, NEW d \in Docs, SendDocument(d)
  PROVE  IInv'
<1>1. phase = "pumping" /\ server.sent[d] # target[d]
  BY DEF SendDocument, Send
<1>2. /\ server \in Sessions /\ server.at \in 1 .. now /\ now \in 1 .. MaxTime
      /\ target \in Results /\ target = hist[server.at]
  BY <1>1, Streaming
<1>3. target[d] \in Versions /\ server.sent[d] \in Versions
  BY <1>2 DEF Results, Sessions
<1>4. PICK s \in Sessions : s = server
  BY <1>2
<1>5. CASE target[d] # Absent
  <2>1. PICK v \in 1 .. MaxTime : v = target[d]
    BY <1>3, <1>5, BoundsAssumption DEF Versions, Absent
  <2>2. PICK m : m = [type |-> "doc", doc |-> d, version |-> v]
    OBVIOUS
  <2>3. m \in Messages
    BY <2>2 DEF Messages
  <2>4. Send(m) /\ server' = [s EXCEPT !.sent[d] = v, !.touched = @ \cup {d}, !.boundary = TRUE]
    BY <1>4, <1>5, <2>1, <2>2 DEF SendDocument
  <2>5. /\ server' \in Sessions /\ server'.sent = [s.sent EXCEPT ![d] = v]
        /\ server'.at = s.at /\ server'.current = s.current
    BY <2>4, Numbers DEF Sessions, Results
  <2>6. ASSUME NEW c \in Clients, Agree(c, s) PROVE Kept(c, m, hist) /\ Agree(Step(c, m), server')
    <3>1. PICK t \in Sessions : t = server'
      BY <2>5
    <3>2. Kept(c, m, hist) /\ Agree(Step(c, m), t)
      BY <2>2, <2>5, <2>6, <3>1, DocAgrees
    <3> QED BY <3>1, <3>2
  <2> QED BY <1>4, <2>3, <2>4, <2>5, <2>6, SendKeeps
<1>6. CASE target[d] = Absent
  <2>1. PICK m \in {[type |-> "gone", doc |-> d], [type |-> "moved", doc |-> d, version |-> server.at]} :
          Send(m)
    BY <1>6 DEF SendDocument
  <2>2. server.at \in 1 .. MaxTime
    BY <1>2, BoundsAssumption
  <2>3. m \in Messages
    BY <2>1, <2>2 DEF Messages
  <2>4. \/ m = [type |-> "gone", doc |-> d]
        \/ \E v \in 1 .. MaxTime : m = [type |-> "moved", doc |-> d, version |-> v]
    BY <2>1, <2>2
  <2>5. server' = [s EXCEPT !.sent[d] = Absent, !.touched = @ \cup {d}, !.gone = @ \cup {d}, !.boundary = TRUE]
    BY <1>4, <1>6 DEF SendDocument
  <2>6. /\ server' \in Sessions /\ server'.sent = [s.sent EXCEPT ![d] = Absent]
        /\ server'.at = s.at /\ server'.current = s.current
    BY <2>5, Numbers DEF Sessions, Results
  <2>7. ASSUME NEW c \in Clients, Agree(c, s) PROVE Kept(c, m, hist) /\ Agree(Step(c, m), server')
    <3>1. PICK t \in Sessions : t = server'
      BY <2>6
    <3>2. Kept(c, m, hist) /\ Agree(Step(c, m), t)
      BY <2>4, <2>6, <2>7, <3>1, LeavingAgrees
    <3> QED BY <3>1, <3>2
  <2> QED BY <1>4, <2>1, <2>3, <2>6, <2>7, SendKeeps
<1> QED BY <1>5, <1>6

LEMMA CurrentKeeps ==
  ASSUME IInv, SendCurrent
  PROVE  IInv'
<1>1. PICK k : k = IF "token" \in ServerMay THEN server.at ELSE NoToken
  OBVIOUS
<1>2. PICK m : m = [type |-> "current", token |-> k]
  OBVIOUS
<1>3. phase = "pumping" /\ Send(m) /\ ~server.current /\ server' = [server EXCEPT !.current = TRUE, !.boundary = TRUE]
  BY <1>1, <1>2 DEF SendCurrent, Send
<1>4. server \in Sessions /\ server.at \in 1 .. now /\ now \in 1 .. MaxTime
  BY <1>3, Streaming
<1>5. k \in Versions /\ k <= Len(hist)
  BY <1>1, <1>4, BoundsAssumption DEF Versions, NoToken, now
<1>6. m \in Messages
  BY <1>2, <1>5 DEF Messages
<1>7. /\ server' \in Sessions /\ server'.sent = server.sent /\ server'.at = server.at /\ server'.current
  BY <1>3, <1>4 DEF Sessions
<1>8. ASSUME NEW c \in Clients, Agree(c, server) PROVE Kept(c, m, hist) /\ Agree(Step(c, m), server')
  <2>1. PICK s \in Sessions, t \in Sessions : s = server /\ t = server'
    BY <1>4, <1>7
  <2>2. Kept(c, m, hist) /\ Agree(Step(c, m), t)
    BY <1>2, <1>3, <1>5, <1>7, <1>8, <2>1, CurrentAgrees
  <2> QED BY <2>1, <2>2
<1> QED BY <1>3, <1>6, <1>7, <1>8, SendKeeps

LEMMA SnapshotKeeps ==
  ASSUME IInv, SendSnapshot
  PROVE  IInv'
<1>1. PICK m : m = [type |-> "snapshot", time |-> server.at]
  OBVIOUS
<1>2. /\ phase = "pumping" /\ Send(m) /\ server.sent = target
      /\ server' = [server EXCEPT !.boundary = FALSE, !.touched = {}, !.gone = {}]
  BY <1>1 DEF SendSnapshot, Send, Consistent
<1>3. /\ server \in Sessions /\ server.at \in 1 .. now /\ now \in 1 .. MaxTime
      /\ target = hist[server.at]
  BY <1>2, Streaming
<1>4. m \in Messages
  BY <1>1, <1>3, BoundsAssumption DEF Messages
<1>5. /\ server' \in Sessions /\ server'.sent = server.sent /\ server'.at = server.at
      /\ server'.current = server.current
  BY <1>2, <1>3 DEF Sessions
<1>6. ASSUME NEW c \in Clients, Agree(c, server) PROVE Kept(c, m, hist) /\ Agree(Step(c, m), server')
  <2>1. PICK s \in Sessions, t \in Sessions : s = server /\ t = server'
    BY <1>3, <1>5
  <2>2. s.sent = hist[s.at] /\ s.at \in 1 .. Len(hist)
    BY <1>2, <1>3, <2>1 DEF now
  <2>3. Kept(c, m, hist) /\ Agree(Step(c, m), t)
    BY <1>1, <1>5, <1>6, <2>1, <2>2, SnapshotAgrees
  <2> QED BY <2>1, <2>3
<1> QED BY <1>2, <1>4, <1>5, <1>6, SendKeeps

LEMMA FilterKeeps ==
  ASSUME IInv, SendFilter
  PROVE  IInv'
<1>1. PICK n : n = Cardinality(Matching(target))
  OBVIOUS
<1>2. PICK m : m = [type |-> "filter", count |-> n]
  OBVIOUS
<1>3. phase = "pumping" /\ Send(m) /\ server' = [server EXCEPT !.filtered = TRUE, !.boundary = TRUE]
  BY <1>1, <1>2 DEF SendFilter, Send
<1>4. server \in Sessions
  BY <1>3, Streaming
<1>5. n \in 0 .. Cardinality(Docs)
  <2>1. Matching(target) \subseteq Docs
    BY DEF Matching
  <2>2. n \in Nat /\ n <= Cardinality(Docs) /\ Cardinality(Docs) \in Nat
    BY <1>1, <2>1, DocsAssumption, FS_Subset, FS_CardinalityType
  <2> QED BY <2>2
<1>6. m \in Messages
  BY <1>2, <1>5 DEF Messages
<1>7. /\ server' \in Sessions /\ server'.sent = server.sent /\ server'.current = server.current
      /\ server'.at = server.at
  BY <1>3, <1>4 DEF Sessions
<1>8. ASSUME NEW c \in Clients, Agree(c, server) PROVE Kept(c, m, hist) /\ Agree(Step(c, m), server')
  <2>1. PICK s \in Sessions, t \in Sessions : s = server /\ t = server'
    BY <1>4, <1>7
  <2>2. Kept(c, m, hist) /\ Agree(Step(c, m), t)
    BY <1>2, <1>3, <1>7, <1>8, <2>1, FilterAgrees
  <2> QED BY <2>1, <2>2
<1> QED BY <1>3, <1>6, <1>7, <1>8, SendKeeps

LEMMA ResetKeeps ==
  ASSUME IInv, SendReset
  PROVE  IInv'
<1>1. PICK m : m = [type |-> "reset"]
  OBVIOUS
<1>2. /\ phase = "pumping" /\ Send(m)
      /\ server' = [server EXCEPT !.sent = Nothing, !.current = FALSE, !.wasReset = TRUE, !.gone = {}, !.boundary = TRUE]
  BY <1>1 DEF SendReset, Send
<1>3. server \in Sessions
  BY <1>2, Streaming
<1>4. m \in Messages
  BY <1>1 DEF Messages
<1>5. server' \in Sessions /\ server'.sent = Nothing /\ server'.at = server.at
  BY <1>2, <1>3, Numbers DEF Sessions
<1>6. ASSUME NEW c \in Clients, Agree(c, server) PROVE Kept(c, m, hist) /\ Agree(Step(c, m), server')
  <2>1. PICK s \in Sessions, t \in Sessions : s = server /\ t = server'
    BY <1>3, <1>5
  <2>2. Kept(c, m, hist) /\ Agree(Step(c, m), t)
    BY <1>1, <1>2, <1>5, <1>6, <2>1, ResetAgrees
  <2> QED BY <2>1, <2>2
<1> QED BY <1>2, <1>4, <1>5, <1>6, SendKeeps

LEMMA RejectKeeps ==
  ASSUME IInv, RejectTarget
  PROVE  IInv'
<1>1. PICK m : m = [type |-> "rejected"]
  OBVIOUS
<1>2. phase = "pumping" /\ Send(m) /\ server' = server
  BY <1>1 DEF RejectTarget, Send
<1>3. server \in Sessions
  BY <1>2, Streaming
<1>4. m \in Messages
  BY <1>1 DEF Messages
<1>5. ASSUME NEW c \in Clients, Agree(c, server) PROVE Kept(c, m, hist) /\ Agree(Step(c, m), server')
  <2>1. m.type = "rejected"
    BY <1>1
  <2> QED BY <2>1, LostAgrees
<1> QED BY <1>2, <1>3, <1>4, <1>5, SendKeeps

-----------------------------------------------------------------------------
\* The steps of the client.

\* A new stream begins where the view stands.
LEMMA OpenKeeps ==
  ASSUME IInv, Open
  PROVE  IInv'
<1> DEFINE add == [type |-> "add"]
<1>1. /\ phase' = "pumping" /\ channel' = <<add>> /\ agg' = NewAggregator
      /\ server' = NewSession(IF token = NoToken THEN Nothing ELSE hist[token], token # NoToken)
      /\ UNCHANGED <<hist, drops, token, view, snap, past>>
  BY DEF Open
<1>2. /\ TypeOK /\ hist \in Seq(Results) /\ now \in 1 .. MaxTime /\ token \in Nat /\ Viewed /\ view.docs \in Results
      /\ SnapIsExact /\ past \in Pasts /\ ~past.ahead
  BY DEF IInv, TypeOK, Pasts, Viewed, Open
<1>3. PICK held \in Results : held = IF token = NoToken THEN Nothing ELSE hist[token]
  BY <1>2, Numbers, ElementOfSeq DEF Viewed, NoToken, now
<1>4. PICK b \in Aggregators : b = NewAggregator
  BY Numbers DEF NewAggregator, Aggregators
<1>5. PICK s \in Sessions : s = server' /\ s = NewSession(held, token # NoToken)
  <2>1. server' = NewSession(held, token # NoToken)
    BY <1>1, <1>3
  <2>2. now \in Versions
    BY <1>2, BoundsAssumption DEF Versions
  <2>3. NewSession(held, token # NoToken) \in Sessions
    BY <2>2 DEF NewSession, Sessions
  <2> QED BY <2>1, <2>3
<1>6. s.at = now /\ s.sent = held
  BY <1>5 DEF NewSession
<1>7. add \in Messages /\ Len(<<add>>) = 1 /\ <<add>>[1] = add
  BY DEF Messages
<1>8. PICK c \in Clients : c = Here' /\ (c.goes => c.agg = b /\ c.docs = held)
  <2>1. CASE past.view \/ past.batch
    BY <1>1, <2>1, LostTyped DEF Here
  <2>2. CASE ~past.view /\ ~past.batch
    <3>1. Here' = [goes |-> TRUE, agg |-> b, docs |-> view.docs] /\ view.docs = held
      BY <1>1, <1>2, <1>3, <1>4, <2>2 DEF Here, Viewed
    <3>2. PICK e \in Clients : e = [goes |-> TRUE, agg |-> b, docs |-> held]
      BY DEF Clients
    <3> QED BY <3>1, <3>2
  <2> QED BY <2>1, <2>2
<1>9. PICK e \in Clients : e = Step(c, add)
  BY <1>7, StepTyped
<1>10. Agree(e, s)
  <2>1. CASE ~c.goes
    BY <1>9, <2>1, LostStays, LostTyped DEF Agree
  <2>2. CASE c.goes
    <3>1. ~Strays(b, add)
      BY DEF Strays
    <3>2. PICK u \in Aggregators : u = Digest(b, add)
      BY <1>7, DigestTyped
    <3>3. /\ u.known /\ u.removed = {} /\ ~u.reset /\ ~u.current
          /\ \A d \in Docs : u.updates[d] = NoUpdate
      BY <1>4, <3>2 DEF Digest, state_reset, NewAggregator, Aggregators
    <3>4. c.agg = b /\ c.docs = held
      BY <1>8, <2>2
    <3>5. e = [c EXCEPT !.agg = u]
      BY <1>9, <2>2, <3>1, <3>2, <3>4 DEF Step
    <3>6. e.goes /\ e.docs = held /\ e.agg = u
      BY <2>2, <3>4, <3>5 DEF Clients
    <3>7. Shown(u, held) = held
      BY <3>3 DEF Shown, Pending, Results
    <3> QED BY <1>6, <3>3, <3>6, <3>7 DEF Agree
  <2> QED BY <2>1, <2>2 DEF Clients
<1>11. Foresees(<<add>>, c, s, hist)
  <2> DEFINE r == [i \in 0 .. 1 |-> IF i = 0 THEN c ELSE e]
  <2>1. r \in [0 .. 1 -> Clients] /\ r[0] = c /\ r[1] = e
    OBVIOUS
  <2>2. ASSUME NEW i \in 1 .. 1 PROVE r[i] = Step(r[i - 1], <<add>>[i]) /\ Kept(r[i - 1], <<add>>[i], hist)
    <3>1. i = 1 /\ i - 1 = 0
      OBVIOUS
    <3>2. Kept(c, add, hist)
      BY DEF Kept
    <3> QED BY <1>7, <1>9, <2>1, <3>1, <3>2
  <2> HIDE DEF r
  <2> QED BY <1>7, <1>10, <2>1, <2>2 DEF Foresees
<1>12. TypeOK'
  <2>1. channel' \in Seq(Messages) /\ Len(channel') <= MaxQueued
    BY <1>1, <1>7, BoundsAssumption
  <2>2. agg' \in Aggregators /\ server' \in Sessions
    BY <1>1, <1>4, <1>5
  <2> QED BY <1>1, <1>2, <2>1, <2>2 DEF TypeOK, Aggregators, Sessions, now
<1>13. server'.at \in 1 .. now'
  BY <1>1, <1>2, <1>5, <1>6 DEF now
<1> QED BY <1>1, <1>2, <1>5, <1>8, <1>11, <1>12, <1>13 DEF IInv, Viewed, SnapIsExact, now

LEMMA OpenFailsKeeps ==
  ASSUME IInv, OpenFails
  PROVE  IInv'
<1>1. drops' \in 0 .. MaxDrops
  BY BoundsAssumption DEF IInv, TypeOK, OpenFails
<1> QED BY <1>1 DEF IInv, TypeOK, Viewed, SnapIsExact, OpenFails, now

\* What was on its way is lost; the view stays what the token stands for.
LEMMA DropKeeps ==
  ASSUME IInv, StreamDrops
  PROVE  IInv'
<1>1. drops' \in 0 .. MaxDrops
  BY BoundsAssumption DEF IInv, TypeOK, StreamDrops
<1>2. /\ phase' = "opening" /\ token' = token /\ view' = (IF token = NoToken THEN NewSink ELSE view)
      /\ channel' = <<>> /\ UNCHANGED <<hist, server, agg, snap>>
      /\ past \in Pasts
      /\ past' = [past EXCEPT !.ahead = FALSE, !.batch = FALSE, !.view = token # NoToken /\ (past.view \/ past.ahead)]
  BY DEF StreamDrops, reopen, IInv, TypeOK, Pasts
<1>3. view' \in [docs : Results, current : BOOLEAN, raised : BOOLEAN, previous : Results]
  BY <1>2, Numbers DEF IInv, TypeOK, NewSink
<1>4. channel' \in Seq(Messages) /\ Len(channel') <= MaxQueued
  BY <1>2, BoundsAssumption
<1>5. past' \in Pasts /\ ~past'.ahead /\ past'.snap = past.snap
      /\ (~past'.view => token = NoToken \/ (~past.view /\ ~past.ahead))
  BY <1>2 DEF Pasts
<1>6. TypeOK'
  BY <1>1, <1>2, <1>3, <1>4, <1>5 DEF IInv, TypeOK, Pasts, now
<1>7. Viewed'
  BY <1>2, <1>5 DEF IInv, Viewed, NewSink, now
<1> QED BY <1>2, <1>5, <1>6, <1>7 DEF IInv, SnapIsExact, now

LEMMA RejectedKeeps ==
  ASSUME IInv, OnRejected
  PROVE  IInv'
<1>1. channel' \in Seq(Messages) /\ Len(channel') <= MaxQueued
  BY BoundsAssumption DEF OnRejected
<1> QED BY <1>1 DEF IInv, TypeOK, Viewed, SnapIsExact, OnRejected, now

\* The message at the head of the channel, and the way without it.
LEMMA HeadTaken ==
  ASSUME IInv, NEW type, Takes(type)
  PROVE  /\ Head(channel) \in Messages /\ Head(channel).type = type
         /\ Tail(channel) \in Seq(Messages) /\ Len(Tail(channel)) <= MaxQueued
         /\ Kept(Here, Head(channel), hist)
         /\ Foresees(Tail(channel), Step(Here, Head(channel)), server, hist)
         /\ agg \in Aggregators /\ view.docs \in Results
<1>1. phase = "pumping" /\ channel # <<>> /\ Head(channel).type = type
  BY DEF Takes
<1>2. channel \in Seq(Messages) /\ Len(channel) <= MaxQueued /\ agg \in Aggregators /\ view.docs \in Results
  BY Types DEF IInv
<1>3. Foresees(channel, Here, server, hist)
  BY <1>1 DEF IInv
<1>4. /\ Head(channel) \in Messages /\ Tail(channel) \in Seq(Messages) /\ Len(Tail(channel)) = Len(channel) - 1
      /\ Len(channel) \in Nat
  BY <1>1, <1>2, EmptySeq, LenProperties, HeadTailProperties
<1>5. Len(Tail(channel)) <= MaxQueued
  BY <1>2, <1>4, BoundsAssumption
<1> QED BY <1>1, <1>2, <1>3, <1>4, <1>5, Taken

\* A message that only the aggregator takes in, and perhaps its token.
LEMMA DigestKeeps ==
  ASSUME IInv, NEW type \in {"add", "reset", "current", "doc", "moved", "gone", "filter"}, Takes(type),
         aggregates(Digest(agg, Head(channel))), token' \in 0 .. MaxTime, token' <= now, past' \in Pasts,
         past'.batch = (past.batch \/ Strays(agg, Head(channel))), past'.view = past.view, past'.snap = past.snap,
         past'.ahead \/ (token' = token /\ past'.ahead = past.ahead)
  PROVE  IInv'
<1>1. /\ channel' = Tail(channel) /\ agg' = Digest(agg, Head(channel))
      /\ UNCHANGED <<hist, server, drops, phase, view, snap>> /\ phase = "pumping"
  BY DEF aggregates, Takes
<1>2. agg' \in Aggregators
  BY <1>1, HeadTaken, DigestTyped
<1>3. TypeOK'
  BY <1>1, <1>2, HeadTaken DEF IInv, TypeOK, Aggregators, Pasts, now
<1>4. Step(Here, Head(channel)) = Here'
  <2>1. PICK m : m = Head(channel) /\ m.type \notin {"rejected", "snapshot"}
    BY HeadTaken
  <2>2. CASE past.view \/ past.batch
    BY <2>1, <2>2, LostStays, LostTyped DEF Here
  <2>3. CASE ~past.view /\ ~past.batch /\ Strays(agg, m)
    BY <2>1, <2>3, LostStays, LostTyped DEF Here
  <2>4. CASE ~past.view /\ ~past.batch /\ ~Strays(agg, m)
    <3>1. Here = [goes |-> TRUE, agg |-> agg, docs |-> view.docs]
      BY <2>4 DEF Here
    <3>2. Step(Here, m) = [goes |-> TRUE, agg |-> Digest(agg, m), docs |-> view.docs]
      BY <2>1, <2>4, <3>1 DEF Step
    <3>3. Here' = [goes |-> TRUE, agg |-> Digest(agg, m), docs |-> view.docs]
      BY <1>1, <2>1, <2>4 DEF Here
    <3> QED BY <2>1, <3>2, <3>3
  <2> QED BY <2>1, <2>2, <2>3, <2>4
<1>5. Foresees(channel', Here', server', hist')
  BY <1>1, <1>4, HeadTaken
<1>6. Viewed'
  BY <1>1 DEF IInv, Viewed, now
<1> QED BY <1>1, <1>3, <1>5, <1>6 DEF IInv, SnapIsExact, now

\* A message that leaves the token, and what it does to the past.
LEMMA StrayKeeps ==
  ASSUME IInv, NEW type \in {"add", "reset", "doc", "moved", "gone", "filter"}, Takes(type),
         aggregates(Digest(agg, Head(channel))), token' = token,
         (past' = past /\ ~Strays(agg, Head(channel))) \/ past' = [past EXCEPT !.batch = @ \/ Strays(agg, Head(channel))]
  PROVE  IInv'
<1>1. past \in Pasts /\ token \in 0 .. MaxTime /\ token <= now
  BY DEF IInv, TypeOK, Pasts, Viewed
<1>2. PICK b \in BOOLEAN : b = (past.batch \/ Strays(agg, Head(channel)))
  BY DEF Strays
<1>3. past' \in Pasts /\ past'.batch = b /\ past'.view = past.view /\ past'.snap = past.snap /\ past'.ahead = past.ahead
  BY <1>1, <1>2 DEF Pasts
<1> QED BY <1>1, <1>2, <1>3, DigestKeeps

LEMMA AggregateKeeps ==
  ASSUME IInv, OnAdd \/ OnReset \/ OnCurrent \/ OnDocumentChange \/ OnDocumentMovedOut \/ OnDocumentGone \/ OnFilter
  PROVE  IInv'
<1>1. CASE OnAdd
  BY <1>1, StrayKeeps DEF OnAdd, Takes, Digest, Strays
<1>2. CASE OnReset
  <2>1. Strays(agg, Head(channel)) <=> \E d \in Docs : agg.updates[d] # NoUpdate
    BY <1>2 DEF OnReset, Takes, Strays
  <2> QED BY <1>2, <2>1, StrayKeeps DEF OnReset, Takes, Digest, strays
<1>3. CASE OnCurrent
  <2>1. Takes("current") /\ past \in Pasts /\ ~Strays(agg, Head(channel))
    BY <1>3 DEF OnCurrent, IInv, TypeOK, Pasts, Takes, Strays
  <2>2. Head(channel).token \in Versions /\ Head(channel).token <= now
    BY <2>1, HeadTaken, MessageFields DEF Kept, now
  <2>3. token' \in 0 .. MaxTime /\ token' <= now
    BY <1>3, <2>2 DEF OnCurrent, IInv, TypeOK, Viewed, Versions
  <2>4. past' = [past EXCEPT !.ahead = @ \/ Head(channel).token # NoToken]
    BY <1>3 DEF OnCurrent
  <2>5. past' \in Pasts /\ past'.batch = past.batch /\ past'.view = past.view /\ past'.snap = past.snap
    BY <2>1, <2>4 DEF Pasts
  <2>6. past'.ahead \/ (token' = token /\ past'.ahead = past.ahead)
    BY <1>3, <2>1, <2>4 DEF OnCurrent, Pasts
  <2>7. past'.batch = (past.batch \/ Strays(agg, Head(channel)))
    BY <2>1, <2>5 DEF Pasts
  <2> QED BY <1>3, <2>1, <2>3, <2>5, <2>6, <2>7, DigestKeeps DEF OnCurrent, Takes, Digest
<1>4. CASE OnDocumentChange
  <2>1. Strays(agg, Head(channel)) <=> Head(channel).doc \in agg.removed
    BY <1>4 DEF OnDocumentChange, Takes, Strays
  <2> QED BY <1>4, <2>1, StrayKeeps DEF OnDocumentChange, Takes, Digest, strays
<1>5. CASE OnDocumentMovedOut
  <2>1. Strays(agg, Head(channel)) <=> Head(channel).doc \notin agg.docs
    BY <1>5 DEF OnDocumentMovedOut, Takes, Strays
  <2> QED BY <1>5, <2>1, StrayKeeps DEF OnDocumentMovedOut, Takes, Digest, strays
<1>6. CASE OnDocumentGone
  BY <1>6, StrayKeeps DEF OnDocumentGone, Takes, Digest, Strays
<1>7. CASE OnFilter
  <2>1. Strays(agg, Head(channel)) <=> Cardinality(agg.docs) # Head(channel).count /\ ~agg.current
    BY <1>7 DEF OnFilter, Takes, Strays
  <2> QED BY <1>7, <2>1, StrayKeeps DEF OnFilter, Takes, Digest, strays
<1> QED BY <1>1, <1>2, <1>3, <1>4, <1>5, <1>6, <1>7

\* A consistent moment: what is shown is the result set at its time, unless the filter
\* did not match, and then the snapshot is not in sync and the client starts over.
LEMMA OnSnapshotKeeps ==
  ASSUME IInv, OnSnapshot
  PROVE  IInv'
<1>1. Takes("snapshot") /\ UNCHANGED <<hist, server, drops>>
  BY DEF OnSnapshot
<1>2. PICK time \in 1 .. now : time = Head(channel).time
  BY <1>1, HeadTaken DEF Kept, now
<1>3. PICK a \in Aggregators : a = [agg EXCEPT !.dirty = @ \/ agg.known]
  BY <1>1, HeadTaken DEF Aggregators
<1>4. past \in Pasts /\ view.docs \in Results /\ agg \in Aggregators
  BY <1>1, HeadTaken DEF IInv, TypeOK, Pasts
<1>5. PICK wrong \in BOOLEAN : wrong = (past.view \/ past.batch)
  OBVIOUS
<1>6. ~wrong => /\ Here = [goes |-> TRUE, agg |-> agg, docs |-> view.docs]
                /\ agg.known /\ (Adrift(agg) \/ Shown(agg, view.docs) = hist[time])
  BY <1>1, <1>2, <1>5, HeadTaken DEF Kept, Here
<1>7. /\ a.known = agg.known /\ a.current = agg.current /\ a.removed = agg.removed /\ a.docs = agg.docs
      /\ a.updates = agg.updates /\ a.reset = agg.reset /\ a.sawFilter = agg.sawFilter
      /\ (agg.known => a.dirty)
  BY <1>3, <1>4 DEF Aggregators
<1>8. ~wrong => HasTargetChange(a) /\ ~EventIsEmpty(a)
  BY <1>6, <1>7 DEF HasTargetChange, EventIsEmpty
<1>9. PICK docs \in Results : docs = DocsAfter(a)
  <2>1. ASSUME NEW d \in Docs PROVE DocsAfter(a)[d] \in Versions
    BY <1>4, Numbers DEF DocsAfter, Aggregators, Results
  <2> QED BY <2>1 DEF DocsAfter, Results
<1>10. ~wrong => docs = Shown(agg, view.docs)
  BY <1>7, <1>8, <1>9 DEF DocsAfter, Shown, Pending
<1>11. PICK current \in BOOLEAN : current = CurrentAfter(a)
  BY DEF CurrentAfter
<1>12. PICK sink : sink = IF EventIsEmpty(a) THEN view ELSE SinkAfter(docs, current)
  OBVIOUS
<1>13. /\ sink \in [docs : Results, current : BOOLEAN, raised : BOOLEAN, previous : Results]
       /\ ~EventIsEmpty(a) => sink.docs = docs
  BY <1>9, <1>12 DEF IInv, TypeOK, SinkAfter
<1>14. PICK raised \in BOOLEAN : raised = (~EventIsEmpty(a) /\ ShouldRaise(docs, current))
  OBVIOUS
<1>15. PICK over \in BOOLEAN : over = (agg.sawFilter /\ agg.reset)
  OBVIOUS
<1>16. snap' = IF raised THEN [docs |-> docs, inSync |-> current, time |-> time] ELSE snap
  BY <1>2, <1>3, <1>9, <1>11, <1>14 DEF OnSnapshot, calls_back
<1>17. past' = [ahead |-> FALSE, batch |-> FALSE, view |-> wrong /\ ~over, snap |-> IF raised THEN wrong ELSE past.snap]
  BY <1>3, <1>5, <1>9, <1>11, <1>14, <1>15 DEF OnSnapshot
<1>18. past' \in Pasts /\ ~past'.ahead /\ ~past'.batch /\ past'.view = (wrong /\ ~over)
       /\ past'.snap = (IF raised THEN wrong ELSE past.snap)
  BY <1>4, <1>17 DEF Pasts
<1>19. agg' = Drained(agg) /\ agg' \in Aggregators
  <2>1. agg' = Drained(a)
    BY <1>3 DEF OnSnapshot
  <2>2. Drained(a) = Drained(agg)
    BY <1>3, <1>4 DEF Drained, Aggregators
  <2> QED BY <1>4, <2>1, <2>2, DrainedFacts
<1>20. time \in 1 .. MaxTime /\ time \in Versions /\ hist \in Seq(Results) /\ now \in 1 .. MaxTime
  BY <1>2, BoundsAssumption DEF IInv, TypeOK, Versions
<1>21. snap' \in [docs : Results, inSync : BOOLEAN, time : Versions]
  BY <1>9, <1>11, <1>16, <1>20 DEF IInv, TypeOK
<1>22. SnapIsExact'
  <2>1. CASE ~raised
    BY <1>1, <1>16, <1>18, <2>1 DEF IInv, SnapIsExact, now
  <2>2. CASE raised /\ wrong
    BY <1>18, <2>2 DEF SnapIsExact
  <2>3. CASE raised /\ ~wrong
    <3>1. ASSUME current PROVE ~Adrift(agg)
      BY <1>7, <1>11, <3>1 DEF CurrentAfter, Adrift
    <3>2. snap' = [docs |-> docs, inSync |-> current, time |-> time]
      BY <1>16, <2>3
    <3> QED BY <1>1, <1>2, <1>6, <1>10, <2>3, <3>1, <3>2 DEF SnapIsExact, now
  <2> QED BY <2>1, <2>2, <2>3
<1>23. CASE over
  <2>1. phase' = "opening" /\ token' = NoToken /\ view' = NewSink /\ channel' = <<>>
    BY <1>3, <1>15, <1>23 DEF OnSnapshot, reopen
  <2>2. TypeOK'
    BY <1>1, <1>18, <1>19, <1>21, <2>1, Numbers, BoundsAssumption DEF IInv, TypeOK, NewSink, NoToken, Aggregators, Pasts, now
  <2>3. Viewed'
    BY <1>1, <1>18, <1>20, <2>1 DEF Viewed, NewSink, NoToken, now
  <2> QED BY <1>22, <2>1, <2>2, <2>3 DEF IInv
<1>24. CASE ~over
  <2>1. token' = time /\ view' = sink /\ channel' = Tail(channel) /\ phase' = phase /\ phase = "pumping"
    BY <1>1, <1>2, <1>3, <1>9, <1>11, <1>12, <1>15, <1>24 DEF OnSnapshot, Takes
  <2>2. TypeOK'
    BY <1>1, <1>13, <1>18, <1>19, <1>20, <1>21, <2>1, HeadTaken DEF IInv, TypeOK, Aggregators, Pasts, now
  <2>3. ~wrong => view'.docs = hist[time]
    <3>1. ~Adrift(agg)
      BY <1>15, <1>24 DEF Adrift
    <3> QED BY <1>6, <1>8, <1>10, <1>13, <2>1, <3>1
  <2>4. Viewed'
    BY <1>1, <1>2, <1>18, <1>24, <2>1, <2>3 DEF Viewed, NoToken, now
  <2>5. PICK m : m = Head(channel) /\ m.type = "snapshot"
    BY <1>1, HeadTaken
  <2>6. Step(Here, m) = Here'
    <3>1. CASE wrong
      <4>1. Here = Lost /\ Here' = Lost
        BY <1>5, <1>18, <1>24, <3>1 DEF Here
      <4> QED BY <4>1, LostStays, LostTyped
    <3>2. CASE ~wrong
      <4>1. ~Strays(agg, m)
        BY <2>5 DEF Strays
      <4>2. Step(Here, m) = [goes |-> TRUE, agg |-> Drained(agg), docs |-> docs]
        <5>1. Here.goes /\ Here.agg = agg /\ Here.docs = view.docs
          BY <1>6, <3>2
        <5>2. ~(agg.sawFilter /\ agg.reset)
          BY <1>15, <1>24
        <5> QED BY <1>10, <2>5, <3>2, <4>1, <5>1, <5>2 DEF Step
      <4>3. Here' = [goes |-> TRUE, agg |-> Drained(agg), docs |-> docs]
        BY <1>8, <1>13, <1>18, <1>19, <2>1, <3>2 DEF Here
      <4> QED BY <4>2, <4>3
    <3> QED BY <3>1, <3>2
  <2>7. Foresees(channel', Here', server', hist')
    BY <1>1, <2>1, <2>5, <2>6, HeadTaken
  <2>8. server'.at \in 1 .. now'
    BY <1>1, <2>1 DEF IInv, now
  <2> QED BY <1>22, <2>2, <2>4, <2>7, <2>8 DEF IInv
<1> QED BY <1>23, <1>24

-----------------------------------------------------------------------------
\* The inductive invariant of the listener (run_listener, pump_stream, the aggregator and
\* the sink), for any backend: the messages in flight bring a client that was not led
\* astray to what the backend takes it to hold, and its view is what the resume token
\* stands for unless the token is ahead.
THEOREM StreamsAgree == Spec => []IInv
<1>1. Init => IInv
  <2> SUFFICES ASSUME Init PROVE IInv
    OBVIOUS
  <2>1. PICK r \in [Docs -> {Absent, 1}] : hist = <<r>>
    BY DEF Init
  <2>2. r \in Results
    BY <2>1, BoundsAssumption DEF Results, Versions, Absent
  <2>3. hist \in Seq(Results) /\ now = 1
    BY <2>1, <2>2 DEF now
  <2>4. server \in Sessions
    BY <2>3, Numbers, BoundsAssumption DEF Init, NewSession, Sessions, Versions
  <2>5. TypeOK
    <3>1. channel \in Seq(Messages) /\ Len(channel) <= MaxQueued /\ now \in 1 .. MaxTime
      BY <2>3, BoundsAssumption DEF Init
    <3>2. drops \in 0 .. MaxDrops /\ phase \in {"opening", "pumping", "failed"} /\ token \in 0 .. MaxTime
      BY BoundsAssumption DEF Init, NoToken
    <3>3. agg \in Aggregators
      BY DEF Init, NewAggregator, Aggregators
    <3>4. /\ view \in [docs : Results, current : BOOLEAN, raised : BOOLEAN, previous : Results]
          /\ snap \in [docs : Results, inSync : BOOLEAN, time : Versions]
      BY Numbers DEF Init, NewSink, Absent
    <3>5. past \in Pasts
      BY DEF Init, NothingPast, Pasts
    <3> QED BY <2>3, <2>4, <3>1, <3>2, <3>3, <3>4, <3>5, Types
  <2> QED BY <2>3, <2>5 DEF Init, IInv, Viewed, SnapIsExact, NewSink, NoToken, NothingPast
<1>2. IInv /\ [Next]_vars => IInv'
  <2> SUFFICES ASSUME IInv, [Next]_vars PROVE IInv'
    OBVIOUS
  <2>1. CASE UNCHANGED vars
    <3>1. Here' = Here
      BY <2>1 DEF vars, clientVars, Here
    <3> QED BY <2>1, <3>1 DEF vars, clientVars, IInv, TypeOK, Viewed, SnapIsExact, now
  <2>2. CASE ServerStep
    BY <2>2, AdvanceKeeps, DocumentKeeps, CurrentKeeps, SnapshotKeeps DEF ServerStep
  <2>3. CASE OnMessage
    BY <2>3, AggregateKeeps, OnSnapshotKeeps, RejectedKeeps DEF OnMessage
  <2>4. CASE \E d \in Docs : ResultChanges(d)
    BY <2>4, WriteKeeps
  <2> QED BY <2>1, <2>2, <2>3, <2>4, FilterKeeps, ResetKeeps, RejectKeeps, OpenKeeps, OpenFailsKeeps, DropKeeps DEF Next
<1> QED BY <1>1, <1>2, PTL DEF Spec

\* A snapshot that claims to be in sync is the result set of the query at its read time,
\* and a resumed stream begins where the view stands: through drops, resumes, resets,
\* existence filters and whatever liberties the backend takes, unless one of the messages
\* NothingPast names got in: a token ahead of its snapshot and then a drop
\* (listener.rs stores it at once), a document sent before a RESET, returning in the batch
\* that removed it or moved out unknown, a filter mismatch before CURRENT.
THEOREM SnapshotsStayExact == Spec => []SnapshotsAreExact
<1>1. IInv => SnapshotsAreExact
  BY DEF IInv, Viewed, SnapIsExact, SnapshotsAreExact, InSyncSnapshotsAreExact, ResumePointIsInView
<1> QED BY <1>1, StreamsAgree, PTL

-----------------------------------------------------------------------------
\* Services and requests of the AI product.
CONSTANTS Tasks, Locations, Requests, Answers, Options, MaxApps, MaxCalls
VARIABLES apps, current, registered, attached, providers, services, cache, handed, tasks, calls, during, asked, overlapped

Ai == INSTANCE GenerativeAi

MadeBackends == {Ai!google_ai} \cup [type : {"VERTEX_AI"}, location : Seq(Ai!Segments)]
Settings == {"app_id", "heartbeat", "limited", "shared", "auth"}
Base == {request.base : request \in Requests} \cup {"default"}
Pcs == {"", "cache", "try_get", "create", "fallback", "options", "insert", "returned", "settings", "check", "auth", "send"}
AiResults == {"none", "internal", "invalid-argument", "no-api-key", "no-project-id", "no-app-id", "fetch-error", "parse-failed",
            "response-error", "ok"}
AiCalls == [op : {"idle", "get_ai"} \cup Ai!Preparing, pc : Pcs, app : Nat, backend : Ai!Backends, limited : BOOLEAN,
            service : Nat, hit : BOOLEAN, model : Seq(Ai!Segments), base : Base, settings : SUBSET Settings,
            url : Seq(Ai!Segments), result : AiResults]

ServiceRecords == [app : Nat, backend : MadeBackends, limited : BOOLEAN]
AiTyped ==
  /\ apps \in Seq(Options) /\ Len(apps) \in 0 .. MaxApps /\ current \in 0 .. Len(apps) /\ registered \in BOOLEAN /\ attached \subseteq 1 .. Len(apps)
  /\ providers \in [1 .. MaxApps -> [Ai!Identifiers -> Nat]]
  /\ services \in Seq(ServiceRecords)
  /\ cache \in [Ai!Identifiers -> Nat] /\ handed \subseteq 1 .. Len(services)
  /\ tasks \in [Tasks -> AiCalls]
  /\ during \in [Tasks -> SUBSET BOOLEAN] /\ asked \in [Ai!Identifiers -> BOOLEAN] /\ overlapped \in BOOLEAN

\* A call of get_ai that has an app, and one that has its service.
AskingPcs == {"cache", "try_get", "create", "fallback", "options", "insert"}
Asks(job) == job.op = "get_ai" /\ job.result = "none"
HasService(job) == Asks(job) /\ job.pc \in {"options", "insert", "returned"}
IdOf(job) == Ai!encode_instance_identifier(job.backend)

\* What a step says of the call that is at it.
StageOK(job) ==
  /\ job.pc \in AskingPcs => Asks(job)
  /\ Asks(job) => job.pc \in AskingPcs \cup {"returned"}
  /\ job.op = "get_ai" /\ job.result # "none" => job.service = 0
  /\ job.pc \in {"try_get", "create", "fallback"} => ~job.hit
  /\ job.pc \in {"settings", "check", "auth", "send"} => job.op \in Ai!Preparing
Staged == \A t \in Tasks : StageOK(tasks[t])

Fits(s, i) ==
  /\ s \in DOMAIN services
  /\ services[s].backend = Ai!decode_instance_identifier(i) \/ Ai!encode_instance_identifier(services[s].backend) = i

\* Every service is of an app, and wherever one is found it fits the identifier.
ServicesFit ==
  /\ \A s \in DOMAIN services : services[s].app \in 1 .. Len(apps)
  /\ \A i \in Ai!Identifiers : cache[i] # 0 => Fits(cache[i], i)
  /\ \A a \in 1 .. MaxApps, i \in Ai!Identifiers : providers[a][i] # 0 => Fits(providers[a][i], i)
  /\ \A t \in Tasks : Asks(tasks[t]) => tasks[t].app \in 1 .. Len(apps)
  /\ \A t \in Tasks : HasService(tasks[t]) => Fits(tasks[t].service, IdOf(tasks[t]))

\* Where a service is held under an identifier; it is held under one.
Holds(s, i) ==
  \/ cache[i] = s
  \/ \E a \in 1 .. MaxApps : providers[a][i] = s
  \/ \E t \in Tasks : HasService(tasks[t]) /\ tasks[t].service = s /\ IdOf(tasks[t]) = i
HeldOnce == \A s \in DOMAIN services, i, j \in Ai!Identifiers : Holds(s, i) /\ Holds(s, j) => i = j

\* A registered component is there for the registered app.
Registered ==
  /\ registered /\ current # 0 => current \in attached
  /\ \A t \in Tasks : tasks[t].op = "get_ai" => registered

\* How far a call of get_ai has got with its identifier: as long as the first app is there,
\* what the cache has is the provider's, and a call has what the provider has.
FirstApp == Len(apps) = 1 /\ current = 1
CallStage(job) ==
  LET i == IdOf(job) IN
  /\ asked[i] = job.limited
  /\ job.pc \in {"cache", "returned"} \/ (job.pc = "options" /\ job.hit) \/ cache[i] = 0
  /\ job.pc = "options" /\ job.hit => cache[i] = job.service
  /\ job.pc = "insert" => services[job.service].limited = job.limited
  /\ job.pc = "returned" => cache[i] = job.service /\ services[job.service].limited = job.limited
  /\ FirstApp => job.pc # "fallback" /\ (HasService(job) => providers[1][i] = job.service)

CacheStage(i) ==
  cache[i] # 0 =>
    /\ services[cache[i]].limited = asked[i] \/ \E t \in Tasks : Asks(tasks[t]) /\ IdOf(tasks[t]) = i
    /\ FirstApp => providers[1][i] = cache[i]

CacheInStep ==
  ~overlapped =>
    /\ \A t, u \in Tasks : tasks[t].op = "get_ai" /\ tasks[u].op = "get_ai" => t = u
    /\ \A t \in Tasks : Asks(tasks[t]) => CallStage(tasks[t])
    /\ \A i \in Ai!Identifiers : CacheStage(i)

\* A request that has begun, with the flags its service had meanwhile.
Reading(job) == job.pc \in {"settings", "check", "auth", "send"} \/ job.url # Ai!None
RequestOK(job, flags) ==
  IF job.op \notin Ai!Preparing THEN job.url = Ai!None
  ELSE /\ Reading(job) => job.service \in DOMAIN services /\ services[job.service].limited \in flags
       /\ Reading(job) /\ job.pc # "settings" => job.limited \in flags
       /\ "limited" \in job.settings => job.limited
       /\ "shared" \in job.settings => ~job.limited
       /\ "heartbeat" \in job.settings => "shared" \in job.settings \/ "limited" \in job.settings
       /\ job.pc \in {"settings", "check"} => job.settings \cap {"limited", "shared", "heartbeat"} = {}
       /\ job.pc \in {"settings", "check", "auth"} => job.url = Ai!None
       /\ job.url # Ai!None => job.url = Ai!construct_request(services[job.service].backend, job.model)
RequestsInStep == \A t \in Tasks : RequestOK(tasks[t], during[t])

AiInv == AiTyped /\ Staged /\ ServicesFit /\ HeldOnce /\ Registered /\ CacheInStep /\ RequestsInStep

-----------------------------------------------------------------------------
LEMMA OneTuple == ASSUME NEW S, NEW x \in S PROVE <<x>> \in Seq(S) /\ Len(<<x>>) = 1 /\ <<x>>[1] = x
  OBVIOUS

LEMMA Pair ==
  ASSUME NEW S, NEW x \in S, NEW y \in S
  PROVE  <<x, y>> \in Seq(S) /\ Len(<<x, y>>) = 2 /\ <<x, y>>[1] = x /\ <<x, y>>[2] = y
  OBVIOUS

LEMMA FirstOf == ASSUME NEW S, NEW l \in Seq(S), l # <<>> PROVE Len(l) \in Nat /\ Len(l) >= 1 /\ l[1] \in S
<1>1. Len(l) \in Nat \ {0}
  BY EmptySeq
<1>2. Len(l) \in Nat /\ Len(l) >= 1
  BY <1>1
<1> QED BY <1>2

LEMMA Single == ASSUME NEW S, NEW l \in Seq(S), Len(l) <= 1, l # <<>> PROVE l[1] \in S /\ l = <<l[1]>>
<1>1. Len(l) \in Nat /\ Len(l) >= 1 /\ l[1] \in S
  BY FirstOf
<1>2. \A n \in Nat : n <= 1 /\ n >= 1 => n = 1
  OBVIOUS
<1>3. Len(l) = 1
  BY <1>1, <1>2
<1>4. <<l[1]>> \in Seq(S) /\ Len(<<l[1]>>) = 1 /\ <<l[1]>>[1] = l[1]
  BY <1>1, OneTuple
<1> QED BY <1>1, <1>3, <1>4, SeqEqual

LEMMA AfterPair ==
  ASSUME NEW S, NEW l \in Seq(S), NEW p \in Seq(S), Len(p) = 2
  PROVE  (p \o l)[2] = p[2] /\ (l # <<>> => (p \o l)[3] = l[1])
<1>1. Len(l) \in Nat /\ (l # <<>> => Len(l) >= 1)
  BY FirstOf
<1>2. /\ Len(p \o l) = Len(p) + Len(l)
      /\ \A i \in 1 .. Len(p) + Len(l) : (p \o l)[i] = IF i <= Len(p) THEN p[i] ELSE l[i - Len(p)]
  BY ConcatProperties
<1> QED BY <1>1, <1>2

\* The first two parts of every identifier, and an empty location.
VertexAi == <<"AI", "vertexai">>
GoogleAi == <<"AI", "googleai">>
Unnamed == <<"">>

LEMMA PartsOfIdentifiers ==
  /\ VertexAi \in Seq(Ai!Segments) /\ Len(VertexAi) = 2 /\ VertexAi[2] = "vertexai"
  /\ GoogleAi[2] = "googleai"
  /\ Ai!Default \in Seq(Ai!Segments) /\ Ai!Default # Ai!None /\ Ai!Default # Unnamed
<1>1. "AI" \in Ai!Segments /\ "vertexai" \in Ai!Segments /\ "googleai" \in Ai!Segments /\ "us-central1" \in Ai!Segments
  BY DEF Ai!Segments
<1>2. Ai!Default \in Seq(Ai!Segments) /\ Len(Ai!Default) = 1 /\ Ai!Default[1] = "us-central1"
  BY <1>1, OneTuple DEF Ai!Default
<1>3. Unnamed[1] = ""
  BY DEF Unnamed
<1>4. VertexAi \in Seq(Ai!Segments) /\ Len(VertexAi) = 2 /\ VertexAi[2] = "vertexai"
  BY <1>1, Pair DEF VertexAi
<1>5. GoogleAi[2] = "googleai"
  BY DEF GoogleAi
<1>6. Len(Ai!None) = 0
  BY DEF Ai!None
<1>7. Ai!Default # Ai!None
  BY <1>2, <1>6
<1>8. Ai!Default # Unnamed
  BY <1>2, <1>3
<1> QED BY <1>2, <1>4, <1>5, <1>7, <1>8

\* The constructors, with their constants folded.
LEMMA Encoding ==
  /\ Ai!encode_instance_identifier(Ai!google_ai) = GoogleAi
  /\ \A b : b # Ai!google_ai => Ai!encode_instance_identifier(b) = VertexAi \o b.location
  /\ \A i : Ai!decode_instance_identifier(i) = IF i[2] = "googleai" THEN Ai!google_ai ELSE Ai!vertex_ai(<<i[3]>>)
  /\ \A l : Ai!vertex_ai(l) = [type |-> "VERTEX_AI", location |-> IF l = Ai!None \/ l = Unnamed THEN Ai!Default ELSE l]
  BY DEF Ai!encode_instance_identifier, Ai!decode_instance_identifier, Ai!vertex_ai, VertexAi, GoogleAi, Unnamed

LEMMA BackendsTyped ==
  ASSUME Ai!ConstantsOK
  PROVE  /\ Ai!Backends \subseteq MadeBackends /\ Ai!google_ai \in Ai!Backends
         /\ \A b \in Ai!Backends : b # Ai!google_ai =>
              /\ b = [type |-> "VERTEX_AI", location |-> b.location] /\ b.location \in Seq(Ai!Segments)
              /\ b.location # Unnamed /\ b.location # Ai!None
<1>1. Ai!google_ai \in Ai!Backends
  BY DEF Ai!Backends
<1>2. ASSUME NEW l \in Locations
      PROVE  /\ Ai!vertex_ai(l) \in [type : {"VERTEX_AI"}, location : Seq(Ai!Segments)]
             /\ Ai!vertex_ai(l).location # Unnamed /\ Ai!vertex_ai(l).location # Ai!None
  <2>1. l \in Seq(Ai!Segments)
    BY DEF Ai!ConstantsOK
  <2> QED BY <2>1, Encoding, PartsOfIdentifiers
<1> QED BY <1>1, <1>2 DEF Ai!Backends, MadeBackends

LEMMA MadeTyped ==
  ASSUME NEW b \in MadeBackends
  PROVE  b.type \in {"GOOGLE_AI", "VERTEX_AI"} /\ b.location \in Seq(Ai!Segments) /\ (b = Ai!google_ai <=> b.type = "GOOGLE_AI")
<1>1. CASE b = Ai!google_ai
  <2>1. Ai!google_ai.type = "GOOGLE_AI" /\ Ai!google_ai.location = <<>>
    BY DEF Ai!google_ai, Ai!None
  <2> QED BY <1>1, <2>1
<1>2. CASE b \in [type : {"VERTEX_AI"}, location : Seq(Ai!Segments)]
  <2>1. Ai!google_ai.type = "GOOGLE_AI"
    BY DEF Ai!google_ai
  <2> QED BY <1>2, <2>1
<1> QED BY <1>1, <1>2 DEF MadeBackends

\* An identifier has all of the backend.
LEMMA IdentifiersTell ==
  ASSUME NEW b \in MadeBackends, NEW c \in MadeBackends, Ai!encode_instance_identifier(b) = Ai!encode_instance_identifier(c)
  PROVE  b = c
<1>1. ASSUME NEW d \in MadeBackends, d # Ai!google_ai
      PROVE  /\ Ai!encode_instance_identifier(d) = VertexAi \o d.location /\ Ai!encode_instance_identifier(d) # GoogleAi
             /\ d = [type |-> "VERTEX_AI", location |-> d.location] /\ d.location \in Seq(Ai!Segments)
  <2>1. d.location \in Seq(Ai!Segments) /\ d = [type |-> "VERTEX_AI", location |-> d.location]
    BY <1>1 DEF MadeBackends
  <2>2. Ai!encode_instance_identifier(d) = VertexAi \o d.location
    BY <1>1, Encoding
  <2>3. (VertexAi \o d.location)[2] = "vertexai"
    BY <2>1, PartsOfIdentifiers, AfterPair
  <2>4. Ai!encode_instance_identifier(d) # GoogleAi
    BY <2>2, <2>3, PartsOfIdentifiers
  <2> QED BY <2>1, <2>2, <2>4
<1>2. CASE b = Ai!google_ai \/ c = Ai!google_ai
  BY <1>1, <1>2, Encoding
<1>3. CASE b # Ai!google_ai /\ c # Ai!google_ai
  <2>1. b.location \in Seq(Ai!Segments) /\ c.location \in Seq(Ai!Segments) /\ VertexAi \o b.location = VertexAi \o c.location
    BY <1>1, <1>3
  <2>2. VertexAi \in Seq(Ai!Segments)
    BY PartsOfIdentifiers
  <2>3. b.location = c.location
    BY <2>1, <2>2, ConcatSimplifications
  <2> QED BY <1>1, <1>3, <2>3
<1> QED BY <1>2, <1>3

\* What get_ai makes in a provider is of the backend asked for, if its location is one part.
LEMMA IdentifiersDecode ==
  ASSUME Ai!ConstantsOK, NEW b \in Ai!Backends
  PROVE  LET made == Ai!decode_instance_identifier(Ai!encode_instance_identifier(b))
         IN  made \in MadeBackends /\ (Ai!Whole(b) => made = b)
<1>1. CASE b = Ai!google_ai
  BY <1>1, Encoding, PartsOfIdentifiers DEF MadeBackends
<1>2. CASE b # Ai!google_ai
  <2> DEFINE i == Ai!encode_instance_identifier(b)
  <2>1. b.location \in Seq(Ai!Segments) /\ b.location # Unnamed /\ b.location # Ai!None /\ b = [type |-> "VERTEX_AI", location |-> b.location]
    BY <1>2, BackendsTyped
  <2>2. i = VertexAi \o b.location
    BY <1>2, Encoding
  <2>3. b.location # <<>>
    BY <2>1 DEF Ai!None
  <2>4. i[2] = "vertexai" /\ i[3] = b.location[1] /\ b.location[1] \in Ai!Segments
    <3>1. VertexAi \in Seq(Ai!Segments) /\ Len(VertexAi) = 2 /\ VertexAi[2] = "vertexai"
      BY PartsOfIdentifiers
    <3>2. b.location[1] \in Ai!Segments
      BY <2>1, <2>3, FirstOf
    <3>3. (VertexAi \o b.location)[2] = VertexAi[2] /\ (VertexAi \o b.location)[3] = b.location[1]
      BY <2>1, <2>3, <3>1, AfterPair
    <3> QED BY <2>2, <3>1, <3>2, <3>3
  <2>5. Ai!decode_instance_identifier(i) = Ai!vertex_ai(<<b.location[1]>>)
    BY <2>4, Encoding
  <2>6. <<b.location[1]>> \in Seq(Ai!Segments)
    BY <2>4, OneTuple
  <2>7. Ai!vertex_ai(<<b.location[1]>>) \in MadeBackends
    BY <2>6, Encoding, PartsOfIdentifiers DEF MadeBackends
  <2>8. ASSUME Ai!Whole(b) PROVE Ai!decode_instance_identifier(i) = b
    <3>1. <<b.location[1]>> = b.location
      BY <2>1, <2>3, <2>8, Single DEF Ai!Whole
    <3> QED BY <2>1, <2>5, <3>1, Encoding
  <2> QED BY <2>5, <2>7, <2>8
<1> QED BY <1>1, <1>2

\* The first segment that is not empty begins a part of the name.
LEMMA Least ==
  ASSUME NEW I, I \subseteq Nat, I # {}
  PROVE  \E x \in I : \A y \in I : x <= y
<1>1. PICK x \in I : \A y \in I : ~(<<y, x>> \in OpToRel(<, Nat))
  BY NatLessThanWellFounded, WFMin
<1>2. \A y \in I : x <= y
  <2> SUFFICES ASSUME NEW y \in I, ~(x <= y) PROVE FALSE
    OBVIOUS
  <2>1. x \in Nat /\ y \in Nat /\ y < x
    OBVIOUS
  <2>2. <<y, x>> \in OpToRel(<, Nat)
    BY <2>1 DEF OpToRel
  <2> QED BY <1>1, <2>2
<1> QED BY <1>2

LEMMA TrimmedTyped == ASSUME NEW model \in Seq(Ai!Segments) PROVE Ai!trimmed(model) \in Seq(Ai!Segments)
<1> DEFINE I == {i \in 1 .. Len(model) : model[i] # ""}
           n == IF I # {} THEN Ai!Min(I) ELSE 0
<1>1. Ai!trimmed(model) = IF n = 0 THEN Unnamed ELSE SubSeq(model, n, Len(model))
  BY DEF Ai!trimmed, Ai!SelectInSeq, Unnamed
<1>2. Unnamed \in Seq(Ai!Segments)
  <2>1. "" \in Ai!Segments
    BY DEF Ai!Segments
  <2> QED BY <2>1, OneTuple DEF Unnamed
<1>3. CASE I = {}
  BY <1>1, <1>2, <1>3
<1>4. CASE I # {}
  <2>1. I \subseteq Nat
    <3>1. Len(model) \in Nat /\ \A i \in 1 .. Len(model) : i \in Nat
      BY LenProperties
    <3>2. \A i \in I : i \in 1 .. Len(model)
      OBVIOUS
    <3> QED BY <3>1, <3>2
  <2>2. \E x \in I : \A y \in I : x <= y
    BY <1>4, <2>1, Least
  <2>3. Ai!Min(I) \in I
    BY <2>2 DEF Ai!Min
  <2>4. n \in 1 .. Len(model) /\ Len(model) \in Nat
    BY <1>4, <2>3, LenProperties
  <2> HIDE DEF n
  <2>5. \A i \in n .. Len(model) : model[i] \in Ai!Segments
    BY <2>4, ElementOfSeq
  <2>6. SubSeq(model, n, Len(model)) \in Seq(Ai!Segments)
    BY <2>4, <2>5, SubSeqProperties
  <2> QED BY <1>1, <2>4, <2>6
<1> QED BY <1>3, <1>4

\* Names and paths are made of segments.
Project == <<"v1beta", "projects", "project">>
InLocations == <<"locations">>
ProjectIn == <<"v1beta", "projects", "project", "locations">>

LEMMA FourSegments == ASSUME NEW S, NEW p \in S, NEW q \in S, NEW r \in S, NEW l \in S PROVE <<p, q, r>> \o <<l>> = <<p, q, r, l>>
<1>1. <<p, q, r>> \in Seq(S) /\ Append(<<p, q, r>>, l) = <<p, q, r>> \o <<l>>
  BY AppendIsConcat
<1>2. Append(<<p, q, r>>, l) \in Seq(S) /\ <<p, q, r, l>> \in Seq(S)
  OBVIOUS
<1>3. Len(Append(<<p, q, r>>, l)) = 4 /\ Len(<<p, q, r, l>>) = 4
  OBVIOUS
<1>4. \A i \in 1 .. 4 : Append(<<p, q, r>>, l)[i] = <<p, q, r, l>>[i]
  OBVIOUS
<1>5. Append(<<p, q, r>>, l) = <<p, q, r, l>>
  BY <1>2, <1>3, <1>4, SeqEqual
<1> QED BY <1>1, <1>5

LEMMA Written ==
  /\ Project \in Seq(Ai!Segments) /\ InLocations \in Seq(Ai!Segments) /\ ProjectIn \in Seq(Ai!Segments)
  /\ Project \o InLocations = ProjectIn
<1> DEFINE p == "v1beta"
           q == "projects"
           r == "project"
           l == "locations"
<1>1. p \in Ai!Segments /\ q \in Ai!Segments /\ r \in Ai!Segments /\ l \in Ai!Segments
  BY DEF Ai!Segments
<1>2. Project = <<p, q, r>> /\ InLocations = <<l>> /\ ProjectIn = <<p, q, r, l>>
  BY DEF Project, InLocations, ProjectIn
<1> HIDE DEF p, q, r, l
<1>3. <<p, q, r>> \in Seq(Ai!Segments) /\ <<l>> \in Seq(Ai!Segments) /\ <<p, q, r, l>> \in Seq(Ai!Segments)
  BY <1>1
<1>4. <<p, q, r>> \o <<l>> = <<p, q, r, l>>
  BY <1>1, FourSegments
<1> QED BY <1>2, <1>3, <1>4

LEMMA Constructed ==
  ASSUME NEW backend \in MadeBackends, NEW model \in Seq(Ai!Segments)
  PROVE  /\ Ai!construct_request(backend, model) \in Seq(Ai!Segments)
         /\ backend.type = "VERTEX_AI" => Ai!IsPrefix(ProjectIn \o backend.location, Ai!construct_request(backend, model))
<1>1. backend.location \in Seq(Ai!Segments) /\ Ai!trimmed(model) \in Seq(Ai!Segments)
  BY MadeTyped, TrimmedTyped
<1> DEFINE head == ProjectIn \o backend.location
<1>2. Ai!construct_request(backend, model) = IF backend.type = "GOOGLE_AI" THEN Project \o Ai!trimmed(model) ELSE head \o Ai!trimmed(model)
  BY Written DEF Ai!construct_request, Project, InLocations
<1>3. head \in Seq(Ai!Segments) /\ Project \o Ai!trimmed(model) \in Seq(Ai!Segments)
  BY <1>1, Written, ConcatProperties
<1> HIDE DEF head
<1>4. /\ head \o Ai!trimmed(model) \in Seq(Ai!Segments) /\ Len(head \o Ai!trimmed(model)) = Len(head) + Len(Ai!trimmed(model))
      /\ \A i \in 1 .. Len(head) + Len(Ai!trimmed(model)) :
           (head \o Ai!trimmed(model))[i] = IF i <= Len(head) THEN head[i] ELSE Ai!trimmed(model)[i - Len(head)]
  BY <1>1, <1>3, ConcatProperties
<1>5. Len(head) \in Nat /\ Len(Ai!trimmed(model)) \in Nat
  BY <1>1, <1>3, LenProperties
<1>6. Ai!IsPrefix(head, head \o Ai!trimmed(model))
  <2> DEFINE whole == head \o Ai!trimmed(model)
             n == Len(head)
  <2>1. whole \in Seq(Ai!Segments) /\ n \in Nat /\ n <= Len(whole) /\ \A i \in 1 .. n : head[i] = whole[i]
    BY <1>4, <1>5
  <2> HIDE DEF whole
  <2>2. \A i \in 1 .. n : head[i] \in Ai!Segments /\ whole[i] \in Ai!Segments
    BY <1>3, <2>1, ElementOfSeq
  <2>3. /\ SubSeq(head, 1, n) \in Seq(Ai!Segments) /\ Len(SubSeq(head, 1, n)) = n
        /\ SubSeq(whole, 1, n) \in Seq(Ai!Segments) /\ Len(SubSeq(whole, 1, n)) = n
        /\ \A i \in 1 .. n : SubSeq(head, 1, n)[i] = head[i] /\ SubSeq(whole, 1, n)[i] = whole[i]
    BY <2>1, <2>2, SubSeqProperties
  <2>4. SubSeq(head, 1, n) = SubSeq(whole, 1, n)
    BY <2>1, <2>3, SeqEqual
  <2>5. Ai!IsPrefix(head, whole)
    BY <2>1, <2>4 DEF Ai!IsPrefix
  <2> QED BY <2>5 DEF whole
<1> QED BY <1>2, <1>3, <1>4, <1>6 DEF head

LEMMA ModelsTyped ==
  ASSUME Ai!ConstantsOK, NEW request \in Requests, NEW type \in {"GOOGLE_AI", "VERTEX_AI"}
  PROVE  Ai!model_of(request, type) \in Seq(Ai!Segments)
<1> DEFINE models == <<"models">>
           of == <<"publishers", "google">>
           within == <<"publishers", "google", "models">>
           bison == <<"text-bison-001">>
<1>1. models \in Seq(Ai!Segments) /\ of \in Seq(Ai!Segments) /\ within \in Seq(Ai!Segments) /\ bison \in Seq(Ai!Segments)
  <2> DEFINE m == "models"
             p == "publishers"
             g == "google"
             b == "text-bison-001"
  <2>1. m \in Ai!Segments /\ p \in Ai!Segments /\ g \in Ai!Segments /\ b \in Ai!Segments
    BY DEF Ai!Segments
  <2>2. models = <<m>> /\ of = <<p, g>> /\ within = <<p, g, m>> /\ bison = <<b>>
    OBVIOUS
  <2> HIDE DEF m, p, g, b
  <2>3. <<m>> \in Seq(Ai!Segments) /\ <<p, g>> \in Seq(Ai!Segments) /\ <<p, g, m>> \in Seq(Ai!Segments) /\ <<b>> \in Seq(Ai!Segments)
    BY <2>1
  <2> QED BY <2>2, <2>3
<1> DEFINE name == request.model
<1>2. name \in Seq(Ai!Segments)
  BY DEF Ai!ConstantsOK
<1>3. Ai!model_of(request, type) \in {name, models \o name, of \o name, within \o name, bison}
  BY DEF Ai!model_of, Ai!normalize_model_name, Ai!normalize_google_ai_model, Ai!normalize_vertex_ai_model
<1> HIDE DEF models, of, within, bison, name
<1>4. models \o name \in Seq(Ai!Segments) /\ of \o name \in Seq(Ai!Segments) /\ within \o name \in Seq(Ai!Segments)
  BY <1>1, <1>2, ConcatProperties
<1> QED BY <1>1, <1>2, <1>3, <1>4

-----------------------------------------------------------------------------
LEMMA IdleTyped ==
  ASSUME Ai!ConstantsOK
  PROVE  /\ Ai!Idle \in AiCalls /\ Ai!Idle.op = "idle" /\ Ai!Idle.pc = "" /\ Ai!Idle.service = 0 /\ Ai!Idle.hit = FALSE /\ Ai!Idle.url = Ai!None
         /\ Ai!Idle.settings = {} /\ Ai!Idle.result = "none" /\ StageOK(Ai!Idle)
<1>1. Ai!google_ai \in Ai!Backends
  BY DEF Ai!Backends
<1>2. Ai!None \in Seq(Ai!Segments)
  BY DEF Ai!None
<1>3. /\ Ai!Idle.op = "idle" /\ Ai!Idle.pc = "" /\ Ai!Idle.service = 0 /\ Ai!Idle.hit = FALSE /\ Ai!Idle.url = Ai!None
      /\ Ai!Idle.settings = {} /\ Ai!Idle.result = "none"
  BY DEF Ai!Idle
<1>4. Ai!Idle \in AiCalls
  BY <1>1, <1>2 DEF Ai!Idle, AiCalls, Pcs, Base, AiResults, Settings
<1>5. StageOK(Ai!Idle)
  BY <1>3 DEF StageOK, AskingPcs, Asks
<1> QED BY <1>3, <1>4, <1>5

LEMMA IdsTyped == ASSUME NEW job \in AiCalls PROVE IdOf(job) \in Ai!Identifiers
  BY DEF AiCalls, IdOf, Ai!Identifiers

\* A task takes a step: the others are as they were.
LEMMA OneMoves ==
  ASSUME AiTyped, NEW t \in Tasks, NEW job \in AiCalls, tasks' = [tasks EXCEPT ![t] = job]
  PROVE  tasks' \in [Tasks -> AiCalls] /\ tasks'[t] = job /\ \A u \in Tasks : u # t => tasks'[u] = tasks[u]
BY DEF AiTyped

\* A call of get_ai takes a step that leaves the services there are as they are.
LEMMA AskStep ==
  ASSUME AiInv, NEW t \in Tasks, NEW job \in AiCalls, StageOK(job), job.op \notin Ai!Preparing, job.url = Ai!None,
         tasks' = [tasks EXCEPT ![t] = job], during' = during,
         \A s \in DOMAIN services : s \in DOMAIN services' /\ services'[s] = services[s]
  PROVE  Staged' /\ RequestsInStep'
<1>1. tasks'[t] = job /\ \A u \in Tasks : u # t => tasks'[u] = tasks[u]
  BY OneMoves DEF AiInv
<1>2. Staged'
  BY <1>1 DEF Staged, AiInv
<1>3. ASSUME NEW u \in Tasks PROVE RequestOK(tasks[u], during[u])'
  <2>1. CASE u = t
    BY <1>1, <2>1 DEF RequestOK
  <2>2. CASE u # t
    <3>1. tasks'[u] = tasks[u] /\ during'[u] = during[u] /\ RequestOK(tasks[u], during[u])
      BY <1>1, <2>2 DEF AiInv, RequestsInStep
    <3>2. CASE Reading(tasks[u]) /\ tasks[u].op \in Ai!Preparing
      <4>1. services'[tasks[u].service] = services[tasks[u].service] /\ tasks[u].service \in DOMAIN services'
        BY <3>1, <3>2 DEF RequestOK
      <4> QED BY <3>1, <4>1 DEF RequestOK
    <3>3. CASE ~Reading(tasks[u]) \/ tasks[u].op \notin Ai!Preparing
      BY <3>1, <3>3 DEF RequestOK, Reading
    <3> QED BY <3>2, <3>3
  <2> QED BY <2>1, <2>2
<1> QED BY <1>2, <1>3 DEF RequestsInStep

\* A request takes a step: nothing that get_ai uses moves.
LEMMA RequestStep ==
  ASSUME AiInv, NEW t \in Tasks, tasks[t].op # "get_ai", NEW job \in AiCalls, NEW flags \in SUBSET BOOLEAN,
         job.op # "get_ai", StageOK(job), RequestOK(job, flags),
         tasks' = [tasks EXCEPT ![t] = job], during' = [during EXCEPT ![t] = flags],
         UNCHANGED <<apps, current, registered, attached, providers, services, cache, handed, asked, overlapped>>
  PROVE  AiInv'
<1>1. tasks' \in [Tasks -> AiCalls] /\ tasks'[t] = job /\ \A u \in Tasks : u # t => tasks'[u] = tasks[u]
  BY OneMoves DEF AiInv
<1>2. during' \in [Tasks -> SUBSET BOOLEAN] /\ during'[t] = flags /\ \A u \in Tasks : u # t => during'[u] = during[u]
  BY DEF AiInv, AiTyped
<1>3. AiTyped'
  BY <1>1, <1>2 DEF AiInv, AiTyped
<1>4. Staged'
  BY <1>1 DEF AiInv, Staged
<1>5. /\ \A u \in Tasks : tasks'[u].op = "get_ai" \/ Asks(tasks'[u]) \/ HasService(tasks'[u]) => tasks'[u] = tasks[u]
      /\ \A u \in Tasks : tasks[u].op = "get_ai" \/ Asks(tasks[u]) \/ HasService(tasks[u]) => tasks'[u] = tasks[u]
  BY <1>1 DEF Asks, HasService
<1>6. ServicesFit'
  <2>1. \A s, i : Fits(s, i)' <=> Fits(s, i)
    BY DEF Fits
  <2> QED BY <1>5, <2>1 DEF AiInv, ServicesFit
<1>7. HeldOnce'
  <2>1. \A s, i : Holds(s, i)' => Holds(s, i)
    BY <1>5 DEF Holds
  <2> QED BY <2>1 DEF AiInv, HeldOnce
<1>8. Registered'
  BY <1>5 DEF AiInv, Registered
<1>9. CacheInStep'
  <2>1. FirstApp' <=> FirstApp
    BY DEF FirstApp
  <2>2. \A u \in Tasks : Asks(tasks'[u]) => CallStage(tasks[u])' = CallStage(tasks[u])
    BY <1>5, <2>1 DEF CallStage
  <2>3. \A i \in Ai!Identifiers : CacheStage(i) => CacheStage(i)'
    BY <1>5, <2>1 DEF CacheStage
  <2> QED BY <1>5, <2>2, <2>3 DEF AiInv, CacheInStep
<1>10. RequestsInStep'
  <2>1. \A k, f : RequestOK(k, f)' <=> RequestOK(k, f)
    BY DEF RequestOK
  <2> QED BY <1>1, <1>2, <2>1 DEF AiInv, RequestsInStep
<1> QED BY <1>3, <1>4, <1>6, <1>7, <1>8, <1>9, <1>10 DEF AiInv

LEMMA ServicesTyped ==
  ASSUME AiInv, NEW s \in DOMAIN services
  PROVE  s \in Nat /\ services[s].limited \in BOOLEAN /\ services[s].backend \in MadeBackends
<1>1. services \in Seq(ServiceRecords)
  BY DEF AiInv, AiTyped
<1>2. s \in 1 .. Len(services) /\ Len(services) \in Nat
  BY <1>1, LenProperties
<1>3. services[s] \in ServiceRecords
  BY <1>1, <1>2, ElementOfSeq
<1> QED BY <1>2, <1>3 DEF ServiceRecords

LEMMA HandedAreThere == ASSUME AiInv, NEW s \in handed PROVE s \in DOMAIN services
<1>1. services \in Seq(ServiceRecords) /\ handed \subseteq 1 .. Len(services)
  BY DEF AiInv, AiTyped
<1> QED BY <1>1, LenProperties

LEMMA GenerateKept == ASSUME Ai!ConstantsOK, AiInv, NEW t \in Tasks, Ai!Generate(t) PROVE AiInv'
<1>1. PICK s \in handed, request \in Requests :
        /\ Ai!Begins(t, [Ai!Idle EXCEPT !.op = request.call, !.pc = "settings", !.service = s, !.base = request.base,
                        !.model = Ai!model_of(request, services[s].backend.type)])
        /\ during' = [during EXCEPT ![t] = {services[s].limited}]
        /\ UNCHANGED <<apps, current, registered, attached, providers, services, cache, handed, asked, overlapped>>
  BY DEF Ai!Generate
<1> DEFINE job == [Ai!Idle EXCEPT !.op = request.call, !.pc = "settings", !.service = s, !.base = request.base,
                     !.model = Ai!model_of(request, services[s].backend.type)]
<1>2. /\ s \in DOMAIN services /\ s \in Nat /\ services[s].limited \in BOOLEAN /\ services[s].backend \in MadeBackends
  BY HandedAreThere, ServicesTyped
<1>3. services[s].backend.type \in {"GOOGLE_AI", "VERTEX_AI"}
  BY <1>2, MadeTyped
<1>4. Ai!model_of(request, services[s].backend.type) \in Seq(Ai!Segments)
  BY <1>3, ModelsTyped
<1>5. request.call \in Ai!Preparing /\ request.base \in Base
  BY DEF Ai!ConstantsOK, Base
<1>6. Ai!Idle \in AiCalls /\ Ai!Idle.settings = {} /\ Ai!Idle.url = Ai!None
  BY IdleTyped
<1>7. job \in AiCalls
  BY <1>2, <1>4, <1>5, <1>6 DEF AiCalls, Pcs
<1>8. job.op = request.call /\ job.pc = "settings" /\ job.service = s /\ job.settings = {} /\ job.url = Ai!None
  BY <1>6 DEF AiCalls
<1>9. tasks' = [tasks EXCEPT ![t] = job] /\ tasks[t].op = "idle"
  BY <1>1 DEF Ai!Begins
<1> HIDE DEF job
<1>10. StageOK(job) /\ job.op # "get_ai"
  BY <1>5, <1>8 DEF StageOK, AskingPcs, Asks, Ai!Preparing
<1>11. RequestOK(job, {services[s].limited})
  BY <1>2, <1>5, <1>8 DEF RequestOK, Reading
<1>12. {services[s].limited} \in SUBSET BOOLEAN
  BY <1>2
<1> QED BY <1>1, <1>7, <1>9, <1>10, <1>11, <1>12, RequestStep

\* A request that is over.
LEMMA OverOK ==
  ASSUME Ai!ConstantsOK, NEW op \in Ai!Preparing, NEW result \in AiResults, NEW flags
  PROVE  LET job == [Ai!Idle EXCEPT !.op = op, !.pc = "returned", !.result = result] IN
         job \in AiCalls /\ StageOK(job) /\ job.op # "get_ai" /\ RequestOK(job, flags)
<1> DEFINE job == [Ai!Idle EXCEPT !.op = op, !.pc = "returned", !.result = result]
<1>1. Ai!Idle \in AiCalls /\ Ai!Idle.settings = {} /\ Ai!Idle.url = Ai!None
  BY IdleTyped
<1>2. job \in AiCalls
  BY <1>1 DEF AiCalls, Pcs
<1>3. job.op = op /\ job.pc = "returned" /\ job.settings = {} /\ job.url = Ai!None
  BY <1>1 DEF AiCalls
<1> HIDE DEF job
<1>4. StageOK(job) /\ job.op # "get_ai"
  BY <1>3 DEF StageOK, AskingPcs, Asks, Ai!Preparing
<1>5. RequestOK(job, flags)
  BY <1>3 DEF RequestOK, Reading
<1> QED BY <1>2, <1>4, <1>5 DEF job

LEMMA Untouched == ASSUME AiInv, NEW t \in Tasks, UNCHANGED during
                   PROVE  during' = [during EXCEPT ![t] = during[t]] /\ during[t] \in SUBSET BOOLEAN
<1>1. during \in [Tasks -> SUBSET BOOLEAN]
  BY Zenon DEF AiInv, AiTyped
<1> QED BY <1>1

LEMMA EmptyPromptKept == ASSUME Ai!ConstantsOK, AiInv, NEW t \in Tasks, Ai!EmptyPrompt(t) PROVE AiInv'
<1> DEFINE op == "generate_text"
           result == "invalid-argument"
           job == [Ai!Idle EXCEPT !.op = op, !.pc = "returned", !.result = result]
<1>1. /\ tasks' = [tasks EXCEPT ![t] = job] /\ tasks[t].op # "get_ai"
      /\ UNCHANGED <<apps, current, registered, attached, providers, services, cache, handed, during, asked, overlapped>>
  BY DEF Ai!EmptyPrompt, Ai!Begins
<1>2. op \in Ai!Preparing /\ result \in AiResults
  BY DEF Ai!Preparing, AiResults
<1> HIDE DEF op, result
<1>3. job \in AiCalls /\ StageOK(job) /\ job.op # "get_ai" /\ RequestOK(job, during[t])
  BY <1>2, OverOK
<1> HIDE DEF job
<1> QED BY <1>1, <1>3, Untouched, RequestStep

LEMMA EndsKept ==
  ASSUME Ai!ConstantsOK, AiInv, NEW t \in Tasks, tasks[t].op \in Ai!Preparing, NEW result \in AiResults, Ai!Ends(t, result),
         UNCHANGED <<apps, current, registered, attached, providers, services, cache, handed, during, asked, overlapped>>
  PROVE  AiInv'
<1> DEFINE job == [Ai!Idle EXCEPT !.op = tasks[t].op, !.pc = "returned", !.result = result]
<1>1. tasks' = [tasks EXCEPT ![t] = job] /\ tasks[t].op # "get_ai"
  BY DEF Ai!Ends, Ai!Preparing
<1>2. job \in AiCalls /\ StageOK(job) /\ job.op # "get_ai" /\ RequestOK(job, during[t])
  BY OverOK
<1> HIDE DEF job
<1> QED BY <1>1, <1>2, Untouched, RequestStep

LEMMA ReadsSettingsKept == ASSUME Ai!ConstantsOK, AiInv, NEW t \in Tasks, Ai!ReadsSettings(t) PROVE AiInv'
<1> DEFINE options == apps[services[tasks[t].service].app]
           of == services[tasks[t].service].limited
           settings == IF options.automatic /\ options.app_id = "some" THEN {"app_id"} ELSE {}
           job == [tasks[t] EXCEPT !.pc = "check", !.limited = of, !.settings = settings]
<1>1. /\ tasks[t].pc = "settings"
      /\ \/ Ai!missing(options) # "none" /\ Ai!Ends(t, Ai!missing(options))
         \/ tasks' = [tasks EXCEPT ![t].pc = "check", ![t].limited = of, ![t].settings = settings]
      /\ UNCHANGED <<apps, current, registered, attached, providers, services, cache, handed, during, asked, overlapped>>
  BY DEF Ai!ReadsSettings, Ai!At
<1>2. tasks[t] \in AiCalls /\ tasks \in [Tasks -> AiCalls] /\ StageOK(tasks[t]) /\ RequestOK(tasks[t], during[t])
  BY DEF AiInv, AiTyped, Staged, RequestsInStep
<1>3. tasks[t].op \in Ai!Preparing
  BY <1>1, <1>2 DEF StageOK
<1>4. tasks[t].service \in DOMAIN services /\ of \in during[t] /\ tasks[t].url = Ai!None /\ of \in BOOLEAN
  <2>1. tasks[t].service \in DOMAIN services /\ of \in during[t] /\ tasks[t].url = Ai!None
    BY <1>1, <1>2, <1>3 DEF RequestOK, Reading
  <2> QED BY <2>1 DEF AiInv, AiTyped
<1>5. CASE Ai!Ends(t, Ai!missing(options)) /\ Ai!missing(options) # "none"
  <2>1. Ai!missing(options) \in AiResults
    BY DEF Ai!missing, AiResults
  <2> QED BY <1>1, <1>3, <1>5, <2>1, EndsKept
<1>6. CASE tasks' = [tasks EXCEPT ![t].pc = "check", ![t].limited = of, ![t].settings = settings]
  <2>1. tasks' = [tasks EXCEPT ![t] = job]
    BY <1>2, <1>6
  <2>2. settings \in SUBSET Settings /\ settings \cap {"limited", "shared", "heartbeat"} = {}
    BY DEF Settings
  <2> HIDE DEF options, of, settings
  <2>3. job \in AiCalls
    BY <1>2, <1>4, <2>2 DEF AiCalls, Pcs
  <2>4. /\ job.op = tasks[t].op /\ job.pc = "check" /\ job.limited = of /\ job.settings = settings /\ job.url = Ai!None
        /\ job.service = tasks[t].service
    BY <1>2, <1>4 DEF AiCalls
  <2> HIDE DEF job
  <2>5. StageOK(job) /\ job.op # "get_ai"
    BY <1>3, <2>4 DEF StageOK, AskingPcs, Asks, Ai!Preparing
  <2>6. RequestOK(job, during[t])
    <3>1. "limited" \notin job.settings /\ "shared" \notin job.settings /\ "heartbeat" \notin job.settings
      BY <2>2, <2>4
    <3>2. job.service \in DOMAIN services /\ services[job.service].limited \in during[t] /\ job.limited \in during[t]
      BY <1>4, <2>4 DEF of
    <3> QED BY <1>3, <2>2, <2>4, <3>1, <3>2 DEF RequestOK
  <2> QED BY <1>1, <1>3, <2>1, <2>3, <2>5, <2>6, Untouched, RequestStep DEF Ai!Preparing
<1> QED BY <1>1, <1>5, <1>6

LEMMA FetchesAppCheckKept == ASSUME Ai!ConstantsOK, AiInv, NEW t \in Tasks, Ai!FetchesAppCheck(t) PROVE AiInv'
<1>1. tasks[t].pc = "check" /\ UNCHANGED <<apps, current, registered, attached, providers, services, cache, handed, during, asked, overlapped>>
  BY DEF Ai!FetchesAppCheck, Ai!At
<1>2. tasks[t] \in AiCalls /\ tasks \in [Tasks -> AiCalls] /\ StageOK(tasks[t]) /\ RequestOK(tasks[t], during[t])
  BY DEF AiInv, AiTyped, Staged, RequestsInStep
<1>3. tasks[t].op \in Ai!Preparing
  BY <1>1, <1>2 DEF StageOK
<1>4. /\ tasks[t].service \in DOMAIN services /\ services[tasks[t].service].limited \in during[t] /\ tasks[t].limited \in during[t]
      /\ tasks[t].url = Ai!None
      /\ "limited" \notin tasks[t].settings /\ "shared" \notin tasks[t].settings /\ "heartbeat" \notin tasks[t].settings
  BY <1>1, <1>2, <1>3 DEF RequestOK, Reading
<1>5. CASE Ai!Ends(t, "internal")
  <2>1. "internal" \in AiResults
    BY DEF AiResults
  <2> QED BY <1>1, <1>3, <1>5, <2>1, EndsKept
<1>6. CASE ~Ai!Ends(t, "internal")
  <2> DEFINE kind == IF tasks[t].limited THEN {"limited"} ELSE {"shared"}
  <2>1. PICK found \in {{}, {"token"}, {"token", "heartbeat"}} :
          tasks' = [tasks EXCEPT ![t].pc = "auth",
                                 ![t].settings = @ \cup (found \ {"token"}) \cup (IF "token" \notin found THEN {} ELSE kind)]
    BY <1>6 DEF Ai!FetchesAppCheck
  <2> DEFINE settings == tasks[t].settings \cup (found \ {"token"}) \cup (IF "token" \notin found THEN {} ELSE kind)
             job == [tasks[t] EXCEPT !.pc = "auth", !.settings = settings]
  <2>2. tasks' = [tasks EXCEPT ![t] = job]
    BY <1>2, <2>1
  <2>3. tasks[t].settings \in SUBSET Settings /\ tasks[t].limited \in BOOLEAN
    BY <1>2 DEF AiCalls
  <2>4. settings \in SUBSET Settings
    BY <2>3 DEF Settings
  <2>5. /\ "limited" \in settings => tasks[t].limited
        /\ "shared" \in settings => ~tasks[t].limited
        /\ "heartbeat" \in settings => "shared" \in settings \/ "limited" \in settings
    BY <1>4
  <2> HIDE DEF settings
  <2>6. job \in AiCalls
    BY <1>2, <2>4 DEF AiCalls, Pcs
  <2>7. /\ job.op = tasks[t].op /\ job.pc = "auth" /\ job.limited = tasks[t].limited /\ job.settings = settings /\ job.url = Ai!None
        /\ job.service = tasks[t].service
    BY <1>2, <1>4 DEF AiCalls
  <2> HIDE DEF job
  <2>8. StageOK(job) /\ job.op # "get_ai"
    BY <1>3, <2>7 DEF StageOK, AskingPcs, Asks, Ai!Preparing
  <2>9. RequestOK(job, during[t])
    BY <1>3, <1>4, <2>5, <2>7 DEF RequestOK
  <2> QED BY <1>1, <1>3, <2>2, <2>6, <2>8, <2>9, Untouched, RequestStep DEF Ai!Preparing
<1> QED BY <1>5, <1>6

LEMMA FetchesAuthKept == ASSUME Ai!ConstantsOK, AiInv, NEW t \in Tasks, Ai!FetchesAuth(t) PROVE AiInv'
<1>1. tasks[t].pc = "auth" /\ UNCHANGED <<apps, current, registered, attached, providers, services, cache, handed, during, asked, overlapped>>
  BY DEF Ai!FetchesAuth, Ai!At
<1>2. tasks[t] \in AiCalls /\ tasks \in [Tasks -> AiCalls] /\ StageOK(tasks[t]) /\ RequestOK(tasks[t], during[t])
  BY DEF AiInv, AiTyped, Staged, RequestsInStep
<1>3. tasks[t].op \in Ai!Preparing
  BY <1>1, <1>2 DEF StageOK
<1>4. /\ tasks[t].service \in DOMAIN services /\ services[tasks[t].service].limited \in during[t] /\ tasks[t].limited \in during[t]
      /\ "limited" \in tasks[t].settings => tasks[t].limited
      /\ "shared" \in tasks[t].settings => ~tasks[t].limited
      /\ "heartbeat" \in tasks[t].settings => "shared" \in tasks[t].settings \/ "limited" \in tasks[t].settings
  BY <1>1, <1>2, <1>3 DEF RequestOK, Reading
<1>5. CASE Ai!Ends(t, "internal") \/ Ai!Ends(t, "invalid-argument")
  <2>1. "internal" \in AiResults /\ "invalid-argument" \in AiResults
    BY DEF AiResults
  <2> QED BY <1>1, <1>3, <1>5, <2>1, EndsKept
<1>6. CASE ~(Ai!Ends(t, "internal") \/ Ai!Ends(t, "invalid-argument"))
  <2> DEFINE url == Ai!construct_request(services[tasks[t].service].backend, tasks[t].model)
             pc == IF tasks[t].op = "generate_text" THEN "send" ELSE "returned"
  <2>1. PICK found \in {{}, {"auth"}} : tasks' = [tasks EXCEPT ![t].pc = pc, ![t].settings = @ \cup found, ![t].url = url]
    BY <1>6 DEF Ai!FetchesAuth
  <2> DEFINE settings == tasks[t].settings \cup found
             job == [tasks[t] EXCEPT !.pc = pc, !.settings = settings, !.url = url]
  <2>2. tasks' = [tasks EXCEPT ![t] = job]
    BY <1>2, <2>1
  <2>3. tasks[t].settings \in SUBSET Settings /\ tasks[t].model \in Seq(Ai!Segments)
    BY <1>2 DEF AiCalls
  <2>4. settings \in SUBSET Settings
    BY <2>3 DEF Settings
  <2>5. /\ "limited" \in settings => tasks[t].limited
        /\ "shared" \in settings => ~tasks[t].limited
        /\ "heartbeat" \in settings => "shared" \in settings \/ "limited" \in settings
    BY <1>4
  <2>6. services[tasks[t].service].backend \in MadeBackends
    BY <1>4, ServicesTyped
  <2>7. url \in Seq(Ai!Segments)
    BY <2>3, <2>6, Constructed
  <2>8. pc \in {"send", "returned"}
    OBVIOUS
  <2> HIDE DEF settings, url, pc
  <2>9. job \in AiCalls
    BY <1>2, <2>4, <2>7, <2>8 DEF AiCalls, Pcs
  <2>10. /\ job.op = tasks[t].op /\ job.pc = pc /\ job.limited = tasks[t].limited /\ job.settings = settings /\ job.url = url
         /\ job.service = tasks[t].service /\ job.model = tasks[t].model
    BY <1>2 DEF AiCalls
  <2> HIDE DEF job
  <2>11. StageOK(job) /\ job.op # "get_ai"
    BY <1>3, <2>8, <2>10 DEF StageOK, AskingPcs, Asks, Ai!Preparing
  <2>12. RequestOK(job, during[t])
    <3>1. job.url = Ai!construct_request(services[job.service].backend, job.model)
      BY <2>10 DEF url
    <3> QED BY <1>3, <1>4, <2>5, <2>8, <2>10, <3>1 DEF RequestOK
  <2> QED BY <1>1, <1>3, <2>2, <2>9, <2>11, <2>12, Untouched, RequestStep DEF Ai!Preparing
<1> QED BY <1>5, <1>6

LEMMA SendsKept == ASSUME Ai!ConstantsOK, AiInv, NEW t \in Tasks, Ai!Sends(t) PROVE AiInv'
<1>1. /\ tasks[t].pc = "send" /\ UNCHANGED <<apps, current, registered, attached, providers, services, cache, handed, during, asked, overlapped>>
      /\ \E result \in {"internal", "fetch-error", "parse-failed", "response-error", "ok"} : Ai!Ends(t, result)
  BY DEF Ai!Sends, Ai!At
<1>2. tasks[t].op \in Ai!Preparing
  BY <1>1 DEF AiInv, Staged, StageOK
<1>3. {"internal", "fetch-error", "parse-failed", "response-error", "ok"} \subseteq AiResults
  BY DEF AiResults
<1> QED BY <1>1, <1>2, <1>3, EndsKept

-----------------------------------------------------------------------------
\* What the invariant says of a call of get_ai on its way.
LEMMA Asking ==
  ASSUME Ai!ConstantsOK, AiInv, NEW t \in Tasks, tasks[t].pc \in AskingPcs
  PROVE  /\ tasks[t] \in AiCalls /\ tasks \in [Tasks -> AiCalls] /\ Asks(tasks[t]) /\ StageOK(tasks[t])
         /\ tasks[t].op = "get_ai" /\ tasks[t].op \notin Ai!Preparing /\ tasks[t].url = Ai!None /\ IdOf(tasks[t]) \in Ai!Identifiers
         /\ tasks[t].app \in 1 .. Len(apps) /\ tasks[t].app \in 1 .. MaxApps
         /\ HasService(tasks[t]) => Fits(tasks[t].service, IdOf(tasks[t]))
<1>1. tasks[t] \in AiCalls /\ tasks \in [Tasks -> AiCalls] /\ StageOK(tasks[t]) /\ RequestOK(tasks[t], during[t])
  BY DEF AiInv, AiTyped, Staged, RequestsInStep
<1>2. Asks(tasks[t]) /\ tasks[t].op = "get_ai" /\ tasks[t].op \notin Ai!Preparing
  BY <1>1 DEF StageOK, Asks, Ai!Preparing
<1>3. tasks[t].url = Ai!None
  BY <1>1, <1>2 DEF RequestOK
<1>4. tasks[t].app \in 1 .. Len(apps) /\ (HasService(tasks[t]) => Fits(tasks[t].service, IdOf(tasks[t])))
  BY <1>2 DEF AiInv, ServicesFit
<1>5. Len(apps) \in 0 .. MaxApps /\ MaxApps \in Nat
  BY DEF AiInv, AiTyped, Ai!ConstantsOK
<1>6. tasks[t].app \in 1 .. MaxApps
  BY <1>4, <1>5
<1> QED BY <1>1, <1>2, <1>3, <1>4, <1>6, IdsTyped

LEMMA AskingAlone ==
  ASSUME AiInv, NEW t \in Tasks, tasks[t].op = "get_ai", Asks(tasks[t]), ~overlapped
  PROVE  /\ CallStage(tasks[t])
         /\ \A u \in Tasks : u # t => tasks[u].op # "get_ai"
         /\ \A i \in Ai!Identifiers : cache[i] # 0 =>
              /\ i # IdOf(tasks[t]) => services[cache[i]].limited = asked[i]
              /\ FirstApp => providers[1][i] = cache[i]
<1>1. /\ CallStage(tasks[t])
      /\ \A u \in Tasks : u # t => tasks[u].op # "get_ai"
      /\ \A i \in Ai!Identifiers : CacheStage(i)
  BY DEF AiInv, CacheInStep
<1> QED BY <1>1 DEF CacheStage, Asks

\* The cache keeps up with a step of the only call.
LEMMA CacheKept ==
  ASSUME AiInv, NEW t \in Tasks, Asks(tasks[t]), NEW job \in AiCalls, Asks(job), tasks' = [tasks EXCEPT ![t] = job],
         overlapped' = overlapped,
         ~overlapped =>
           /\ CallStage(job)'
           /\ \A i \in Ai!Identifiers : cache'[i] # 0 =>
                /\ i # IdOf(job) => services'[cache'[i]].limited = asked'[i]
                /\ FirstApp' => providers'[1][i] = cache'[i]
  PROVE  CacheInStep'
<1> SUFFICES ASSUME ~overlapped
             PROVE  /\ \A u, v \in Tasks : tasks'[u].op = "get_ai" /\ tasks'[v].op = "get_ai" => u = v
                    /\ \A u \in Tasks : Asks(tasks'[u]) => CallStage(tasks[u])'
                    /\ \A i \in Ai!Identifiers : CacheStage(i)'
  BY DEF CacheInStep
<1>1. tasks'[t] = job /\ \A u \in Tasks : u # t => tasks'[u] = tasks[u]
  BY OneMoves DEF AiInv
<1>2. \A u \in Tasks : u # t => tasks[u].op # "get_ai"
  BY AskingAlone DEF Asks
<1>3. \A u \in Tasks : tasks'[u].op = "get_ai" => u = t
  BY <1>1, <1>2
<1>4. \A u \in Tasks : Asks(tasks'[u]) => u = t
  BY <1>3 DEF Asks
<1>5. CallStage(tasks[t])'
  BY <1>1 DEF CallStage
<1>6. ASSUME NEW i \in Ai!Identifiers PROVE CacheStage(i)'
  BY <1>1 DEF CacheStage
<1> QED BY <1>3, <1>4, <1>5, <1>6

LEMMA CacheGetKept == ASSUME Ai!ConstantsOK, AiInv, NEW t \in Tasks, Ai!CacheGet(t) PROVE AiInv'
<1> DEFINE found == cache[IdOf(tasks[t])]
           pc == IF found # 0 THEN "options" ELSE "try_get"
           hit == found # 0
           moved == [tasks[t] EXCEPT !.service = found, !.hit = hit, !.pc = pc]
<1>1. /\ tasks[t].pc = "cache" /\ tasks[t].pc \in AskingPcs
      /\ tasks' = [tasks EXCEPT ![t].service = found, ![t].hit = hit, ![t].pc = pc]
      /\ UNCHANGED <<apps, current, registered, attached, providers, services, cache, handed, during, asked, overlapped>>
  BY DEF Ai!CacheGet, Ai!At, Ai!Id, IdOf, AskingPcs
<1>2. /\ tasks[t] \in AiCalls /\ tasks \in [Tasks -> AiCalls] /\ Asks(tasks[t]) /\ StageOK(tasks[t])
      /\ tasks[t].op = "get_ai" /\ tasks[t].op \notin Ai!Preparing /\ tasks[t].url = Ai!None /\ IdOf(tasks[t]) \in Ai!Identifiers
      /\ tasks[t].app \in 1 .. Len(apps)
  BY <1>1, Asking
<1>3. tasks' = [tasks EXCEPT ![t] = moved]
  BY <1>1, <1>2
<1>4. found \in Nat /\ hit \in BOOLEAN /\ pc \in Pcs /\ (found # 0 => Fits(found, IdOf(tasks[t])))
  BY <1>2 DEF AiInv, AiTyped, ServicesFit, Pcs
<1>5. (found # 0 <=> hit) /\ pc \in {"options", "try_get"} /\ (hit <=> pc = "options")
  OBVIOUS
<1> HIDE DEF found, pc, hit
<1>5a. moved \in AiCalls
  BY <1>2, <1>4 DEF AiCalls
<1>6. PICK job \in AiCalls : job = moved
  BY <1>5a
<1>6a. tasks' = [tasks EXCEPT ![t] = job]
  BY <1>3, <1>6
<1>7. /\ job.op = "get_ai" /\ job.result = "none" /\ job.pc = pc /\ job.service = found /\ job.hit = hit /\ job.url = Ai!None
      /\ job.limited = tasks[t].limited /\ job.backend = tasks[t].backend /\ job.app = tasks[t].app
  BY <1>2, <1>6 DEF AiCalls, Asks
<1> HIDE DEF moved
<1>8. Asks(job) /\ IdOf(job) = IdOf(tasks[t]) /\ StageOK(job) /\ (HasService(job) <=> hit)
  BY <1>5, <1>7 DEF Asks, IdOf, StageOK, AskingPcs, HasService
<1>9. tasks' \in [Tasks -> AiCalls] /\ tasks'[t] = job /\ \A u \in Tasks : u # t => tasks'[u] = tasks[u]
  BY <1>6a, OneMoves DEF AiInv
<1>10. AiTyped'
  BY <1>1, <1>9 DEF AiInv, AiTyped
<1>11. Staged' /\ RequestsInStep'
  <2>1. job.op \notin Ai!Preparing
    BY <1>2, <1>7
  <2> QED BY <1>1, <1>6a, <1>7, <1>8, <2>1, AskStep
<1>12. ServicesFit'
  <2>1. \A s, i : Fits(s, i)' <=> Fits(s, i)
    BY <1>1 DEF Fits
  <2>2. /\ \A u \in Tasks : Asks(tasks'[u]) => tasks'[u].app \in 1 .. Len(apps)
        /\ \A u \in Tasks : HasService(tasks'[u]) => Fits(tasks'[u].service, IdOf(tasks'[u]))
    BY <1>2, <1>4, <1>5, <1>7, <1>8, <1>9 DEF AiInv, ServicesFit
  <2> QED BY <1>1, <2>1, <2>2 DEF AiInv, ServicesFit
<1>13. HeldOnce'
  <2>1. ASSUME NEW s \in DOMAIN services, NEW i, Holds(s, i)' PROVE Holds(s, i)
    <3>1. CASE cache[i] = s \/ \E a \in 1 .. MaxApps : providers[a][i] = s
      BY <3>1 DEF Holds
    <3>2. ASSUME NEW u \in Tasks, HasService(tasks'[u]), tasks'[u].service = s, IdOf(tasks'[u]) = i PROVE Holds(s, i)
      BY <1>7, <1>8, <1>9, <3>2 DEF Holds, found
    <3> QED BY <1>1, <2>1, <3>1, <3>2 DEF Holds
  <2> QED BY <1>1, <2>1 DEF AiInv, HeldOnce
<1>14. Registered'
  BY <1>1, <1>2, <1>9 DEF AiInv, Registered
<1>15. CacheInStep'
  <2>1. ASSUME ~overlapped
        PROVE  /\ CallStage(job)'
               /\ \A i \in Ai!Identifiers : cache'[i] # 0 =>
                    /\ i # IdOf(job) => services'[cache'[i]].limited = asked'[i]
                    /\ FirstApp' => providers'[1][i] = cache'[i]
    <3>1. /\ CallStage(tasks[t])
          /\ \A i \in Ai!Identifiers : cache[i] # 0 =>
               /\ i # IdOf(tasks[t]) => services[cache[i]].limited = asked[i]
               /\ FirstApp => providers[1][i] = cache[i]
      BY <1>2, <2>1, AskingAlone
    <3>2. FirstApp' <=> FirstApp
      BY <1>1 DEF FirstApp
    <3>3. found # 0 => (FirstApp => providers[1][IdOf(job)] = found)
      BY <1>2, <1>8, <3>1 DEF found
    <3>4. CallStage(job)'
      <4>1. asked[IdOf(job)] = job.limited
        BY <1>7, <1>8, <3>1 DEF CallStage
      <4>2. (job.pc = "options" /\ job.hit) \/ cache[IdOf(job)] = 0
        BY <1>5, <1>7, <1>8 DEF found
      <4>3. cache[IdOf(job)] = job.service
        BY <1>7, <1>8 DEF found
      <4>4. job.pc \in {"options", "try_get"} /\ (HasService(job) => job.service # 0)
        BY <1>5, <1>7, <1>8
      <4>5. FirstApp => (HasService(job) => providers[1][IdOf(job)] = job.service)
        BY <1>7, <3>3, <4>4
      <4> QED BY <1>1, <3>2, <4>1, <4>2, <4>3, <4>4, <4>5 DEF CallStage
    <3> QED BY <1>1, <1>8, <3>1, <3>2, <3>4
  <2> QED BY <1>1, <1>2, <1>6a, <1>8, <2>1, CacheKept
<1> QED BY <1>10, <1>11, <1>12, <1>13, <1>14, <1>15 DEF AiInv

LEMMA TryGetKept == ASSUME Ai!ConstantsOK, AiInv, NEW t \in Tasks, Ai!TryGet(t) PROVE AiInv'
<1> DEFINE found == providers[tasks[t].app][IdOf(tasks[t])]
           pc == IF found # 0 THEN "options" ELSE IF tasks[t].app \in attached THEN "create" ELSE "fallback"
           moved == [tasks[t] EXCEPT !.service = found, !.pc = pc]
<1>1. /\ tasks[t].pc = "try_get" /\ tasks[t].pc \in AskingPcs
      /\ tasks' = [tasks EXCEPT ![t].service = found, ![t].pc = pc]
      /\ UNCHANGED <<apps, current, registered, attached, providers, services, cache, handed, during, asked, overlapped>>
  BY DEF Ai!TryGet, Ai!At, Ai!Id, IdOf, AskingPcs
<1>2. /\ tasks[t] \in AiCalls /\ tasks \in [Tasks -> AiCalls] /\ Asks(tasks[t]) /\ StageOK(tasks[t])
      /\ tasks[t].op = "get_ai" /\ tasks[t].op \notin Ai!Preparing /\ tasks[t].url = Ai!None /\ IdOf(tasks[t]) \in Ai!Identifiers
      /\ tasks[t].app \in 1 .. Len(apps) /\ tasks[t].app \in 1 .. MaxApps
  BY <1>1, Asking
<1>3. tasks' = [tasks EXCEPT ![t] = moved]
  BY <1>1, <1>2
<1>4. found \in Nat /\ pc \in Pcs /\ (found # 0 => Fits(found, IdOf(tasks[t])))
  BY <1>2 DEF AiInv, AiTyped, ServicesFit, Pcs
<1>5. pc \in {"options", "create", "fallback"} /\ (found # 0 <=> pc = "options") /\ (pc = "fallback" => tasks[t].app \notin attached)
  OBVIOUS
<1> HIDE DEF found, pc
<1>6. moved \in AiCalls
  BY <1>2, <1>4 DEF AiCalls
<1>7. PICK job \in AiCalls : job = moved
  BY <1>6
<1>8. /\ tasks' = [tasks EXCEPT ![t] = job]
      /\ job.op = "get_ai" /\ job.result = "none" /\ job.pc = pc /\ job.service = found /\ job.hit = tasks[t].hit
      /\ job.url = Ai!None /\ job.limited = tasks[t].limited /\ job.backend = tasks[t].backend /\ job.app = tasks[t].app
  BY <1>2, <1>3, <1>7 DEF AiCalls, Asks
<1> HIDE DEF moved
<1>9. ~tasks[t].hit
  BY <1>1, <1>2 DEF StageOK
<1>10. Asks(job) /\ IdOf(job) = IdOf(tasks[t]) /\ StageOK(job) /\ (HasService(job) <=> found # 0)
  BY <1>5, <1>8, <1>9 DEF Asks, IdOf, StageOK, AskingPcs, HasService
<1>11. tasks' \in [Tasks -> AiCalls] /\ tasks'[t] = job /\ \A u \in Tasks : u # t => tasks'[u] = tasks[u]
  BY <1>8, OneMoves DEF AiInv
<1>12. AiTyped'
  BY <1>1, <1>11 DEF AiInv, AiTyped
<1>13. Staged' /\ RequestsInStep'
  <2>1. job.op \notin Ai!Preparing
    BY <1>2, <1>8
  <2> QED BY <1>1, <1>8, <1>10, <2>1, AskStep
<1>14. ServicesFit'
  <2>1. \A s, i : Fits(s, i)' <=> Fits(s, i)
    BY <1>1 DEF Fits
  <2>2. /\ \A u \in Tasks : Asks(tasks'[u]) => tasks'[u].app \in 1 .. Len(apps)
        /\ \A u \in Tasks : HasService(tasks'[u]) => Fits(tasks'[u].service, IdOf(tasks'[u]))
    BY <1>2, <1>4, <1>8, <1>10, <1>11 DEF AiInv, ServicesFit
  <2> QED BY <1>1, <2>1, <2>2 DEF AiInv, ServicesFit
<1>15. HeldOnce'
  <2>1. ASSUME NEW s \in DOMAIN services, NEW i, Holds(s, i)' PROVE Holds(s, i)
    <3>1. CASE cache[i] = s \/ \E a \in 1 .. MaxApps : providers[a][i] = s
      BY <3>1 DEF Holds
    <3>2. ASSUME NEW u \in Tasks, HasService(tasks'[u]), tasks'[u].service = s, IdOf(tasks'[u]) = i PROVE Holds(s, i)
      BY <1>2, <1>8, <1>10, <1>11, <3>2 DEF Holds, found
    <3> QED BY <1>1, <2>1, <3>1, <3>2 DEF Holds
  <2> QED BY <1>1, <2>1 DEF AiInv, HeldOnce
<1>16. Registered'
  BY <1>1, <1>2, <1>11 DEF AiInv, Registered
<1>17. CacheInStep'
  <2>1. ASSUME ~overlapped
        PROVE  /\ CallStage(job)'
               /\ \A i \in Ai!Identifiers : cache'[i] # 0 =>
                    /\ i # IdOf(job) => services'[cache'[i]].limited = asked'[i]
                    /\ FirstApp' => providers'[1][i] = cache'[i]
    <3>1. /\ CallStage(tasks[t])
          /\ \A i \in Ai!Identifiers : cache[i] # 0 =>
               /\ i # IdOf(tasks[t]) => services[cache[i]].limited = asked[i]
               /\ FirstApp => providers[1][i] = cache[i]
      BY <1>2, <2>1, AskingAlone
    <3>2. FirstApp' <=> FirstApp
      BY <1>1 DEF FirstApp
    <3>3. FirstApp => tasks[t].app = 1 /\ 1 \in attached
      <4>1. FirstApp => tasks[t].app = 1
        BY <1>2 DEF FirstApp
      <4>2. FirstApp => 1 \in attached
        BY <1>2 DEF FirstApp, AiInv, Registered
      <4> QED BY <4>1, <4>2
    <3>4. CallStage(job)'
      <4>1. asked[IdOf(job)] = job.limited /\ cache[IdOf(job)] = 0
        BY <1>1, <1>8, <1>10, <3>1 DEF CallStage
      <4>2. job.pc \in {"options", "create", "fallback"} /\ ~job.hit
        BY <1>5, <1>8, <1>9
      <4>3. FirstApp => job.pc # "fallback" /\ providers[1][IdOf(job)] = job.service
        BY <1>5, <1>8, <1>10, <3>3 DEF found
      <4> QED BY <1>1, <3>2, <4>1, <4>2, <4>3 DEF CallStage
    <3> QED BY <1>1, <1>10, <3>1, <3>2, <3>4
  <2> QED BY <1>1, <1>2, <1>8, <1>10, <2>1, CacheKept
<1> QED BY <1>12, <1>13, <1>14, <1>15, <1>16, <1>17 DEF AiInv

\* get_ai makes a service, here or in a provider.
LEMMA Made ==
  ASSUME AiInv, NEW made \in ServiceRecords, made.app \in 1 .. Len(apps), services' = Append(services, made), apps' = apps
  PROVE  /\ services' \in Seq(ServiceRecords) /\ Len(services') = Len(services) + 1 /\ Len(services) \in Nat
         /\ services'[Len(services) + 1] = made /\ Len(services) + 1 \in DOMAIN services' /\ Len(services) + 1 \notin DOMAIN services
         /\ DOMAIN services = 1 .. Len(services) /\ DOMAIN services' = DOMAIN services \cup {Len(services) + 1}
         /\ \A s \in DOMAIN services : s \in DOMAIN services' /\ services'[s] = services[s]
         /\ \A s \in DOMAIN services' : services'[s].app \in 1 .. Len(apps')
         /\ \A s, i : Fits(s, i) => Fits(s, i)'
<1>1. services \in Seq(ServiceRecords)
  BY DEF AiInv, AiTyped
<1>2. /\ services' \in Seq(ServiceRecords) /\ Len(services') = Len(services) + 1 /\ services'[Len(services) + 1] = made
      /\ \A s \in 1 .. Len(services) : services'[s] = services[s]
  BY <1>1, AppendProperties
<1>3. Len(services) \in Nat /\ DOMAIN services = 1 .. Len(services) /\ DOMAIN services' = 1 .. Len(services')
  BY <1>1, <1>2, LenProperties
<1>4. /\ DOMAIN services' = DOMAIN services \cup {Len(services) + 1} /\ Len(services) + 1 \notin DOMAIN services
      /\ \A s \in DOMAIN services : s \in DOMAIN services' /\ services'[s] = services[s]
  BY <1>2, <1>3
<1>5. \A s \in DOMAIN services' : services'[s].app \in 1 .. Len(apps')
  BY <1>2, <1>4 DEF AiInv, ServicesFit
<1>6. \A s, i : Fits(s, i) => Fits(s, i)'
  BY <1>4 DEF Fits
<1> QED BY <1>2, <1>3, <1>4, <1>5, <1>6

\* Nothing knows a service that is not made yet.
LEMMA NewIsUnknown ==
  ASSUME AiInv, NEW n \in Nat, n # 0, n \notin DOMAIN services, NEW i \in Ai!Identifiers
  PROVE  /\ cache[i] # n
         /\ \A a \in 1 .. MaxApps : providers[a][i] # n
         /\ \A u \in Tasks : HasService(tasks[u]) => tasks[u].service # n
<1>1. \A s, j : Fits(s, j) => s # n
  BY DEF Fits
<1> QED BY <1>1 DEF AiInv, ServicesFit

LEMMA CreateKept == ASSUME Ai!ConstantsOK, AiInv, NEW t \in Tasks, Ai!Create(t) PROVE AiInv'
<1>1. tasks[t].pc = "create" /\ tasks[t].pc \in AskingPcs
  BY DEF Ai!Create, Ai!At, AskingPcs
<1>2. /\ tasks[t] \in AiCalls /\ tasks \in [Tasks -> AiCalls] /\ Asks(tasks[t]) /\ StageOK(tasks[t])
      /\ tasks[t].op = "get_ai" /\ tasks[t].op \notin Ai!Preparing /\ tasks[t].url = Ai!None /\ IdOf(tasks[t]) \in Ai!Identifiers
      /\ tasks[t].app \in 1 .. Len(apps) /\ tasks[t].app \in 1 .. MaxApps
  BY <1>1, Asking
<1>3. PICK id \in Ai!Identifiers : id = IdOf(tasks[t])
  BY <1>2
<1>4. PICK app \in 1 .. MaxApps : app = tasks[t].app
  BY <1>2
<1>5. Len(services) \in Nat
  BY LenProperties DEF AiInv, AiTyped
<1>6. PICK n \in Nat : n = Len(services) + 1 /\ n # 0
  BY <1>5
<1> DEFINE made == [app |-> app, backend |-> Ai!decode_instance_identifier(id), limited |-> FALSE]
           moved == [tasks[t] EXCEPT !.service = n, !.pc = "options"]
<1>7. /\ services' = Append(services, made) /\ providers' = [providers EXCEPT ![app][id] = n]
      /\ tasks' = [tasks EXCEPT ![t].service = n, ![t].pc = "options"]
      /\ UNCHANGED <<apps, current, registered, attached, cache, handed, during, asked, overlapped>>
  BY <1>3, <1>4, <1>6 DEF Ai!Create, Ai!Id, IdOf
<1>8. made \in ServiceRecords /\ made.backend = Ai!decode_instance_identifier(id) /\ made.app \in 1 .. Len(apps)
  <2>1. tasks[t].backend \in Ai!Backends /\ app \in Nat
    BY <1>2 DEF AiCalls
  <2>2. Ai!decode_instance_identifier(id) \in MadeBackends
    BY <1>3, <2>1, IdentifiersDecode DEF IdOf
  <2> QED BY <1>2, <1>4, <2>1, <2>2 DEF ServiceRecords
<1> HIDE DEF made
<1>9. /\ services' \in Seq(ServiceRecords) /\ Len(services') = n
      /\ services'[n] = made /\ n \in DOMAIN services' /\ n \notin DOMAIN services
      /\ DOMAIN services = 1 .. Len(services) /\ DOMAIN services' = DOMAIN services \cup {n}
      /\ \A s \in DOMAIN services : s \in DOMAIN services' /\ services'[s] = services[s]
      /\ \A s \in DOMAIN services' : services'[s].app \in 1 .. Len(apps')
      /\ \A s, i : Fits(s, i) => Fits(s, i)'
  BY <1>6, <1>7, <1>8, Made
<1>10. moved \in AiCalls /\ tasks' = [tasks EXCEPT ![t] = moved]
  BY <1>2, <1>7 DEF AiCalls, Pcs
<1>11. PICK job \in AiCalls : job = moved
  BY <1>10
<1>12. /\ tasks' = [tasks EXCEPT ![t] = job]
       /\ job.op = "get_ai" /\ job.result = "none" /\ job.pc = "options" /\ job.service = n /\ job.hit = tasks[t].hit
       /\ job.url = Ai!None /\ job.limited = tasks[t].limited /\ job.backend = tasks[t].backend /\ job.app = tasks[t].app
  BY <1>2, <1>10, <1>11 DEF AiCalls, Asks
<1> HIDE DEF moved
<1>13. ~tasks[t].hit
  BY <1>1, <1>2 DEF StageOK
<1>14. Asks(job) /\ IdOf(job) = id /\ StageOK(job) /\ HasService(job)
  BY <1>3, <1>12 DEF Asks, IdOf, StageOK, AskingPcs, HasService
<1>15. tasks' \in [Tasks -> AiCalls] /\ tasks'[t] = job /\ \A u \in Tasks : u # t => tasks'[u] = tasks[u]
  BY <1>12, OneMoves DEF AiInv
<1>16. /\ providers' \in [1 .. MaxApps -> [Ai!Identifiers -> Nat]] /\ providers'[app][id] = n
       /\ \A a \in 1 .. MaxApps, i \in Ai!Identifiers : a # app \/ i # id => providers'[a][i] = providers[a][i]
  <2>1. providers \in [1 .. MaxApps -> [Ai!Identifiers -> Nat]]
    BY DEF AiInv, AiTyped
  <2> QED BY <1>7, <2>1
<1>17. AiTyped'
  <2>1. handed' \subseteq 1 .. Len(services')
    <3>1. handed \subseteq 1 .. Len(services)
      BY DEF AiInv, AiTyped
    <3>2. \A s \in 1 .. Len(services) : s \in 1 .. n
      BY <1>5, <1>6
    <3> QED BY <1>7, <1>9, <3>1, <3>2
  <2> QED BY <1>7, <1>9, <1>15, <1>16, <2>1 DEF AiInv, AiTyped
<1>18. Staged' /\ RequestsInStep'
  <2>1. job.op \notin Ai!Preparing
    BY <1>2, <1>12
  <2> QED BY <1>7, <1>9, <1>12, <1>14, <2>1, AskStep
<1>19. Fits(n, id)'
  BY <1>8, <1>9 DEF Fits
<1>20. ServicesFit'
  <2>1. \A i \in Ai!Identifiers : cache'[i] # 0 => Fits(cache[i], i)'
    BY <1>7, <1>9 DEF AiInv, ServicesFit
  <2>2. ASSUME NEW a \in 1 .. MaxApps, NEW i \in Ai!Identifiers, providers'[a][i] # 0 PROVE Fits(providers[a][i], i)'
    <3>1. CASE a = app /\ i = id
      BY <1>16, <1>19, <3>1
    <3>2. CASE ~(a = app /\ i = id)
      <4>1. providers'[a][i] = providers[a][i]
        BY <1>16, <3>2
      <4>2. Fits(providers[a][i], i)
        BY <2>2, <4>1 DEF AiInv, ServicesFit
      <4> QED BY <1>9, <4>1, <4>2
    <3> QED BY <3>1, <3>2
  <2>3. \A u \in Tasks : Asks(tasks'[u]) => tasks'[u].app \in 1 .. Len(apps)
    BY <1>2, <1>12, <1>15 DEF AiInv, ServicesFit
  <2>4. ASSUME NEW u \in Tasks, HasService(tasks'[u]) PROVE Fits(tasks[u].service, IdOf(tasks[u]))'
    <3>1. CASE u = t
      BY <1>12, <1>14, <1>15, <1>19, <3>1
    <3>2. CASE u # t
      <4>1. tasks'[u] = tasks[u] /\ Fits(tasks[u].service, IdOf(tasks[u]))
        BY <1>15, <2>4, <3>2 DEF AiInv, ServicesFit
      <4>2. PICK s, i : s = tasks[u].service /\ i = IdOf(tasks[u])
        OBVIOUS
      <4>3. Fits(s, i)'
        BY <1>9, <4>1, <4>2
      <4> QED BY <4>1, <4>2, <4>3 DEF IdOf
    <3> QED BY <3>1, <3>2
  <2> QED BY <1>7, <1>9, <2>1, <2>2, <2>3, <2>4 DEF ServicesFit
<1>21. HeldOnce'
  <2>1. ASSUME NEW s \in DOMAIN services, NEW i \in Ai!Identifiers, Holds(s, i)' PROVE Holds(s, i)
    <3>1. s # n
      BY <1>9
    <3>2. CASE cache'[i] = s
      BY <1>7, <3>2 DEF Holds
    <3>3. ASSUME NEW a \in 1 .. MaxApps, providers'[a][i] = s PROVE Holds(s, i)
      BY <1>16, <3>1, <3>3 DEF Holds
    <3>4. ASSUME NEW u \in Tasks, HasService(tasks'[u]), tasks'[u].service = s, IdOf(tasks'[u]) = i PROVE Holds(s, i)
      BY <1>12, <1>15, <3>1, <3>4 DEF Holds
    <3> QED BY <2>1, <3>2, <3>3, <3>4 DEF Holds
  <2>2. ASSUME NEW i \in Ai!Identifiers, Holds(n, i)' PROVE i = id
    <3>1. /\ cache[i] # n /\ \A a \in 1 .. MaxApps : providers[a][i] # n
          /\ \A u \in Tasks : HasService(tasks[u]) => tasks[u].service # n
      BY <1>6, <1>9, NewIsUnknown
    <3>2. \A a \in 1 .. MaxApps : providers'[a][i] = n => i = id
      BY <1>16, <3>1
    <3>3. \A u \in Tasks : HasService(tasks'[u]) /\ tasks'[u].service = n => u = t
      BY <1>15, <3>1
    <3> QED BY <1>7, <1>14, <1>15, <2>2, <3>1, <3>2, <3>3 DEF Holds
  <2>3. ASSUME NEW s \in DOMAIN services', NEW i \in Ai!Identifiers, NEW j \in Ai!Identifiers, Holds(s, i)', Holds(s, j)' PROVE i = j
    <3>1. CASE s = n
      BY <2>2, <2>3, <3>1
    <3>2. CASE s \in DOMAIN services
      BY <2>1, <2>3, <3>2 DEF AiInv, HeldOnce
    <3> QED BY <1>9, <3>1, <3>2
  <2> QED BY <2>3 DEF HeldOnce
<1>22. Registered'
  BY <1>2, <1>7, <1>15 DEF AiInv, Registered
<1>23. CacheInStep'
  <2>1. ASSUME ~overlapped
        PROVE  /\ CallStage(job)'
               /\ \A i \in Ai!Identifiers : cache'[i] # 0 =>
                    /\ i # IdOf(job) => services'[cache'[i]].limited = asked'[i]
                    /\ FirstApp' => providers'[1][i] = cache'[i]
    <3>1. /\ CallStage(tasks[t])
          /\ \A i \in Ai!Identifiers : cache[i] # 0 =>
               /\ i # IdOf(tasks[t]) => services[cache[i]].limited = asked[i]
               /\ FirstApp => providers[1][i] = cache[i]
      BY <1>2, <2>1, AskingAlone
    <3>2. FirstApp' <=> FirstApp
      BY <1>7 DEF FirstApp
    <3>3. FirstApp => app = 1
      BY <1>2, <1>4 DEF FirstApp
    <3>4. asked[id] = job.limited /\ cache[id] = 0 /\ ~job.hit
      BY <1>1, <1>3, <1>12, <1>13, <3>1 DEF CallStage
    <3>5. CallStage(job)'
      <4>1. FirstApp' => providers'[1][id] = n
        BY <1>16, <3>2, <3>3
      <4> QED BY <1>7, <1>12, <1>14, <3>4, <4>1 DEF CallStage
    <3>6. ASSUME NEW i \in Ai!Identifiers, cache'[i] # 0
          PROVE  /\ i # IdOf(job) => services'[cache'[i]].limited = asked'[i]
                 /\ FirstApp' => providers'[1][i] = cache'[i]
      <4>1. i # id /\ cache'[i] = cache[i] /\ Fits(cache[i], i)
        BY <1>7, <3>4, <3>6 DEF AiInv, ServicesFit
      <4>2. services'[cache[i]] = services[cache[i]]
        BY <1>9, <4>1 DEF Fits
      <4>3. FirstApp => providers'[1][i] = providers[1][i]
        BY <1>16, <3>3, <4>1
      <4> QED BY <1>3, <1>7, <3>1, <3>2, <3>6, <4>1, <4>2, <4>3
    <3> QED BY <3>5, <3>6
  <2> QED BY <1>2, <1>7, <1>12, <1>14, <2>1, CacheKept
<1> QED BY <1>17, <1>18, <1>20, <1>21, <1>22, <1>23 DEF AiInv

LEMMA FallbackKept == ASSUME Ai!ConstantsOK, AiInv, NEW t \in Tasks, Ai!Fallback(t) PROVE AiInv'
<1>1. tasks[t].pc = "fallback" /\ tasks[t].pc \in AskingPcs
  BY DEF Ai!Fallback, Ai!At, AskingPcs
<1>2. /\ tasks[t] \in AiCalls /\ tasks \in [Tasks -> AiCalls] /\ Asks(tasks[t]) /\ StageOK(tasks[t])
      /\ tasks[t].op = "get_ai" /\ tasks[t].op \notin Ai!Preparing /\ tasks[t].url = Ai!None /\ IdOf(tasks[t]) \in Ai!Identifiers
      /\ tasks[t].app \in 1 .. Len(apps) /\ tasks[t].app \in 1 .. MaxApps
  BY <1>1, Asking
<1>3. PICK id \in Ai!Identifiers : id = IdOf(tasks[t])
  BY <1>2
<1>4. PICK app \in 1 .. MaxApps : app = tasks[t].app
  BY <1>2
<1>4a. PICK backend \in Ai!Backends : backend = tasks[t].backend
  BY <1>2 DEF AiCalls
<1>4b. PICK limited \in BOOLEAN : limited = tasks[t].limited
  BY <1>2 DEF AiCalls
<1>5. Len(services) \in Nat
  BY LenProperties DEF AiInv, AiTyped
<1>6. PICK n \in Nat : n = Len(services) + 1 /\ n # 0
  BY <1>5
<1> DEFINE made == [app |-> app, backend |-> backend, limited |-> limited]
           moved == [tasks[t] EXCEPT !.service = n, !.pc = "insert"]
<1>7. /\ services' = Append(services, made)
      /\ tasks' = [tasks EXCEPT ![t].service = n, ![t].pc = "insert"]
      /\ UNCHANGED <<apps, current, registered, attached, providers, cache, handed, during, asked, overlapped>>
  BY <1>3, <1>4, <1>4a, <1>4b, <1>6 DEF Ai!Fallback, Ai!Id, IdOf
<1>8. made \in ServiceRecords /\ Ai!encode_instance_identifier(made.backend) = id /\ made.app \in 1 .. Len(apps) /\ made.limited = limited
  <2>1. backend \in MadeBackends /\ app \in Nat
    BY BackendsTyped
  <2>2. made \in ServiceRecords /\ made.backend = backend /\ made.app = app /\ made.limited = limited
    BY <2>1 DEF ServiceRecords
  <2> QED BY <1>2, <1>3, <1>4, <1>4a, <2>2 DEF IdOf
<1> HIDE DEF made
<1>9. /\ services' \in Seq(ServiceRecords) /\ Len(services') = n
      /\ services'[n] = made /\ n \in DOMAIN services' /\ n \notin DOMAIN services
      /\ DOMAIN services = 1 .. Len(services) /\ DOMAIN services' = DOMAIN services \cup {n}
      /\ \A s \in DOMAIN services : s \in DOMAIN services' /\ services'[s] = services[s]
      /\ \A s \in DOMAIN services' : services'[s].app \in 1 .. Len(apps')
      /\ \A s, i : Fits(s, i) => Fits(s, i)'
  BY <1>6, <1>7, <1>8, Made
<1>10. moved \in AiCalls /\ tasks' = [tasks EXCEPT ![t] = moved]
  BY <1>2, <1>7 DEF AiCalls, Pcs
<1>11. PICK job \in AiCalls : job = moved
  BY <1>10
<1>12. /\ tasks' = [tasks EXCEPT ![t] = job]
       /\ job.op = "get_ai" /\ job.result = "none" /\ job.pc = "insert" /\ job.service = n /\ job.hit = tasks[t].hit
       /\ job.url = Ai!None /\ job.limited = tasks[t].limited /\ job.backend = tasks[t].backend /\ job.app = tasks[t].app
  BY <1>2, <1>10, <1>11 DEF AiCalls, Asks
<1> HIDE DEF moved
<1>13. ~tasks[t].hit
  BY <1>1, <1>2 DEF StageOK
<1>14. Asks(job) /\ IdOf(job) = id /\ StageOK(job) /\ HasService(job)
  BY <1>3, <1>12 DEF Asks, IdOf, StageOK, AskingPcs, HasService
<1>15. tasks' \in [Tasks -> AiCalls] /\ tasks'[t] = job /\ \A u \in Tasks : u # t => tasks'[u] = tasks[u]
  BY <1>12, OneMoves DEF AiInv
<1>17. AiTyped'
  <2>1. handed' \subseteq 1 .. Len(services')
    <3>1. handed \subseteq 1 .. Len(services)
      BY DEF AiInv, AiTyped
    <3>2. \A s \in 1 .. Len(services) : s \in 1 .. n
      BY <1>5, <1>6
    <3> QED BY <1>7, <1>9, <3>1, <3>2
  <2> QED BY <1>7, <1>9, <1>15, <2>1 DEF AiInv, AiTyped
<1>18. Staged' /\ RequestsInStep'
  <2>1. job.op \notin Ai!Preparing
    BY <1>2, <1>12
  <2> QED BY <1>7, <1>9, <1>12, <1>14, <2>1, AskStep
<1>19. Fits(n, id)'
  BY <1>8, <1>9 DEF Fits
<1>20. ServicesFit'
  <2>1. \A i \in Ai!Identifiers : cache'[i] # 0 => Fits(cache[i], i)'
    BY <1>7, <1>9 DEF AiInv, ServicesFit
  <2>2. \A a \in 1 .. MaxApps, i \in Ai!Identifiers : providers'[a][i] # 0 => Fits(providers[a][i], i)'
    BY <1>7, <1>9 DEF AiInv, ServicesFit
  <2>3. \A u \in Tasks : Asks(tasks'[u]) => tasks'[u].app \in 1 .. Len(apps)
    BY <1>2, <1>12, <1>15 DEF AiInv, ServicesFit
  <2>4. ASSUME NEW u \in Tasks, HasService(tasks'[u]) PROVE Fits(tasks[u].service, IdOf(tasks[u]))'
    <3>1. CASE u = t
      BY <1>12, <1>14, <1>15, <1>19, <3>1
    <3>2. CASE u # t
      <4>1. tasks'[u] = tasks[u] /\ Fits(tasks[u].service, IdOf(tasks[u]))
        BY <1>15, <2>4, <3>2 DEF AiInv, ServicesFit
      <4>2. PICK s, i : s = tasks[u].service /\ i = IdOf(tasks[u])
        OBVIOUS
      <4>3. Fits(s, i)'
        BY <1>9, <4>1, <4>2
      <4> QED BY <4>1, <4>2, <4>3 DEF IdOf
    <3> QED BY <3>1, <3>2
  <2> QED BY <1>7, <1>9, <2>1, <2>2, <2>3, <2>4 DEF ServicesFit
<1>21. HeldOnce'
  <2>1. ASSUME NEW s \in DOMAIN services, NEW i \in Ai!Identifiers, Holds(s, i)' PROVE Holds(s, i)
    <3>1. s # n
      BY <1>9
    <3>2. CASE cache'[i] = s
      BY <1>7, <3>2 DEF Holds
    <3>3. ASSUME NEW a \in 1 .. MaxApps, providers'[a][i] = s PROVE Holds(s, i)
      BY <1>7, <3>3 DEF Holds
    <3>4. ASSUME NEW u \in Tasks, HasService(tasks'[u]), tasks'[u].service = s, IdOf(tasks'[u]) = i PROVE Holds(s, i)
      BY <1>12, <1>15, <3>1, <3>4 DEF Holds
    <3> QED BY <2>1, <3>2, <3>3, <3>4 DEF Holds
  <2>2. ASSUME NEW i \in Ai!Identifiers, Holds(n, i)' PROVE i = id
    <3>1. /\ cache[i] # n /\ \A a \in 1 .. MaxApps : providers[a][i] # n
          /\ \A u \in Tasks : HasService(tasks[u]) => tasks[u].service # n
      BY <1>6, <1>9, NewIsUnknown
    <3>2. \A a \in 1 .. MaxApps : providers'[a][i] = n => i = id
      BY <1>7, <3>1
    <3>3. \A u \in Tasks : HasService(tasks'[u]) /\ tasks'[u].service = n => u = t
      BY <1>15, <3>1
    <3> QED BY <1>7, <1>14, <1>15, <2>2, <3>1, <3>2, <3>3 DEF Holds
  <2>3. ASSUME NEW s \in DOMAIN services', NEW i \in Ai!Identifiers, NEW j \in Ai!Identifiers, Holds(s, i)', Holds(s, j)' PROVE i = j
    <3>1. CASE s = n
      BY <2>2, <2>3, <3>1
    <3>2. CASE s \in DOMAIN services
      BY <2>1, <2>3, <3>2 DEF AiInv, HeldOnce
    <3> QED BY <1>9, <3>1, <3>2
  <2> QED BY <2>3 DEF HeldOnce
<1>22. Registered'
  BY <1>2, <1>7, <1>15 DEF AiInv, Registered
<1>23. CacheInStep'
  <2>1. ASSUME ~overlapped
        PROVE  /\ CallStage(job)'
               /\ \A i \in Ai!Identifiers : cache'[i] # 0 =>
                    /\ i # IdOf(job) => services'[cache'[i]].limited = asked'[i]
                    /\ FirstApp' => providers'[1][i] = cache'[i]
    <3>1. /\ CallStage(tasks[t])
          /\ \A i \in Ai!Identifiers : cache[i] # 0 =>
               /\ i # IdOf(tasks[t]) => services[cache[i]].limited = asked[i]
               /\ FirstApp => providers[1][i] = cache[i]
      BY <1>2, <2>1, AskingAlone
    <3>2. FirstApp' <=> FirstApp
      BY <1>7 DEF FirstApp
    <3>3. ~FirstApp
      BY <1>1, <3>1 DEF CallStage
    <3>4. asked[id] = job.limited /\ cache[id] = 0 /\ services'[n].limited = job.limited
      BY <1>1, <1>3, <1>4b, <1>8, <1>9, <1>12, <3>1 DEF CallStage
    <3>5. CallStage(job)'
      BY <1>7, <1>12, <1>14, <3>2, <3>3, <3>4 DEF CallStage
    <3>6. ASSUME NEW i \in Ai!Identifiers, cache'[i] # 0
          PROVE  /\ i # IdOf(job) => services'[cache'[i]].limited = asked'[i]
                 /\ FirstApp' => providers'[1][i] = cache'[i]
      <4>1. i # id /\ cache'[i] = cache[i] /\ Fits(cache[i], i)
        BY <1>7, <3>4, <3>6 DEF AiInv, ServicesFit
      <4>2. services'[cache[i]] = services[cache[i]]
        BY <1>9, <4>1 DEF Fits
      <4> QED BY <1>3, <1>7, <3>1, <3>2, <3>3, <3>6, <4>1, <4>2
    <3> QED BY <3>5, <3>6
  <2> QED BY <1>2, <1>7, <1>12, <1>14, <2>1, CacheKept
<1> QED BY <1>17, <1>18, <1>20, <1>21, <1>22, <1>23 DEF AiInv

LEMMA SetsOptionsKept == ASSUME Ai!ConstantsOK, AiInv, NEW t \in Tasks, Ai!SetsOptions(t) PROVE AiInv'
<1>1. tasks[t].pc = "options" /\ tasks[t].pc \in AskingPcs
  BY DEF Ai!SetsOptions, Ai!At, AskingPcs
<1>2. /\ tasks[t] \in AiCalls /\ tasks \in [Tasks -> AiCalls] /\ Asks(tasks[t]) /\ StageOK(tasks[t])
      /\ tasks[t].op = "get_ai" /\ tasks[t].op \notin Ai!Preparing /\ tasks[t].url = Ai!None /\ IdOf(tasks[t]) \in Ai!Identifiers
      /\ tasks[t].app \in 1 .. Len(apps)
      /\ HasService(tasks[t]) => Fits(tasks[t].service, IdOf(tasks[t]))
  BY <1>1, Asking
<1>3. PICK id \in Ai!Identifiers : id = IdOf(tasks[t])
  BY <1>2
<1>4. HasService(tasks[t])
  BY <1>1, <1>2 DEF HasService
<1>5. PICK n : n = tasks[t].service
  OBVIOUS
<1>6. PICK limited \in BOOLEAN : limited = tasks[t].limited
  BY <1>2 DEF AiCalls
<1>7. n \in DOMAIN services
  BY <1>2, <1>4, <1>5 DEF Fits
<1> DEFINE pc == IF tasks[t].hit THEN "returned" ELSE "insert"
           moved == [tasks[t] EXCEPT !.pc = pc]
<1>8. /\ services' = [services EXCEPT ![n].limited = limited]
      /\ during' = [u \in Tasks |-> IF tasks[u].op \in Ai!Preparing /\ tasks[u].service = n
                                    THEN during[u] \cup {services'[n].limited} ELSE during[u]]
      /\ tasks' = [tasks EXCEPT ![t].pc = pc]
      /\ UNCHANGED <<apps, current, registered, attached, providers, cache, handed, asked, overlapped>>
  BY <1>5, <1>6 DEF Ai!SetsOptions, Ai!set_options
<1>9. pc \in {"returned", "insert"} /\ (pc = "returned" <=> tasks[t].hit)
  BY <1>2 DEF AiCalls
<1> HIDE DEF pc
<1>10. moved \in AiCalls /\ tasks' = [tasks EXCEPT ![t] = moved]
  BY <1>2, <1>8, <1>9 DEF AiCalls, Pcs
<1>11. PICK job \in AiCalls : job = moved
  BY <1>10
<1>12. /\ tasks' = [tasks EXCEPT ![t] = job]
       /\ job.op = "get_ai" /\ job.result = "none" /\ job.pc = pc /\ job.service = n /\ job.hit = tasks[t].hit
       /\ job.url = Ai!None /\ job.limited = limited /\ job.backend = tasks[t].backend /\ job.app = tasks[t].app
  BY <1>2, <1>5, <1>6, <1>10, <1>11 DEF AiCalls, Asks
<1> HIDE DEF moved
<1>13. Asks(job) /\ IdOf(job) = id /\ StageOK(job) /\ HasService(job)
  BY <1>3, <1>9, <1>12 DEF Asks, IdOf, StageOK, AskingPcs, HasService
<1>14. tasks' \in [Tasks -> AiCalls] /\ tasks'[t] = job /\ \A u \in Tasks : u # t => tasks'[u] = tasks[u]
  BY <1>12, OneMoves DEF AiInv
<1>15. services \in Seq(ServiceRecords) /\ services[n] \in ServiceRecords /\ DOMAIN services = 1 .. Len(services) /\ Len(services) \in Nat
  BY <1>7, LenProperties, ElementOfSeq DEF AiInv, AiTyped
<1>16. /\ services' \in Seq(ServiceRecords) /\ Len(services') = Len(services) /\ DOMAIN services' = DOMAIN services
       /\ services'[n].limited = limited
       /\ \A s \in DOMAIN services : services'[s].app = services[s].app /\ services'[s].backend = services[s].backend
       /\ \A s \in DOMAIN services : s # n => services'[s] = services[s]
  <2> DEFINE set == [services[n] EXCEPT !.limited = limited]
  <2>1. set \in ServiceRecords /\ set.limited = limited /\ set.app = services[n].app /\ set.backend = services[n].backend
    BY <1>15 DEF ServiceRecords
  <2>2. services' = [services EXCEPT ![n] = set]
    BY <1>8
  <2> HIDE DEF set
  <2>3. /\ services' \in Seq(ServiceRecords) /\ Len(services') = Len(services)
        /\ \A s \in 1 .. Len(services) : services'[s] = IF s = n THEN set ELSE services[s]
    BY <1>7, <1>15, <2>1, <2>2, ExceptSeq
  <2>4. DOMAIN services' = DOMAIN services
    BY <1>15, <2>3, LenProperties
  <2> QED BY <1>7, <1>15, <2>1, <2>3, <2>4
<1>17. /\ during' \in [Tasks -> SUBSET BOOLEAN] /\ \A u \in Tasks : during[u] \subseteq during'[u]
       /\ \A u \in Tasks : tasks[u].op \in Ai!Preparing /\ tasks[u].service = n => limited \in during'[u]
  <2>1. during \in [Tasks -> SUBSET BOOLEAN]
    BY Zenon DEF AiInv, AiTyped
  <2>2. services'[n].limited = limited
    BY <1>16
  <2> QED BY <1>6, <1>8, <2>1, <2>2
<1>18. AiTyped'
  BY <1>8, <1>14, <1>16, <1>17 DEF AiInv, AiTyped
<1>19. Staged'
  BY <1>13, <1>14 DEF AiInv, Staged
<1>20. RequestsInStep'
  <2>1. ASSUME NEW u \in Tasks PROVE RequestOK(tasks[u], during[u])'
    <3>1. CASE u = t
      BY <1>2, <1>12, <1>14, <3>1 DEF RequestOK
    <3>2. CASE u # t
      <4>1. tasks'[u] = tasks[u] /\ RequestOK(tasks[u], during[u])
        BY <1>14, <3>2 DEF AiInv, RequestsInStep
      <4>2. CASE Reading(tasks[u]) /\ tasks[u].op \in Ai!Preparing
        <5>1. tasks[u].service \in DOMAIN services /\ services[tasks[u].service].limited \in during[u]
          BY <4>1, <4>2 DEF RequestOK
        <5>2. services'[tasks[u].service].backend = services[tasks[u].service].backend /\ tasks[u].service \in DOMAIN services'
          BY <1>16, <5>1
        <5>3. services'[tasks[u].service].limited \in during'[u]
          BY <1>16, <1>17, <4>2, <5>1
        <5>4. Ai!construct_request(services'[tasks[u].service].backend, tasks[u].model)
                = Ai!construct_request(services[tasks[u].service].backend, tasks[u].model)
          BY <5>2
        <5>5. tasks[u].limited \in during[u] => tasks[u].limited \in during'[u]
          BY <1>17
        <5> QED BY <4>1, <4>2, <5>2, <5>3, <5>4, <5>5 DEF RequestOK
      <4>3. CASE ~Reading(tasks[u]) \/ tasks[u].op \notin Ai!Preparing
        BY <4>1, <4>3 DEF RequestOK, Reading
      <4> QED BY <4>2, <4>3
    <3> QED BY <3>1, <3>2
  <2> QED BY <2>1 DEF RequestsInStep
<1>21. ServicesFit'
  <2>1. \A s, i : Fits(s, i)' <=> Fits(s, i)
    BY <1>16 DEF Fits
  <2>2. /\ \A u \in Tasks : Asks(tasks'[u]) => tasks'[u].app \in 1 .. Len(apps)
        /\ \A u \in Tasks : HasService(tasks'[u]) => Fits(tasks'[u].service, IdOf(tasks'[u]))
    BY <1>2, <1>3, <1>4, <1>5, <1>12, <1>13, <1>14 DEF AiInv, ServicesFit
  <2>3. \A s \in DOMAIN services' : services'[s].app \in 1 .. Len(apps)
    BY <1>16 DEF AiInv, ServicesFit
  <2> QED BY <1>8, <2>1, <2>2, <2>3 DEF AiInv, ServicesFit
<1>22. HeldOnce'
  <2>1. ASSUME NEW s \in DOMAIN services, NEW i, Holds(s, i)' PROVE Holds(s, i)
    <3>1. CASE cache[i] = s \/ \E a \in 1 .. MaxApps : providers[a][i] = s
      BY <3>1 DEF Holds
    <3>2. ASSUME NEW u \in Tasks, HasService(tasks'[u]), tasks'[u].service = s, IdOf(tasks'[u]) = i PROVE Holds(s, i)
      BY <1>3, <1>4, <1>5, <1>12, <1>13, <1>14, <3>2 DEF Holds
    <3> QED BY <1>8, <2>1, <3>1, <3>2 DEF Holds
  <2> QED BY <1>16, <2>1 DEF AiInv, HeldOnce
<1>23. Registered'
  BY <1>2, <1>8, <1>12, <1>14 DEF AiInv, Registered
<1>24. CacheInStep'
  <2>1. ASSUME ~overlapped
        PROVE  /\ CallStage(job)'
               /\ \A i \in Ai!Identifiers : cache'[i] # 0 =>
                    /\ i # IdOf(job) => services'[cache'[i]].limited = asked'[i]
                    /\ FirstApp' => providers'[1][i] = cache'[i]
    <3>1. /\ CallStage(tasks[t])
          /\ \A i \in Ai!Identifiers : cache[i] # 0 =>
               /\ i # IdOf(tasks[t]) => services[cache[i]].limited = asked[i]
               /\ FirstApp => providers[1][i] = cache[i]
      BY <1>2, <2>1, AskingAlone
    <3>2. FirstApp' <=> FirstApp
      BY <1>8 DEF FirstApp
    <3>3. CallStage(job)'
      <4>1. asked[id] = limited /\ (FirstApp => providers[1][id] = n)
        BY <1>3, <1>4, <1>5, <1>6, <3>1 DEF CallStage
      <4>2. job.pc = "returned" => cache[id] = n
        BY <1>1, <1>3, <1>5, <1>9, <1>12, <3>1 DEF CallStage
      <4>3. job.pc = "returned" \/ cache[id] = 0
        BY <1>1, <1>3, <1>9, <1>12, <3>1 DEF CallStage
      <4>4. job.pc \in {"returned", "insert"} /\ services'[job.service].limited = job.limited
        BY <1>9, <1>12, <1>16
      <4> QED BY <1>8, <1>12, <1>13, <3>2, <4>1, <4>2, <4>3, <4>4 DEF CallStage
    <3>4. ASSUME NEW i \in Ai!Identifiers, cache'[i] # 0
          PROVE  /\ i # IdOf(job) => services'[cache'[i]].limited = asked'[i]
                 /\ FirstApp' => providers'[1][i] = cache'[i]
      <4>1. cache'[i] = cache[i] /\ Fits(cache[i], i)
        BY <1>8, <3>4 DEF AiInv, ServicesFit
      <4>2. i # id => cache[i] # n
        <5>1. Holds(n, id)
          BY <1>3, <1>4, <1>5 DEF Holds
        <5>2. cache[i] = n => Holds(n, i)
          BY DEF Holds
        <5> QED BY <1>7, <5>1, <5>2 DEF AiInv, HeldOnce
      <4>3. i # id => services'[cache[i]] = services[cache[i]]
        BY <1>16, <4>1, <4>2 DEF Fits
      <4> QED BY <1>3, <1>8, <1>13, <3>1, <3>2, <3>4, <4>1, <4>3
    <3> QED BY <3>3, <3>4
  <2> QED BY <1>2, <1>8, <1>12, <1>13, <2>1, CacheKept
<1> QED BY <1>18, <1>19, <1>20, <1>21, <1>22, <1>23, <1>24 DEF AiInv

LEMMA CacheInsertKept == ASSUME Ai!ConstantsOK, AiInv, NEW t \in Tasks, Ai!CacheInsert(t) PROVE AiInv'
<1>1. tasks[t].pc = "insert" /\ tasks[t].pc \in AskingPcs
  BY DEF Ai!CacheInsert, Ai!At, AskingPcs
<1>2. /\ tasks[t] \in AiCalls /\ tasks \in [Tasks -> AiCalls] /\ Asks(tasks[t]) /\ StageOK(tasks[t])
      /\ tasks[t].op = "get_ai" /\ tasks[t].op \notin Ai!Preparing /\ tasks[t].url = Ai!None /\ IdOf(tasks[t]) \in Ai!Identifiers
      /\ tasks[t].app \in 1 .. Len(apps)
      /\ HasService(tasks[t]) => Fits(tasks[t].service, IdOf(tasks[t]))
  BY <1>1, Asking
<1>3. PICK id \in Ai!Identifiers : id = IdOf(tasks[t])
  BY <1>2
<1>4. HasService(tasks[t])
  BY <1>1, <1>2 DEF HasService
<1>5. PICK n \in Nat : n = tasks[t].service
  BY <1>2 DEF AiCalls
<1> DEFINE moved == [tasks[t] EXCEPT !.pc = "returned"]
<1>6. /\ cache' = [cache EXCEPT ![id] = n] /\ tasks' = [tasks EXCEPT ![t].pc = "returned"]
      /\ UNCHANGED <<apps, current, registered, attached, providers, services, handed, during, asked, overlapped>>
  BY <1>3, <1>5 DEF Ai!CacheInsert, Ai!Id, IdOf
<1>7. moved \in AiCalls /\ tasks' = [tasks EXCEPT ![t] = moved]
  BY <1>2, <1>6 DEF AiCalls, Pcs
<1>8. PICK job \in AiCalls : job = moved
  BY <1>7
<1>9. /\ tasks' = [tasks EXCEPT ![t] = job]
      /\ job.op = "get_ai" /\ job.result = "none" /\ job.pc = "returned" /\ job.service = n /\ job.hit = tasks[t].hit
      /\ job.url = Ai!None /\ job.limited = tasks[t].limited /\ job.backend = tasks[t].backend /\ job.app = tasks[t].app
  BY <1>2, <1>5, <1>7, <1>8 DEF AiCalls, Asks
<1> HIDE DEF moved
<1>10. Asks(job) /\ IdOf(job) = id /\ StageOK(job) /\ HasService(job)
  BY <1>3, <1>9 DEF Asks, IdOf, StageOK, AskingPcs, HasService
<1>11. tasks' \in [Tasks -> AiCalls] /\ tasks'[t] = job /\ \A u \in Tasks : u # t => tasks'[u] = tasks[u]
  BY <1>9, OneMoves DEF AiInv
<1>12. cache' \in [Ai!Identifiers -> Nat] /\ cache'[id] = n /\ \A i \in Ai!Identifiers : i # id => cache'[i] = cache[i]
  <2>1. cache \in [Ai!Identifiers -> Nat]
    BY DEF AiInv, AiTyped
  <2> QED BY <1>6, <2>1
<1>13. AiTyped'
  BY <1>6, <1>11, <1>12 DEF AiInv, AiTyped
<1>14. Staged' /\ RequestsInStep'
  <2>1. job.op \notin Ai!Preparing
    BY <1>2, <1>9
  <2> QED BY <1>6, <1>9, <1>10, <2>1, AskStep
<1>15. Fits(n, id)
  BY <1>2, <1>3, <1>4, <1>5
<1>16. ServicesFit'
  <2>1. \A s, i : Fits(s, i)' <=> Fits(s, i)
    BY <1>6 DEF Fits
  <2>2. /\ \A u \in Tasks : Asks(tasks'[u]) => tasks'[u].app \in 1 .. Len(apps)
        /\ \A u \in Tasks : HasService(tasks'[u]) => Fits(tasks'[u].service, IdOf(tasks'[u]))
    BY <1>2, <1>9, <1>10, <1>11, <1>15 DEF AiInv, ServicesFit
  <2>3. \A i \in Ai!Identifiers : cache'[i] # 0 => Fits(cache'[i], i)
    BY <1>12, <1>15 DEF AiInv, ServicesFit
  <2> QED BY <1>6, <2>1, <2>2, <2>3 DEF AiInv, ServicesFit
<1>17. HeldOnce'
  <2>1. ASSUME NEW s \in DOMAIN services, NEW i \in Ai!Identifiers, Holds(s, i)' PROVE Holds(s, i)
    <3>1. Holds(n, id)
      BY <1>3, <1>4, <1>5 DEF Holds
    <3>2. CASE cache'[i] = s
      BY <1>12, <3>1, <3>2 DEF Holds
    <3>3. CASE \E a \in 1 .. MaxApps : providers[a][i] = s
      BY <3>3 DEF Holds
    <3>4. ASSUME NEW u \in Tasks, HasService(tasks'[u]), tasks'[u].service = s, IdOf(tasks'[u]) = i PROVE Holds(s, i)
      BY <1>9, <1>10, <1>11, <3>1, <3>4 DEF Holds
    <3> QED BY <1>6, <2>1, <3>2, <3>3, <3>4 DEF Holds
  <2> QED BY <1>6, <2>1 DEF AiInv, HeldOnce
<1>18. Registered'
  BY <1>2, <1>6, <1>9, <1>11 DEF AiInv, Registered
<1>19. CacheInStep'
  <2>1. ASSUME ~overlapped
        PROVE  /\ CallStage(job)'
               /\ \A i \in Ai!Identifiers : cache'[i] # 0 =>
                    /\ i # IdOf(job) => services'[cache'[i]].limited = asked'[i]
                    /\ FirstApp' => providers'[1][i] = cache'[i]
    <3>1. /\ CallStage(tasks[t])
          /\ \A i \in Ai!Identifiers : cache[i] # 0 =>
               /\ i # IdOf(tasks[t]) => services[cache[i]].limited = asked[i]
               /\ FirstApp => providers[1][i] = cache[i]
      BY <1>2, <2>1, AskingAlone
    <3>2. FirstApp' <=> FirstApp
      BY <1>6 DEF FirstApp
    <3>3. /\ asked[id] = job.limited /\ services[n].limited = job.limited
          /\ FirstApp => providers[1][id] = n
      BY <1>1, <1>3, <1>4, <1>5, <1>9, <3>1 DEF CallStage
    <3>4. CallStage(job)'
      BY <1>6, <1>9, <1>10, <1>12, <3>2, <3>3 DEF CallStage
    <3>5. ASSUME NEW i \in Ai!Identifiers, cache'[i] # 0
          PROVE  /\ i # IdOf(job) => services'[cache'[i]].limited = asked'[i]
                 /\ FirstApp' => providers'[1][i] = cache'[i]
      BY <1>3, <1>6, <1>10, <1>12, <3>1, <3>2, <3>3, <3>5
    <3> QED BY <3>4, <3>5
  <2> QED BY <1>2, <1>6, <1>9, <1>10, <2>1, CacheKept
<1> QED BY <1>13, <1>14, <1>16, <1>17, <1>18, <1>19 DEF AiInv

LEMMA ReturnsKept == ASSUME Ai!ConstantsOK, AiInv, NEW t \in Tasks, Ai!Returns(t) PROVE AiInv'
<1>1. /\ tasks[t].pc = "returned" /\ tasks' = [tasks EXCEPT ![t] = Ai!Idle] /\ during' = [during EXCEPT ![t] = {}]
      /\ handed' = IF tasks[t].op = "get_ai" THEN handed \cup ({tasks[t].service} \ {0}) ELSE handed
      /\ UNCHANGED <<apps, current, registered, attached, providers, services, cache, asked, overlapped>>
  BY DEF Ai!Returns
<1>2. /\ Ai!Idle \in AiCalls /\ Ai!Idle.op = "idle" /\ Ai!Idle.pc = "" /\ Ai!Idle.url = Ai!None /\ StageOK(Ai!Idle)
  BY IdleTyped
<1>3. RequestOK(Ai!Idle, {}) /\ Ai!Idle.op # "get_ai" /\ ~Asks(Ai!Idle) /\ ~HasService(Ai!Idle) /\ Ai!Idle.op \notin Ai!Preparing
  BY <1>2 DEF RequestOK, Asks, HasService, Ai!Preparing
<1>4. CASE tasks[t].op # "get_ai"
  BY <1>1, <1>2, <1>3, <1>4, RequestStep
<1>5. CASE tasks[t].op = "get_ai"
  <2>1. tasks' \in [Tasks -> AiCalls] /\ tasks'[t] = Ai!Idle /\ \A u \in Tasks : u # t => tasks'[u] = tasks[u]
    BY <1>1, <1>2, OneMoves DEF AiInv
  <2>2. during' \in [Tasks -> SUBSET BOOLEAN] /\ during'[t] = {} /\ \A u \in Tasks : u # t => during'[u] = during[u]
    <3>1. during \in [Tasks -> SUBSET BOOLEAN]
      BY Zenon DEF AiInv, AiTyped
    <3> QED BY <1>1, <3>1
  <2>3. handed' \subseteq 1 .. Len(services)
    <3>1. handed \subseteq 1 .. Len(services) /\ services \in Seq(ServiceRecords)
      BY DEF AiInv, AiTyped
    <3>2. tasks[t].service # 0 => tasks[t].service \in 1 .. Len(services)
      <4>1. CASE Asks(tasks[t])
        <5>1. Fits(tasks[t].service, IdOf(tasks[t]))
          BY <1>1, <4>1 DEF AiInv, ServicesFit, HasService
        <5> QED BY <3>1, <5>1, LenProperties DEF Fits
      <4>2. CASE ~Asks(tasks[t])
        BY <1>5, <4>2 DEF AiInv, Staged, StageOK, Asks
      <4> QED BY <4>1, <4>2
    <3> QED BY <1>1, <3>1, <3>2
  <2>4. AiTyped'
    BY <1>1, <2>1, <2>2, <2>3 DEF AiInv, AiTyped
  <2>5. Staged'
    BY <1>2, <2>1 DEF AiInv, Staged
  <2>6. RequestsInStep'
    <3>1. \A k, f : RequestOK(k, f)' <=> RequestOK(k, f)
      BY <1>1 DEF RequestOK
    <3> QED BY <1>3, <2>1, <2>2, <3>1 DEF AiInv, RequestsInStep
  <2>7. \A u \in Tasks : tasks'[u].op = "get_ai" \/ Asks(tasks'[u]) \/ HasService(tasks'[u]) => u # t /\ tasks'[u] = tasks[u]
    BY <1>3, <2>1
  <2>8. ServicesFit'
    <3>1. \A s, i : Fits(s, i)' <=> Fits(s, i)
      BY <1>1 DEF Fits
    <3> QED BY <1>1, <2>7, <3>1 DEF AiInv, ServicesFit
  <2>9. HeldOnce'
    <3>1. \A s, i : Holds(s, i)' => Holds(s, i)
      BY <1>1, <2>7 DEF Holds
    <3> QED BY <1>1, <3>1 DEF AiInv, HeldOnce
  <2>10. Registered'
    BY <1>1, <2>7 DEF AiInv, Registered
  <2>11. CacheInStep'
    <3> SUFFICES ASSUME ~overlapped
                 PROVE  /\ \A u, v \in Tasks : tasks'[u].op = "get_ai" /\ tasks'[v].op = "get_ai" => u = v
                        /\ \A u \in Tasks : Asks(tasks'[u]) => CallStage(tasks[u])'
                        /\ \A i \in Ai!Identifiers : CacheStage(i)'
      BY <1>1 DEF CacheInStep
    <3>1. /\ \A u \in Tasks : tasks[u].op = "get_ai" => u = t
          /\ \A i \in Ai!Identifiers : CacheStage(i)
          /\ Asks(tasks[t]) => CallStage(tasks[t])
      BY <1>5 DEF AiInv, CacheInStep
    <3>2. \A u \in Tasks : tasks'[u].op # "get_ai" /\ ~Asks(tasks'[u])
      BY <2>7, <3>1 DEF Asks
    <3>3. ASSUME NEW i \in Ai!Identifiers PROVE CacheStage(i)'
      <4>1. FirstApp' <=> FirstApp
        BY <1>1 DEF FirstApp
      <4>2. ASSUME cache[i] # 0 PROVE services[cache[i]].limited = asked[i]
        <5>1. CASE \E u \in Tasks : Asks(tasks[u]) /\ IdOf(tasks[u]) = i
          <6>1. Asks(tasks[t]) /\ IdOf(tasks[t]) = i
            BY <3>1, <5>1 DEF Asks
          <6> QED BY <1>1, <3>1, <6>1 DEF CallStage
        <5>2. CASE ~\E u \in Tasks : Asks(tasks[u]) /\ IdOf(tasks[u]) = i
          BY <3>1, <4>2, <5>2 DEF CacheStage
        <5> QED BY <5>1, <5>2
      <4> QED BY <1>1, <3>1, <4>1, <4>2 DEF CacheStage
    <3> QED BY <3>2, <3>3
  <2> QED BY <2>4, <2>5, <2>6, <2>8, <2>9, <2>10, <2>11 DEF AiInv
<1> QED BY <1>4, <1>5

\* A call of get_ai begins: what the others and the services have is as it was.
LEMMA BeginsKept ==
  ASSUME Ai!ConstantsOK, AiInv, NEW t \in Tasks, tasks[t].op = "idle", NEW job \in AiCalls, job.op = "get_ai", StageOK(job),
         ~HasService(job), job.url = Ai!None, Asks(job) => job.app \in 1 .. Len(apps),
         tasks' = [tasks EXCEPT ![t] = job], Ai!ensure_registered, asked' \in [Ai!Identifiers -> BOOLEAN],
         UNCHANGED <<apps, current, providers, services, cache, handed, during>>,
         overlapped' = (overlapped \/ \E u \in Tasks : tasks[u].op = "get_ai"),
         ~overlapped' =>
           /\ Asks(job) => CallStage(job)'
           /\ \A i \in Ai!Identifiers : asked'[i] = asked[i] \/ (Asks(job) /\ IdOf(job) = i)
  PROVE  AiInv'
<1>1. tasks' \in [Tasks -> AiCalls] /\ tasks'[t] = job /\ \A u \in Tasks : u # t => tasks'[u] = tasks[u]
  BY OneMoves DEF AiInv
<1>2. /\ registered' = TRUE /\ attached' \subseteq 1 .. Len(apps) /\ (current # 0 => current \in attached')
  <2>1. attached \subseteq 1 .. Len(apps) /\ current \in 0 .. Len(apps) /\ registered \in BOOLEAN
    BY DEF AiInv, AiTyped
  <2>2. registered /\ current # 0 => current \in attached
    BY DEF AiInv, Registered
  <2>3. registered' = TRUE /\ attached' = IF registered THEN attached ELSE attached \cup ({current} \ {0})
    BY DEF Ai!ensure_registered
  <2>4. current # 0 => current \in 1 .. Len(apps)
    BY <2>1
  <2> QED BY <2>1, <2>2, <2>3, <2>4
<1>3. overlapped' \in BOOLEAN
  BY DEF AiInv, AiTyped
<1>4. AiTyped'
  BY <1>1, <1>2, <1>3 DEF AiInv, AiTyped
<1>5. Staged'
  BY <1>1 DEF AiInv, Staged
<1>6. RequestsInStep'
  <2>1. \A k, f : RequestOK(k, f)' <=> RequestOK(k, f)
    BY DEF RequestOK
  <2>2. \A f : RequestOK(job, f)
    BY DEF RequestOK, Ai!Preparing
  <2> QED BY <1>1, <2>1, <2>2 DEF AiInv, RequestsInStep
<1>7. \A u \in Tasks : HasService(tasks'[u]) => u # t /\ tasks'[u] = tasks[u]
  BY <1>1
<1>8. ServicesFit'
  <2>1. \A s, i : Fits(s, i)' <=> Fits(s, i)
    BY DEF Fits
  <2>2. \A u \in Tasks : Asks(tasks'[u]) => tasks'[u].app \in 1 .. Len(apps)
    BY <1>1 DEF AiInv, ServicesFit
  <2> QED BY <1>7, <2>1, <2>2 DEF AiInv, ServicesFit
<1>9. HeldOnce'
  <2>1. \A s, i : Holds(s, i)' => Holds(s, i)
    BY <1>7 DEF Holds
  <2> QED BY <2>1 DEF AiInv, HeldOnce
<1>10. Registered'
  BY <1>2 DEF Registered
<1>11. CacheInStep'
  <2> SUFFICES ASSUME ~overlapped'
               PROVE  /\ \A u, v \in Tasks : tasks'[u].op = "get_ai" /\ tasks'[v].op = "get_ai" => u = v
                      /\ \A u \in Tasks : Asks(tasks'[u]) => CallStage(tasks[u])'
                      /\ \A i \in Ai!Identifiers : CacheStage(i)'
    BY DEF CacheInStep
  <2>1. ~overlapped /\ \A u \in Tasks : tasks[u].op # "get_ai"
    OBVIOUS
  <2>2. \A u \in Tasks : tasks'[u].op = "get_ai" \/ Asks(tasks'[u]) => u = t
    BY <1>1, <2>1 DEF Asks
  <2>3. Asks(job) => CallStage(tasks[t])'
    BY <1>1 DEF CallStage
  <2>4. ASSUME NEW i \in Ai!Identifiers PROVE CacheStage(i)'
    <3>1. FirstApp' <=> FirstApp
      BY DEF FirstApp
    <3>2. cache[i] # 0 => services[cache[i]].limited = asked[i] /\ (FirstApp => providers[1][i] = cache[i])
      BY <2>1 DEF AiInv, CacheInStep, CacheStage, Asks
    <3> QED BY <1>1, <3>1, <3>2 DEF CacheStage
  <2> QED BY <1>1, <2>2, <2>3, <2>4
<1> QED BY <1>4, <1>5, <1>6, <1>8, <1>9, <1>10, <1>11 DEF AiInv

LEMMA GetAiKept == ASSUME Ai!ConstantsOK, AiInv, NEW t \in Tasks, Ai!GetAi(t) PROVE AiInv'
<1>1. PICK app \in 1 .. Len(apps), backend \in Ai!Backends, limited \in BOOLEAN :
        /\ Ai!Begins(t, [Ai!Idle EXCEPT !.op = "get_ai", !.pc = "cache", !.app = app, !.backend = backend, !.limited = limited])
        /\ Ai!ensure_registered
        /\ asked' = [asked EXCEPT ![Ai!encode_instance_identifier(backend)] = limited]
        /\ overlapped' = (overlapped \/ \E u \in Tasks : tasks[u].op = "get_ai")
        /\ UNCHANGED <<apps, current, providers, services, cache, handed, during>>
  BY DEF Ai!GetAi
<1> DEFINE call == [Ai!Idle EXCEPT !.op = "get_ai", !.pc = "cache", !.app = app, !.backend = backend, !.limited = limited]
<1>2. Ai!Idle \in AiCalls /\ Ai!Idle.url = Ai!None /\ Ai!Idle.result = "none" /\ app \in 1 .. Len(apps)
  BY <1>1, IdleTyped
<1>3. app \in Nat
  BY <1>2
<1>4. call \in AiCalls
  BY <1>2, <1>3 DEF AiCalls, Pcs
<1>5. PICK job \in AiCalls : job = call
  BY <1>4
<1>6. /\ job.op = "get_ai" /\ job.pc = "cache" /\ job.app = app /\ job.backend = backend /\ job.limited = limited
      /\ job.url = Ai!None /\ job.result = "none"
  BY <1>2, <1>5 DEF AiCalls
<1>7. tasks' = [tasks EXCEPT ![t] = job] /\ tasks[t].op = "idle"
  BY <1>1, <1>5 DEF Ai!Begins
<1> HIDE DEF call
<1>8. Asks(job) /\ StageOK(job) /\ ~HasService(job) /\ IdOf(job) = Ai!encode_instance_identifier(backend)
  BY <1>6 DEF Asks, StageOK, AskingPcs, HasService, IdOf
<1>9. IdOf(job) \in Ai!Identifiers /\ asked \in [Ai!Identifiers -> BOOLEAN]
  BY IdsTyped DEF AiInv, AiTyped
<1>10. /\ asked' \in [Ai!Identifiers -> BOOLEAN] /\ asked'[IdOf(job)] = limited
       /\ \A i \in Ai!Identifiers : asked'[i] = asked[i] \/ IdOf(job) = i
  BY <1>1, <1>8, <1>9
<1>11. CallStage(job)'
  BY <1>6, <1>8, <1>10 DEF CallStage
<1> QED BY <1>1, <1>2, <1>6, <1>7, <1>8, <1>10, <1>11, BeginsKept

LEMMA NoAppKept == ASSUME Ai!ConstantsOK, AiInv, NEW t \in Tasks, Ai!NoApp(t) PROVE AiInv'
<1> DEFINE call == [Ai!Idle EXCEPT !.op = "get_ai", !.pc = "returned", !.result = "internal"]
<1>1. /\ Ai!Begins(t, call) /\ Ai!ensure_registered
      /\ overlapped' = (overlapped \/ \E u \in Tasks : tasks[u].op = "get_ai")
      /\ UNCHANGED <<apps, current, providers, services, cache, handed, during, asked>>
  BY DEF Ai!NoApp
<1>2. Ai!Idle \in AiCalls /\ Ai!Idle.url = Ai!None /\ Ai!Idle.service = 0
  BY IdleTyped
<1>3. call \in AiCalls
  BY <1>2 DEF AiCalls, Pcs, AiResults
<1>4. PICK job \in AiCalls : job = call
  BY <1>3
<1>5. job.op = "get_ai" /\ job.pc = "returned" /\ job.url = Ai!None /\ job.result = "internal" /\ job.service = 0
  BY <1>2, <1>4 DEF AiCalls
<1>6. tasks' = [tasks EXCEPT ![t] = job] /\ tasks[t].op = "idle"
  BY <1>1, <1>4 DEF Ai!Begins
<1> HIDE DEF call
<1>7. ~Asks(job) /\ StageOK(job) /\ ~HasService(job)
  BY <1>5 DEF Asks, StageOK, AskingPcs, HasService
<1>8. asked' \in [Ai!Identifiers -> BOOLEAN] /\ \A i \in Ai!Identifiers : asked'[i] = asked[i]
  BY <1>1 DEF AiInv, AiTyped
<1> QED BY <1>1, <1>5, <1>6, <1>7, <1>8, BeginsKept

LEMMA InitializeAppKept == ASSUME Ai!ConstantsOK, AiInv, Ai!InitializeApp PROVE AiInv'
<1>1. PICK options \in Options :
        /\ current = 0 /\ Len(apps) < MaxApps
        /\ apps' = Append(apps, options)
        /\ current' = Len(apps) + 1
        /\ attached' = IF registered THEN attached \cup {current'} ELSE attached
        /\ UNCHANGED <<registered, providers, services, cache, handed, tasks, calls, during, asked, overlapped>>
  BY DEF Ai!InitializeApp
<1>2. apps \in Seq(Options) /\ Len(apps) \in Nat /\ MaxApps \in Nat /\ attached \subseteq 1 .. Len(apps)
  BY LenProperties DEF AiInv, AiTyped, Ai!ConstantsOK
<1>3. apps' \in Seq(Options) /\ Len(apps') = Len(apps) + 1
  BY <1>1, <1>2, AppendProperties
<1>4. Len(apps') \in 0 .. MaxApps /\ current' \in 0 .. Len(apps') /\ \A n : n \in 1 .. Len(apps) => n \in 1 .. Len(apps')
  BY <1>1, <1>2, <1>3
<1>5. attached' \subseteq 1 .. Len(apps')
  <2>1. attached \subseteq 1 .. Len(apps')
    BY <1>2, <1>4
  <2>2. current' \in 1 .. Len(apps')
    BY <1>1, <1>2, <1>3
  <2>3. attached' = attached \/ attached' = attached \cup {current'}
    BY <1>1
  <2> QED BY <2>1, <2>2, <2>3
<1>6. AiTyped'
  BY <1>1, <1>3, <1>4, <1>5 DEF AiInv, AiTyped
<1>7. Staged' /\ RequestsInStep'
  <2>1. \A k, f : RequestOK(k, f)' <=> RequestOK(k, f)
    BY <1>1 DEF RequestOK
  <2> QED BY <1>1, <2>1 DEF AiInv, Staged, RequestsInStep
<1>8. ServicesFit'
  <2>1. \A s, i : Fits(s, i)' <=> Fits(s, i)
    BY <1>1 DEF Fits
  <2> QED BY <1>1, <1>4, <2>1 DEF AiInv, ServicesFit
<1>9. HeldOnce'
  <2>1. \A s, i : Holds(s, i)' <=> Holds(s, i)
    BY <1>1 DEF Holds
  <2> QED BY <1>1, <2>1 DEF AiInv, HeldOnce
<1>10. Registered'
  BY <1>1 DEF AiInv, Registered
<1>11. FirstApp' => /\ \A u \in Tasks : ~Asks(tasks[u])
                    /\ \A i \in Ai!Identifiers : cache[i] = 0
  <2> SUFFICES ASSUME FirstApp'
               PROVE  /\ \A u \in Tasks : ~Asks(tasks[u])
                      /\ \A i \in Ai!Identifiers : cache[i] = 0
    OBVIOUS
  <2>1. \A n : n \notin 1 .. Len(apps)
    BY <1>2, <1>3 DEF FirstApp
  <2>2. \A s \in DOMAIN services : FALSE
    BY <2>1 DEF AiInv, ServicesFit
  <2> QED BY <2>1, <2>2 DEF AiInv, ServicesFit, Fits
<1>12. CacheInStep'
  <2> SUFFICES ASSUME ~overlapped
               PROVE  /\ \A u, v \in Tasks : tasks'[u].op = "get_ai" /\ tasks'[v].op = "get_ai" => u = v
                      /\ \A u \in Tasks : Asks(tasks'[u]) => CallStage(tasks[u])'
                      /\ \A i \in Ai!Identifiers : CacheStage(i)'
    BY <1>1 DEF CacheInStep
  <2>1. \A u \in Tasks : Asks(tasks[u]) => CallStage(tasks[u])'
    <3>1. \A u \in Tasks : Asks(tasks[u]) => CallStage(tasks[u]) /\ ~FirstApp'
      BY <1>11 DEF AiInv, CacheInStep
    <3> QED BY <1>1, <3>1 DEF CallStage
  <2>2. \A i \in Ai!Identifiers : CacheStage(i)'
    <3>1. \A i \in Ai!Identifiers : CacheStage(i) /\ (cache[i] # 0 => ~FirstApp')
      BY <1>11 DEF AiInv, CacheInStep
    <3> QED BY <1>1, <3>1 DEF CacheStage
  <2> QED BY <1>1, <2>1, <2>2 DEF AiInv, CacheInStep
<1> QED BY <1>6, <1>7, <1>8, <1>9, <1>10, <1>12 DEF AiInv

LEMMA DeleteAppKept == ASSUME Ai!ConstantsOK, AiInv, Ai!DeleteApp PROVE AiInv'
<1>1. PICK app \in 1 .. Len(apps) :
        /\ providers' = [providers EXCEPT ![app] = [i \in Ai!Identifiers |-> 0]]
        /\ current' = 0
        /\ UNCHANGED <<apps, registered, attached, services, cache, handed, tasks, calls, during, asked, overlapped>>
  BY DEF Ai!DeleteApp
<1>2. providers \in [1 .. MaxApps -> [Ai!Identifiers -> Nat]]
  BY DEF AiInv, AiTyped
<1>3. /\ providers' \in [1 .. MaxApps -> [Ai!Identifiers -> Nat]]
      /\ \A a \in 1 .. MaxApps, i \in Ai!Identifiers : providers'[a][i] # 0 => providers'[a][i] = providers[a][i]
  BY <1>1, <1>2
<1>4. current' \in 0 .. Len(apps)
  BY <1>1, LenProperties DEF AiInv, AiTyped
<1>5. AiTyped'
  BY <1>1, <1>3, <1>4 DEF AiInv, AiTyped
<1>6. Staged' /\ RequestsInStep'
  <2>1. \A k, f : RequestOK(k, f)' <=> RequestOK(k, f)
    BY <1>1 DEF RequestOK
  <2> QED BY <1>1, <2>1 DEF AiInv, Staged, RequestsInStep
<1>7. ServicesFit'
  <2>1. \A s, i : Fits(s, i)' <=> Fits(s, i)
    BY <1>1 DEF Fits
  <2> QED BY <1>1, <1>3, <2>1 DEF AiInv, ServicesFit
<1>8. HeldOnce'
  <2>1. \A s \in DOMAIN services, i \in Ai!Identifiers : Holds(s, i)' => Holds(s, i)
    <3>1. \A s \in DOMAIN services : s # 0
      BY LenProperties DEF AiInv, AiTyped
    <3> QED BY <1>1, <1>3, <3>1 DEF Holds
  <2> QED BY <1>1, <2>1 DEF AiInv, HeldOnce
<1>9. Registered'
  BY <1>1 DEF AiInv, Registered
<1>10. CacheInStep'
  <2>1. ~FirstApp'
    BY <1>1 DEF FirstApp
  <2>2. ~overlapped => /\ \A u \in Tasks : Asks(tasks[u]) => CallStage(tasks[u])'
                       /\ \A i \in Ai!Identifiers : CacheStage(i)'
    BY <1>1, <2>1 DEF AiInv, CacheInStep, CallStage, CacheStage
  <2> QED BY <1>1, <2>2 DEF AiInv, CacheInStep
<1> QED BY <1>5, <1>6, <1>7, <1>8, <1>9, <1>10 DEF AiInv

LEMMA AiStarts == ASSUME Ai!ConstantsOK, Ai!Init PROVE AiInv
<1>1. Ai!Idle \in AiCalls /\ Ai!Idle.op = "idle" /\ Ai!Idle.pc = "" /\ Ai!Idle.url = Ai!None /\ StageOK(Ai!Idle)
  BY IdleTyped
<1>2. /\ apps = <<>> /\ current = 0 /\ registered = FALSE /\ attached = {}
      /\ providers = [a \in 1 .. MaxApps |-> [i \in Ai!Identifiers |-> 0]]
      /\ services = <<>> /\ cache = [i \in Ai!Identifiers |-> 0]
      /\ handed = {} /\ tasks = [t \in Tasks |-> Ai!Idle]
      /\ during = [t \in Tasks |-> {}] /\ asked = [i \in Ai!Identifiers |-> FALSE] /\ overlapped = FALSE
  BY DEF Ai!Init
<1>3. MaxApps \in Nat /\ Len(apps) = 0 /\ DOMAIN services = {}
  BY <1>2 DEF Ai!ConstantsOK
<1>4. AiTyped
  <2>1. apps \in Seq(Options) /\ services \in Seq(ServiceRecords)
    BY <1>2
  <2>2. Len(apps) \in 0 .. MaxApps /\ current \in 0 .. Len(apps)
    BY <1>2, <1>3
  <2>3. attached \subseteq 1 .. Len(apps) /\ handed \subseteq 1 .. Len(services)
    BY <1>2
  <2>4. providers \in [1 .. MaxApps -> [Ai!Identifiers -> Nat]] /\ cache \in [Ai!Identifiers -> Nat]
    BY <1>2
  <2>5. tasks \in [Tasks -> AiCalls] /\ during \in [Tasks -> SUBSET BOOLEAN]
    BY <1>1, <1>2
  <2>6. registered \in BOOLEAN /\ asked \in [Ai!Identifiers -> BOOLEAN] /\ overlapped \in BOOLEAN
    BY <1>2
  <2> QED BY <2>1, <2>2, <2>3, <2>4, <2>5, <2>6 DEF AiTyped
<1>5. ~Asks(Ai!Idle) /\ ~HasService(Ai!Idle) /\ \A f : RequestOK(Ai!Idle, f)
  BY <1>1 DEF Asks, HasService, RequestOK, Ai!Preparing
<1>6. Staged /\ RequestsInStep
  BY <1>1, <1>2, <1>5 DEF Staged, RequestsInStep
<1>7. ServicesFit /\ HeldOnce
  BY <1>2, <1>3, <1>5 DEF ServicesFit, HeldOnce
<1>8. Registered /\ CacheInStep
  BY <1>1, <1>2, <1>5 DEF Registered, CacheInStep, CacheStage
<1> QED BY <1>4, <1>6, <1>7, <1>8 DEF AiInv

\* The inductive invariant of get_ai and its requests (api.rs: get_ai, ai_factory,
\* requests.rs): a service fits every identifier it is found under and is found under one,
\* and without overlapping calls the cache, the providers and the call agree.
THEOREM ServicesFitTheirIdentifiers == ASSUME Ai!ConstantsOK PROVE Ai!Spec => []AiInv
<1>1. Ai!Init => AiInv
  BY AiStarts
<1>2. AiInv /\ [Ai!Next]_Ai!aiVars => AiInv'
  <2> SUFFICES ASSUME AiInv, [Ai!Next]_Ai!aiVars PROVE AiInv'
    OBVIOUS
  <2>1. CASE UNCHANGED Ai!aiVars
    <3>1. UNCHANGED <<apps, current, registered, attached, providers, services, cache, handed, tasks, during, asked, overlapped>>
      BY <2>1 DEF Ai!aiVars
    <3>2. AiTyped' /\ Staged' /\ Registered' /\ HeldOnce'
      BY <3>1 DEF AiInv, AiTyped, Staged, Registered, HeldOnce, Holds
    <3>3. ServicesFit' /\ RequestsInStep'
      BY <3>1 DEF AiInv, ServicesFit, Fits, RequestsInStep, RequestOK
    <3>4. CacheInStep'
      BY <3>1 DEF AiInv, CacheInStep, CallStage, CacheStage, FirstApp
    <3> QED BY <3>2, <3>3, <3>4 DEF AiInv
  <2>2. CASE Ai!InitializeApp \/ Ai!DeleteApp
    BY <2>2, InitializeAppKept, DeleteAppKept
  <2>3. ASSUME NEW t \in Tasks,
               Ai!GetAi(t) \/ Ai!NoApp(t) \/ Ai!CacheGet(t) \/ Ai!TryGet(t) \/ Ai!Create(t) \/ Ai!Fallback(t) \/ Ai!SetsOptions(t) \/ Ai!CacheInsert(t) \/ Ai!Returns(t)
        PROVE  AiInv'
    BY <2>3, GetAiKept, NoAppKept, CacheGetKept, TryGetKept, CreateKept, FallbackKept, SetsOptionsKept, CacheInsertKept, ReturnsKept
  <2>4. ASSUME NEW t \in Tasks,
               Ai!Generate(t) \/ Ai!EmptyPrompt(t) \/ Ai!ReadsSettings(t) \/ Ai!FetchesAppCheck(t) \/ Ai!FetchesAuth(t) \/ Ai!Sends(t)
        PROVE  AiInv'
    BY <2>4, GenerateKept, EmptyPromptKept, ReadsSettingsKept, FetchesAppCheckKept, FetchesAuthKept, SendsKept
  <2> QED BY <2>1, <2>2, <2>3, <2>4 DEF Ai!Next
<1> QED BY <1>1, <1>2, PTL DEF Ai!Spec

LEMMA FittingIsAsked ==
  ASSUME Ai!ConstantsOK, AiInv, NEW t \in Tasks, tasks[t].op = "get_ai", tasks[t].pc = "returned", tasks[t].result = "none"
  PROVE  /\ Ai!Whole(tasks[t].backend) => services[tasks[t].service].backend = tasks[t].backend
         /\ services[tasks[t].service].app = tasks[t].app \/ Len(apps) > 1
<1>1. Asks(tasks[t]) /\ HasService(tasks[t])
  BY DEF Asks, HasService
<1>2. Fits(tasks[t].service, IdOf(tasks[t])) /\ tasks[t].app \in 1 .. Len(apps)
  BY <1>1 DEF AiInv, ServicesFit
<1> DEFINE made == services[tasks[t].service]
<1>3. tasks[t].service \in DOMAIN services /\ made.app \in 1 .. Len(apps) /\ made.backend \in MadeBackends
  <2>1. tasks[t].service \in DOMAIN services
    BY <1>2 DEF Fits
  <2> QED BY <2>1, ServicesTyped DEF AiInv, ServicesFit
<1>4. tasks[t].backend \in Ai!Backends /\ tasks[t].backend \in MadeBackends
  BY BackendsTyped DEF AiInv, AiTyped, AiCalls
<1>5. ASSUME Ai!Whole(tasks[t].backend) PROVE made.backend = tasks[t].backend
  <2>1. CASE made.backend = Ai!decode_instance_identifier(IdOf(tasks[t]))
    BY <1>4, <1>5, <2>1, IdentifiersDecode DEF IdOf
  <2>2. CASE Ai!encode_instance_identifier(made.backend) = IdOf(tasks[t])
    BY <1>3, <1>4, <2>2, IdentifiersTell DEF IdOf
  <2> QED BY <1>2, <2>1, <2>2 DEF Fits
<1>6. made.app = tasks[t].app \/ Len(apps) > 1
  <2>1. Len(apps) \in Nat
    BY LenProperties DEF AiInv, AiTyped
  <2>2. \A l \in Nat : \A m, n \in 1 .. l : m = n \/ l > 1
    OBVIOUS
  <2> QED BY <1>2, <1>3, <2>1, <2>2
<1> QED BY <1>5, <1>6

LEMMA RequestsAreTheirs == ASSUME Ai!ConstantsOK, AiInv PROVE Ai!RequestsCarryTheirSettings
<1> SUFFICES ASSUME NEW t \in Tasks, tasks[t].url # Ai!None
             PROVE  LET backend == services[tasks[t].service].backend
                        headers == Ai!build_headers(tasks[t].settings)
                    IN /\ "X-Firebase-AppCheck" \in headers => ("limited" \in tasks[t].settings) \in during[t]
                       /\ "X-Firebase-Client" \in headers => "X-Firebase-AppCheck" \in headers
                       /\ backend.type = "VERTEX_AI" =>
                            Ai!IsPrefix(<<"v1beta", "projects", "project", "locations">> \o backend.location, tasks[t].url)
  BY DEF Ai!RequestsCarryTheirSettings
<1>1. RequestOK(tasks[t], during[t]) /\ Reading(tasks[t]) /\ tasks[t] \in AiCalls
  BY DEF AiInv, AiTyped, RequestsInStep, Reading
<1>2. /\ tasks[t].service \in DOMAIN services /\ tasks[t].limited \in during[t] /\ tasks[t].limited \in BOOLEAN
      /\ "limited" \in tasks[t].settings => tasks[t].limited
      /\ "shared" \in tasks[t].settings => ~tasks[t].limited
      /\ "heartbeat" \in tasks[t].settings => "shared" \in tasks[t].settings \/ "limited" \in tasks[t].settings
      /\ tasks[t].url = Ai!construct_request(services[tasks[t].service].backend, tasks[t].model)
      /\ tasks[t].model \in Seq(Ai!Segments)
  BY <1>1 DEF RequestOK, AiCalls
<1>3. /\ "X-Firebase-AppCheck" \in Ai!build_headers(tasks[t].settings) <=> "shared" \in tasks[t].settings \/ "limited" \in tasks[t].settings
      /\ "X-Firebase-Client" \in Ai!build_headers(tasks[t].settings) <=> "heartbeat" \in tasks[t].settings
  BY DEF Ai!build_headers
<1>4. "shared" \in tasks[t].settings \/ "limited" \in tasks[t].settings => ("limited" \in tasks[t].settings) = tasks[t].limited
  BY <1>2
<1>5. services[tasks[t].service].backend \in MadeBackends
  BY <1>2, ServicesTyped
<1>6. services[tasks[t].service].backend.type = "VERTEX_AI" =>
        Ai!IsPrefix(<<"v1beta", "projects", "project", "locations">> \o services[tasks[t].service].backend.location, tasks[t].url)
  BY <1>2, <1>5, Constructed DEF ProjectIn
<1> QED BY <1>2, <1>3, <1>4, <1>6

\* For any tasks, apps, locations and requests (api.rs, requests.rs): get_ai hands out a
\* service of the backend and, until an app was deleted, of the app it was asked for; the
\* cache follows calls that do not overlap; and a request carries App Check credentials of
\* a kind its service was set to use during the call, to its service's location.
THEOREM ServicesAreTheirs ==
  ASSUME Ai!ConstantsOK PROVE Ai!Spec => [](Ai!ServicesAreTheirApps /\ Ai!CacheFollowsItsCalls /\ Ai!RequestsCarryTheirSettings)
<1>1. AiInv => Ai!ServicesAreTheirApps
  BY FittingIsAsked DEF Ai!ServicesAreTheirApps
<1>2. AiInv => Ai!CacheFollowsItsCalls
  BY DEF AiInv, CacheInStep, CacheStage, Ai!CacheFollowsItsCalls, FirstApp, Asks
<1>3. AiInv => Ai!RequestsCarryTheirSettings
  BY RequestsAreTheirs
<1> QED BY <1>1, <1>2, <1>3, ServicesFitTheirIdentifiers, PTL
=============================================================================
