------------------------- MODULE RemoteConfigProofs -------------------------
(***************************************************************************)
(* What holds of Remote Config for any set of tasks, templates and custom  *)
(* signals and any number of calls, failed writes and crashes: while calls *)
(* do not overlap, a stored ETag is never newer than the configuration     *)
(* beside it, and between calls cache, storage and file agree.             *)
(*                                                                         *)
(* The second part is about the loggers, for any threads, loggers, names   *)
(* of levels, callbacks and calls.                                         *)
(***************************************************************************)
EXTENDS RemoteConfig, FiniteSetTheorems, SequenceTheorems, TLAPS

\* What may be put into a field of a copy.
Good(f, v) ==
  \/ f = "status" /\ v \in Statuses
  \/ f = "time" /\ v \in 0 .. MaxTime
  \/ f = "config" /\ v \in Versions /\ v <= past.newest
  \/ f \in {"etag", "version"} /\ v \in Versions
  \/ f = "signals" /\ v \in SUBSET SignalKeys /\ Fits(v)

Ordered(r) == r.version <= r.etag /\ r.etag <= r.config

\* A copy with one setting changed, and what has become of the template's settings.
With(r, f, v) == [r EXCEPT ![f] = v]

Changed(s, r, f, v) ==
  /\ s.config = IF f = "config" THEN v ELSE r.config
  /\ s.etag = IF f = "etag" THEN v ELSE r.etag
  /\ s.version = IF f = "version" THEN v ELSE r.version

\* What a set of the storage cache does to a copy.
LEMMA PutKeeps ==
  ASSUME ConstantsOK, NEW r \in Copies, Fits(r.signals), NEW f, NEW v, Good(f, v)
  PROVE  /\ With(r, f, v) \in Copies /\ Fits(With(r, f, v).signals)
         /\ Changed(With(r, f, v), r, f, v)
<1> USE DEF With, Changed
<1>1. CASE f = "status" /\ v \in Statuses
  BY <1>1 DEF Copies
<1>2. CASE f = "time" /\ v \in 0 .. MaxTime
  BY <1>2 DEF Copies
<1>3. CASE f = "config" /\ v \in Versions
  BY <1>3 DEF Copies
<1>4. CASE f = "etag" /\ v \in Versions
  BY <1>4 DEF Copies
<1>5. CASE f = "version" /\ v \in Versions
  BY <1>5 DEF Copies
<1>6. CASE f = "signals" /\ v \in SUBSET SignalKeys /\ Fits(v)
  BY <1>6 DEF Copies
<1> QED BY <1>1, <1>2, <1>3, <1>4, <1>5, <1>6 DEF Good

\* Heads and tails of the lists of settings.
LEMMA Lists ==
  ASSUME NEW a, NEW b, NEW c
  PROVE  /\ Head(<<a>>) = a /\ Tail(<<a>>) = <<>> /\ Len(<<a>>) = 1 /\ <<a>> # <<>>
         /\ Head(<<a, b>>) = a /\ Tail(<<a, b>>) = <<b>> /\ Len(<<a, b>>) = 2 /\ <<a, b>> # <<>>
         /\ Head(<<a, b, c>>) = a /\ Tail(<<a, b, c>>) = <<b, c>> /\ Len(<<a, b, c>>) = 3 /\ <<a, b, c>> # <<>>
         /\ <<a>> \o <<>> = <<a>>
<1>1. Head(<<a>>) = a /\ Len(<<a>>) = 1 /\ <<a>> # <<>>
  OBVIOUS
<1>2. Tail(<<a>>) = <<>>
  OBVIOUS
<1>3. Head(<<a, b>>) = a /\ Len(<<a, b>>) = 2 /\ <<a, b>> # <<>>
  OBVIOUS
<1>4. Tail(<<a, b>>) = <<b>>
  OBVIOUS
<1>5. Head(<<a, b, c>>) = a /\ Len(<<a, b, c>>) = 3 /\ <<a, b, c>> # <<>>
  OBVIOUS
<1>6. Tail(<<a, b, c>>) = <<b, c>>
  OBVIOUS
<1>7. <<a>> \o <<>> = <<a>>
  OBVIOUS
<1> QED BY <1>1, <1>2, <1>3, <1>4, <1>5, <1>6, <1>7

\* A first setting before the rest of a list.
LEMMA OneAndOne == ASSUME NEW a, NEW b PROVE <<a>> \o <<b>> = <<a, b>>
<1>1. <<a>> \in Seq({a, b}) /\ <<b>> \in Seq({a, b}) /\ <<a, b>> \in Seq({a, b})
  OBVIOUS
<1>2. <<a>> \o <<b>> \in Seq({a, b}) /\ Len(<<a>> \o <<b>>) = 2
  BY <1>1, ConcatProperties
<1>3. \A i \in 1 .. 2 : (<<a>> \o <<b>>)[i] = <<a, b>>[i]
  BY <1>1, ConcatProperties
<1> QED BY <1>1, <1>2, <1>3, SeqEqual

LEMMA OneAndTwo == ASSUME NEW a, NEW b, NEW c PROVE <<a>> \o <<b, c>> = <<a, b, c>>
<1>1. <<a>> \in Seq({a, b, c}) /\ <<b, c>> \in Seq({a, b, c}) /\ <<a, b, c>> \in Seq({a, b, c})
  OBVIOUS
<1>2. <<a>> \o <<b, c>> \in Seq({a, b, c}) /\ Len(<<a>> \o <<b, c>>) = 3
  BY <1>1, ConcatProperties
<1>3. \A i \in 1 .. 3 : (<<a>> \o <<b, c>>)[i] = <<a, b, c>>[i]
  BY <1>1, ConcatProperties
<1> QED BY <1>1, <1>2, <1>3, SeqEqual

-----------------------------------------------------------------------------
\* The numbers in the state.
LEMMA Numbers ==
  ASSUME ConstantsOK, Typed
  PROVE  /\ past.newest \in Nat /\ server \in Nat /\ clock \in Nat
         /\ rc.fetched.config \in Nat /\ rc.fetched.etag \in Int
         /\ cache.config \in Nat /\ cache.etag \in Int /\ cache.version \in Int
         /\ record.config \in Nat /\ record.etag \in Int /\ record.version \in Int
         /\ disk.config \in Nat /\ disk.etag \in Int /\ disk.version \in Int
<1>1. Versions \subseteq Nat /\ 0 .. MaxTime \subseteq Nat /\ None \in Int
  BY DEF Versions, ConstantsOK, None
<1>2. \A r \in Copies \cup {Torn} : r.config \in Nat /\ r.etag \in Int /\ r.version \in Int
  BY <1>1 DEF Copies, Torn, NoRecord
<1>3. cache \in Copies \cup {Torn} /\ record \in Copies \cup {Torn} /\ disk \in Copies \cup {Torn}
  BY DEF Typed
<1>4. past.newest \in Nat /\ server \in Nat /\ clock \in Nat
  BY <1>1 DEF Typed
<1>5. rc.fetched.config \in Nat /\ rc.fetched.etag \in Int
  <2>1. rc.fetched \in [config : Versions, etag : {None} \cup Versions]
    BY DEF Typed
  <2>2. rc.fetched.config \in Versions /\ rc.fetched.etag \in {None} \cup Versions
    BY <2>1
  <2> QED BY <2>2 DEF Versions, ConstantsOK, None
<1>6. /\ cache.config \in Nat /\ cache.etag \in Int /\ cache.version \in Int
      /\ record.config \in Nat /\ record.etag \in Int /\ record.version \in Int
      /\ disk.config \in Nat /\ disk.etag \in Int /\ disk.version \in Int
  BY <1>2, <1>3
<1> QED BY <1>4, <1>5, <1>6

LEMMA NextNumbers == ASSUME ConstantsOK, Typed' PROVE past'.newest \in Nat
  BY DEF Typed, Versions, ConstantsOK

\* A torn file is no copy; the empty record is one.
LEMMA EmptyRecord ==
  ASSUME ConstantsOK
  PROVE  /\ NoRecord \in Copies /\ NoRecord.config = 0 /\ Ordered(NoRecord) /\ Fits(NoRecord.signals)
         /\ Torn \notin Copies /\ Torn.config = 0 /\ Ordered(Torn) /\ Fits(Torn.signals)
<1>1. 0 \in Versions /\ Fits({})
  BY FS_EmptySet DEF Versions, ConstantsOK, Fits
<1>2. NoRecord \in Copies /\ NoRecord.config = 0 /\ NoRecord.signals = {}
  BY <1>1 DEF NoRecord, Copies, Statuses
<1>3. Torn.status = "torn" /\ Torn.config = 0 /\ Torn.signals = {}
  BY DEF Torn, NoRecord
<1>4. Ordered(NoRecord) /\ Ordered(Torn)
  BY DEF Ordered, NoRecord, Torn, None
<1> QED BY <1>1, <1>2, <1>3, <1>4 DEF Copies, Statuses

\* The fields of Idle.
LEMMA IdleFields ==
  /\ DOMAIN Idle = {"pc", "now", "asked", "etag", "todo", "mid", "both"}
  /\ Idle.pc = "idle" /\ Idle.todo = <<>> /\ Idle.mid = FALSE
  BY DEF Idle

\* Whoever is idle needs nothing of the rest.
LEMMA IdleStage == StageOf(Idle)
  BY IdleFields DEF StageOf

\* A task's stage stays as it is while the copies do, or once the calls are in disorder.
LEMMA StageStays ==
  ASSUME NEW j, StageOf(j), Typed, Typed', ConstantsOK,
         rc.ready => rc'.ready, disk # Torn => disk' # Torn, past.newest <= past'.newest,
         past.disorder => past'.disorder,
         past'.disorder \/ j.pc # "writing" \/ (cache' = cache /\ record' = record)
  PROVE  StageOf(j)'
<1>1. j.pc # "idle" => rc'.ready /\ disk' # Torn
  BY DEF StageOf
<1>2. CASE j.pc # "writing"
  BY <1>1, <1>2 DEF StageOf
<1>3. CASE j.pc = "writing" /\ Noting(j)
  BY <1>1, <1>3 DEF StageOf, Noting
<1>4. ASSUME NEW v \in Versions, j.pc = "writing", v <= past.newest, Activating(j, v)
      PROVE  StageOf(j)'
  <2>1. v <= past'.newest
    BY <1>4 DEF Typed, Versions, ConstantsOK
  <2>2. Activating(j, v)'
    BY <1>4 DEF Activating
  <2> QED BY <1>1, <1>4, <2>1, <2>2 DEF StageOf
<1> QED BY <1>2, <1>3, <1>4 DEF StageOf

\* A step that only gives task t another job, which stores nothing yet: a call, or the
\* answer to a fetch.
LEMMA JobStep ==
  ASSUME ConstantsOK, IInv, NEW t \in Tasks, NEW j,
         jobs' = [jobs EXCEPT ![t] = j],
         Typed', StageOf(j)', ~j.mid, ~jobs[t].mid,
         rc'.ready, cache' = IF rc.ready THEN cache ELSE record,
         UNCHANGED <<record, disk>>,
         past.newest <= past'.newest, past.disorder => past'.disorder, past.failed => past'.failed,
         rc'.fetched.etag # None =>
           /\ rc'.fetched.etag = rc'.fetched.config /\ rc'.fetched.config <= past'.newest
           /\ ~past'.disorder => rc'.fetched.config = past'.newest
  PROVE  IInv'
<1> USE DEF IInv
<1>1. jobs'[t] = j /\ \A u \in Tasks : u # t => jobs'[u] = jobs[u]
  BY DEF Typed
<1>2. ASSUME NEW u \in Tasks, ~rc.ready PROVE jobs[u].pc # "writing" /\ ~jobs[u].mid
  BY <1>2 DEF Stages, StageOf
<1>3. Stages'
  <2> SUFFICES ASSUME NEW u \in Tasks PROVE StageOf(jobs[u])'
    BY DEF Stages
  <2>1. CASE u = t
    BY <1>1, <2>1
  <2>2. CASE u # t
    <3>1. PICK k : k = jobs[u]
      OBVIOUS
    <3>2. StageOf(k) /\ jobs'[u] = k
      BY <1>1, <2>2, <3>1 DEF Stages
    <3>3. k.pc # "writing" \/ (cache' = cache /\ record' = record)
      BY <1>2, <3>1
    <3>4. StageOf(k)'
      BY <3>2, <3>3, StageStays
    <3> QED BY <3>2, <3>4
  <2> QED BY <2>1, <2>2
<1>4. NotNewer'
  <2>1. cache'.config <= past'.newest /\ record'.config <= past'.newest /\ disk'.config <= past'.newest
    BY Numbers, NextNumbers DEF NotNewer
  <2> QED BY <2>1 DEF NotNewer
<1>5. EtagNotNewer'
  <2> SUFFICES ASSUME ~past'.disorder PROVE Ordered(cache') /\ Ordered(record') /\ Ordered(disk')
    BY DEF EtagNotNewer, Ordered
  <2>1. Ordered(cache) /\ Ordered(record) /\ Ordered(disk)
    BY DEF EtagNotNewer, Ordered
  <2> QED BY <2>1
<1>6. Agreement'
  <2> SUFFICES ASSUME ~past'.disorder, ~past'.failed, disk' # Torn
               PROVE  /\ record' = disk'
                      /\ \/ cache' = record' /\ \A u \in Tasks : ~jobs'[u].mid
                         \/ \E u \in Tasks : /\ jobs'[u].mid /\ \A w \in Tasks \ {u} : ~jobs'[w].mid
                                             /\ record' = [cache' EXCEPT ![Head(jobs'[u].todo).field] = Head(jobs'[u].todo).value]
    BY DEF Agreement
  <2>1. record = disk
    BY DEF Agreement
  <2>2. CASE ~rc.ready
    BY <1>1, <1>2, <2>1, <2>2
  <2>3. CASE rc.ready /\ cache = record /\ \A u \in Tasks : ~jobs[u].mid
    BY <1>1, <2>1, <2>3
  <2>4. ASSUME rc.ready, NEW u \in Tasks, jobs[u].mid, \A w \in Tasks \ {u} : ~jobs[w].mid,
               record = [cache EXCEPT ![Head(jobs[u].todo).field] = Head(jobs[u].todo).value]
        PROVE  /\ record' = disk'
               /\ \/ cache' = record' /\ \A x \in Tasks : ~jobs'[x].mid
                  \/ \E x \in Tasks : /\ jobs'[x].mid /\ \A w \in Tasks \ {x} : ~jobs'[w].mid
                                      /\ record' = [cache' EXCEPT ![Head(jobs'[x].todo).field] = Head(jobs'[x].todo).value]
    <3>1. u # t /\ jobs'[u] = jobs[u]
      BY <1>1, <2>4
    <3>2. \A w \in Tasks \ {u} : ~jobs'[w].mid
      BY <1>1, <2>4
    <3>3. record' = [cache' EXCEPT ![Head(jobs'[u].todo).field] = Head(jobs'[u].todo).value]
      BY <2>4, <3>1
    <3> QED BY <2>1, <2>4, <3>1, <3>2, <3>3
  <2> QED BY <2>2, <2>3, <2>4 DEF Agreement
<1> QED BY <1>3, <1>4, <1>5, <1>6

\* A step that changes neither the copies nor the tasks.
LEMMA QuietStep ==
  ASSUME ConstantsOK, IInv, Typed', UNCHANGED <<cache, record, disk, jobs>>,
         rc'.fetched = rc.fetched, rc'.ready = rc.ready,
         past'.newest = past.newest, past'.disorder = past.disorder, past'.failed = past.failed
  PROVE  IInv'
<1> USE DEF IInv
<1>1. NotNewer'
  BY DEF NotNewer
<1>2. EtagNotNewer'
  BY DEF EtagNotNewer
<1>3. Stages'
  <2> SUFFICES ASSUME NEW u \in Tasks PROVE StageOf(jobs[u])'
    BY DEF Stages
  <2>1. PICK k : k = jobs[u]
    OBVIOUS
  <2>2. StageOf(k)'
    <3>1. StageOf(k) /\ past.newest <= past'.newest
      BY <2>1, Numbers DEF Stages
    <3> QED BY <3>1, StageStays
  <2> QED BY <2>1, <2>2
<1>4. Agreement'
  BY DEF Agreement
<1> QED BY <1>1, <1>2, <1>3, <1>4

-----------------------------------------------------------------------------
\* What the next set of a task stores.
LEMMA HeadIsGood ==
  ASSUME ConstantsOK, IInv, NEW t \in Tasks, At(t, "writing"), jobs[t].mid \/ ~Refused(t)
  PROVE  LET h == Head(jobs[t].todo)
         IN /\ jobs[t].todo # <<>>
            /\ jobs[t].mid => Good(h.field, h.value)
            /\ ~jobs[t].mid => Good(h.field, Value(t))
            /\ h.field # "signals" => Value(t) = h.value
<1> DEFINE j == jobs[t]
           h == Head(j.todo)
<1>1. h.field # "signals" => Value(t) = h.value
  BY DEF Value
<1>2. CASE Noting(j)
  <2>1. ASSUME NEW s \in Statuses, j.todo = <<Put("status", s)>>
        PROVE  j.todo # <<>> /\ h.field = "status" /\ h.value = s
    BY <2>1, Lists DEF Put
  <2>2. ASSUME NEW n \in 0 .. MaxTime, j.todo = <<Put("status", "success"), Put("time", n)>>
        PROVE  j.todo # <<>> /\ h.field = "status" /\ h.value = "success"
    BY <2>2, Lists DEF Put
  <2>3. ASSUME NEW n \in 0 .. MaxTime, j.todo = <<Put("time", n)>>
        PROVE  j.todo # <<>> /\ h.field = "time" /\ h.value = n
    BY <2>3, Lists DEF Put
  <2>4. ASSUME NEW a, NEW b, j.todo = <<Put("signals", <<a, b>>)>>
        PROVE  j.todo # <<>> /\ h.field = "signals" /\ h.value = <<a, b>>
    BY <2>4, Lists DEF Put
  <2>5. ASSUME NEW a, j.todo = <<Put("signals", a)>>
        PROVE  j.todo # <<>> /\ h.field = "signals" /\ h.value = a
    BY <2>5, Lists DEF Put
  <2>6. ASSUME NEW a \in SUBSET SignalKeys, NEW b \in SUBSET SignalKeys, j.todo = <<Put("signals", <<a, b>>)>>, ~j.mid
        PROVE  Good(h.field, Value(t))
    <3>1. Value(t) = (record.signals \cup a) \ b
      BY <2>4, <2>6 DEF Value, merge_custom_signals
    <3>2. Value(t) \subseteq SignalKeys
      BY <3>1 DEF IInv, Typed, Copies
    <3>3. IsFiniteSet(Value(t))
      BY <3>2, FS_Subset DEF ConstantsOK
    <3>4. Cardinality(Value(t)) <= MaxSignals
      BY <2>4, <2>6, <3>3, FS_CardinalityType DEF Refused, ConstantsOK
    <3> QED BY <2>4, <2>6, <3>2, <3>4 DEF Good, Fits
  <2>7. "success" \in Statuses
    BY DEF Statuses
  <2> QED BY <1>1, <1>2, <2>1, <2>2, <2>3, <2>4, <2>5, <2>6, <2>7 DEF Noting, Good
<1>3. ASSUME NEW v \in Versions, v <= past.newest, Activating(j, v)
      PROVE  /\ j.todo # <<>> /\ Good(h.field, h.value) /\ h.field # "signals"
  <2>1. j.todo # <<>> /\ h.field \in {"config", "etag", "version"} /\ h.value = v
    BY <1>3, Lists DEF Activating, Put
  <2> QED BY <1>3, <2>1 DEF Good
<1>4. Noting(j) \/ \E v \in Versions : v <= past.newest /\ Activating(j, v)
  BY DEF IInv, Stages, StageOf, At
<1> QED BY <1>1, <1>2, <1>3, <1>4

\* A set of activate keeps the order of configuration, ETag and version, in the cache as
\* in the storage.
LEMMA SetKeepsOrder ==
  ASSUME ConstantsOK, IInv, NEW t \in Tasks, At(t, "writing"), ~past.disorder,
         NEW r, r = cache \/ r = record,
         NEW f, f = Head(jobs[t].todo).field,
         NEW w, f # "signals" => w = Head(jobs[t].todo).value,
         NEW s, Changed(s, r, f, w)
  PROVE  Ordered(s)
<1> DEFINE j == jobs[t]
<1>1. /\ s.config = (IF f = "config" THEN w ELSE r.config)
      /\ s.etag = (IF f = "etag" THEN w ELSE r.etag)
      /\ s.version = (IF f = "version" THEN w ELSE r.version)
  BY DEF Changed
<1>2. Ordered(r) /\ r.config \in Nat /\ r.etag \in Int /\ r.version \in Int
  BY Numbers DEF IInv, EtagNotNewer, Ordered
<1>3. CASE Noting(j)
  <2>1. f \notin {"config", "etag", "version"}
    <3>1. ASSUME NEW a, NEW x, j.todo = <<Put(a, x)>> PROVE f = a
      BY <3>1, Lists DEF Put
    <3>2. ASSUME NEW a, NEW x, NEW y, j.todo = <<Put(a, x), y>> PROVE f = a
      BY <3>2, Lists DEF Put
    <3> QED BY <1>3, <3>1, <3>2 DEF Noting
  <2> QED BY <1>1, <1>2, <2>1 DEF Ordered
<1>4. ASSUME NEW v \in Versions, Activating(j, v) PROVE Ordered(s)
  <2>1. v \in Nat
    BY DEF Versions, ConstantsOK
  <2>2. \/ f = "config" /\ w = v /\ r.etag <= v
        \/ f = "etag" /\ w = v /\ r.config = v
        \/ f = "version" /\ w = v /\ r.etag = v
    BY <1>4, Lists DEF Activating, Put
  <2>3. CASE f = "config" /\ w = v /\ r.etag <= v
    BY <1>1, <1>2, <2>3 DEF Ordered
  <2>4. CASE f = "etag" /\ w = v /\ r.config = v
    BY <1>1, <1>2, <2>1, <2>4 DEF Ordered
  <2>5. CASE f = "version" /\ w = v /\ r.etag = v
    BY <1>1, <1>2, <2>1, <2>5 DEF Ordered
  <2> QED BY <2>2, <2>3, <2>4, <2>5
<1>5. Noting(j) \/ \E v \in Versions : v <= past.newest /\ Activating(j, v)
  BY DEF IInv, Stages, StageOf, At
<1> QED BY <1>3, <1>4, <1>5

\* When a task stores a setting, the others have nothing to store or the calls overlap.
LEMMA OthersStay ==
  ASSUME ConstantsOK, IInv, NEW t \in Tasks, NEW j, jobs' = [jobs EXCEPT ![t] = j],
         past'.disorder = (past.disorder \/ Overlaps(t)), past'.newest = past.newest,
         rc' = rc, disk # Torn => disk' # Torn, Typed', StageOf(j)'
  PROVE  /\ Stages'
         /\ jobs'[t] = j /\ \A u \in Tasks : u # t => jobs'[u] = jobs[u]
         /\ ~past'.disorder => ~past.disorder /\ \A u \in Tasks : u # t => ~jobs[u].mid
<1> USE DEF IInv
<1>1. jobs'[t] = j /\ \A u \in Tasks : u # t => jobs'[u] = jobs[u]
  BY DEF Typed
<1>2. ASSUME NEW u \in Tasks, u # t, ~past'.disorder
      PROVE  jobs[u].todo = <<>>
  BY <1>2 DEF Overlaps
<1>3. ASSUME NEW u \in Tasks, jobs[u].todo = <<>>
      PROVE  jobs[u].pc # "writing" /\ ~jobs[u].mid
  <2>1. StageOf(jobs[u])
    BY DEF Stages
  <2>2. ASSUME Noting(jobs[u]) PROVE FALSE
    BY <1>3, <2>2, Lists DEF Noting
  <2>3. ASSUME NEW v, Activating(jobs[u], v) PROVE FALSE
    BY <1>3, <2>3, Lists DEF Activating
  <2> QED BY <2>1, <2>2, <2>3 DEF StageOf
<1>4. ~past'.disorder => ~past.disorder /\ \A u \in Tasks : u # t => ~jobs[u].mid
  BY <1>2, <1>3
<1>5. Stages'
  <2> SUFFICES ASSUME NEW u \in Tasks PROVE StageOf(jobs[u])'
    BY DEF Stages
  <2>1. CASE u = t
    BY <1>1, <2>1
  <2>2. CASE u # t
    <3>1. PICK k : k = jobs[u]
      OBVIOUS
    <3>2. StageOf(k) /\ jobs'[u] = k
      BY <1>1, <2>2, <3>1 DEF Stages
    <3>3. past'.disorder \/ k.pc # "writing"
      BY <1>2, <1>3, <2>2, <3>1
    <3>4. past.newest <= past'.newest
      BY Numbers
    <3>5. StageOf(k)'
      BY <3>2, <3>3, <3>4, StageStays
    <3> QED BY <3>2, <3>5
  <2> QED BY <2>1, <2>2
<1> QED BY <1>1, <1>4, <1>5

\* The fields of a copy after a set, in the words of the lemma above.
LEMMA SetFields ==
  ASSUME ConstantsOK, IInv, NEW t \in Tasks, At(t, "writing"), jobs[t].mid \/ ~Refused(t),
         NEW w, w = IF jobs[t].mid THEN Head(jobs[t].todo).value ELSE Value(t),
         NEW r \in Copies, Fits(r.signals), r = cache \/ r = record,
         NEW s, s = With(r, Head(jobs[t].todo).field, w)
  PROVE  /\ s \in Copies /\ Fits(s.signals)
         /\ ~past.disorder => Ordered(s)
         /\ s.config <= past.newest
<1>1. PICK f : f = Head(jobs[t].todo).field
  OBVIOUS
<1>2. Good(f, w) /\ (f # "signals" => w = Head(jobs[t].todo).value)
  BY <1>1, HeadIsGood
<1>3. s = With(r, f, w)
  BY <1>1
<1>4. s \in Copies /\ Fits(s.signals) /\ Changed(s, r, f, w)
  BY <1>2, <1>3, PutKeeps
<1>5. ~past.disorder => Ordered(s)
  BY <1>1, <1>2, <1>4, SetKeepsOrder
<1>6. s.config <= past.newest
  BY <1>2, <1>4 DEF Good, IInv, NotNewer, Changed
<1> QED BY <1>4, <1>5, <1>6

-----------------------------------------------------------------------------
\* The storage step of a set: what becomes of the record and of the task's own stage.
LEMMA PersistStep ==
  ASSUME ConstantsOK, IInv, NEW t \in Tasks, persist(t)
  PROVE  /\ record' \in Copies /\ Fits(record'.signals) /\ record'.config <= past.newest
         /\ ~past.disorder => Ordered(record')
         /\ record' = With(record, Head(jobs[t].todo).field, Value(t))
         /\ rc.ready /\ disk # Torn
<1>1. At(t, "writing") /\ ~jobs[t].mid /\ ~Refused(t)
  BY DEF persist
<1>2. record' = With(record, Head(jobs[t].todo).field, Value(t))
  BY DEF persist, With
<1>3. PICK s : s = With(record, Head(jobs[t].todo).field, Value(t))
  OBVIOUS
<1>4. PICK w : w = Value(t)
  OBVIOUS
<1>5. PICK r : r = record
  OBVIOUS
<1>6. r \in Copies /\ Fits(r.signals)
  BY <1>5 DEF IInv, Typed
<1>7. s \in Copies /\ Fits(s.signals) /\ (~past.disorder => Ordered(s)) /\ s.config <= past.newest
  BY <1>1, <1>3, <1>4, <1>5, <1>6, SetFields
<1>8. rc.ready /\ disk # Torn
  BY <1>1 DEF IInv, Stages, StageOf, At
<1> QED BY <1>2, <1>3, <1>7, <1>8

\* Publish, Tick and set_config_settings.
LEMMA QuietActions ==
  ASSUME ConstantsOK, IInv,
         Publish \/ Tick \/ (\E timeout, interval \in {0, 1} : SetConfigSettings(timeout, interval)) \/ UNCHANGED rcVars
  PROVE  IInv'
<1> USE DEF IInv
<1>1. CASE Publish
  <2>1. server' \in Versions
    BY <1>1 DEF Publish, Typed, Versions, ConstantsOK
  <2>2. Typed'
    BY <1>1, <2>1 DEF Publish, Typed
  <2> QED BY <1>1, <2>2, QuietStep DEF Publish
<1>2. CASE Tick
  <2>1. clock' \in 0 .. MaxTime
    BY <1>2 DEF Tick, Typed, ConstantsOK
  <2>2. Typed'
    BY <1>2, <2>1 DEF Tick, Typed
  <2> QED BY <1>2, <2>2, QuietStep DEF Tick
<1>3. ASSUME NEW timeout \in {0, 1}, NEW interval \in {0, 1}, SetConfigSettings(timeout, interval)
      PROVE  IInv'
  <2>1. rc' \in [fetched : [config : Versions, etag : {None} \cup Versions], interval : Nat, ready : BOOLEAN]
    <3>1. interval \in Nat
      OBVIOUS
    <3> QED BY <1>3, <3>1 DEF SetConfigSettings, Typed
  <2>2. rc'.fetched = rc.fetched /\ rc'.ready = rc.ready
    BY <1>3 DEF SetConfigSettings, Typed
  <2>3. past'.calls \in 0 .. MaxCalls
    BY <1>3 DEF SetConfigSettings, Typed, ConstantsOK
  <2>4. past' \in [calls : 0 .. MaxCalls, faults : 0 .. MaxFaults, disorder : BOOLEAN, failed : BOOLEAN, newest : Versions]
    BY <1>3, <2>3 DEF SetConfigSettings, Typed
  <2>5. past'.newest = past.newest /\ past'.disorder = past.disorder /\ past'.failed = past.failed
    BY <1>3 DEF SetConfigSettings, Typed
  <2>6. UNCHANGED <<server, clock, cache, record, disk, jobs>>
    BY <1>3 DEF SetConfigSettings
  <2>7. Typed'
    BY <2>1, <2>4, <2>6 DEF Typed
  <2> QED BY <2>2, <2>5, <2>6, <2>7, QuietStep
<1>4. CASE UNCHANGED rcVars
  <2>1. Typed'
    BY <1>4 DEF Typed, rcVars
  <2> QED BY <1>4, <2>1, QuietStep DEF rcVars
<1> QED BY <1>1, <1>2, <1>3, <1>4

\* A crash, also one that tears the file.
LEMMA RestartStep == ASSUME ConstantsOK, IInv, Restart PROVE IInv'
<1> USE DEF IInv
<1>1. /\ server' = server /\ clock' = clock /\ cache' = NoRecord /\ rc'.ready = FALSE /\ rc'.fetched = Nothing
      /\ jobs' = [t \in Tasks |-> Idle]
      /\ past'.newest = past.newest /\ past'.disorder = past.disorder /\ past'.failed = past.failed
  BY DEF Restart, Typed
<1>2. disk \in Copies /\ Fits(disk.signals)
  BY DEF Restart, Typed
<1>3. \/ disk' = disk /\ record' = disk
      \/ disk' = Torn /\ record' = NoRecord
  BY DEF Restart
<1>4. Typed'
  <2>1. rc' \in [fetched : [config : Versions, etag : {None} \cup Versions], interval : Nat, ready : BOOLEAN]
    <3>1. Nothing \in [config : Versions, etag : {None} \cup Versions]
      BY DEF Nothing, Versions, ConstantsOK
    <3> QED BY <3>1 DEF Restart
  <2>2. past'.faults \in 0 .. MaxFaults
    BY DEF Restart, Typed, ConstantsOK
  <2>3. past' \in [calls : 0 .. MaxCalls, faults : 0 .. MaxFaults, disorder : BOOLEAN, failed : BOOLEAN, newest : Versions]
    BY <2>2 DEF Restart, Typed
  <2>4. cache' \in Copies /\ record' \in Copies /\ disk' \in Copies \cup {Torn}
    BY <1>1, <1>2, <1>3, EmptyRecord
  <2>5. Fits(cache'.signals) /\ Fits(record'.signals) /\ Fits(disk'.signals)
    BY <1>1, <1>2, <1>3, EmptyRecord
  <2>6. DOMAIN jobs' = Tasks
    BY <1>1
  <2>7. server' \in Versions /\ clock' \in 0 .. MaxTime
    BY <1>1 DEF Typed
  <2> QED BY <2>1, <2>3, <2>4, <2>5, <2>6, <2>7 DEF Typed
<1>5. NotNewer'
  <2>1. rc'.fetched.etag = None
    BY <1>1 DEF Nothing
  <2>2. cache'.config <= past'.newest /\ record'.config <= past'.newest /\ disk'.config <= past'.newest
    BY <1>1, <1>3, EmptyRecord, Numbers DEF NotNewer
  <2> QED BY <2>1, <2>2 DEF NotNewer
<1>6. EtagNotNewer'
  <2> SUFFICES ASSUME ~past'.disorder PROVE Ordered(cache') /\ Ordered(record') /\ Ordered(disk')
    BY DEF EtagNotNewer, Ordered
  <2>1. Ordered(disk)
    BY <1>1 DEF EtagNotNewer, Ordered
  <2> QED BY <1>1, <1>3, <2>1, EmptyRecord
<1>7. Stages'
  <2> SUFFICES ASSUME NEW u \in Tasks PROVE StageOf(jobs[u])'
    BY DEF Stages
  <2>1. jobs'[u] = Idle
    BY <1>1
  <2> QED BY <2>1, IdleFields DEF StageOf
<1>8. Agreement'
  BY <1>1, <1>3 DEF Agreement
<1> QED BY <1>4, <1>5, <1>6, <1>7, <1>8

-----------------------------------------------------------------------------
\* How a call begins.
LEMMA CallBegins ==
  ASSUME ConstantsOK, IInv, NEW t \in Tasks, NEW j, call(t), ensure_initialized,
         jobs' = [jobs EXCEPT ![t] = j], UNCHANGED <<server, clock, record, disk>>
  PROVE  /\ Typed'
         /\ rc'.ready /\ rc'.fetched = rc.fetched /\ rc'.interval = rc.interval
         /\ cache' = IF rc.ready THEN cache ELSE record
         /\ past'.newest = past.newest /\ past'.disorder = past.disorder /\ past'.failed = past.failed
         /\ disk # Torn /\ jobs[t].pc = "idle" /\ jobs[t].mid = FALSE /\ DOMAIN jobs[t] = DOMAIN Idle
<1> USE DEF IInv
<1>1. rc'.ready /\ rc'.fetched = rc.fetched /\ rc'.interval = rc.interval
  BY DEF ensure_initialized, Typed
<1>2. rc' \in [fetched : [config : Versions, etag : {None} \cup Versions], interval : Nat, ready : BOOLEAN]
  BY DEF ensure_initialized, Typed
<1>3. cache' = IF rc.ready THEN cache ELSE record
  BY DEF ensure_initialized
<1>4. past'.calls \in 0 .. MaxCalls
  BY DEF call, Typed, ConstantsOK
<1>5. past' \in [calls : 0 .. MaxCalls, faults : 0 .. MaxFaults, disorder : BOOLEAN, failed : BOOLEAN, newest : Versions]
  BY <1>4 DEF call, Typed
<1>6. past'.newest = past.newest /\ past'.disorder = past.disorder /\ past'.failed = past.failed
  BY DEF call, Typed
<1>7. disk # Torn /\ jobs[t].pc = "idle"
  BY DEF call, At
<1>8. jobs[t].mid = FALSE /\ DOMAIN jobs[t] = DOMAIN Idle
  BY <1>7 DEF Stages, StageOf
<1>9. cache' \in Copies /\ Fits(cache'.signals)
  BY <1>3 DEF Typed
<1>10. DOMAIN jobs' = Tasks
  BY DEF Typed
<1>11. Typed'
  BY <1>2, <1>5, <1>9, <1>10 DEF Typed
<1> QED BY <1>1, <1>3, <1>6, <1>7, <1>8, <1>11

\* A call gives its task a job, whose stage is all there is to show.
LEMMA CallStep ==
  ASSUME ConstantsOK, IInv, NEW t \in Tasks, NEW j, call(t), ensure_initialized,
         jobs' = [jobs EXCEPT ![t] = j], UNCHANGED <<server, clock, record, disk>>,
         StageOf(j)', ~j.mid
  PROVE  IInv'
<1>1. /\ Typed' /\ rc'.ready /\ rc'.fetched = rc.fetched /\ cache' = IF rc.ready THEN cache ELSE record
      /\ past'.newest = past.newest /\ past'.disorder = past.disorder /\ past'.failed = past.failed
      /\ ~jobs[t].mid
  BY CallBegins
<1>2. past.newest <= past'.newest
  BY <1>1, Numbers DEF IInv
<1>3. rc'.fetched.etag # None =>
        /\ rc'.fetched.etag = rc'.fetched.config /\ rc'.fetched.config <= past'.newest
        /\ ~past'.disorder => rc'.fetched.config = past'.newest
  BY <1>1 DEF IInv, NotNewer
<1> QED BY <1>1, <1>2, <1>3, JobStep

\* The job of a task that has settings to store.
Busy(k, writes) == [k EXCEPT !.pc = "writing", !.todo = writes]

LEMMA SetsJob ==
  ASSUME NEW k, DOMAIN k = DOMAIN Idle, NEW writes
  PROVE  /\ DOMAIN Busy(k, writes) = DOMAIN Idle /\ Busy(k, writes).pc = "writing"
         /\ Busy(k, writes).todo = writes /\ Busy(k, writes).mid = k.mid
  BY IdleFields DEF Busy

\* fetch.
LEMMA FetchStep ==
  ASSUME ConstantsOK, IInv, NEW t \in Tasks, NEW both \in BOOLEAN, Fetch(t, both)
  PROVE  IInv'
<1>1. call(t) /\ ensure_initialized /\ UNCHANGED <<server, clock, record, disk>>
  BY DEF Fetch
<1>2. PICK j : /\ jobs' = [jobs EXCEPT ![t] = j]
               /\ \/ j = Busy(jobs[t], <<Put("status", "throttle")>>)
                  \/ j = [Idle EXCEPT !.pc = "fetching", !.now = clock, !.asked = server, !.etag = cache'.etag, !.both = both]
  BY Lists DEF Fetch, sets, goes, Put, Busy
<1>3. Typed' /\ rc'.ready /\ disk' # Torn /\ jobs[t].mid = FALSE /\ DOMAIN jobs[t] = DOMAIN Idle
  BY <1>1, <1>2, CallBegins
<1>4. CASE j = Busy(jobs[t], <<Put("status", "throttle")>>)
  <2>1. DOMAIN j = DOMAIN Idle /\ j.pc = "writing" /\ j.todo = <<Put("status", "throttle")>> /\ j.mid = FALSE
    BY <1>3, <1>4, SetsJob
  <2>2. Noting(j)'
    BY <2>1 DEF Noting, Statuses
  <2>3. StageOf(j)'
    BY <1>3, <2>1, <2>2 DEF StageOf
  <2> QED BY <1>1, <1>2, <2>1, <2>3, CallStep
<1>5. CASE j = [Idle EXCEPT !.pc = "fetching", !.now = clock, !.asked = server, !.etag = cache'.etag, !.both = both]
  <2>1. /\ DOMAIN j = DOMAIN Idle /\ j.pc = "fetching" /\ j.todo = <<>> /\ j.mid = FALSE
        /\ j.now = clock /\ j.asked = server
    BY <1>5 DEF Idle
  <2>2. j.now \in 0 .. MaxTime /\ j.asked \in Versions
    BY <2>1 DEF IInv, Typed
  <2>3. StageOf(j)'
    BY <1>3, <2>1, <2>2 DEF StageOf
  <2> QED BY <1>1, <1>2, <2>1, <2>3, CallStep
<1> QED BY <1>2, <1>4, <1>5

\* set_custom_signals.
LEMMA SignalsStep ==
  ASSUME ConstantsOK, IInv, NEW t \in Tasks, NEW add, NEW remove, SetCustomSignals(t, add, remove)
  PROVE  IInv'
<1>1. call(t) /\ ensure_initialized /\ UNCHANGED <<server, clock, record, disk>>
  BY DEF SetCustomSignals
<1>2. PICK j : /\ jobs' = [jobs EXCEPT ![t] = j]
               /\ j = Busy(jobs[t], <<Put("signals", <<add, remove>>)>>)
  BY Lists DEF SetCustomSignals, sets, goes, Put, Busy
<1>3. Typed' /\ rc'.ready /\ disk' # Torn /\ jobs[t].mid = FALSE /\ DOMAIN jobs[t] = DOMAIN Idle
  BY <1>1, <1>2, CallBegins
<1>4. DOMAIN j = DOMAIN Idle /\ j.pc = "writing" /\ j.todo = <<Put("signals", <<add, remove>>)>> /\ j.mid = FALSE
  BY <1>2, <1>3, SetsJob
<1>5. add \in SUBSET SignalKeys /\ remove \in SUBSET SignalKeys
  BY DEF SetCustomSignals, Valid
<1>6. Noting(j)'
  BY <1>4, <1>5 DEF Noting
<1>7. StageOf(j)'
  BY <1>3, <1>4, <1>6 DEF StageOf
<1> QED BY <1>1, <1>2, <1>4, <1>7, CallStep

\* What activate has to store is of a template no older than the stored one.
LEMMA ActivatingStage ==
  ASSUME ConstantsOK, IInv, NEW t \in Tasks, activates(t), Typed',
         jobs[t].pc # "writing", disk' # Torn, rc'.ready, rc'.fetched = rc.fetched,
         cache' = IF rc.ready THEN cache ELSE record, record' = record,
         past'.newest = past.newest, past'.disorder = past.disorder
  PROVE  \E j : jobs' = [jobs EXCEPT ![t] = j] /\ StageOf(j)' /\ ~j.mid
<1> DEFINE v == rc.fetched.config
           writes == <<Put("config", v), Put("etag", v), Put("version", v)>>
<1>1. PICK j : /\ jobs' = [jobs EXCEPT ![t] = j]
               /\ j = Idle \/ (rc.fetched.etag # None /\ j = Busy(jobs[t], activated(rc.fetched)))
  BY DEF activates, sets, goes, Busy
<1>2. CASE j = Idle
  <2>1. StageOf(j)'
    BY <1>2, IdleFields DEF StageOf
  <2> QED BY <1>1, <1>2, <2>1, IdleFields
<1>3. CASE rc.fetched.etag # None /\ j = Busy(jobs[t], activated(rc.fetched))
  <2>1. rc.fetched.etag = v /\ v <= past.newest /\ (~past.disorder => v = past.newest)
    BY <1>3 DEF IInv, NotNewer
  <2>2. activated(rc.fetched) = writes
    BY <2>1 DEF activated, Put
  <2>3. DOMAIN jobs[t] = DOMAIN Idle /\ jobs[t].mid = FALSE
    BY DEF IInv, Stages, StageOf
  <2>4. DOMAIN j = DOMAIN Idle /\ j.pc = "writing" /\ j.todo = writes /\ j.mid = FALSE
    BY <1>3, <2>2, <2>3, SetsJob
  <2>5. v \in Versions
    BY DEF IInv, Typed
  <2>6. ~past.disorder => cache'.etag <= v /\ record'.etag <= v
    <3> SUFFICES ASSUME ~past.disorder PROVE cache.etag <= v /\ record.etag <= v
      OBVIOUS
    <3>1. cache.etag <= cache.config /\ record.etag <= record.config
      BY DEF IInv, EtagNotNewer
    <3>2. cache.config <= past.newest /\ record.config <= past.newest
      BY DEF IInv, NotNewer
    <3> HIDE DEF v
    <3> QED BY <2>1, <3>1, <3>2, Numbers DEF IInv
  <2>7. PICK x : x = v
    OBVIOUS
  <2>8. Activating(j, x)'
    BY <2>4, <2>6, <2>7 DEF Activating
  <2>9. StageOf(j)'
    BY <2>1, <2>4, <2>5, <2>7, <2>8 DEF StageOf
  <2> QED BY <1>1, <2>4, <2>9
<1> QED BY <1>1, <1>2, <1>3

\* activate, and the second half of fetch_and_activate.
LEMMA ActivateStep ==
  ASSUME ConstantsOK, IInv, NEW t \in Tasks, Activate(t)
  PROVE  IInv'
<1>1. call(t) /\ ensure_initialized /\ UNCHANGED <<server, clock, record, disk>> /\ activates(t)
  BY DEF Activate
<1>2. \E k : jobs' = [jobs EXCEPT ![t] = k]
  BY <1>1 DEF activates, sets, goes
<1>3. /\ Typed' /\ rc'.ready /\ rc'.fetched = rc.fetched /\ cache' = IF rc.ready THEN cache ELSE record
      /\ past'.newest = past.newest /\ past'.disorder = past.disorder
      /\ disk' # Torn /\ jobs[t].pc # "writing"
  BY <1>1, <1>2, CallBegins
<1>4. PICK j : jobs' = [jobs EXCEPT ![t] = j] /\ StageOf(j)' /\ ~j.mid
  BY <1>1, <1>3, ActivatingStage
<1> QED BY <1>1, <1>4, CallStep

LEMMA FetchedActivatesStep ==
  ASSUME ConstantsOK, IInv, NEW t \in Tasks, FetchedActivates(t)
  PROVE  IInv'
<1>1. jobs[t].pc = "fetched" /\ UNCHANGED <<rc, cache, server, clock, record, disk, past>> /\ activates(t)
  BY DEF FetchedActivates, At
<1>2. DOMAIN jobs' = Tasks
  BY <1>1 DEF activates, sets, goes, IInv, Typed
<1>3. Typed'
  BY <1>1, <1>2 DEF IInv, Typed
<1>4. rc.ready /\ disk # Torn /\ ~jobs[t].mid
  BY <1>1 DEF IInv, Stages, StageOf
<1>5. PICK j : jobs' = [jobs EXCEPT ![t] = j] /\ StageOf(j)' /\ ~j.mid
  BY <1>1, <1>3, <1>4, ActivatingStage
<1>6. past.newest <= past'.newest
  BY <1>1, Numbers DEF IInv
<1>7. rc'.fetched.etag # None =>
        /\ rc'.fetched.etag = rc'.fetched.config /\ rc'.fetched.config <= past'.newest
        /\ ~past'.disorder => rc'.fetched.config = past'.newest
  BY <1>1 DEF IInv, NotNewer
<1> QED BY <1>1, <1>3, <1>4, <1>5, <1>6, <1>7, JobStep

\* The signals that are too many are refused.
LEMMA RefusesStep ==
  ASSUME ConstantsOK, IInv, NEW t \in Tasks, StorageRefuses(t)
  PROVE  IInv'
<1>1. /\ jobs[t].pc = "writing" /\ ~jobs[t].mid /\ UNCHANGED <<rc, cache, server, clock, record, disk, past>>
      /\ jobs' = [jobs EXCEPT ![t] = Idle]
  BY DEF StorageRefuses, At, goes
<1>2. Typed'
  BY <1>1 DEF IInv, Typed
<1>3. rc.ready
  BY <1>1 DEF IInv, Stages, StageOf
<1>4. StageOf(Idle)' /\ ~Idle.mid
  BY IdleFields DEF StageOf
<1>5. past.newest <= past'.newest
  BY <1>1, Numbers DEF IInv
<1>6. rc'.fetched.etag # None =>
        /\ rc'.fetched.etag = rc'.fetched.config /\ rc'.fetched.config <= past'.newest
        /\ ~past'.disorder => rc'.fetched.config = past'.newest
  BY <1>1 DEF IInv, NotNewer
<1> QED BY <1>1, <1>2, <1>3, <1>4, <1>5, <1>6, JobStep

\* The answer to a fetch, of any version the backend had meanwhile.
LEMMA FetchReturnsStep ==
  ASSUME ConstantsOK, IInv, NEW t \in Tasks, FetchReturns(t)
  PROVE  IInv'
<1> DEFINE done == <<Put("status", "success"), Put("time", jobs[t].now)>>
<1>1. jobs[t].pc = "fetching" /\ UNCHANGED <<server, clock, cache, record, disk>>
  BY DEF FetchReturns, At
<1>2. /\ rc.ready /\ disk # Torn /\ jobs[t].mid = FALSE /\ DOMAIN jobs[t] = DOMAIN Idle
      /\ jobs[t].now \in 0 .. MaxTime /\ jobs[t].asked \in Versions
  BY <1>1 DEF IInv, Stages, StageOf
<1>3. PICK v, answer :
        /\ v \in jobs[t].asked .. server
        /\ rc' = CASE answer = "template" -> [rc EXCEPT !.fetched = [config |-> v, etag |-> v]]
                   [] answer = "noTemplate" -> [rc EXCEPT !.fetched = Nothing]
                   [] OTHER -> rc
        /\ \/ jobs' = [jobs EXCEPT ![t] = Busy(Idle, <<Put("status", "failure")>>)]
           \/ jobs' = [jobs EXCEPT ![t] = Busy(jobs[t], done)]
        /\ past' = IF answer \in {"template", "noTemplate"}
                   THEN [past EXCEPT !.disorder = @ \/ v < past.newest, !.newest = IF v > @ THEN v ELSE @] ELSE past
  BY Lists DEF FetchReturns, sets, goes, Busy, Put
<1>4. v \in Versions /\ v \in Nat
  <2>1. server \in Versions
    BY DEF IInv, Typed
  <2> QED BY <1>2, <1>3, <2>1 DEF Versions, ConstantsOK
<1>5. past'.newest \in Versions /\ past.newest <= past'.newest
  BY <1>3, <1>4, Numbers DEF IInv, Typed
<1>6. past \in [calls : 0 .. MaxCalls, faults : 0 .. MaxFaults, disorder : BOOLEAN, failed : BOOLEAN, newest : Versions]
  BY DEF IInv, Typed
<1>7. past' \in [calls : 0 .. MaxCalls, faults : 0 .. MaxFaults, disorder : BOOLEAN, failed : BOOLEAN, newest : Versions]
  BY <1>3, <1>4, <1>6
<1>8. (past.disorder => past'.disorder) /\ (past.failed => past'.failed)
  BY <1>3, <1>6
<1>9. rc \in [fetched : [config : Versions, etag : {None} \cup Versions], interval : Nat, ready : BOOLEAN]
  BY DEF IInv, Typed
<1>10. rc' \in [fetched : [config : Versions, etag : {None} \cup Versions], interval : Nat, ready : BOOLEAN] /\ rc'.ready
  <2>1. Nothing \in [config : Versions, etag : {None} \cup Versions]
    BY DEF Nothing, Versions, ConstantsOK
  <2>2. [config |-> v, etag |-> v] \in [config : Versions, etag : {None} \cup Versions]
    BY <1>4
  <2>3. CASE answer = "template"
    BY <1>2, <1>3, <1>9, <2>2, <2>3
  <2>4. CASE answer = "noTemplate"
    BY <1>2, <1>3, <1>9, <2>1, <2>4
  <2>5. CASE answer \notin {"template", "noTemplate"}
    BY <1>2, <1>3, <1>9, <2>5
  <2> QED BY <2>3, <2>4, <2>5
<1>11. rc'.fetched.etag # None =>
         /\ rc'.fetched.etag = rc'.fetched.config /\ rc'.fetched.config <= past'.newest
         /\ ~past'.disorder => rc'.fetched.config = past'.newest
  <2>1. CASE answer = "template"
    <3>1. rc'.fetched.config = v /\ rc'.fetched.etag = v
      BY <1>3, <1>9, <2>1
    <3>2. past'.newest = IF v > past.newest THEN v ELSE past.newest
      BY <1>3, <1>6, <2>1
    <3>3. ~past'.disorder => ~(v < past.newest)
      BY <1>3, <1>6, <2>1
    <3> QED BY <1>4, <3>1, <3>2, <3>3, Numbers DEF IInv
  <2>2. CASE answer = "noTemplate"
    <3>1. rc'.fetched = Nothing
      BY <1>3, <1>9, <2>2
    <3> QED BY <3>1 DEF Nothing
  <2>3. CASE answer \notin {"template", "noTemplate"}
    <3>1. rc' = rc /\ past' = past
      BY <1>3, <2>3
    <3> QED BY <3>1 DEF IInv, NotNewer
  <2> QED BY <2>1, <2>2, <2>3
<1>12. DOMAIN jobs' = Tasks
  BY <1>3 DEF IInv, Typed
<1>13. Typed'
  BY <1>1, <1>7, <1>10, <1>12 DEF IInv, Typed
<1>14. PICK j : /\ jobs' = [jobs EXCEPT ![t] = j]
                /\ \/ j = Busy(Idle, <<Put("status", "failure")>>)
                   \/ j = Busy(jobs[t], done)
  BY <1>3
<1>15. DOMAIN j = DOMAIN Idle /\ j.pc = "writing" /\ j.mid = FALSE /\ j.todo \in {<<Put("status", "failure")>>, done}
  <2>1. CASE j = Busy(Idle, <<Put("status", "failure")>>)
    BY <2>1, SetsJob, IdleFields
  <2>2. CASE j = Busy(jobs[t], done)
    <3> HIDE DEF done
    <3> QED BY <1>2, <2>2, SetsJob
  <2> QED BY <1>14, <2>1, <2>2
<1>16. Noting(j)'
  <2>1. CASE j.todo = <<Put("status", "failure")>>
    BY <2>1 DEF Noting, Statuses
  <2>2. CASE j.todo = done
    <3>1. PICK n \in 0 .. MaxTime : n = jobs[t].now
      BY <1>2
    <3> QED BY <2>2, <3>1 DEF Noting
  <2> QED BY <1>15, <2>1, <2>2
<1>17. StageOf(j)'
  BY <1>1, <1>2, <1>10, <1>15, <1>16 DEF StageOf
<1> QED BY <1>1, <1>2, <1>5, <1>8, <1>10, <1>11, <1>13, <1>14, <1>15, <1>17, JobStep

-----------------------------------------------------------------------------
\* The job of a task that has stored a setting and not cached it.
Stored(k, w) == [k EXCEPT !.mid = TRUE, !.todo = <<Put(Head(k.todo).field, w)>> \o Tail(k.todo)]

LEMMA StoredJob ==
  ASSUME NEW k, DOMAIN k = DOMAIN Idle, NEW w
  PROVE  /\ DOMAIN Stored(k, w) = DOMAIN Idle /\ Stored(k, w).pc = k.pc /\ Stored(k, w).mid = TRUE
         /\ Stored(k, w).todo = <<Put(Head(k.todo).field, w)>> \o Tail(k.todo)
  BY IdleFields DEF Stored

\* Storing a setting leaves it at the head of the list.
LEMMA SameTodo ==
  ASSUME NEW todo, NEW f, NEW x,
         todo = <<Put(f, x)>> \/ (\E y : todo = <<Put(f, x), y>>) \/ (\E y, z : todo = <<Put(f, x), y, z>>)
  PROVE  Head(todo).field = f /\ Head(todo).value = x /\ <<Put(f, x)>> \o Tail(todo) = todo
<1>1. Put(f, x).field = f /\ Put(f, x).value = x
  BY DEF Put
<1>2. CASE todo = <<Put(f, x)>>
  BY <1>1, <1>2, Lists
<1>3. ASSUME NEW y, todo = <<Put(f, x), y>>
      PROVE  Head(todo) = Put(f, x) /\ <<Put(f, x)>> \o Tail(todo) = todo
  <2>1. PICK a : a = Put(f, x)
    OBVIOUS
  <2>2. Head(todo) = a /\ Tail(todo) = <<y>>
    BY <1>3, <2>1, Lists
  <2> QED BY <1>3, <2>1, <2>2, OneAndOne
<1>4. ASSUME NEW y, NEW z, todo = <<Put(f, x), y, z>>
      PROVE  Head(todo) = Put(f, x) /\ <<Put(f, x)>> \o Tail(todo) = todo
  <2>1. PICK a : a = Put(f, x)
    OBVIOUS
  <2>2. Head(todo) = a /\ Tail(todo) = <<y, z>>
    BY <1>4, <2>1, Lists
  <2> QED BY <1>4, <2>1, <2>2, OneAndTwo
<1> QED BY <1>1, <1>2, <1>3, <1>4

\* The head of a list that begins with a setting.
LEMMA TodoHead ==
  ASSUME ConstantsOK, IInv, NEW t \in Tasks, jobs[t].pc = "writing", NEW x
  PROVE  Head(<<Put(Head(jobs[t].todo).field, x)>> \o Tail(jobs[t].todo)) = Put(Head(jobs[t].todo).field, x)
<1> DEFINE k == jobs[t]
<1>1. PICK a : a = Put(Head(k.todo).field, x)
  OBVIOUS
<1>2. Noting(k) \/ \E v \in Versions : v <= past.newest /\ Activating(k, v)
  BY DEF IInv, Stages, StageOf
<1>3. \/ \E b : k.todo = <<b>>
      \/ \E b, c : k.todo = <<b, c>>
      \/ \E b, c, d : k.todo = <<b, c, d>>
  BY <1>2 DEF Noting, Activating
<1>4. Tail(k.todo) = <<>> \/ (\E c : Tail(k.todo) = <<c>>) \/ (\E c, d : Tail(k.todo) = <<c, d>>)
  <2>1. ASSUME NEW b, k.todo = <<b>> PROVE Tail(k.todo) = <<>>
    BY <2>1, Lists
  <2>2. ASSUME NEW b, NEW c, k.todo = <<b, c>> PROVE Tail(k.todo) = <<c>>
    BY <2>2, Lists
  <2>3. ASSUME NEW b, NEW c, NEW d, k.todo = <<b, c, d>> PROVE Tail(k.todo) = <<c, d>>
    BY <2>3, Lists
  <2> QED BY <1>3, <2>1, <2>2, <2>3
<1>5. Head(<<a>> \o Tail(k.todo)) = a
  BY <1>4, Lists, OneAndOne, OneAndTwo
<1> QED BY <1>1, <1>5

\* The storage step leaves its task where it was, with the setting stored.
LEMMA StoredStage ==
  ASSUME ConstantsOK, IInv, NEW t \in Tasks, persist(t), Typed', rc' = rc, disk' # Torn, cache' = cache,
         past'.newest = past.newest, past.disorder => past'.disorder,
         NEW j, j = Stored(jobs[t], Value(t))
  PROVE  StageOf(j)'
<1> DEFINE k == jobs[t]
<1>1. At(t, "writing") /\ k.pc = "writing" /\ ~k.mid /\ ~Refused(t)
  BY DEF persist, At
<1>2. rc.ready /\ disk # Torn /\ DOMAIN k = DOMAIN Idle
  BY <1>1 DEF IInv, Stages, StageOf
<1>3. DOMAIN j = DOMAIN Idle /\ j.pc = "writing" /\ j.mid = TRUE /\ j.todo = <<Put(Head(k.todo).field, Value(t))>> \o Tail(k.todo)
  BY <1>1, <1>2, StoredJob
<1>4. ASSUME NEW f, NEW x, f # "signals",
             k.todo = <<Put(f, x)>> \/ (\E y : k.todo = <<Put(f, x), y>>) \/ (\E y, z : k.todo = <<Put(f, x), y, z>>)
      PROVE  j.todo = k.todo
  <2>1. Head(k.todo).field = f /\ Head(k.todo).value = x /\ <<Put(f, x)>> \o Tail(k.todo) = k.todo
    BY <1>4, SameTodo
  <2>2. Value(t) = x
    BY <1>4, <2>1 DEF Value
  <2> QED BY <1>3, <2>1, <2>2
<1>5. Noting(k) \/ \E v \in Versions : v <= past.newest /\ Activating(k, v)
  BY <1>1 DEF IInv, Stages, StageOf
<1>6. CASE Noting(k)
  <2>1. ASSUME NEW a, NEW b, k.todo = <<Put("signals", <<a, b>>)>>
        PROVE  Noting(j)'
    <3>1. Head(k.todo).field = "signals" /\ Tail(k.todo) = <<>>
      BY <2>1, Lists DEF Put
    <3>2. Good("signals", Value(t))
      BY <1>1, <3>1, HeadIsGood
    <3>3. Value(t) \in SUBSET SignalKeys /\ Fits(Value(t))
      BY <3>2 DEF Good
    <3>4. j.todo = <<Put("signals", Value(t))>>
      BY <1>3, <3>1, Lists
    <3>5. PICK w \in SUBSET SignalKeys : w = Value(t)
      BY <3>3
    <3> QED BY <1>3, <3>3, <3>4, <3>5 DEF Noting
  <2>2. ASSUME NEW s \in Statuses, k.todo = <<Put("status", s)>>
        PROVE  Noting(j)'
    BY <1>4, <2>2 DEF Noting
  <2>3. ASSUME NEW n \in 0 .. MaxTime, k.todo = <<Put("status", "success"), Put("time", n)>>
        PROVE  Noting(j)'
    BY <1>4, <2>3 DEF Noting
  <2>4. ASSUME NEW n \in 0 .. MaxTime, k.todo = <<Put("time", n)>>
        PROVE  Noting(j)'
    BY <1>4, <2>4 DEF Noting
  <2>5. Noting(j)'
    BY <1>1, <1>6, <2>1, <2>2, <2>3, <2>4 DEF Noting
  <2> QED BY <1>2, <1>3, <2>5 DEF StageOf
<1>7. ASSUME NEW v \in Versions, v <= past.newest, Activating(k, v)
      PROVE  StageOf(j)'
  <2>1. j.todo = k.todo
    BY <1>4, <1>7 DEF Activating
  <2>2. /\ record' = With(record, Head(k.todo).field, Value(t))
        /\ Head(k.todo).field # "signals" => Value(t) = Head(k.todo).value
        /\ Good(Head(k.todo).field, Value(t))
    BY <1>1, PersistStep, HeadIsGood
  <2>3. PICK f, w, r : f = Head(k.todo).field /\ w = Value(t) /\ r = record
    OBVIOUS
  <2>4. r \in Copies /\ Fits(r.signals)
    BY <2>3 DEF IInv, Typed
  <2>5. Changed(record', r, f, w)
    BY <2>2, <2>3, <2>4, PutKeeps
  <2>6. Activating(j, v)'
    <3>1. CASE k.todo = <<Put("config", v), Put("etag", v), Put("version", v)>>
      <4>1. f = "config" /\ w = v
        BY <2>2, <2>3, <3>1, Lists DEF Put
      <4>2. record'.config = v /\ record'.etag = record.etag
        BY <2>3, <2>5, <4>1 DEF Changed
      <4>3. ~past.disorder => cache.etag <= v /\ record.etag <= v
        BY <1>7, <3>1, Lists DEF Activating
      <4> QED BY <2>1, <3>1, <4>2, <4>3 DEF Activating
    <3>2. CASE k.todo = <<Put("etag", v), Put("version", v)>>
      <4>1. f = "etag" /\ w = v
        BY <2>2, <2>3, <3>2, Lists DEF Put
      <4>2. record'.config = record.config /\ record'.etag = v
        BY <2>3, <2>5, <4>1 DEF Changed
      <4>3. ~past.disorder => cache.config = v /\ record.config = v
        BY <1>7, <3>2, Lists DEF Activating
      <4> QED BY <2>1, <3>2, <4>2, <4>3 DEF Activating
    <3>3. CASE k.todo = <<Put("version", v)>>
      <4>1. f = "version" /\ w = v
        BY <2>2, <2>3, <3>3, Lists DEF Put
      <4>2. record'.config = record.config /\ record'.etag = record.etag
        BY <2>3, <2>5, <4>1 DEF Changed
      <4>3. ~past.disorder => cache.config = v /\ record.config = v /\ cache.etag = v /\ record.etag = v
        BY <1>7, <3>3, Lists DEF Activating
      <4> QED BY <2>1, <3>3, <4>2, <4>3 DEF Activating
    <3> QED BY <1>7, <3>1, <3>2, <3>3 DEF Activating
  <2> QED BY <1>2, <1>3, <1>7, <2>6 DEF StageOf
<1> QED BY <1>5, <1>6, <1>7

\* A set reaches the storage and the file.
LEMMA StorageSetsStep ==
  ASSUME ConstantsOK, IInv, NEW t \in Tasks, StorageSets(t)
  PROVE  IInv'
<1>1. /\ persist(t) /\ disk' = record' /\ UNCHANGED <<server, clock, rc, cache>>
      /\ jobs' = [jobs EXCEPT ![t] = Stored(jobs[t], Value(t))]
      /\ past' = [past EXCEPT !.disorder = @ \/ Overlaps(t)]
  BY DEF StorageSets, goes, Stored, Put
<1>2. /\ record' \in Copies /\ Fits(record'.signals) /\ record'.config <= past.newest
      /\ ~past.disorder => Ordered(record')
      /\ record' = With(record, Head(jobs[t].todo).field, Value(t))
      /\ rc.ready /\ disk # Torn
  BY <1>1, PersistStep
<1>3. past \in [calls : 0 .. MaxCalls, faults : 0 .. MaxFaults, disorder : BOOLEAN, failed : BOOLEAN, newest : Versions]
  BY DEF IInv, Typed
<1>4. /\ past'.disorder = (past.disorder \/ Overlaps(t))
      /\ past'.newest = past.newest /\ past'.failed = past.failed
      /\ past' \in [calls : 0 .. MaxCalls, faults : 0 .. MaxFaults, disorder : BOOLEAN, failed : BOOLEAN, newest : Versions]
  BY <1>1, <1>3
<1>5. DOMAIN jobs' = Tasks
  BY <1>1 DEF IInv, Typed
<1>6. Typed'
  BY <1>1, <1>2, <1>4, <1>5 DEF IInv, Typed
<1>7. disk' # Torn
  BY <1>1, <1>2, EmptyRecord
<1>8. PICK j : j = Stored(jobs[t], Value(t))
  OBVIOUS
<1>9. StageOf(j)'
  BY <1>1, <1>4, <1>6, <1>7, <1>8, StoredStage
<1>10. /\ Stages'
       /\ jobs'[t] = j /\ \A u \in Tasks : u # t => jobs'[u] = jobs[u]
       /\ ~past'.disorder => ~past.disorder /\ \A u \in Tasks : u # t => ~jobs[u].mid
  BY <1>1, <1>4, <1>6, <1>7, <1>8, <1>9, OthersStay
<1>11. NotNewer'
  <2>1. cache'.config <= past'.newest /\ record'.config <= past'.newest /\ disk'.config <= past'.newest
    BY <1>1, <1>2, <1>4 DEF IInv, NotNewer
  <2>2. rc'.fetched.etag # None =>
          /\ rc'.fetched.etag = rc'.fetched.config /\ rc'.fetched.config <= past'.newest
          /\ ~past'.disorder => rc'.fetched.config = past'.newest
    BY <1>1, <1>4, <1>10 DEF IInv, NotNewer
  <2> QED BY <2>1, <2>2 DEF NotNewer
<1>12. EtagNotNewer'
  <2> SUFFICES ASSUME ~past'.disorder PROVE Ordered(cache') /\ Ordered(record') /\ Ordered(disk')
    BY DEF EtagNotNewer, Ordered
  <2>1. Ordered(cache)
    BY <1>10 DEF IInv, EtagNotNewer, Ordered
  <2> QED BY <1>1, <1>2, <1>10, <2>1
<1>13. Agreement'
  <2> SUFFICES ASSUME ~past'.disorder, ~past'.failed
               PROVE  /\ record' = disk'
                      /\ \E x \in Tasks : /\ jobs'[x].mid /\ \A w \in Tasks \ {x} : ~jobs'[w].mid
                                          /\ record' = [cache' EXCEPT ![Head(jobs'[x].todo).field] = Head(jobs'[x].todo).value]
    BY DEF Agreement
  <2>1. ~jobs[t].mid /\ \A u \in Tasks : u # t => ~jobs[u].mid
    BY <1>1, <1>10 DEF persist
  <2>2. cache = record
    BY <1>2, <1>4, <1>10, <2>1 DEF IInv, Agreement
  <2>3. DOMAIN jobs[t] = DOMAIN Idle
    BY DEF IInv, Stages, StageOf
  <2>4. j.mid /\ j.todo = <<Put(Head(jobs[t].todo).field, Value(t))>> \o Tail(jobs[t].todo)
    BY <1>8, <2>3, StoredJob
  <2>5. Head(j.todo).field = Head(jobs[t].todo).field /\ Head(j.todo).value = Value(t)
    <3>1. jobs[t].pc = "writing"
      BY <1>1 DEF persist, At
    <3>2. PICK x : x = Value(t)
      OBVIOUS
    <3>3. Head(j.todo) = Put(Head(jobs[t].todo).field, x)
      BY <2>4, <3>1, <3>2, TodoHead
    <3> QED BY <3>2, <3>3 DEF Put
  <2>6. record' = [cache' EXCEPT ![Head(j.todo).field] = Head(j.todo).value]
    BY <1>1, <1>2, <2>2, <2>5 DEF With
  <2>7. \A w \in Tasks \ {t} : ~jobs'[w].mid
    BY <1>10, <2>1
  <2> QED BY <1>1, <1>10, <2>4, <2>6, <2>7
<1> QED BY <1>6, <1>10, <1>11, <1>12, <1>13 DEF IInv

\* The write fails: only the record has the setting.
LEMMA StorageFailsStep ==
  ASSUME ConstantsOK, IInv, NEW t \in Tasks, StorageFails(t)
  PROVE  IInv'
<1>1. /\ persist(t) /\ UNCHANGED <<server, clock, rc, cache, disk>> /\ past.faults < MaxFaults
      /\ jobs' = [jobs EXCEPT ![t] = Idle]
      /\ past' = [past EXCEPT !.faults = @ + 1, !.failed = TRUE, !.disorder = @ \/ Overlaps(t)]
  BY DEF StorageFails, goes
<1>2. /\ record' \in Copies /\ Fits(record'.signals) /\ record'.config <= past.newest
      /\ ~past.disorder => Ordered(record')
  BY <1>1, PersistStep
<1>3. past \in [calls : 0 .. MaxCalls, faults : 0 .. MaxFaults, disorder : BOOLEAN, failed : BOOLEAN, newest : Versions]
  BY DEF IInv, Typed
<1>4. /\ past'.disorder = (past.disorder \/ Overlaps(t))
      /\ past'.newest = past.newest /\ past'.failed
  BY <1>1, <1>3
<1>5. past.faults + 1 \in 0 .. MaxFaults
  BY <1>1, <1>3 DEF ConstantsOK
<1>6. past' \in [calls : 0 .. MaxCalls, faults : 0 .. MaxFaults, disorder : BOOLEAN, failed : BOOLEAN, newest : Versions]
  BY <1>1, <1>3, <1>5
<1>7. DOMAIN jobs' = Tasks
  BY <1>1 DEF IInv, Typed
<1>8. Typed'
  BY <1>1, <1>2, <1>6, <1>7 DEF IInv, Typed
<1>9. StageOf(Idle)'
  BY IdleFields DEF StageOf
<1>10. Stages' /\ (~past'.disorder => ~past.disorder)
  BY <1>1, <1>4, <1>8, <1>9, OthersStay
<1>11. NotNewer'
  <2>1. cache'.config <= past'.newest /\ record'.config <= past'.newest /\ disk'.config <= past'.newest
    BY <1>1, <1>2, <1>4 DEF IInv, NotNewer
  <2>2. rc'.fetched.etag # None =>
          /\ rc'.fetched.etag = rc'.fetched.config /\ rc'.fetched.config <= past'.newest
          /\ ~past'.disorder => rc'.fetched.config = past'.newest
    BY <1>1, <1>4, <1>10 DEF IInv, NotNewer
  <2> QED BY <2>1, <2>2 DEF NotNewer
<1>12. EtagNotNewer'
  <2> SUFFICES ASSUME ~past'.disorder PROVE Ordered(cache') /\ Ordered(record') /\ Ordered(disk')
    BY DEF EtagNotNewer, Ordered
  <2>1. Ordered(cache) /\ Ordered(disk)
    BY <1>10 DEF IInv, EtagNotNewer, Ordered
  <2> QED BY <1>1, <1>2, <1>10, <2>1
<1>13. Agreement'
  BY <1>4 DEF Agreement
<1> QED BY <1>8, <1>10, <1>11, <1>12, <1>13 DEF IInv

-----------------------------------------------------------------------------
\* The job of a task that has cached a setting and has others to store.
Further(k) == [k EXCEPT !.todo = Tail(@), !.mid = FALSE]

LEMMA FurtherJob ==
  ASSUME NEW k, DOMAIN k = DOMAIN Idle
  PROVE  /\ DOMAIN Further(k) = DOMAIN Idle /\ Further(k).pc = k.pc
         /\ Further(k).todo = Tail(k.todo) /\ Further(k).mid = FALSE
  BY IdleFields DEF Further

\* The cache has the setting: the task's next stage.
LEMMA CachedStage ==
  ASSUME ConstantsOK, IInv, NEW t \in Tasks, At(t, "writing"), jobs[t].mid,
         cache' = With(cache, Head(jobs[t].todo).field, Head(jobs[t].todo).value),
         Typed', UNCHANGED <<rc, record, disk>>, past'.newest = past.newest, past.disorder => past'.disorder,
         NEW j, \/ Len(jobs[t].todo) > 1 /\ j = Further(jobs[t])
                \/ j = [Idle EXCEPT !.pc = "fetched"]
                \/ j = Idle
  PROVE  StageOf(j)' /\ ~j.mid
<1> DEFINE k == jobs[t]
<1>1. rc.ready /\ disk # Torn /\ DOMAIN k = DOMAIN Idle /\ k.pc = "writing"
  BY DEF IInv, Stages, StageOf, At
<1>2. CASE j = Idle
  BY <1>2, IdleFields DEF StageOf
<1>3. CASE j = [Idle EXCEPT !.pc = "fetched"]
  <2>1. DOMAIN j = DOMAIN Idle /\ j.pc = "fetched" /\ j.todo = <<>> /\ j.mid = FALSE
    BY <1>3 DEF Idle
  <2> QED BY <1>1, <2>1 DEF StageOf
<1>4. CASE Len(k.todo) > 1 /\ j = Further(k)
  <2>1. DOMAIN j = DOMAIN Idle /\ j.pc = "writing" /\ j.todo = Tail(k.todo) /\ j.mid = FALSE
    BY <1>1, <1>4, FurtherJob
  <2>2. Noting(k) \/ \E v \in Versions : v <= past.newest /\ Activating(k, v)
    BY <1>1 DEF IInv, Stages, StageOf
  <2>3. ASSUME NEW b, k.todo = <<b>> PROVE FALSE
    BY <1>4, <2>3, Lists
  <2>4. CASE Noting(k)
    <3>1. PICK n \in 0 .. MaxTime : k.todo = <<Put("status", "success"), Put("time", n)>>
      BY <2>3, <2>4 DEF Noting
    <3>2. j.todo = <<Put("time", n)>>
      BY <2>1, <3>1, Lists
    <3>3. Noting(j)'
      BY <3>2 DEF Noting
    <3> QED BY <1>1, <2>1, <3>3 DEF StageOf
  <2>5. ASSUME NEW v \in Versions, v <= past.newest, Activating(k, v)
        PROVE  StageOf(j)'
    <3>1. PICK f, w, r : f = Head(k.todo).field /\ w = Head(k.todo).value /\ r = cache
      OBVIOUS
    <3>2. r \in Copies /\ Fits(r.signals) /\ Good(f, w)
      BY <3>1, HeadIsGood DEF IInv, Typed
    <3>3. Changed(cache', r, f, w)
      BY <3>1, <3>2, PutKeeps
    <3>4. CASE k.todo = <<Put("config", v), Put("etag", v), Put("version", v)>>
      <4>1. f = "config" /\ w = v /\ j.todo = <<Put("etag", v), Put("version", v)>>
        BY <2>1, <3>1, <3>4, Lists DEF Put
      <4>2. cache'.config = v
        BY <3>3, <4>1 DEF Changed
      <4>3. ~past.disorder => record.config = v
        BY <2>5, <3>4, Lists DEF Activating
      <4>4. Activating(j, v)'
        BY <2>1, <4>1, <4>2, <4>3 DEF Activating
      <4> QED BY <1>1, <2>1, <2>5, <4>4 DEF StageOf
    <3>5. CASE k.todo = <<Put("etag", v), Put("version", v)>>
      <4>1. f = "etag" /\ w = v /\ j.todo = <<Put("version", v)>>
        BY <2>1, <3>1, <3>5, Lists DEF Put
      <4>2. cache'.etag = v /\ cache'.config = cache.config
        BY <3>1, <3>3, <4>1 DEF Changed
      <4>3. ~past.disorder => cache.config = v /\ record.config = v /\ record.etag = v
        BY <2>5, <3>5, Lists DEF Activating
      <4>4. Activating(j, v)'
        BY <2>1, <4>1, <4>2, <4>3 DEF Activating
      <4> QED BY <1>1, <2>1, <2>5, <4>4 DEF StageOf
    <3> QED BY <2>3, <2>5, <3>4, <3>5 DEF Activating
  <2> QED BY <2>1, <2>2, <2>4, <2>5
<1> QED BY <1>2, <1>3, <1>4

\* The cached copy follows the storage.
LEMMA CacheSetsStep ==
  ASSUME ConstantsOK, IInv, NEW t \in Tasks, CacheSets(t)
  PROVE  IInv'
<1>1. /\ At(t, "writing") /\ jobs[t].mid /\ UNCHANGED <<server, clock, rc, record, disk>>
      /\ cache' = With(cache, Head(jobs[t].todo).field, Head(jobs[t].todo).value)
      /\ past' = [past EXCEPT !.disorder = @ \/ Overlaps(t)]
  BY DEF CacheSets, With
<1>2. PICK j : /\ jobs' = [jobs EXCEPT ![t] = j]
               /\ \/ Len(jobs[t].todo) > 1 /\ j = Further(jobs[t])
                  \/ j = [Idle EXCEPT !.pc = "fetched"]
                  \/ j = Idle
  BY DEF CacheSets, goes, Further
<1>3. /\ cache' \in Copies /\ Fits(cache'.signals) /\ cache'.config <= past.newest
      /\ ~past.disorder => Ordered(cache')
  <2>1. PICK r, w, s : /\ r = cache /\ w = Head(jobs[t].todo).value
                       /\ s = With(cache, Head(jobs[t].todo).field, Head(jobs[t].todo).value)
    OBVIOUS
  <2>2. r \in Copies /\ Fits(r.signals)
    BY <2>1 DEF IInv, Typed
  <2>3. s \in Copies /\ Fits(s.signals) /\ (~past.disorder => Ordered(s)) /\ s.config <= past.newest
    BY <1>1, <2>1, <2>2, SetFields
  <2> QED BY <1>1, <2>1, <2>3
<1>4. past \in [calls : 0 .. MaxCalls, faults : 0 .. MaxFaults, disorder : BOOLEAN, failed : BOOLEAN, newest : Versions]
  BY DEF IInv, Typed
<1>5. /\ past'.disorder = (past.disorder \/ Overlaps(t))
      /\ past'.newest = past.newest /\ past'.failed = past.failed
      /\ past' \in [calls : 0 .. MaxCalls, faults : 0 .. MaxFaults, disorder : BOOLEAN, failed : BOOLEAN, newest : Versions]
  BY <1>1, <1>4
<1>6. DOMAIN jobs' = Tasks
  BY <1>2 DEF IInv, Typed
<1>7. Typed'
  BY <1>1, <1>3, <1>5, <1>6 DEF IInv, Typed
<1>8. StageOf(j)' /\ ~j.mid
  BY <1>1, <1>2, <1>5, <1>7, CachedStage
<1>9. /\ Stages'
      /\ jobs'[t] = j /\ \A u \in Tasks : u # t => jobs'[u] = jobs[u]
      /\ ~past'.disorder => ~past.disorder /\ \A u \in Tasks : u # t => ~jobs[u].mid
  BY <1>1, <1>2, <1>5, <1>7, <1>8, OthersStay
<1>10. NotNewer'
  <2>1. cache'.config <= past'.newest /\ record'.config <= past'.newest /\ disk'.config <= past'.newest
    BY <1>1, <1>3, <1>5 DEF IInv, NotNewer
  <2>2. rc'.fetched.etag # None =>
          /\ rc'.fetched.etag = rc'.fetched.config /\ rc'.fetched.config <= past'.newest
          /\ ~past'.disorder => rc'.fetched.config = past'.newest
    BY <1>1, <1>5, <1>9 DEF IInv, NotNewer
  <2> QED BY <2>1, <2>2 DEF NotNewer
<1>11. EtagNotNewer'
  <2> SUFFICES ASSUME ~past'.disorder PROVE Ordered(cache') /\ Ordered(record') /\ Ordered(disk')
    BY DEF EtagNotNewer, Ordered
  <2>1. Ordered(record) /\ Ordered(disk)
    BY <1>9 DEF IInv, EtagNotNewer, Ordered
  <2> QED BY <1>1, <1>3, <1>9, <2>1
<1>12. Agreement'
  <2> SUFFICES ASSUME ~past'.disorder, ~past'.failed, disk' # Torn
               PROVE  record' = disk' /\ cache' = record' /\ \A u \in Tasks : ~jobs'[u].mid
    BY DEF Agreement
  <2>1. rc.ready
    BY <1>1 DEF IInv, Stages, StageOf, At
  <2>2. /\ record = disk
        /\ \E u \in Tasks : /\ jobs[u].mid /\ \A w \in Tasks \ {u} : ~jobs[w].mid
                            /\ record = [cache EXCEPT ![Head(jobs[u].todo).field] = Head(jobs[u].todo).value]
    BY <1>1, <1>5, <1>9, <2>1 DEF IInv, Agreement
  <2>3. record = [cache EXCEPT ![Head(jobs[t].todo).field] = Head(jobs[t].todo).value]
    BY <1>1, <2>2
  <2>4. cache' = record
    BY <1>1, <2>3 DEF With
  <2>5. \A u \in Tasks : ~jobs'[u].mid
    BY <1>8, <1>9
  <2> QED BY <1>1, <2>2, <2>4, <2>5
<1> QED BY <1>7, <1>9, <1>10, <1>11, <1>12 DEF IInv

-----------------------------------------------------------------------------
\* The first state.
LEMMA InitHolds == ASSUME ConstantsOK, Init PROVE IInv
<1>1. /\ server = 0 /\ clock = 0 /\ cache = NoRecord /\ record = NoRecord /\ disk = NoRecord
      /\ rc = [fetched |-> Nothing, interval |-> 1, ready |-> FALSE] /\ jobs = [t \in Tasks |-> Idle]
      /\ past = [calls |-> 0, faults |-> 0, disorder |-> FALSE, failed |-> FALSE, newest |-> 0]
  BY DEF Init
<1>2. 0 \in Versions /\ 0 \in 0 .. MaxTime /\ 0 \in 0 .. MaxCalls /\ 0 \in 0 .. MaxFaults
  BY DEF Versions, ConstantsOK
<1>3. Typed
  <2>1. Nothing \in [config : Versions, etag : {None} \cup Versions]
    BY <1>2 DEF Nothing
  <2>2. rc \in [fetched : [config : Versions, etag : {None} \cup Versions], interval : Nat, ready : BOOLEAN]
    BY <1>1, <2>1
  <2>3. past \in [calls : 0 .. MaxCalls, faults : 0 .. MaxFaults, disorder : BOOLEAN, failed : BOOLEAN, newest : Versions]
    BY <1>1, <1>2
  <2> QED BY <1>1, <1>2, <2>2, <2>3, EmptyRecord DEF Typed
<1>4. NotNewer
  BY <1>1, EmptyRecord DEF NotNewer, Nothing
<1>5. EtagNotNewer
  BY <1>1, EmptyRecord DEF EtagNotNewer, Ordered
<1>6. Stages
  BY <1>1, IdleStage DEF Stages
<1>7. Agreement
  BY <1>1 DEF Agreement
<1> QED BY <1>3, <1>4, <1>5, <1>6, <1>7 DEF IInv

\* The inductive invariant of Remote Config: the types, what of a template each copy has,
\* the order in which activate stores it, and how far the copies agree, whatever the
\* interleaving of the tasks' calls, writes that fail and crashes.
THEOREM ConfigInvariant == ASSUME ConstantsOK PROVE Spec => []IInv
<1>1. Init => IInv
  BY InitHolds
<1>2. IInv /\ [Next]_rcVars => IInv'
  <2> SUFFICES ASSUME IInv, [Next]_rcVars PROVE IInv'
    OBVIOUS
  <2>1. CASE Publish \/ Tick \/ (\E timeout, interval \in {0, 1} : SetConfigSettings(timeout, interval)) \/ UNCHANGED rcVars
    BY <2>1, QuietActions
  <2>2. CASE Restart
    BY <2>2, RestartStep
  <2>3. ASSUME NEW t \in Tasks, NEW both \in BOOLEAN, Fetch(t, both) PROVE IInv'
    BY <2>3, FetchStep
  <2>4. ASSUME NEW t \in Tasks, FetchReturns(t) PROVE IInv'
    BY <2>4, FetchReturnsStep
  <2>5. ASSUME NEW t \in Tasks, Activate(t) PROVE IInv'
    BY <2>5, ActivateStep
  <2>6. ASSUME NEW t \in Tasks, FetchedActivates(t) PROVE IInv'
    BY <2>6, FetchedActivatesStep
  <2>7. ASSUME NEW t \in Tasks, NEW s \in SignalKeys, SetCustomSignals(t, {s}, {}) \/ SetCustomSignals(t, {}, {s}) PROVE IInv'
    BY <2>7, SignalsStep
  <2>8. ASSUME NEW t \in Tasks, StorageSets(t) PROVE IInv'
    BY <2>8, StorageSetsStep
  <2>9. ASSUME NEW t \in Tasks, StorageFails(t) PROVE IInv'
    BY <2>9, StorageFailsStep
  <2>10. ASSUME NEW t \in Tasks, StorageRefuses(t) PROVE IInv'
    BY <2>10, RefusesStep
  <2>11. ASSUME NEW t \in Tasks, CacheSets(t) PROVE IInv'
    BY <2>11, CacheSetsStep
  <2> QED BY <2>1, <2>2, <2>3, <2>4, <2>5, <2>6, <2>7, <2>8, <2>9, <2>10, <2>11 DEF Next, TaskSteps
<1> QED BY <1>1, <1>2, PTL DEF Spec

\* Neither a failed write nor a crash leaves an ETag beside an older configuration, in the
\* cache, the storage or the file, while no two calls overlap and answers come in order;
\* between calls the three agree, and no value read is of a template newer than the
\* newest fetched.
THEOREM EtagsFollow == ASSUME ConstantsOK PROVE Spec => []EtagFollowsConfig
<1>1. ASSUME IInv PROVE TypeOK
  <2>1. \A r \in Copies \cup {Torn} : /\ r.config \in Versions /\ r.etag \in {None} \cup Versions
                                     /\ r.version \in {None} \cup Versions /\ r.signals \subseteq SignalKeys
    BY DEF Copies, Torn, NoRecord, Versions, ConstantsOK
  <2>2. \A r \in {cache, record, disk} : r \in Copies \cup {Torn} /\ Cardinality(r.signals) <= MaxSignals
    BY <1>1 DEF IInv, Typed, Fits
  <2>3. rc.fetched \in [config : Versions, etag : {None} \cup Versions] /\ rc.interval \in Nat
    BY <1>1 DEF IInv, Typed
  <2>4. past.calls <= MaxCalls /\ past.faults <= MaxFaults
    BY <1>1 DEF IInv, Typed, ConstantsOK
  <2>5. server \in Versions /\ clock \in 0 .. MaxTime
    BY <1>1 DEF IInv, Typed
  <2> QED BY <2>1, <2>2, <2>3, <2>4, <2>5 DEF TypeOK
<1>2. ASSUME IInv PROVE CacheAgreesWithStorage
  <2> SUFFICES ASSUME ~past.disorder, ~past.failed, rc.ready, disk # Torn, \A t \in Tasks : jobs[t].todo = <<>>
               PROVE  /\ cache = record /\ record = disk
                      /\ \A key \in Keys : get_value(key)[1] = "remote" => get_value(key)[2] <= past.newest
    BY DEF CacheAgreesWithStorage
  <2>1. ASSUME NEW t \in Tasks PROVE ~jobs[t].mid
    <3>1. jobs[t].todo = <<>>
      OBVIOUS
    <3>2. ASSUME Noting(jobs[t]) PROVE FALSE
      BY <3>1, <3>2, Lists DEF Noting
    <3>3. ASSUME NEW v, Activating(jobs[t], v) PROVE FALSE
      BY <3>1, <3>3, Lists DEF Activating
    <3> QED BY <1>2, <3>2, <3>3 DEF IInv, Stages, StageOf
  <2>2. cache = record /\ record = disk
    BY <1>2, <2>1 DEF IInv, Agreement
  <2>3. cache.config <= past.newest
    BY <1>2 DEF IInv, NotNewer
  <2>4. ASSUME NEW key \in Keys, get_value(key)[1] = "remote" PROVE get_value(key)[2] = cache.config
    BY <2>4 DEF get_value
  <2> QED BY <2>2, <2>3, <2>4
<1>3. IInv => EtagFollowsConfig
  BY <1>1, <1>2 DEF EtagFollowsConfig, IInv
<1> QED BY <1>3, ConfigInvariant, PTL

-----------------------------------------------------------------------------
\* The loggers of a program and the list their setters sweep.
CONSTANTS Threads, Loggers, LevelNames, Emitted, Handlers
VARIABLES level, instances, loggers, lock, job, begun, own, told, last, overlapped

Logs == INSTANCE Logger

LogJobs == [op : {"idle", "new", "levels", "users", "emit"}, logger : Loggers \cup {Logs!NoLogger}, level : Logs!Levels \cup {Logs!Invalid},
            user : Logs!Users, i : Nat, pc : {"", "lock", "visit", "call", "print", "ended", "handed"}, during : SUBSET Logs!Levels,
            called : BOOLEAN, printed : BOOLEAN]
LogRecords == [state : {"unborn", "untracked", "live", "dropped"}, level : Logs!Levels, user : Logs!Users, handler : {"default", "custom"}]
LogTyped ==
  /\ level \in Logs!Levels /\ instances \in Seq(Loggers) /\ loggers \in [Loggers -> LogRecords]
  /\ lock \in Threads \cup {Logs!None} /\ job \in [Threads -> LogJobs]
  /\ own \subseteq Loggers /\ told \subseteq Loggers /\ last \in Logs!Users /\ overlapped \subseteq {"levels", "users"} /\ begun \in 0 .. MaxCalls

\* The list names each logger once, every live one, and none that is not made yet.
Entries == 1 .. Len(instances)
Distinct == \A m \in Entries : \A n \in Entries : instances[m] = instances[n] => m = n
Entered == \A l \in Loggers : Logs!Alive(l) => \E n \in Entries : instances[n] = l
Known == \A n \in Entries : loggers[instances[n]].state \in {"live", "dropped"}

\* A logger that is not in the list yet is its maker's.
Making ==
  /\ \A t \in Threads : job[t].op = "new" => job[t].logger \in Loggers /\ loggers[job[t].logger].state = "untracked"
  /\ \A t, u \in Threads : job[t].op = "new" /\ job[u].op = "new" /\ job[t].logger = job[u].logger => t = u

\* A sweep holds the list from its first turn to its last.
Sweeps == {"levels", "users"}
Locking ==
  \A t \in Threads :
    /\ lock = t <=> job[t].pc = "visit"
    /\ job[t].op \in Sweeps <=> job[t].pc \in {"lock", "visit"}
    /\ job[t].pc = "visit" => job[t].i >= 1
    /\ job[t].op = "levels" => job[t].level \in Logs!Levels

\* A message being logged has seen the level its logger has.
MessageFits(c) ==
  /\ c.called /\ c.user.level = Logs!Invalid => \E m \in c.during : c.level >= m
  /\ c.pc = "ended" => \E m \in c.during : c.printed = (c.level >= m /\ c.level # Logs!Silent)
Emitting ==
  \A t \in Threads : job[t].op = "emit" =>
    job[t].logger \in Loggers /\ Logs!Alive(job[t].logger) /\ loggers[job[t].logger].level \in job[t].during /\ MessageFits(job[t])

\* Loggers a sweep is past have what it sets.
HasLevel(l) == l \in own \/ loggers[l].level = level
OneSetter == "levels" \notin overlapped => \A t, u \in Threads : job[t].op = "levels" /\ job[u].op = "levels" => t = u
SetterAgrees == "levels" \notin overlapped => \A t \in Threads : job[t].op = "levels" => job[t].level = level
MakersAgree == "levels" \notin overlapped => \A t \in Threads : job[t].op = "new" => loggers[job[t].logger].level = level
AllHaveLevel == "levels" \notin overlapped /\ Logs!Quiet({"levels"}) => \A l \in Loggers : Logs!Alive(l) => HasLevel(l)
SweptHaveLevel ==
  "levels" \notin overlapped =>
    \A t \in Threads : job[t].op = "levels" /\ job[t].pc = "visit" => \A n \in Entries : n < job[t].i => HasLevel(instances[n])
LevelsReach == OneSetter /\ SetterAgrees /\ MakersAgree /\ AllHaveLevel /\ SweptHaveLevel

HasUser(l) == l \in told => loggers[l].user = last
ToldAreMade == \A l \in told : loggers[l].state \in {"live", "dropped"}
OneTeller == "users" \notin overlapped => \A t, u \in Threads : job[t].op = "users" /\ job[u].op = "users" => t = u
TellerAgrees == "users" \notin overlapped => \A t \in Threads : job[t].op = "users" => job[t].user = last
AllHaveUser == "users" \notin overlapped /\ Logs!Quiet({"users"}) => \A l \in Loggers : Logs!Alive(l) => HasUser(l)
SweptHaveUser ==
  "users" \notin overlapped =>
    \A t \in Threads : job[t].op = "users" /\ job[t].pc = "visit" => \A n \in Entries : n < job[t].i => HasUser(instances[n])
UsersReach == ToldAreMade /\ OneTeller /\ TellerAgrees /\ AllHaveUser /\ SweptHaveUser

Listing == Distinct /\ Entered /\ Known
LogInv == LogTyped /\ Listing /\ Making /\ Locking /\ Emitting /\ LevelsReach /\ UsersReach

Same(c, d) == /\ c.op = d.op /\ c.logger = d.logger /\ c.level = d.level /\ c.user = d.user /\ c.i = d.i /\ c.pc = d.pc
              /\ c.called = d.called /\ c.printed = d.printed

\* A thread outside every call.
LEMMA IdleIsTyped ==
  /\ Logs!Idle \in LogJobs /\ Logs!Idle.op = "idle" /\ Logs!Idle.pc = "" /\ Logs!NoUser \in Logs!Users /\ Logs!Levels \subseteq Int
<1>1. Logs!NoUser \in Logs!Users BY DEF Logs!Users
<1>2. Logs!Levels \subseteq Int BY DEF Logs!Levels, Logs!Debug, Logs!Silent
<1> QED BY <1>1, <1>2 DEF Logs!Idle, LogJobs

\* A message is told of a level, and nothing else of a call changes.
LEMMA NotedKeeps ==
  ASSUME LogTyped, NEW l \in Loggers, NEW value \in Logs!Levels, NEW j, j = Logs!Noted(l, value)
  PROVE  /\ j \in [Threads -> LogJobs]
         /\ \A t \in Threads : /\ Same(j[t], job[t]) /\ job[t].during \subseteq j[t].during
                               /\ job[t].op = "emit" /\ job[t].logger = l => value \in j[t].during
<1>1. job \in [Threads -> LogJobs] BY DEF LogTyped
<1>2. ASSUME NEW t \in Threads
      PROVE  /\ j[t] \in LogJobs /\ Same(j[t], job[t]) /\ job[t].during \subseteq j[t].during
             /\ job[t].op = "emit" /\ job[t].logger = l => value \in j[t].during
  <2>1. job[t] \in LogJobs BY <1>1
  <2>2. CASE job[t].op = "emit" /\ job[t].logger = l
    <3>1. j[t] = [job[t] EXCEPT !.during = job[t].during \cup {value}] BY <2>2 DEF Logs!Noted
    <3>2. job[t].during \cup {value} \in SUBSET Logs!Levels BY <2>1 DEF LogJobs
    <3>3. j[t] \in LogJobs BY <2>1, <3>1, <3>2 DEF LogJobs
    <3>4. j[t].during = job[t].during \cup {value} BY <2>1, <3>1 DEF LogJobs
    <3>5. Same(j[t], job[t]) BY <2>1, <3>1 DEF LogJobs, Same
    <3> QED BY <3>3, <3>4, <3>5
  <2>3. CASE ~(job[t].op = "emit" /\ job[t].logger = l)
    <3>1. j[t] = job[t] BY <2>3 DEF Logs!Noted
    <3> QED BY <2>1, <2>3, <3>1 DEF Same
  <2> QED BY <2>2, <2>3
<1>3. j = [t \in Threads |-> j[t]] BY DEF Logs!Noted
<1> QED BY <1>2, <1>3

\* The list of a sweep that throws out an entry.
LEMMA SwapRemoveKeeps ==
  ASSUME LogTyped, Listing, NEW i \in Entries, loggers[instances[i]].state = "dropped",
         instances' = Logs!swap_remove(instances, i), UNCHANGED loggers
  PROVE  /\ instances' \in Seq(Loggers) /\ Listing'
         /\ \A n \in 1 .. i - 1 : n \in Entries' => instances'[n] = instances[n]
         /\ Len(instances') = Len(instances) - 1
<1>1. PICK s \in Seq(Loggers) : s = instances BY DEF LogTyped
<1>2. PICK k \in Nat : k = Len(s) - 1 /\ i \in 1 .. k + 1 BY <1>1 DEF Entries
<1>3. instances' = [n \in 1 .. k |-> IF n = i THEN s[k + 1] ELSE s[n]] BY <1>1, <1>2 DEF Logs!swap_remove
<1>4. \A n \in 1 .. k + 1 : s[n] \in Loggers BY <1>1, <1>2
<1>5. instances' \in Seq(Loggers) /\ Len(instances') = k BY <1>2, <1>3, <1>4
<1>6. /\ Entries = 1 .. k + 1 /\ Entries' = 1 .. k
      /\ \A n \in 1 .. k : instances'[n] = IF n = i THEN s[k + 1] ELSE s[n]
  BY <1>1, <1>2, <1>3, <1>5 DEF Entries
<1>7. Distinct'
  <2>1. SUFFICES ASSUME NEW m \in 1 .. k, NEW n \in 1 .. k, instances'[m] = instances'[n] PROVE m = n BY <1>6 DEF Distinct
  <2>2. \A a \in 1 .. k + 1 : \A b \in 1 .. k + 1 : s[a] = s[b] => a = b BY <1>1, <1>6 DEF Listing, Distinct
  <2>3. instances'[m] = s[IF m = i THEN k + 1 ELSE m] /\ instances'[n] = s[IF n = i THEN k + 1 ELSE n] BY <1>6
  <2>5. PICK a \in 1 .. k + 1 : a = IF m = i THEN k + 1 ELSE m BY <1>2
  <2>6. PICK b \in 1 .. k + 1 : b = IF n = i THEN k + 1 ELSE n BY <1>2
  <2>4. a = b BY <2>1, <2>2, <2>3, <2>5, <2>6
  <2>7. CASE m = i
    <3>1. a = k + 1 BY <2>5, <2>7
    <3>2. n = i BY <3>1, <2>4, <2>6, <1>2
    <3> QED BY <3>2, <2>7
  <2>8. CASE m # i
    <3>1. a = m BY <2>5, <2>8
    <3>2. n # i BY <3>1, <2>4, <2>6, <1>2
    <3> QED BY <3>1, <3>2, <2>4, <2>6
  <2> QED BY <2>7, <2>8
<1>8. Entered'
  <2>1. SUFFICES ASSUME NEW l \in Loggers, Logs!Alive(l) PROVE \E n \in 1 .. k : instances'[n] = l BY <1>6 DEF Entered, Logs!Alive
  <2>2. PICK n \in 1 .. k + 1 : s[n] = l BY <2>1, <1>1, <1>6 DEF Listing, Entered
  <2>3. n # i BY <2>1, <2>2, <1>1 DEF Logs!Alive
  <2>4. CASE n = k + 1
    <3>1. i \in 1 .. k BY <2>3, <2>4, <1>2
    <3>2. instances'[i] = l BY <3>1, <2>2, <2>4, <1>6
    <3> QED BY <3>1, <3>2
  <2>5. CASE n # k + 1
    <3>1. n \in 1 .. k BY <2>5, <1>2
    <3>2. instances'[n] = l BY <3>1, <2>2, <2>3, <1>6
    <3> QED BY <3>1, <3>2
  <2> QED BY <2>4, <2>5
<1>9. Known'
  <2>1. SUFFICES ASSUME NEW n \in 1 .. k PROVE loggers[instances'[n]].state \in {"live", "dropped"} BY <1>6 DEF Known
  <2>2. \A a \in 1 .. k + 1 : loggers[s[a]].state \in {"live", "dropped"} BY <1>1, <1>6 DEF Listing, Known
  <2>3. n \in 1 .. k + 1 /\ k + 1 \in 1 .. k + 1 BY <1>2
  <2> QED BY <2>2, <2>3, <1>6
<1> QED BY <1>1, <1>2, <1>5, <1>6, <1>7, <1>8, <1>9 DEF Listing

\* The list does not change, nor which loggers are alive.
LEMMA SameList ==
  ASSUME Listing, UNCHANGED instances, \A l \in Loggers : loggers'[l].state = loggers[l].state, instances \in Seq(Loggers)
  PROVE  Listing'
<1>1. \A n \in Entries : instances[n] \in Loggers BY DEF Entries
<1> QED BY <1>1 DEF Listing, Distinct, Entered, Known, Entries, Logs!Alive

\* What FromStr for LogLevel returns.
LEMMA LevelsOfNames ==
  ASSUME NEW name
  PROVE  Logs!from_str(name) \in Logs!Levels \cup {Logs!Invalid}
BY DEF Logs!from_str, Logs!Levels, Logs!Debug, Logs!Verbose, Logs!Info, Logs!Warn, Logs!Error, Logs!Silent, Logs!Invalid

\* Every step keeps the types.
LEMMA LogTypes ==
  ASSUME Logs!ConstantsOK, LogTyped, Making, Locking, Emitting, Logs!Next
  PROVE  LogTyped'
<1>0. /\ level \in Logs!Levels /\ instances \in Seq(Loggers) /\ loggers \in [Loggers -> LogRecords]
      /\ lock \in Threads \cup {Logs!None} /\ job \in [Threads -> LogJobs]
      /\ own \subseteq Loggers /\ told \subseteq Loggers /\ last \in Logs!Users /\ overlapped \subseteq {"levels", "users"} /\ begun \in 0 .. MaxCalls
      /\ begun \in Int /\ MaxCalls \in Int
  BY DEF LogTyped, Logs!ConstantsOK
<1>b. ASSUME NEW t \in Threads, NEW c \in LogJobs, Logs!Begins(t, c) PROVE job' \in [Threads -> LogJobs] /\ begun' \in 0 .. MaxCalls
  BY <1>0, <1>b DEF Logs!Begins
<1>r. ASSUME NEW t \in Threads, Logs!Returns(t) PROVE job' \in [Threads -> LogJobs]
  BY <1>0, <1>r, IdleIsTyped DEF Logs!Returns
<1>i. Logs!Idle \in LogJobs /\ Logs!NoUser \in Logs!Users BY IdleIsTyped
<1>1. ASSUME NEW l \in Loggers, Logs!Drop(l) PROVE LogTyped'
  <2>1. [loggers[l] EXCEPT !.state = "dropped"] \in LogRecords BY <1>0 DEF LogRecords
  <2>2. loggers' \in [Loggers -> LogRecords] BY <2>1, <1>0, <1>1 DEF Logs!Drop
  <2> QED BY <2>2, <1>0, <1>1 DEF Logs!Drop, LogTyped
<1>2. ASSUME NEW t \in Threads, Logs!New(t) PROVE LogTyped'
  <2>1. PICK l \in Loggers :
          /\ Logs!Begins(t, [Logs!Idle EXCEPT !.op = "new", !.logger = l])
          /\ loggers' = [loggers EXCEPT ![l] = [state |-> "untracked", level |-> level, user |-> Logs!NoUser, handler |-> "default"]]
          /\ UNCHANGED <<level, instances, lock, own, told, last, overlapped>>
    BY <1>2 DEF Logs!New
  <2>2. [Logs!Idle EXCEPT !.op = "new", !.logger = l] \in LogJobs BY <1>i DEF LogJobs
  <2>3. [state |-> "untracked", level |-> level, user |-> Logs!NoUser, handler |-> "default"] \in LogRecords BY <1>0, <1>i DEF LogRecords
  <2>4. loggers' \in [Loggers -> LogRecords] BY <2>1, <2>3, <1>0
  <2> QED BY <2>1, <2>2, <2>4, <1>0, <1>b DEF LogTyped
<1>3. ASSUME NEW t \in Threads, Logs!track_instance(t) PROVE LogTyped'
  <2>1. job[t].logger \in Loggers BY <1>3 DEF Logs!track_instance, Making
  <2>2. [loggers[job[t].logger] EXCEPT !.state = "live"] \in LogRecords BY <2>1, <1>0 DEF LogRecords
  <2>3. loggers' \in [Loggers -> LogRecords] BY <2>1, <2>2, <1>0, <1>3 DEF Logs!track_instance
  <2>4. instances' \in Seq(Loggers) BY <2>1, <1>0, <1>3 DEF Logs!track_instance
  <2>5. job' \in [Threads -> LogJobs] BY <1>r, <1>3 DEF Logs!track_instance
  <2> QED BY <2>3, <2>4, <2>5, <1>0, <1>3 DEF Logs!track_instance, LogTyped
<1>4. ASSUME NEW t \in Threads, NEW l \in Loggers, Logs!SetOwnLevel(t, l) PROVE LogTyped'
  <2>1. PICK name \in LevelNames :
          /\ IF Logs!from_str(name) = Logs!Invalid THEN UNCHANGED <<loggers, job, own>>
             ELSE /\ loggers' = [loggers EXCEPT ![l].level = Logs!from_str(name)]
                  /\ job' = Logs!Noted(l, Logs!from_str(name)) /\ own' = own \cup {l}
    BY <1>4 DEF Logs!SetOwnLevel
  <2>2. begun' \in 0 .. MaxCalls /\ UNCHANGED <<level, instances, lock, told, last, overlapped>> BY <1>0, <1>4 DEF Logs!SetOwnLevel
  <2>3. CASE Logs!from_str(name) = Logs!Invalid BY <2>1, <2>2, <2>3, <1>0 DEF LogTyped
  <2>4. CASE Logs!from_str(name) # Logs!Invalid
    <3>1. Logs!from_str(name) \in Logs!Levels BY <2>4, LevelsOfNames
    <3>2. [loggers[l] EXCEPT !.level = Logs!from_str(name)] \in LogRecords BY <3>1, <1>0 DEF LogRecords
    <3>3. loggers' \in [Loggers -> LogRecords] BY <3>2, <2>1, <2>4, <1>0
    <3>4. job' \in [Threads -> LogJobs] BY <2>1, <2>4, <3>1, NotedKeeps
    <3> QED BY <3>3, <3>4, <2>1, <2>2, <2>4, <1>0 DEF LogTyped
  <2> QED BY <2>3, <2>4
<1>5. ASSUME NEW t \in Threads, NEW l \in Loggers, Logs!SetOwnHandler(t, l) \/ Logs!SetOwnUser(t, l) PROVE LogTyped'
  <2>1. \A h \in {"default", "custom"} : [loggers[l] EXCEPT !.handler = h] \in LogRecords BY <1>0 DEF LogRecords
  <2>2. \A user \in Logs!Users : [loggers[l] EXCEPT !.user = user] \in LogRecords BY <1>0 DEF LogRecords
  <2>3. loggers' \in [Loggers -> LogRecords] BY <2>1, <2>2, <1>0, <1>5 DEF Logs!SetOwnHandler, Logs!SetOwnUser
  <2>4. begun' \in 0 .. MaxCalls /\ told' \subseteq Loggers BY <1>0, <1>5 DEF Logs!SetOwnHandler, Logs!SetOwnUser
  <2> QED BY <2>3, <2>4, <1>0, <1>5 DEF Logs!SetOwnHandler, Logs!SetOwnUser, LogTyped
<1>6. ASSUME NEW t \in Threads, Logs!SetLogLevel(t) PROVE LogTyped'
  <2>1. PICK name \in LevelNames :
      IF Logs!from_str(name) = Logs!Invalid
      THEN /\ job[t].op = "idle" /\ begun < MaxCalls /\ begun' = begun + 1
           /\ UNCHANGED <<level, instances, loggers, lock, job, own, told, last, overlapped>>
      ELSE /\ Logs!Begins(t, [Logs!Idle EXCEPT !.op = "levels", !.level = Logs!from_str(name), !.pc = "lock"])
           /\ level' = Logs!from_str(name)
           /\ Logs!Overlaps("levels", {"new", "levels"})
           /\ UNCHANGED <<instances, loggers, lock, own, told, last>>
    BY <1>6 DEF Logs!SetLogLevel
  <2>2. CASE Logs!from_str(name) = Logs!Invalid BY <2>1, <2>2, <1>0 DEF LogTyped
  <2>3. CASE Logs!from_str(name) # Logs!Invalid
    <3>1. Logs!from_str(name) \in Logs!Levels BY <2>3, LevelsOfNames
    <3>2. [Logs!Idle EXCEPT !.op = "levels", !.level = Logs!from_str(name), !.pc = "lock"] \in LogJobs BY <3>1, <1>i DEF LogJobs
    <3>3. overlapped' \subseteq {"levels", "users"} BY <2>1, <2>3, <1>0 DEF Logs!Overlaps
    <3> QED BY <3>1, <3>2, <3>3, <2>1, <2>3, <1>0, <1>b DEF LogTyped
  <2> QED BY <2>2, <2>3
<1>7. ASSUME NEW t \in Threads, Logs!SetUserLogHandler(t) PROVE LogTyped'
  <2>1. PICK user \in Logs!Users :
          /\ Logs!Begins(t, [Logs!Idle EXCEPT !.op = "users", !.user = user, !.pc = "lock"])
          /\ Logs!Overlaps("users", {"users"})
          /\ last' = user /\ told' = {l \in Loggers : Logs!Alive(l)}
          /\ UNCHANGED <<level, instances, loggers, lock, own>>
    BY <1>7 DEF Logs!SetUserLogHandler
  <2>2. [Logs!Idle EXCEPT !.op = "users", !.user = user, !.pc = "lock"] \in LogJobs BY <1>i DEF LogJobs
  <2>3. overlapped' \subseteq {"levels", "users"} BY <2>1, <1>0 DEF Logs!Overlaps
  <2> QED BY <2>1, <2>2, <2>3, <1>0, <1>b DEF LogTyped
<1>8. ASSUME NEW t \in Threads, Logs!SweepLocks(t) PROVE LogTyped'
  <2>1. [job[t] EXCEPT !.pc = "visit", !.i = 1] \in LogJobs BY <1>0 DEF LogJobs
  <2>2. job' = [job EXCEPT ![t] = [job[t] EXCEPT !.pc = "visit", !.i = 1]] BY <1>0, <1>8 DEF Logs!SweepLocks
  <2> QED BY <2>1, <2>2, <1>0, <1>8 DEF Logs!SweepLocks, LogTyped
<1>9. ASSUME NEW t \in Threads, Logs!Visit(t) PROVE LogTyped'
  <2>0. job[t] \in LogJobs /\ job[t].i \in Entries
    <3>1. job[t].i \in Nat /\ job[t].i >= 1 /\ job[t].i <= Len(instances) BY <1>0, <1>9 DEF Logs!Visit, Locking, LogJobs
    <3> QED BY <3>1, <1>0 DEF Entries
  <2>1. PICK i \in Entries : i = job[t].i BY <2>0
  <2>2. PICK l \in Loggers : l = instances[i] BY <2>1, <1>0 DEF Entries
  <2>3. UNCHANGED <<level, lock, begun, told, last, overlapped>> BY <1>9 DEF Logs!Visit
  <2>4. CASE loggers[l].state = "dropped"
    <3>1. /\ instances' = Logs!swap_remove(instances, i) /\ job' = [job EXCEPT ![t].i = i] /\ UNCHANGED <<loggers, own>>
      BY <2>1, <2>2, <2>4, <1>9 DEF Logs!Visit, Logs!after_removal
    <3>2. job' = job BY <3>1, <2>1, <2>0, <1>0 DEF LogJobs
    <3>3. instances' \in Seq(Loggers)
      <4>1. PICK s \in Seq(Loggers) : s = instances BY <1>0
      <4>2. PICK k \in Nat : k = Len(s) - 1 BY <2>1, <4>1 DEF Entries
      <4>3. instances' = [n \in 1 .. k |-> IF n = i THEN s[k + 1] ELSE s[n]] BY <3>1, <4>1, <4>2 DEF Logs!swap_remove
      <4>4. \A n \in 1 .. k + 1 : s[n] \in Loggers BY <4>1, <4>2
      <4> QED BY <4>2, <4>3, <4>4
    <3> QED BY <3>1, <3>2, <3>3, <2>3, <1>0 DEF LogTyped
  <2>5. CASE loggers[l].state # "dropped" /\ job[t].op = "levels"
    <3>1. /\ loggers' = [loggers EXCEPT ![l].level = job[t].level] /\ own' = own \ {l} /\ UNCHANGED instances
          /\ job' = [Logs!Noted(l, job[t].level) EXCEPT ![t].i = i + 1]
      BY <2>1, <2>2, <2>5, <1>9 DEF Logs!Visit
    <3>2. job[t].level \in Logs!Levels BY <2>5 DEF Locking
    <3>3. [loggers[l] EXCEPT !.level = job[t].level] \in LogRecords BY <3>2, <1>0 DEF LogRecords
    <3>4. loggers' \in [Loggers -> LogRecords] BY <3>3, <3>1, <1>0
    <3>5. PICK j : j = Logs!Noted(l, job[t].level) OBVIOUS
    <3>6. j \in [Threads -> LogJobs] BY <3>5, <3>2, NotedKeeps
    <3>7. PICK n \in Nat : n = i + 1 BY DEF Entries
    <3>8. [j[t] EXCEPT !.i = n] \in LogJobs BY <3>6 DEF LogJobs
    <3>9. job' = [j EXCEPT ![t] = [j[t] EXCEPT !.i = n]] BY <3>1, <3>5, <3>6, <3>7
    <3>10. job' \in [Threads -> LogJobs] BY <3>6, <3>8, <3>9
    <3> QED BY <3>1, <3>4, <3>10, <2>3, <1>0 DEF LogTyped
  <2>6. CASE loggers[l].state # "dropped" /\ job[t].op # "levels"
    <3>1. /\ loggers' = [loggers EXCEPT ![l].user = job[t].user] /\ own' = own /\ UNCHANGED instances
          /\ job' = [job EXCEPT ![t].i = i + 1]
      BY <2>1, <2>2, <2>6, <1>9 DEF Logs!Visit
    <3>2. job[t].user \in Logs!Users BY <2>0 DEF LogJobs
    <3>3. [loggers[l] EXCEPT !.user = job[t].user] \in LogRecords BY <3>2, <1>0 DEF LogRecords
    <3>4. loggers' \in [Loggers -> LogRecords] BY <3>3, <3>1, <1>0
    <3>7. PICK n \in Nat : n = i + 1 BY DEF Entries
    <3>5. [job[t] EXCEPT !.i = n] \in LogJobs BY <2>0 DEF LogJobs
    <3>8. job' = [job EXCEPT ![t] = [job[t] EXCEPT !.i = n]] BY <3>1, <3>7, <1>0
    <3>6. job' \in [Threads -> LogJobs] BY <3>5, <3>8, <1>0
    <3> QED BY <3>4, <3>6, <3>1, <2>3, <1>0 DEF LogTyped
  <2> QED BY <2>4, <2>5, <2>6
<1>10. ASSUME NEW t \in Threads, Logs!SweepEnds(t) \/ Logs!EmitReturns(t) PROVE LogTyped'
  BY <1>0, <1>r, <1>10 DEF Logs!SweepEnds, Logs!EmitReturns, LogTyped
<1>11. ASSUME NEW t \in Threads, NEW l \in Loggers, Logs!Emit(t, l) PROVE LogTyped'
  <2>1. PICK m \in Emitted :
          Logs!Begins(t, [Logs!Idle EXCEPT !.op = "emit", !.logger = l, !.level = m, !.during = {loggers[l].level},
                                 !.user = loggers[l].user, !.pc = "call"])
    BY <1>11 DEF Logs!Emit
  <2>2. m \in Logs!Levels /\ {loggers[l].level} \in SUBSET Logs!Levels /\ loggers[l].user \in Logs!Users BY <1>0 DEF Logs!ConstantsOK, LogRecords
  <2>3. [Logs!Idle EXCEPT !.op = "emit", !.logger = l, !.level = m, !.during = {loggers[l].level},
                     !.user = loggers[l].user, !.pc = "call"] \in LogJobs
    BY <2>2, <1>i DEF LogJobs
  <2> QED BY <2>1, <2>3, <1>0, <1>b, <1>11 DEF Logs!Emit, LogTyped
<1>12. ASSUME NEW t \in Threads, Logs!EmitCalls(t) PROVE LogTyped'
  <2>1. PICK called \in BOOLEAN : called = (job[t].user # Logs!NoUser /\ Logs!passes(job[t].user, job[t].level, job[t].logger)) OBVIOUS
  <2>2. [job[t] EXCEPT !.pc = "print", !.called = called] \in LogJobs BY <1>0 DEF LogJobs
  <2>3. job' = [job EXCEPT ![t] = [job[t] EXCEPT !.pc = "print", !.called = called]] BY <1>0, <1>12, <2>1 DEF Logs!EmitCalls
  <2> QED BY <2>2, <2>3, <1>0, <1>12 DEF Logs!EmitCalls, LogTyped
<1>13. ASSUME NEW t \in Threads, Logs!EmitPrints(t) PROVE LogTyped'
  <2>1. PICK printed \in BOOLEAN : printed = Logs!default_log_handler(job[t].level, job[t].logger) BY DEF Logs!default_log_handler
  <2>2. [job[t] EXCEPT !.pc = "ended", !.printed = printed] \in LogJobs /\ [job[t] EXCEPT !.pc = "handed"] \in LogJobs
    BY <1>0 DEF LogJobs
  <2>3. \/ job' = [job EXCEPT ![t] = [job[t] EXCEPT !.pc = "ended", !.printed = printed]]
        \/ job' = [job EXCEPT ![t] = [job[t] EXCEPT !.pc = "handed"]]
    BY <1>0, <1>13, <2>1 DEF Logs!EmitPrints
  <2>4. job' \in [Threads -> LogJobs] BY <2>2, <2>3, <1>0
  <2> QED BY <2>4, <1>0, <1>13 DEF Logs!EmitPrints, LogTyped
<1> QED BY <1>1, <1>2, <1>3, <1>4, <1>5, <1>6, <1>7, <1>8, <1>9, <1>10, <1>11, <1>12, <1>13 DEF Logs!Next

\* The last handle of a logger goes: its entry stays.
LEMMA DropKeeps ==
  ASSUME Logs!ConstantsOK, LogTyped, Listing, Making, Locking, Emitting, LevelsReach, UsersReach, NEW l \in Loggers, Logs!Drop(l)
  PROVE  Listing' /\ Making' /\ Locking' /\ Emitting' /\ LevelsReach' /\ UsersReach'
<1>0. /\ level \in Logs!Levels /\ instances \in Seq(Loggers) /\ loggers \in [Loggers -> LogRecords]
      /\ lock \in Threads \cup {Logs!None} /\ job \in [Threads -> LogJobs] /\ Logs!None \notin Threads /\ told \subseteq Loggers
  BY DEF LogTyped, Logs!ConstantsOK
<1>l. /\ OneSetter /\ SetterAgrees /\ MakersAgree /\ AllHaveLevel /\ SweptHaveLevel
      /\ ToldAreMade /\ OneTeller /\ TellerAgrees /\ AllHaveUser /\ SweptHaveUser
  BY DEF LevelsReach, UsersReach
<1>e. \A n \in Entries : instances[n] \in Loggers BY <1>0 DEF Entries
<1>t. told \subseteq Loggers BY <1>0
<1>1. loggers[l].state = "live" /\ (\A u \in Threads : job[u].logger # l) /\ UNCHANGED <<level, instances, lock, job, own, told, last, overlapped>> BY DEF Logs!Drop, Logs!Alive
<1>2. loggers'[l].state = "dropped" /\ loggers'[l].level = loggers[l].level /\ loggers'[l].user = loggers[l].user
  BY <1>0 DEF Logs!Drop, LogRecords
<1>3. \A k \in Loggers : k # l => loggers'[k] = loggers[k] BY <1>0 DEF Logs!Drop
<1>4. Listing' BY <1>1, <1>2, <1>3, <1>0, <1>e DEF Listing, Distinct, Entered, Known, Entries, Logs!Alive
<1>5. Making' BY <1>1, <1>2, <1>3 DEF Making
<1>6. Locking' BY <1>1, <1>2, <1>3 DEF Locking, Sweeps
<1>7. Emitting' BY <1>1, <1>2, <1>3 DEF Emitting, MessageFits, Logs!Alive
<1>8. LevelsReach'
  <2>1. OneSetter' BY <1>1, <1>2, <1>3, <1>l DEF OneSetter
  <2>2. SetterAgrees' BY <1>1, <1>2, <1>3, <1>l DEF SetterAgrees
  <2>3. MakersAgree' BY <1>1, <1>2, <1>3, <1>l DEF MakersAgree, Making
  <2>4. AllHaveLevel' BY <1>1, <1>2, <1>3, <1>l DEF AllHaveLevel, HasLevel, Logs!Quiet, Logs!Alive, Sweeps
  <2>5. SweptHaveLevel' BY <1>1, <1>2, <1>3, <1>l, <1>e DEF SweptHaveLevel, HasLevel, Entries
  <2> QED BY <2>1, <2>2, <2>3, <2>4, <2>5 DEF LevelsReach
<1>9. UsersReach'
  <2>1. ToldAreMade' BY <1>1, <1>2, <1>3, <1>l, <1>t DEF ToldAreMade, Logs!Alive
  <2>2. OneTeller' BY <1>1, <1>2, <1>3, <1>l DEF OneTeller
  <2>3. TellerAgrees' BY <1>1, <1>2, <1>3, <1>l DEF TellerAgrees
  <2>4. AllHaveUser' BY <1>1, <1>2, <1>3, <1>l, <1>t DEF AllHaveUser, HasUser, Logs!Quiet, Logs!Alive, Sweeps
  <2>5. SweptHaveUser' BY <1>1, <1>2, <1>3, <1>l, <1>e DEF SweptHaveUser, HasUser, Entries
  <2> QED BY <2>1, <2>2, <2>3, <2>4, <2>5 DEF UsersReach
<1> QED BY <1>4, <1>5, <1>6, <1>7, <1>8, <1>9

\* A logger is made with the global level, and is in no list.
LEMMA NewKeeps ==
  ASSUME Logs!ConstantsOK, LogTyped, Listing, Making, Locking, Emitting, LevelsReach, UsersReach, NEW t \in Threads, Logs!New(t)
  PROVE  Listing' /\ Making' /\ Locking' /\ Emitting' /\ LevelsReach' /\ UsersReach'
<1>0. /\ level \in Logs!Levels /\ instances \in Seq(Loggers) /\ loggers \in [Loggers -> LogRecords]
      /\ lock \in Threads \cup {Logs!None} /\ job \in [Threads -> LogJobs] /\ Logs!None \notin Threads /\ told \subseteq Loggers
  BY DEF LogTyped, Logs!ConstantsOK
<1>l. /\ OneSetter /\ SetterAgrees /\ MakersAgree /\ AllHaveLevel /\ SweptHaveLevel
      /\ ToldAreMade /\ OneTeller /\ TellerAgrees /\ AllHaveUser /\ SweptHaveUser
  BY DEF LevelsReach, UsersReach
<1>e. \A n \in Entries : instances[n] \in Loggers BY <1>0 DEF Entries
<1>t. told \subseteq Loggers BY <1>0
<1>1. PICK l \in Loggers :
       /\ loggers[l].state = "unborn"
       /\ Logs!Begins(t, [Logs!Idle EXCEPT !.op = "new", !.logger = l])
       /\ loggers' = [loggers EXCEPT ![l] = [state |-> "untracked", level |-> level, user |-> Logs!NoUser, handler |-> "default"]]
       /\ UNCHANGED <<level, instances, lock, own, told, last, overlapped>>
  BY DEF Logs!New
<1>2. job' = [job EXCEPT ![t] = [Logs!Idle EXCEPT !.op = "new", !.logger = l]] /\ job[t].op = "idle" BY <1>1 DEF Logs!Begins
<1>3. l \in Loggers /\ loggers[l].state = "unborn" /\ UNCHANGED <<level, instances, lock, own, told, last, overlapped>> BY <1>1
<1>4. job[t].op = "idle" /\ job'[t].op = "new" /\ job'[t].logger = l /\ job'[t].pc = "" BY <1>2, <1>0 DEF Logs!Idle, LogJobs
<1>5. \A u \in Threads : u # t => job'[u] = job[u] BY <1>1, <1>0 DEF Logs!Begins
<1>6. loggers'[l].state = "untracked" /\ loggers'[l].level = level BY <1>1, <1>0
<1>7. \A k \in Loggers : k # l => loggers'[k] = loggers[k] BY <1>1, <1>0
<1>8. \A u \in Threads : u # t /\ job[u].op \in {"new", "emit"} => /\ job[u].logger \in Loggers /\ job[u].logger # l
                                                                     /\ loggers'[job[u].logger] = loggers[job[u].logger]
  <2>1. \A u \in Threads : u # t /\ job[u].op = "new" => job[u].logger \in Loggers /\ job[u].logger # l BY <1>3 DEF Making
  <2>2. \A u \in Threads : u # t /\ job[u].op = "emit" => job[u].logger \in Loggers /\ job[u].logger # l BY <1>3 DEF Emitting, Logs!Alive
  <2> QED BY <2>1, <2>2, <1>7
<1>9. \A n \in Entries : instances[n] # l BY <1>3 DEF Listing, Known
<1>10. Listing' BY <1>3, <1>4, <1>5, <1>6, <1>7, <1>0, <1>e DEF Listing, Distinct, Entered, Known, Entries, Logs!Alive
<1>11. Making'
  <2>1. \A u \in Threads : job'[u].op = "new" => job'[u].logger \in Loggers /\ loggers'[job'[u].logger].state = "untracked"
    <3>1. SUFFICES ASSUME NEW u \in Threads, job'[u].op = "new"
                   PROVE  job'[u].logger \in Loggers /\ loggers'[job'[u].logger].state = "untracked" OBVIOUS
    <3>2. CASE u = t BY <3>2, <1>3, <1>4, <1>6
    <3>3. CASE u # t
      <4>1. job'[u] = job[u] /\ job[u].op = "new" BY <3>1, <3>3, <1>5
      <4>2. loggers'[job[u].logger] = loggers[job[u].logger] BY <4>1, <3>3, <1>8
      <4> QED BY <4>1, <4>2 DEF Making
    <3> QED BY <3>2, <3>3
  <2>2. \A u \in Threads : u # t /\ job'[u].op = "new" => job'[u].logger # l BY <1>5, <1>8
  <2>3. \A u, v \in Threads : u # t /\ v # t /\ job'[u].op = "new" /\ job'[v].op = "new" /\ job'[u].logger = job'[v].logger => u = v
    BY <1>5 DEF Making
  <2> QED BY <2>1, <2>2, <2>3, <1>4 DEF Making
<1>12. Locking' BY <1>3, <1>4, <1>5, <1>6, <1>7 DEF Locking, Sweeps
<1>13. Emitting'
  <2>1. SUFFICES ASSUME NEW u \in Threads, job'[u].op = "emit"
                 PROVE  /\ job'[u].logger \in Loggers /\ loggers'[job'[u].logger].state = "live" /\ loggers'[job'[u].logger].level \in job'[u].during
                        /\ MessageFits(job'[u])
    BY DEF Emitting, MessageFits, Logs!Alive
  <2>2. u # t BY <2>1, <1>4
  <2>3. job'[u] = job[u] /\ job[u].op = "emit" BY <2>1, <2>2, <1>5
  <2>4. loggers'[job[u].logger] = loggers[job[u].logger] BY <2>2, <2>3, <1>8
  <2> QED BY <2>3, <2>4 DEF Emitting, Logs!Alive
<1>14. LevelsReach'
  <2>1. OneSetter' BY <1>3, <1>4, <1>5, <1>6, <1>7, <1>l DEF OneSetter
  <2>2. SetterAgrees' BY <1>3, <1>4, <1>5, <1>6, <1>7, <1>l DEF SetterAgrees
  <2>3. MakersAgree'
    <3>1. SUFFICES ASSUME "levels" \notin overlapped, NEW u \in Threads, job'[u].op = "new" PROVE loggers'[job'[u].logger].level = level
      BY <1>3 DEF MakersAgree
    <3>2. CASE u = t BY <3>2, <1>4, <1>6
    <3>3. CASE u # t
      <4>1. job'[u] = job[u] /\ job[u].op = "new" BY <3>1, <3>3, <1>5
      <4>2. loggers'[job[u].logger] = loggers[job[u].logger] BY <4>1, <3>3, <1>8
      <4> QED BY <3>1, <4>1, <4>2, <1>l DEF MakersAgree
    <3> QED BY <3>2, <3>3
  <2>4. AllHaveLevel' BY <1>3, <1>4, <1>5, <1>6, <1>7, <1>l DEF AllHaveLevel, HasLevel, Logs!Quiet, Logs!Alive, Sweeps
  <2>5. SweptHaveLevel' BY <1>3, <1>4, <1>5, <1>7, <1>9, <1>l, <1>e DEF SweptHaveLevel, HasLevel, Entries
  <2> QED BY <2>1, <2>2, <2>3, <2>4, <2>5 DEF LevelsReach
<1>15. UsersReach'
  <2>1. ToldAreMade' BY <1>3, <1>4, <1>5, <1>6, <1>7, <1>l, <1>t DEF ToldAreMade, Logs!Alive
  <2>2. OneTeller' BY <1>3, <1>4, <1>5, <1>6, <1>7, <1>l DEF OneTeller
  <2>3. TellerAgrees' BY <1>3, <1>4, <1>5, <1>6, <1>7, <1>l DEF TellerAgrees
  <2>4. AllHaveUser' BY <1>3, <1>4, <1>5, <1>6, <1>7, <1>l, <1>t DEF AllHaveUser, HasUser, Logs!Quiet, Logs!Alive, Sweeps
  <2>5. SweptHaveUser' BY <1>3, <1>4, <1>5, <1>7, <1>9, <1>l, <1>e DEF SweptHaveUser, HasUser, Entries
  <2> QED BY <2>1, <2>2, <2>3, <2>4, <2>5 DEF UsersReach
<1> QED BY <1>10, <1>11, <1>12, <1>13, <1>14, <1>15

\* track_instance enters it at the end of the list, while no sweep holds it.
LEMMA TrackKeeps ==
  ASSUME Logs!ConstantsOK, LogTyped, Listing, Making, Locking, Emitting, LevelsReach, UsersReach, NEW t \in Threads, Logs!track_instance(t)
  PROVE  Listing' /\ Making' /\ Locking' /\ Emitting' /\ LevelsReach' /\ UsersReach'
<1>0. /\ level \in Logs!Levels /\ instances \in Seq(Loggers) /\ loggers \in [Loggers -> LogRecords]
      /\ lock \in Threads \cup {Logs!None} /\ job \in [Threads -> LogJobs] /\ Logs!None \notin Threads /\ told \subseteq Loggers
  BY DEF LogTyped, Logs!ConstantsOK
<1>l. /\ OneSetter /\ SetterAgrees /\ MakersAgree /\ AllHaveLevel /\ SweptHaveLevel
      /\ ToldAreMade /\ OneTeller /\ TellerAgrees /\ AllHaveUser /\ SweptHaveUser
  BY DEF LevelsReach, UsersReach
<1>e. \A n \in Entries : instances[n] \in Loggers BY <1>0 DEF Entries
<1>t. told \subseteq Loggers BY <1>0
<1>1. job[t].op = "new" /\ lock = Logs!None /\ UNCHANGED <<level, lock, own, told, last, overlapped>> BY DEF Logs!track_instance
<1>2. PICK l \in Loggers : l = job[t].logger /\ loggers[l].state = "untracked" BY <1>1 DEF Making
<1>3. job'[t].op = "idle" /\ job'[t].pc = "" BY <1>0, IdleIsTyped DEF Logs!track_instance, Logs!Returns
<1>4. \A u \in Threads : u # t => job'[u] = job[u] BY <1>0 DEF Logs!track_instance, Logs!Returns
<1>5. loggers'[l].state = "live" /\ loggers'[l].level = loggers[l].level /\ loggers'[l].user = loggers[l].user
  BY <1>2, <1>0 DEF Logs!track_instance, LogRecords
<1>6. \A k \in Loggers : k # l => loggers'[k] = loggers[k] BY <1>2, <1>0 DEF Logs!track_instance
<1>7. PICK s \in Seq(Loggers) : s = instances BY <1>0
<1>8. PICK k \in Nat : k = Len(s) + 1 BY <1>7
<1>9. /\ Entries' = Entries \cup {k} /\ k \notin Entries /\ instances'[k] = l
      /\ \A n \in Entries : instances'[n] = instances[n]
  <2>1. instances' = Append(s, l) BY <1>2, <1>7 DEF Logs!track_instance
  <2>2. Len(instances') = k /\ \A n \in 1 .. k : instances'[n] = IF n = k THEN l ELSE s[n] BY <2>1, <1>7, <1>8
  <2>3. Entries = 1 .. Len(s) /\ Entries' = 1 .. k BY <2>2, <1>7 DEF Entries
  <2> QED BY <2>2, <2>3, <1>7, <1>8
<1>10. \A n \in Entries : instances[n] # l BY <1>2, <1>e DEF Listing, Known
<1>11. \A u \in Threads : job[u].pc # "visit" BY <1>1, <1>0 DEF Locking
<1>12. \A u \in Threads : u # t /\ job[u].op \in {"new", "emit"} => /\ job[u].logger \in Loggers /\ job[u].logger # l
                                                                     /\ loggers'[job[u].logger] = loggers[job[u].logger]
  <2>1. \A u \in Threads : u # t /\ job[u].op = "new" => job[u].logger \in Loggers /\ job[u].logger # l BY <1>1, <1>2 DEF Making
  <2>2. \A u \in Threads : u # t /\ job[u].op = "emit" => job[u].logger \in Loggers /\ job[u].logger # l BY <1>1, <1>2 DEF Emitting, Logs!Alive
  <2> QED BY <2>1, <2>2, <1>6
<1>13. Listing' 
  <2>1. Distinct' BY <1>9, <1>10 DEF Listing, Distinct
  <2>2. Entered' BY <1>2, <1>5, <1>6, <1>9 DEF Listing, Entered, Logs!Alive
  <2>3. Known' BY <1>2, <1>5, <1>6, <1>9, <1>e DEF Listing, Known
  <2> QED BY <2>1, <2>2, <2>3 DEF Listing
<1>14. Making'
  <2>1. \A u \in Threads : job'[u].op = "new" => job'[u].logger \in Loggers /\ loggers'[job'[u].logger].state = "untracked"
    <3>1. SUFFICES ASSUME NEW u \in Threads, job'[u].op = "new"
                   PROVE  job'[u].logger \in Loggers /\ loggers'[job'[u].logger].state = "untracked" OBVIOUS
    <3>2. u # t BY <3>1, <1>3
    <3>3. job'[u] = job[u] /\ job[u].op = "new" BY <3>1, <3>2, <1>4
    <3>4. loggers'[job[u].logger] = loggers[job[u].logger] BY <3>3, <3>2, <1>12
    <3> QED BY <3>3, <3>4 DEF Making
  <2>2. \A u, v \in Threads : job'[u].op = "new" /\ job'[v].op = "new" /\ job'[u].logger = job'[v].logger => u = v
    BY <1>3, <1>4 DEF Making
  <2> QED BY <2>1, <2>2 DEF Making
<1>15. Locking' BY <1>1, <1>2, <1>3, <1>4, <1>5, <1>6, <1>11 DEF Locking, Sweeps
<1>16. Emitting'
  <2>1. SUFFICES ASSUME NEW u \in Threads, job'[u].op = "emit"
                 PROVE  /\ job'[u].logger \in Loggers /\ loggers'[job'[u].logger].state = "live" /\ loggers'[job'[u].logger].level \in job'[u].during
                        /\ MessageFits(job'[u])
    BY DEF Emitting, MessageFits, Logs!Alive
  <2>2. u # t BY <2>1, <1>3
  <2>3. job'[u] = job[u] /\ job[u].op = "emit" BY <2>1, <2>2, <1>4
  <2>4. loggers'[job[u].logger] = loggers[job[u].logger] BY <2>2, <2>3, <1>12
  <2> QED BY <2>3, <2>4 DEF Emitting, Logs!Alive
<1>17. LevelsReach'
  <2>1. OneSetter' BY <1>1, <1>2, <1>3, <1>4, <1>5, <1>6, <1>11, <1>l DEF OneSetter
  <2>2. SetterAgrees' BY <1>1, <1>2, <1>3, <1>4, <1>5, <1>6, <1>11, <1>l DEF SetterAgrees
  <2>3. MakersAgree' BY <1>1, <1>3, <1>4, <1>12, <1>l DEF MakersAgree, Making
  <2>4. AllHaveLevel'
    BY <1>1, <1>2, <1>3, <1>4, <1>5, <1>6, <1>l DEF AllHaveLevel, MakersAgree, HasLevel, Logs!Quiet, Logs!Alive
  <2>5. SweptHaveLevel' BY <1>1, <1>2, <1>3, <1>4, <1>5, <1>6, <1>11, <1>l, <1>e DEF SweptHaveLevel, HasLevel, Entries
  <2> QED BY <2>1, <2>2, <2>3, <2>4, <2>5 DEF LevelsReach
<1>18. UsersReach'
  <2>1. ToldAreMade' BY <1>1, <1>2, <1>3, <1>4, <1>5, <1>6, <1>11, <1>l, <1>t DEF ToldAreMade, Logs!Alive
  <2>2. OneTeller' BY <1>1, <1>2, <1>3, <1>4, <1>5, <1>6, <1>11, <1>l DEF OneTeller
  <2>3. TellerAgrees' BY <1>1, <1>2, <1>3, <1>4, <1>5, <1>6, <1>11, <1>l DEF TellerAgrees
  <2>4. AllHaveUser'
    BY <1>1, <1>2, <1>3, <1>4, <1>5, <1>6, <1>l, <1>t DEF AllHaveUser, ToldAreMade, HasUser, Logs!Quiet, Logs!Alive
  <2>5. SweptHaveUser' BY <1>1, <1>2, <1>3, <1>4, <1>5, <1>6, <1>11, <1>l, <1>e DEF SweptHaveUser, HasUser, Entries
  <2> QED BY <2>1, <2>2, <2>3, <2>4, <2>5 DEF UsersReach
<1> QED BY <1>13, <1>14, <1>15, <1>16, <1>17, <1>18

\* A logger sets its own level.
LEMMA OwnLevelKeeps ==
  ASSUME Logs!ConstantsOK, LogTyped, Listing, Making, Locking, Emitting, LevelsReach, UsersReach, NEW t \in Threads, NEW l \in Loggers, Logs!SetOwnLevel(t, l)
  PROVE  Listing' /\ Making' /\ Locking' /\ Emitting' /\ LevelsReach' /\ UsersReach'
<1>0. /\ level \in Logs!Levels /\ instances \in Seq(Loggers) /\ loggers \in [Loggers -> LogRecords]
      /\ lock \in Threads \cup {Logs!None} /\ job \in [Threads -> LogJobs] /\ Logs!None \notin Threads /\ told \subseteq Loggers
  BY DEF LogTyped, Logs!ConstantsOK
<1>l. /\ OneSetter /\ SetterAgrees /\ MakersAgree /\ AllHaveLevel /\ SweptHaveLevel
      /\ ToldAreMade /\ OneTeller /\ TellerAgrees /\ AllHaveUser /\ SweptHaveUser
  BY DEF LevelsReach, UsersReach
<1>e. \A n \in Entries : instances[n] \in Loggers BY <1>0 DEF Entries
<1>t. told \subseteq Loggers BY <1>0
<1>1. PICK name \in LevelNames :
       IF Logs!from_str(name) = Logs!Invalid THEN UNCHANGED <<loggers, job, own>>
       ELSE /\ loggers' = [loggers EXCEPT ![l].level = Logs!from_str(name)]
            /\ job' = Logs!Noted(l, Logs!from_str(name)) /\ own' = own \cup {l}
  BY DEF Logs!SetOwnLevel
<1>2. UNCHANGED <<level, instances, lock, told, last, overlapped>> BY DEF Logs!SetOwnLevel
<1>3. \A u \in Threads : Same(job'[u], job[u]) /\ job[u].during \subseteq job'[u].during
  BY <1>1, LevelsOfNames, NotedKeeps DEF Same
<1>4. \A u \in Threads : job[u].op = "emit" /\ loggers[job[u].logger].level \in job[u].during
        => loggers'[job[u].logger].level \in job'[u].during \/ job[u].logger \notin Loggers
  <2>1. CASE Logs!from_str(name) = Logs!Invalid BY <1>1, <2>1
  <2>2. CASE Logs!from_str(name) # Logs!Invalid
    <3>1. Logs!from_str(name) \in Logs!Levels BY <2>2, LevelsOfNames
    <3>2. \A u \in Threads : job[u].op = "emit" /\ job[u].logger = l => Logs!from_str(name) \in job'[u].during
      BY <1>1, <2>2, <3>1, NotedKeeps
    <3>3. loggers'[l].level = Logs!from_str(name) BY <1>1, <2>2, <1>0 DEF LogRecords
    <3>4. \A k \in Loggers : k # l => loggers'[k] = loggers[k] BY <1>1, <2>2, <1>0
    <3> QED BY <3>2, <3>3, <3>4, <1>3
  <2> QED BY <2>1, <2>2
<1>5. \A k \in Loggers : /\ loggers'[k].state = loggers[k].state /\ loggers'[k].user = loggers[k].user
                         /\ (k \in own => k \in own') /\ (k \in own' \/ loggers'[k].level = loggers[k].level)
  BY <1>1, <1>0 DEF LogRecords
<1>6. \A k \in Loggers : job[t].op # "levels" => TRUE OBVIOUS
<1>7. \A u \in Threads : job[u].op = "new" => loggers'[job[u].logger].level = loggers[job[u].logger].level
  <2>1. \A u \in Threads : job[u].op = "new" => job[u].logger \in Loggers /\ job[u].logger # l
    BY DEF Logs!SetOwnLevel, Making, Logs!Alive
  <2> QED BY <2>1, <1>1, <1>0
<1>8. Listing' BY <1>0, <1>1, <1>2, <1>3, <1>4, <1>5, <1>6, <1>7, SameList
<1>9. Making'
  BY <1>3, <1>5, <1>2 DEF Making, Same
<1>10. Locking'
  BY <1>3, <1>2 DEF Locking, Sweeps, Same
<1>11. Emitting'
  <2>1. \A u \in Threads : /\ job'[u].op = job[u].op /\ job'[u].logger = job[u].logger /\ job'[u].called = job[u].called
        /\ job'[u].user = job[u].user /\ job'[u].pc = job[u].pc /\ job'[u].printed = job[u].printed /\ job'[u].level = job[u].level
    BY <1>3 DEF Same
  <2> QED BY <2>1, <1>3, <1>4, <1>5 DEF Emitting, MessageFits, Logs!Alive
<1>12. LevelsReach'
  <2>1. OneSetter' BY <1>1, <1>2, <1>3, <1>4, <1>5, <1>6, <1>7, <1>l DEF OneSetter, Same
  <2>2. SetterAgrees' BY <1>1, <1>2, <1>3, <1>4, <1>5, <1>6, <1>7, <1>l DEF SetterAgrees, Same
  <2>3. MakersAgree' BY <1>1, <1>2, <1>3, <1>4, <1>5, <1>6, <1>7, <1>l DEF MakersAgree, Making, Same
  <2>4. AllHaveLevel' BY <1>1, <1>2, <1>3, <1>4, <1>5, <1>6, <1>7, <1>l DEF AllHaveLevel, HasLevel, Logs!Quiet, Logs!Alive, Sweeps, Same
  <2>5. SweptHaveLevel' BY <1>1, <1>2, <1>3, <1>4, <1>5, <1>6, <1>7, <1>l, <1>e DEF SweptHaveLevel, HasLevel, Entries, Same
  <2> QED BY <2>1, <2>2, <2>3, <2>4, <2>5 DEF LevelsReach
<1>13. UsersReach'
  <2>1. ToldAreMade' BY <1>1, <1>2, <1>3, <1>4, <1>5, <1>6, <1>7, <1>l, <1>t DEF ToldAreMade, Logs!Alive, Same
  <2>2. OneTeller' BY <1>1, <1>2, <1>3, <1>4, <1>5, <1>6, <1>7, <1>l DEF OneTeller, Same
  <2>3. TellerAgrees' BY <1>1, <1>2, <1>3, <1>4, <1>5, <1>6, <1>7, <1>l DEF TellerAgrees, Same
  <2>4. AllHaveUser' BY <1>1, <1>2, <1>3, <1>4, <1>5, <1>6, <1>7, <1>l, <1>t DEF AllHaveUser, HasUser, Logs!Quiet, Logs!Alive, Sweeps, Same
  <2>5. SweptHaveUser' BY <1>1, <1>2, <1>3, <1>4, <1>5, <1>6, <1>7, <1>l, <1>e DEF SweptHaveUser, HasUser, Entries, Same
  <2> QED BY <2>1, <2>2, <2>3, <2>4, <2>5 DEF UsersReach
<1> QED BY <1>8, <1>9, <1>10, <1>11, <1>12, <1>13

\* A logger sets its own handlers.
LEMMA OwnRestKeeps ==
  ASSUME Logs!ConstantsOK, LogTyped, Listing, Making, Locking, Emitting, LevelsReach, UsersReach, NEW t \in Threads, NEW l \in Loggers, Logs!SetOwnHandler(t, l) \/ Logs!SetOwnUser(t, l)
  PROVE  Listing' /\ Making' /\ Locking' /\ Emitting' /\ LevelsReach' /\ UsersReach'
<1>0. /\ level \in Logs!Levels /\ instances \in Seq(Loggers) /\ loggers \in [Loggers -> LogRecords]
      /\ lock \in Threads \cup {Logs!None} /\ job \in [Threads -> LogJobs] /\ Logs!None \notin Threads /\ told \subseteq Loggers
  BY DEF LogTyped, Logs!ConstantsOK
<1>l. /\ OneSetter /\ SetterAgrees /\ MakersAgree /\ AllHaveLevel /\ SweptHaveLevel
      /\ ToldAreMade /\ OneTeller /\ TellerAgrees /\ AllHaveUser /\ SweptHaveUser
  BY DEF LevelsReach, UsersReach
<1>e. \A n \in Entries : instances[n] \in Loggers BY <1>0 DEF Entries
<1>t. told \subseteq Loggers BY <1>0
<1>1. UNCHANGED <<level, instances, lock, job, own, last, overlapped>> BY DEF Logs!SetOwnHandler, Logs!SetOwnUser
<1>2. \A k \in Loggers : /\ loggers'[k].state = loggers[k].state /\ loggers'[k].level = loggers[k].level
                         /\ (k \in told' => loggers'[k].user = loggers[k].user)
  BY <1>0 DEF Logs!SetOwnHandler, Logs!SetOwnUser, LogRecords
<1>3. told' \subseteq told BY DEF Logs!SetOwnHandler, Logs!SetOwnUser
<1>4. Listing' BY <1>0, <1>1, <1>2, <1>3, SameList
<1>5. Making' BY <1>1, <1>2, <1>3 DEF Making
<1>6. Locking' BY <1>1, <1>2, <1>3 DEF Locking, Sweeps
<1>7. Emitting' BY <1>1, <1>2, <1>3 DEF Emitting, MessageFits, Logs!Alive
<1>8. LevelsReach'
  <2>1. OneSetter' BY <1>1, <1>2, <1>3, <1>l DEF OneSetter
  <2>2. SetterAgrees' BY <1>1, <1>2, <1>3, <1>l DEF SetterAgrees
  <2>3. MakersAgree' BY <1>1, <1>2, <1>3, <1>l DEF MakersAgree, Making
  <2>4. AllHaveLevel' BY <1>1, <1>2, <1>3, <1>l DEF AllHaveLevel, HasLevel, Logs!Quiet, Logs!Alive, Sweeps
  <2>5. SweptHaveLevel' BY <1>1, <1>2, <1>3, <1>l, <1>e DEF SweptHaveLevel, HasLevel, Entries
  <2> QED BY <2>1, <2>2, <2>3, <2>4, <2>5 DEF LevelsReach
<1>9. UsersReach'
  <2>1. ToldAreMade' BY <1>1, <1>2, <1>3, <1>l, <1>t DEF ToldAreMade, Logs!Alive
  <2>2. OneTeller' BY <1>1, <1>2, <1>3, <1>l DEF OneTeller
  <2>3. TellerAgrees' BY <1>1, <1>2, <1>3, <1>l DEF TellerAgrees
  <2>4. AllHaveUser' BY <1>1, <1>2, <1>3, <1>l, <1>t DEF AllHaveUser, HasUser, Logs!Quiet, Logs!Alive, Sweeps
  <2>5. SweptHaveUser' BY <1>1, <1>2, <1>3, <1>l, <1>e DEF SweptHaveUser, HasUser, Entries
  <2> QED BY <2>1, <2>2, <2>3, <2>4, <2>5 DEF UsersReach
<1> QED BY <1>4, <1>5, <1>6, <1>7, <1>8, <1>9

\* set_log_level stores the global level; calls it overlaps are noted.
LEMMA SetLevelKeeps ==
  ASSUME Logs!ConstantsOK, LogTyped, Listing, Making, Locking, Emitting, LevelsReach, UsersReach, NEW t \in Threads, Logs!SetLogLevel(t)
  PROVE  Listing' /\ Making' /\ Locking' /\ Emitting' /\ LevelsReach' /\ UsersReach'
<1>0. /\ level \in Logs!Levels /\ instances \in Seq(Loggers) /\ loggers \in [Loggers -> LogRecords]
      /\ lock \in Threads \cup {Logs!None} /\ job \in [Threads -> LogJobs] /\ Logs!None \notin Threads /\ told \subseteq Loggers
  BY DEF LogTyped, Logs!ConstantsOK
<1>l. /\ OneSetter /\ SetterAgrees /\ MakersAgree /\ AllHaveLevel /\ SweptHaveLevel
      /\ ToldAreMade /\ OneTeller /\ TellerAgrees /\ AllHaveUser /\ SweptHaveUser
  BY DEF LevelsReach, UsersReach
<1>e. \A n \in Entries : instances[n] \in Loggers BY <1>0 DEF Entries
<1>t. told \subseteq Loggers BY <1>0
<1>1. PICK name \in LevelNames :
      IF Logs!from_str(name) = Logs!Invalid
      THEN UNCHANGED <<level, instances, loggers, lock, job, own, told, last, overlapped>>
      ELSE /\ Logs!Begins(t, [Logs!Idle EXCEPT !.op = "levels", !.level = Logs!from_str(name), !.pc = "lock"])
           /\ level' = Logs!from_str(name)
           /\ Logs!Overlaps("levels", {"new", "levels"})
           /\ UNCHANGED <<instances, loggers, lock, own, told, last>>
  BY DEF Logs!SetLogLevel
<1>2. CASE Logs!from_str(name) = Logs!Invalid
  <2>1. UNCHANGED <<level, instances, loggers, lock, job, own, told, last, overlapped>> BY <1>1, <1>2
  <2>2. Listing' /\ Making' /\ Locking' BY <2>1 DEF Listing, Distinct, Entered, Known, Entries, Logs!Alive, Making, Locking
  <2>3. Emitting' BY <2>1 DEF Emitting, Logs!Alive
  <2>4. LevelsReach' BY <2>1 DEF LevelsReach, OneSetter, SetterAgrees, MakersAgree, AllHaveLevel, SweptHaveLevel, HasLevel, Logs!Quiet, Entries, Logs!Alive
  <2>5. UsersReach' BY <2>1 DEF UsersReach, ToldAreMade, OneTeller, TellerAgrees, AllHaveUser, SweptHaveUser, HasUser, Logs!Quiet, Entries, Logs!Alive
  <2> QED BY <2>2, <2>3, <2>4, <2>5
<1>3. CASE Logs!from_str(name) # Logs!Invalid
  <2>1. /\ job[t].op = "idle" /\ job'[t].op = "levels" /\ job'[t].pc = "lock" /\ job'[t].level = level' /\ level' \in Logs!Levels
        /\ \A u \in Threads : u # t => job'[u] = job[u]
    <3>1. /\ job[t].op = "idle" /\ level' = Logs!from_str(name)
          /\ job' = [job EXCEPT ![t] = [Logs!Idle EXCEPT !.op = "levels", !.level = Logs!from_str(name), !.pc = "lock"]]
      BY <1>1, <1>3 DEF Logs!Begins
    <3>2. Logs!from_str(name) \in Logs!Levels BY <1>3, LevelsOfNames
    <3> QED BY <3>1, <3>2, <1>0 DEF Logs!Idle
  <2>2. UNCHANGED <<instances, loggers, lock, own, told, last>> BY <1>1, <1>3
  <2>3. /\ "users" \notin overlapped' => "users" \notin overlapped
        /\ "levels" \notin overlapped' => \A u \in Threads : job[u].op \notin {"new", "levels"}
    BY <1>1, <1>3 DEF Logs!Overlaps
  <2>4. Listing' BY <2>2, <1>0, SameList
  <2>5. Making' BY <2>1, <2>2 DEF Making
  <2>6. Locking' BY <2>1, <2>2, <1>0 DEF Locking, Sweeps
  <2>7. Emitting' BY <2>1, <2>2 DEF Emitting, Logs!Alive
  <2>8. LevelsReach'
    <3>1. OneSetter' /\ SetterAgrees' BY <2>1, <2>3 DEF OneSetter, SetterAgrees
    <3>2. MakersAgree' BY <2>1, <2>3 DEF MakersAgree
    <3>3. AllHaveLevel' BY <2>1 DEF AllHaveLevel, Logs!Quiet
    <3>4. SweptHaveLevel' BY <2>1, <2>3 DEF SweptHaveLevel
    <3> QED BY <3>1, <3>2, <3>3, <3>4 DEF LevelsReach
  <2>9. UsersReach'
    <3>1. OneTeller' /\ TellerAgrees' BY <2>1, <2>2, <2>3, <1>l DEF OneTeller, TellerAgrees
    <3>2. ToldAreMade' BY <2>2, <1>l DEF ToldAreMade
    <3>3. AllHaveUser' BY <2>1, <2>2, <2>3, <1>l DEF AllHaveUser, HasUser, Logs!Quiet, Logs!Alive
    <3>4. SweptHaveUser' BY <2>1, <2>2, <2>3, <1>l DEF SweptHaveUser, HasUser, Entries
    <3> QED BY <3>1, <3>2, <3>3, <3>4 DEF UsersReach
  <2> QED BY <2>4, <2>5, <2>6, <2>7, <2>8, <2>9
<1> QED BY <1>2, <1>3

\* on_log begins; calls it overlaps are noted.
LEMMA SetUserKeeps ==
  ASSUME Logs!ConstantsOK, LogTyped, Listing, Making, Locking, Emitting, LevelsReach, UsersReach, NEW t \in Threads, Logs!SetUserLogHandler(t)
  PROVE  Listing' /\ Making' /\ Locking' /\ Emitting' /\ LevelsReach' /\ UsersReach'
<1>0. /\ level \in Logs!Levels /\ instances \in Seq(Loggers) /\ loggers \in [Loggers -> LogRecords]
      /\ lock \in Threads \cup {Logs!None} /\ job \in [Threads -> LogJobs] /\ Logs!None \notin Threads /\ told \subseteq Loggers
  BY DEF LogTyped, Logs!ConstantsOK
<1>l. /\ OneSetter /\ SetterAgrees /\ MakersAgree /\ AllHaveLevel /\ SweptHaveLevel
      /\ ToldAreMade /\ OneTeller /\ TellerAgrees /\ AllHaveUser /\ SweptHaveUser
  BY DEF LevelsReach, UsersReach
<1>e. \A n \in Entries : instances[n] \in Loggers BY <1>0 DEF Entries
<1>t. told \subseteq Loggers BY <1>0
<1>1. PICK user \in Logs!Users :
          /\ Logs!Begins(t, [Logs!Idle EXCEPT !.op = "users", !.user = user, !.pc = "lock"])
          /\ Logs!Overlaps("users", {"users"})
          /\ last' = user /\ told' = {l \in Loggers : Logs!Alive(l)}
          /\ UNCHANGED <<level, instances, loggers, lock, own>>
  BY DEF Logs!SetUserLogHandler
<1>2. job[t].op = "idle" /\ job'[t].op = "users" /\ job'[t].pc = "lock" /\ job'[t].user = last' BY <1>1, <1>0, IdleIsTyped DEF Logs!Begins, LogJobs
<1>3. \A u \in Threads : u # t => job'[u] = job[u] BY <1>1, <1>0 DEF Logs!Begins
<1>4. /\ "levels" \notin overlapped' => "levels" \notin overlapped
      /\ "users" \notin overlapped' => \A u \in Threads : job[u].op # "users"
  BY <1>1 DEF Logs!Overlaps
<1>5. UNCHANGED <<level, instances, loggers, lock, own>> /\ told' = {l \in Loggers : Logs!Alive(l)} BY <1>1
<1>6. Listing' BY <1>0, <1>2, <1>3, <1>4, <1>5, SameList
<1>7. Making' BY <1>2, <1>3, <1>4, <1>5 DEF Making
<1>8. Locking' BY <1>2, <1>3, <1>4, <1>5 DEF Locking, Sweeps
<1>9. Emitting' BY <1>2, <1>3, <1>4, <1>5 DEF Emitting, MessageFits, Logs!Alive
<1>10. LevelsReach'
  <2>1. OneSetter' BY <1>2, <1>3, <1>4, <1>5, <1>l DEF OneSetter
  <2>2. SetterAgrees' BY <1>2, <1>3, <1>4, <1>5, <1>l DEF SetterAgrees
  <2>3. MakersAgree' BY <1>2, <1>3, <1>4, <1>5, <1>l DEF MakersAgree, Making
  <2>4. AllHaveLevel' BY <1>2, <1>3, <1>4, <1>5, <1>l DEF AllHaveLevel, HasLevel, Logs!Quiet, Logs!Alive, Sweeps
  <2>5. SweptHaveLevel' BY <1>2, <1>3, <1>4, <1>5, <1>l, <1>e DEF SweptHaveLevel, HasLevel, Entries
  <2> QED BY <2>1, <2>2, <2>3, <2>4, <2>5 DEF LevelsReach
<1>11. UsersReach'
  <2>1. ToldAreMade' BY <1>2, <1>3, <1>4, <1>5, <1>l, <1>t DEF ToldAreMade, Logs!Alive
  <2>2. OneTeller' BY <1>2, <1>3, <1>4, <1>5, <1>l DEF OneTeller
  <2>3. TellerAgrees' BY <1>2, <1>3, <1>4, <1>5, <1>l DEF TellerAgrees
  <2>4. AllHaveUser' BY <1>2, <1>3, <1>4, <1>5, <1>l, <1>t DEF AllHaveUser, HasUser, Logs!Quiet, Logs!Alive, Sweeps
  <2>5. SweptHaveUser' BY <1>2, <1>3, <1>4, <1>5, <1>l, <1>e DEF SweptHaveUser, HasUser, Entries
  <2> QED BY <2>1, <2>2, <2>3, <2>4, <2>5 DEF UsersReach
<1> QED BY <1>6, <1>7, <1>8, <1>9, <1>10, <1>11

\* A sweep takes the lock of the list, at its first entry.
LEMMA LockKeeps ==
  ASSUME Logs!ConstantsOK, LogTyped, Listing, Making, Locking, Emitting, LevelsReach, UsersReach, NEW t \in Threads, Logs!SweepLocks(t)
  PROVE  Listing' /\ Making' /\ Locking' /\ Emitting' /\ LevelsReach' /\ UsersReach'
<1>0. /\ level \in Logs!Levels /\ instances \in Seq(Loggers) /\ loggers \in [Loggers -> LogRecords]
      /\ lock \in Threads \cup {Logs!None} /\ job \in [Threads -> LogJobs] /\ Logs!None \notin Threads /\ told \subseteq Loggers
  BY DEF LogTyped, Logs!ConstantsOK
<1>l. /\ OneSetter /\ SetterAgrees /\ MakersAgree /\ AllHaveLevel /\ SweptHaveLevel
      /\ ToldAreMade /\ OneTeller /\ TellerAgrees /\ AllHaveUser /\ SweptHaveUser
  BY DEF LevelsReach, UsersReach
<1>e. \A n \in Entries : instances[n] \in Loggers BY <1>0 DEF Entries
<1>t. told \subseteq Loggers BY <1>0
<1>1. /\ job[t].pc = "lock" /\ lock = Logs!None /\ lock' = t /\ UNCHANGED <<level, instances, loggers, own, told, last, overlapped>>
      /\ job' = [job EXCEPT ![t] = [job[t] EXCEPT !.pc = "visit", !.i = 1]]
  BY <1>0 DEF Logs!SweepLocks
<1>2. /\ job'[t].op = job[t].op /\ job'[t].level = job[t].level /\ job'[t].user = job[t].user /\ job'[t].pc = "visit" /\ job'[t].i = 1
  BY <1>1, <1>0 DEF LogJobs
<1>3. \A u \in Threads : u # t => job'[u] = job[u] BY <1>1, <1>0
<1>4. \A n \in Entries : ~(n < 1) BY <1>0 DEF Entries
<1>5. job[t].op \in Sweeps BY <1>1 DEF Locking
<1>6. Listing' BY <1>0, <1>1, <1>2, <1>3, <1>5, SameList
<1>7. Making' BY <1>1, <1>2, <1>3, <1>5 DEF Making
<1>8. Locking' BY <1>1, <1>2, <1>3, <1>5, <1>0 DEF Locking, Sweeps
<1>9. Emitting' BY <1>1, <1>2, <1>3, <1>5 DEF Emitting, MessageFits, Logs!Alive
<1>10. LevelsReach'
  <2>1. OneSetter' BY <1>1, <1>2, <1>3, <1>5, <1>l DEF OneSetter
  <2>2. SetterAgrees' BY <1>1, <1>2, <1>3, <1>5, <1>l DEF SetterAgrees
  <2>3. MakersAgree' BY <1>1, <1>2, <1>3, <1>5, <1>l DEF MakersAgree, Making
  <2>4. AllHaveLevel' BY <1>1, <1>2, <1>3, <1>5, <1>l DEF AllHaveLevel, HasLevel, Logs!Quiet, Logs!Alive, Sweeps
  <2>5. SweptHaveLevel' BY <1>1, <1>2, <1>3, <1>4, <1>l, <1>e DEF SweptHaveLevel, HasLevel, Entries
  <2> QED BY <2>1, <2>2, <2>3, <2>4, <2>5 DEF LevelsReach
<1>11. UsersReach'
  <2>1. ToldAreMade' BY <1>1, <1>2, <1>3, <1>5, <1>l, <1>t DEF ToldAreMade, Logs!Alive
  <2>2. OneTeller' BY <1>1, <1>2, <1>3, <1>5, <1>l DEF OneTeller
  <2>3. TellerAgrees' BY <1>1, <1>2, <1>3, <1>5, <1>l DEF TellerAgrees
  <2>4. AllHaveUser' BY <1>1, <1>2, <1>3, <1>5, <1>l, <1>t DEF AllHaveUser, HasUser, Logs!Quiet, Logs!Alive, Sweeps
  <2>5. SweptHaveUser' BY <1>1, <1>2, <1>3, <1>4, <1>l, <1>e DEF SweptHaveUser, HasUser, Entries
  <2> QED BY <2>1, <2>2, <2>3, <2>4, <2>5 DEF UsersReach
<1> QED BY <1>6, <1>7, <1>8, <1>9, <1>10, <1>11

\* A sweep that is past the last entry has set every logger.
LEMMA EndKeeps ==
  ASSUME Logs!ConstantsOK, LogTyped, Listing, Making, Locking, Emitting, LevelsReach, UsersReach, NEW t \in Threads, Logs!SweepEnds(t)
  PROVE  Listing' /\ Making' /\ Locking' /\ Emitting' /\ LevelsReach' /\ UsersReach'
<1>0. /\ level \in Logs!Levels /\ instances \in Seq(Loggers) /\ loggers \in [Loggers -> LogRecords]
      /\ lock \in Threads \cup {Logs!None} /\ job \in [Threads -> LogJobs] /\ Logs!None \notin Threads /\ told \subseteq Loggers
  BY DEF LogTyped, Logs!ConstantsOK
<1>l. /\ OneSetter /\ SetterAgrees /\ MakersAgree /\ AllHaveLevel /\ SweptHaveLevel
      /\ ToldAreMade /\ OneTeller /\ TellerAgrees /\ AllHaveUser /\ SweptHaveUser
  BY DEF LevelsReach, UsersReach
<1>e. \A n \in Entries : instances[n] \in Loggers BY <1>0 DEF Entries
<1>t. told \subseteq Loggers BY <1>0
<1>1. job[t].pc = "visit" /\ lock' = Logs!None /\ UNCHANGED <<level, instances, loggers, own, told, last, overlapped>> BY DEF Logs!SweepEnds
<1>2. job'[t].op = "idle" /\ job'[t].pc = "" BY <1>0, IdleIsTyped DEF Logs!SweepEnds, Logs!Returns
<1>3. \A u \in Threads : u # t => job'[u] = job[u] BY <1>0 DEF Logs!SweepEnds, Logs!Returns
<1>4. \A n \in Entries : n < job[t].i
  <2>1. PICK i \in Nat : i = job[t].i BY <1>0 DEF LogJobs
  <2>2. PICK k \in Nat : k = Len(instances) BY <1>0
  <2>3. i > k BY <2>1, <2>2 DEF Logs!SweepEnds
  <2> QED BY <2>1, <2>2, <2>3 DEF Entries
<1>5. lock = t /\ job[t].op \in Sweeps BY <1>1 DEF Locking
<1>6. \A l \in Loggers : Logs!Alive(l) => \E n \in Entries : instances[n] = l BY DEF Listing, Entered
<1>7. \A u \in Threads : job[u].pc = "visit" => u = t BY <1>5, <1>0 DEF Locking
<1>8. Listing' BY <1>0, <1>1, <1>2, <1>3, <1>5, SameList
<1>9. Making' BY <1>1, <1>2, <1>3, <1>5 DEF Making
<1>10. Locking' BY <1>1, <1>2, <1>3, <1>5, <1>7, <1>0 DEF Locking, Sweeps
<1>11. Emitting' BY <1>1, <1>2, <1>3, <1>5 DEF Emitting, MessageFits, Logs!Alive
<1>12. LevelsReach'
  <2>1. OneSetter' BY <1>1, <1>2, <1>3, <1>5, <1>l DEF OneSetter
  <2>2. SetterAgrees' BY <1>1, <1>2, <1>3, <1>5, <1>l DEF SetterAgrees
  <2>3. MakersAgree' BY <1>1, <1>2, <1>3, <1>5, <1>l DEF MakersAgree, Making
  <2>4. AllHaveLevel'
    <3>1. CASE job[t].op = "levels" BY <1>1, <1>4, <1>6, <1>l, <3>1 DEF AllHaveLevel, SweptHaveLevel, Logs!Alive, HasLevel
    <3>2. CASE job[t].op = "users" BY <1>1, <1>2, <1>3, <1>l, <3>2 DEF AllHaveLevel, HasLevel, Logs!Quiet, Logs!Alive
    <3> QED BY <3>1, <3>2, <1>5 DEF Sweeps
  <2>5. SweptHaveLevel' BY <1>1, <1>2, <1>3, <1>5, <1>l, <1>e DEF SweptHaveLevel, HasLevel, Entries
  <2> QED BY <2>1, <2>2, <2>3, <2>4, <2>5 DEF LevelsReach
<1>13. UsersReach'
  <2>1. ToldAreMade' BY <1>1, <1>2, <1>3, <1>5, <1>l, <1>t DEF ToldAreMade, Logs!Alive
  <2>2. OneTeller' BY <1>1, <1>2, <1>3, <1>5, <1>l DEF OneTeller
  <2>3. TellerAgrees' BY <1>1, <1>2, <1>3, <1>5, <1>l DEF TellerAgrees
  <2>4. AllHaveUser'
    <3>1. CASE job[t].op = "users" BY <1>1, <1>4, <1>6, <1>l, <3>1 DEF AllHaveUser, SweptHaveUser, Logs!Alive, HasUser
    <3>2. CASE job[t].op = "levels" BY <1>1, <1>2, <1>3, <1>l, <3>2 DEF AllHaveUser, HasUser, Logs!Quiet, Logs!Alive
    <3> QED BY <3>1, <3>2, <1>5 DEF Sweeps
  <2>5. SweptHaveUser' BY <1>1, <1>2, <1>3, <1>5, <1>l, <1>e DEF SweptHaveUser, HasUser, Entries
  <2> QED BY <2>1, <2>2, <2>3, <2>4, <2>5 DEF UsersReach
<1> QED BY <1>8, <1>9, <1>10, <1>11, <1>12, <1>13

\* A message begins to be logged.
LEMMA EmitKeeps ==
  ASSUME Logs!ConstantsOK, LogTyped, Listing, Making, Locking, Emitting, LevelsReach, UsersReach, NEW t \in Threads, NEW l \in Loggers, Logs!Emit(t, l)
  PROVE  Listing' /\ Making' /\ Locking' /\ Emitting' /\ LevelsReach' /\ UsersReach'
<1>0. /\ level \in Logs!Levels /\ instances \in Seq(Loggers) /\ loggers \in [Loggers -> LogRecords]
      /\ lock \in Threads \cup {Logs!None} /\ job \in [Threads -> LogJobs] /\ Logs!None \notin Threads /\ told \subseteq Loggers
  BY DEF LogTyped, Logs!ConstantsOK
<1>l. /\ OneSetter /\ SetterAgrees /\ MakersAgree /\ AllHaveLevel /\ SweptHaveLevel
      /\ ToldAreMade /\ OneTeller /\ TellerAgrees /\ AllHaveUser /\ SweptHaveUser
  BY DEF LevelsReach, UsersReach
<1>e. \A n \in Entries : instances[n] \in Loggers BY <1>0 DEF Entries
<1>t. told \subseteq Loggers BY <1>0
<1>1. PICK m \in Emitted :
          Logs!Begins(t, [Logs!Idle EXCEPT !.op = "emit", !.logger = l, !.level = m, !.during = {loggers[l].level},
                                 !.user = loggers[l].user, !.pc = "call"])
  BY DEF Logs!Emit
<1>2. job[t].op = "idle" /\ Logs!Alive(l) /\ UNCHANGED <<level, instances, loggers, lock, own, told, last, overlapped>> BY <1>1 DEF Logs!Emit, Logs!Begins
<1>3. /\ job'[t].op = "emit" /\ job'[t].logger = l /\ job'[t].pc = "call" /\ job'[t].during = {loggers[l].level} /\ ~job'[t].called
  <2>1. job' = [job EXCEPT ![t] = [Logs!Idle EXCEPT !.op = "emit", !.logger = l, !.level = m, !.during = {loggers[l].level},
                                                 !.user = loggers[l].user, !.pc = "call"]]
    BY <1>1 DEF Logs!Begins
  <2> QED BY <2>1, <1>0 DEF Logs!Idle
<1>4. \A u \in Threads : u # t => job'[u] = job[u] BY <1>1, <1>0 DEF Logs!Begins
<1>5. Listing' BY <1>0, <1>2, <1>3, <1>4, SameList
<1>6. Making' BY <1>2, <1>3, <1>4 DEF Making
<1>7. Locking' BY <1>2, <1>3, <1>4 DEF Locking, Sweeps
<1>8. Emitting' BY <1>2, <1>3, <1>4 DEF Emitting, MessageFits, Logs!Alive
<1>9. LevelsReach'
  <2>1. OneSetter' BY <1>2, <1>3, <1>4, <1>l DEF OneSetter
  <2>2. SetterAgrees' BY <1>2, <1>3, <1>4, <1>l DEF SetterAgrees
  <2>3. MakersAgree' BY <1>2, <1>3, <1>4, <1>l DEF MakersAgree, Making
  <2>4. AllHaveLevel' BY <1>2, <1>3, <1>4, <1>l DEF AllHaveLevel, HasLevel, Logs!Quiet, Logs!Alive, Sweeps
  <2>5. SweptHaveLevel' BY <1>2, <1>3, <1>4, <1>l, <1>e DEF SweptHaveLevel, HasLevel, Entries
  <2> QED BY <2>1, <2>2, <2>3, <2>4, <2>5 DEF LevelsReach
<1>10. UsersReach'
  <2>1. ToldAreMade' BY <1>2, <1>3, <1>4, <1>l, <1>t DEF ToldAreMade, Logs!Alive
  <2>2. OneTeller' BY <1>2, <1>3, <1>4, <1>l DEF OneTeller
  <2>3. TellerAgrees' BY <1>2, <1>3, <1>4, <1>l DEF TellerAgrees
  <2>4. AllHaveUser' BY <1>2, <1>3, <1>4, <1>l, <1>t DEF AllHaveUser, HasUser, Logs!Quiet, Logs!Alive, Sweeps
  <2>5. SweptHaveUser' BY <1>2, <1>3, <1>4, <1>l, <1>e DEF SweptHaveUser, HasUser, Entries
  <2> QED BY <2>1, <2>2, <2>3, <2>4, <2>5 DEF UsersReach
<1> QED BY <1>5, <1>6, <1>7, <1>8, <1>9, <1>10

\* The user's callback is called by the level of that moment.
LEMMA CallsKeeps ==
  ASSUME Logs!ConstantsOK, LogTyped, Listing, Making, Locking, Emitting, LevelsReach, UsersReach, NEW t \in Threads, Logs!EmitCalls(t)
  PROVE  Listing' /\ Making' /\ Locking' /\ Emitting' /\ LevelsReach' /\ UsersReach'
<1>0. /\ level \in Logs!Levels /\ instances \in Seq(Loggers) /\ loggers \in [Loggers -> LogRecords]
      /\ lock \in Threads \cup {Logs!None} /\ job \in [Threads -> LogJobs] /\ Logs!None \notin Threads /\ told \subseteq Loggers
  BY DEF LogTyped, Logs!ConstantsOK
<1>l. /\ OneSetter /\ SetterAgrees /\ MakersAgree /\ AllHaveLevel /\ SweptHaveLevel
      /\ ToldAreMade /\ OneTeller /\ TellerAgrees /\ AllHaveUser /\ SweptHaveUser
  BY DEF LevelsReach, UsersReach
<1>e. \A n \in Entries : instances[n] \in Loggers BY <1>0 DEF Entries
<1>t. told \subseteq Loggers BY <1>0
<1>1. job[t].op = "emit" /\ job[t].pc = "call" /\ UNCHANGED <<level, instances, loggers, lock, own, told, last, overlapped>> BY DEF Logs!EmitCalls
<1>2. PICK called \in BOOLEAN : called = (job[t].user # Logs!NoUser /\ Logs!passes(job[t].user, job[t].level, job[t].logger)) OBVIOUS
<1>3. job' = [job EXCEPT ![t] = [job[t] EXCEPT !.pc = "print", !.called = called]] BY <1>0, <1>2 DEF Logs!EmitCalls
<1>4. /\ job'[t].op = "emit" /\ job'[t].logger = job[t].logger /\ job'[t].pc = "print" /\ job'[t].during = job[t].during
      /\ job'[t].called = called /\ job'[t].user = job[t].user /\ job'[t].level = job[t].level
  BY <1>1, <1>3, <1>0 DEF LogJobs
<1>5. \A u \in Threads : u # t => job'[u] = job[u] BY <1>3, <1>0
<1>6. called /\ job[t].user.level = Logs!Invalid => job[t].level >= loggers[job[t].logger].level BY <1>2 DEF Logs!passes
<1>7. Listing' BY <1>0, <1>1, <1>2, <1>3, <1>4, <1>5, <1>6, SameList
<1>8. Making' BY <1>1, <1>2, <1>3, <1>4, <1>5, <1>6 DEF Making
<1>9. Locking' BY <1>1, <1>2, <1>3, <1>4, <1>5, <1>6 DEF Locking, Sweeps
<1>10. Emitting' BY <1>1, <1>2, <1>3, <1>4, <1>5, <1>6 DEF Emitting, MessageFits, Logs!Alive
<1>11. LevelsReach'
  <2>1. OneSetter' BY <1>1, <1>2, <1>3, <1>4, <1>5, <1>6, <1>l DEF OneSetter
  <2>2. SetterAgrees' BY <1>1, <1>2, <1>3, <1>4, <1>5, <1>6, <1>l DEF SetterAgrees
  <2>3. MakersAgree' BY <1>1, <1>2, <1>3, <1>4, <1>5, <1>6, <1>l DEF MakersAgree, Making
  <2>4. AllHaveLevel' BY <1>1, <1>2, <1>3, <1>4, <1>5, <1>6, <1>l DEF AllHaveLevel, HasLevel, Logs!Quiet, Logs!Alive, Sweeps
  <2>5. SweptHaveLevel' BY <1>1, <1>2, <1>3, <1>4, <1>5, <1>6, <1>l, <1>e DEF SweptHaveLevel, HasLevel, Entries
  <2> QED BY <2>1, <2>2, <2>3, <2>4, <2>5 DEF LevelsReach
<1>12. UsersReach'
  <2>1. ToldAreMade' BY <1>1, <1>2, <1>3, <1>4, <1>5, <1>6, <1>l, <1>t DEF ToldAreMade, Logs!Alive
  <2>2. OneTeller' BY <1>1, <1>2, <1>3, <1>4, <1>5, <1>6, <1>l DEF OneTeller
  <2>3. TellerAgrees' BY <1>1, <1>2, <1>3, <1>4, <1>5, <1>6, <1>l DEF TellerAgrees
  <2>4. AllHaveUser' BY <1>1, <1>2, <1>3, <1>4, <1>5, <1>6, <1>l, <1>t DEF AllHaveUser, HasUser, Logs!Quiet, Logs!Alive, Sweeps
  <2>5. SweptHaveUser' BY <1>1, <1>2, <1>3, <1>4, <1>5, <1>6, <1>l, <1>e DEF SweptHaveUser, HasUser, Entries
  <2> QED BY <2>1, <2>2, <2>3, <2>4, <2>5 DEF UsersReach
<1> QED BY <1>7, <1>8, <1>9, <1>10, <1>11, <1>12

\* The handler prints by the level of that moment.
LEMMA PrintsKeeps ==
  ASSUME Logs!ConstantsOK, LogTyped, Listing, Making, Locking, Emitting, LevelsReach, UsersReach, NEW t \in Threads, Logs!EmitPrints(t)
  PROVE  Listing' /\ Making' /\ Locking' /\ Emitting' /\ LevelsReach' /\ UsersReach'
<1>0. /\ level \in Logs!Levels /\ instances \in Seq(Loggers) /\ loggers \in [Loggers -> LogRecords]
      /\ lock \in Threads \cup {Logs!None} /\ job \in [Threads -> LogJobs] /\ Logs!None \notin Threads /\ told \subseteq Loggers
  BY DEF LogTyped, Logs!ConstantsOK
<1>l. /\ OneSetter /\ SetterAgrees /\ MakersAgree /\ AllHaveLevel /\ SweptHaveLevel
      /\ ToldAreMade /\ OneTeller /\ TellerAgrees /\ AllHaveUser /\ SweptHaveUser
  BY DEF LevelsReach, UsersReach
<1>e. \A n \in Entries : instances[n] \in Loggers BY <1>0 DEF Entries
<1>t. told \subseteq Loggers BY <1>0
<1>1. job[t].op = "emit" /\ job[t].pc = "print" /\ UNCHANGED <<level, instances, loggers, lock, own, told, last, overlapped>> BY DEF Logs!EmitPrints
<1>2. PICK printed \in BOOLEAN : printed = Logs!default_log_handler(job[t].level, job[t].logger) BY DEF Logs!default_log_handler
<1>3. \/ job' = [job EXCEPT ![t] = [job[t] EXCEPT !.pc = "ended", !.printed = printed]]
      \/ job' = [job EXCEPT ![t] = [job[t] EXCEPT !.pc = "handed"]]
  BY <1>0, <1>2 DEF Logs!EmitPrints
<1>4. /\ job'[t].op = "emit" /\ job'[t].logger = job[t].logger /\ job'[t].pc \in {"ended", "handed"} /\ job'[t].during = job[t].during
      /\ job'[t].called = job[t].called /\ job'[t].user = job[t].user /\ job'[t].level = job[t].level
      /\ job'[t].pc = "ended" => job'[t].printed = printed
  <2>1. job[t] \in LogJobs BY <1>0
  <2>2. CASE job' = [job EXCEPT ![t] = [job[t] EXCEPT !.pc = "ended", !.printed = printed]]
    <3>1. job'[t] = [job[t] EXCEPT !.pc = "ended", !.printed = printed] BY <2>2, <1>0
    <3> QED BY <3>1, <2>1, <1>1 DEF LogJobs
  <2>3. CASE job' = [job EXCEPT ![t] = [job[t] EXCEPT !.pc = "handed"]]
    <3>1. job'[t] = [job[t] EXCEPT !.pc = "handed"] BY <2>3, <1>0
    <3> QED BY <3>1, <2>1, <1>1 DEF LogJobs
  <2> QED BY <2>2, <2>3, <1>3
<1>5. \A u \in Threads : u # t => job'[u] = job[u] BY <1>3, <1>0
<1>6. printed = (job[t].level >= loggers[job[t].logger].level /\ job[t].level # Logs!Silent) BY <1>2 DEF Logs!default_log_handler
<1>7. Listing' BY <1>0, <1>1, <1>2, <1>3, <1>4, <1>5, <1>6, SameList
<1>8. Making' BY <1>1, <1>2, <1>3, <1>4, <1>5, <1>6 DEF Making
<1>9. Locking' BY <1>1, <1>2, <1>3, <1>4, <1>5, <1>6 DEF Locking, Sweeps
<1>10. Emitting' BY <1>1, <1>2, <1>3, <1>4, <1>5, <1>6 DEF Emitting, MessageFits, Logs!Alive
<1>11. LevelsReach'
  <2>1. OneSetter' BY <1>1, <1>2, <1>3, <1>4, <1>5, <1>6, <1>l DEF OneSetter
  <2>2. SetterAgrees' BY <1>1, <1>2, <1>3, <1>4, <1>5, <1>6, <1>l DEF SetterAgrees
  <2>3. MakersAgree' BY <1>1, <1>2, <1>3, <1>4, <1>5, <1>6, <1>l DEF MakersAgree, Making
  <2>4. AllHaveLevel' BY <1>1, <1>2, <1>3, <1>4, <1>5, <1>6, <1>l DEF AllHaveLevel, HasLevel, Logs!Quiet, Logs!Alive, Sweeps
  <2>5. SweptHaveLevel' BY <1>1, <1>2, <1>3, <1>4, <1>5, <1>6, <1>l, <1>e DEF SweptHaveLevel, HasLevel, Entries
  <2> QED BY <2>1, <2>2, <2>3, <2>4, <2>5 DEF LevelsReach
<1>12. UsersReach'
  <2>1. ToldAreMade' BY <1>1, <1>2, <1>3, <1>4, <1>5, <1>6, <1>l, <1>t DEF ToldAreMade, Logs!Alive
  <2>2. OneTeller' BY <1>1, <1>2, <1>3, <1>4, <1>5, <1>6, <1>l DEF OneTeller
  <2>3. TellerAgrees' BY <1>1, <1>2, <1>3, <1>4, <1>5, <1>6, <1>l DEF TellerAgrees
  <2>4. AllHaveUser' BY <1>1, <1>2, <1>3, <1>4, <1>5, <1>6, <1>l, <1>t DEF AllHaveUser, HasUser, Logs!Quiet, Logs!Alive, Sweeps
  <2>5. SweptHaveUser' BY <1>1, <1>2, <1>3, <1>4, <1>5, <1>6, <1>l, <1>e DEF SweptHaveUser, HasUser, Entries
  <2> QED BY <2>1, <2>2, <2>3, <2>4, <2>5 DEF UsersReach
<1> QED BY <1>7, <1>8, <1>9, <1>10, <1>11, <1>12

\* A message has been logged.
LEMMA ReturnKeeps ==
  ASSUME Logs!ConstantsOK, LogTyped, Listing, Making, Locking, Emitting, LevelsReach, UsersReach, NEW t \in Threads, Logs!EmitReturns(t)
  PROVE  Listing' /\ Making' /\ Locking' /\ Emitting' /\ LevelsReach' /\ UsersReach'
<1>0. /\ level \in Logs!Levels /\ instances \in Seq(Loggers) /\ loggers \in [Loggers -> LogRecords]
      /\ lock \in Threads \cup {Logs!None} /\ job \in [Threads -> LogJobs] /\ Logs!None \notin Threads /\ told \subseteq Loggers
  BY DEF LogTyped, Logs!ConstantsOK
<1>l. /\ OneSetter /\ SetterAgrees /\ MakersAgree /\ AllHaveLevel /\ SweptHaveLevel
      /\ ToldAreMade /\ OneTeller /\ TellerAgrees /\ AllHaveUser /\ SweptHaveUser
  BY DEF LevelsReach, UsersReach
<1>e. \A n \in Entries : instances[n] \in Loggers BY <1>0 DEF Entries
<1>t. told \subseteq Loggers BY <1>0
<1>1. job[t].pc \in {"ended", "handed"} /\ UNCHANGED <<level, instances, loggers, lock, own, told, last, overlapped>> BY DEF Logs!EmitReturns
<1>2. job'[t].op = "idle" /\ job'[t].pc = "" BY <1>0, IdleIsTyped DEF Logs!EmitReturns, Logs!Returns
<1>3. \A u \in Threads : u # t => job'[u] = job[u] BY <1>0 DEF Logs!EmitReturns, Logs!Returns
<1>4. job[t].op \notin Sweeps BY <1>1 DEF Locking
<1>5. Listing' BY <1>0, <1>1, <1>2, <1>3, <1>4, SameList
<1>6. Making' BY <1>1, <1>2, <1>3, <1>4 DEF Making
<1>7. Locking' BY <1>1, <1>2, <1>3, <1>4 DEF Locking, Sweeps
<1>8. Emitting' BY <1>1, <1>2, <1>3, <1>4 DEF Emitting, MessageFits, Logs!Alive
<1>9. LevelsReach'
  <2>1. OneSetter' BY <1>1, <1>2, <1>3, <1>4, <1>l DEF OneSetter
  <2>2. SetterAgrees' BY <1>1, <1>2, <1>3, <1>4, <1>l DEF SetterAgrees
  <2>3. MakersAgree' BY <1>1, <1>2, <1>3, <1>4, <1>l DEF MakersAgree, Making
  <2>4. AllHaveLevel' BY <1>1, <1>2, <1>3, <1>4, <1>l DEF AllHaveLevel, HasLevel, Logs!Quiet, Logs!Alive, Sweeps
  <2>5. SweptHaveLevel' BY <1>1, <1>2, <1>3, <1>4, <1>l, <1>e DEF SweptHaveLevel, HasLevel, Entries
  <2> QED BY <2>1, <2>2, <2>3, <2>4, <2>5 DEF LevelsReach
<1>10. UsersReach'
  <2>1. ToldAreMade' BY <1>1, <1>2, <1>3, <1>4, <1>l, <1>t DEF ToldAreMade, Logs!Alive
  <2>2. OneTeller' BY <1>1, <1>2, <1>3, <1>4, <1>l DEF OneTeller
  <2>3. TellerAgrees' BY <1>1, <1>2, <1>3, <1>4, <1>l DEF TellerAgrees
  <2>4. AllHaveUser' BY <1>1, <1>2, <1>3, <1>4, <1>l, <1>t DEF AllHaveUser, HasUser, Logs!Quiet, Logs!Alive, Sweeps
  <2>5. SweptHaveUser' BY <1>1, <1>2, <1>3, <1>4, <1>l, <1>e DEF SweptHaveUser, HasUser, Entries
  <2> QED BY <2>1, <2>2, <2>3, <2>4, <2>5 DEF UsersReach
<1> QED BY <1>5, <1>6, <1>7, <1>8, <1>9, <1>10

\* A turn of a sweep that throws out the entry of a dead logger.
LEMMA VisitDropsKeeps ==
  ASSUME Logs!ConstantsOK, LogTyped, Listing, Making, Locking, Emitting, LevelsReach, UsersReach, NEW t \in Threads, Logs!Visit(t), loggers[instances[job[t].i]].state = "dropped"
  PROVE  Listing' /\ Making' /\ Locking' /\ Emitting' /\ LevelsReach' /\ UsersReach'
<1>0. /\ level \in Logs!Levels /\ instances \in Seq(Loggers) /\ loggers \in [Loggers -> LogRecords]
      /\ lock \in Threads \cup {Logs!None} /\ job \in [Threads -> LogJobs] /\ Logs!None \notin Threads /\ told \subseteq Loggers
  BY DEF LogTyped, Logs!ConstantsOK
<1>l. /\ OneSetter /\ SetterAgrees /\ MakersAgree /\ AllHaveLevel /\ SweptHaveLevel
      /\ ToldAreMade /\ OneTeller /\ TellerAgrees /\ AllHaveUser /\ SweptHaveUser
  BY DEF LevelsReach, UsersReach
<1>e. \A n \in Entries : instances[n] \in Loggers BY <1>0 DEF Entries
<1>t. told \subseteq Loggers BY <1>0
<1>1. PICK i \in Entries : i = job[t].i
  <2>1. job[t].i \in Nat /\ job[t].i >= 1 /\ job[t].i <= Len(instances) BY <1>0 DEF Logs!Visit, Locking, LogJobs
  <2> QED BY <2>1, <1>0 DEF Entries
<1>2. PICK l \in Loggers : l = instances[i] BY <1>e
<1>3. job[t].pc = "visit" /\ UNCHANGED <<level, lock, told, last, overlapped>> BY DEF Logs!Visit
<1>4. \A u \in Threads : job[u].pc = "visit" => u = t BY <1>3, <1>0 DEF Locking
<1>5. i \in Nat BY DEF Entries
<1>6. instances' = Logs!swap_remove(instances, i) /\ job' = [job EXCEPT ![t].i = i] /\ UNCHANGED <<loggers, own>>
  BY <1>1 DEF Logs!Visit, Logs!after_removal
<1>7. job' = job
  <2>1. job' = [job EXCEPT ![t] = [job[t] EXCEPT !.i = i]] BY <1>6, <1>0
  <2>2. [job[t] EXCEPT !.i = i] = job[t] BY <1>1, <1>0 DEF LogJobs
  <2> QED BY <2>1, <2>2, <1>0
<1>8. loggers[instances[i]].state = "dropped" BY <1>1
<1>9. Listing' /\ \A n \in 1 .. i - 1 : n \in Entries' => instances'[n] = instances[n] BY <1>6, <1>8, SwapRemoveKeeps
<1>10. \A n \in Entries' : n < i => n \in Entries /\ instances'[n] = instances[n]
  <2>1. SUFFICES ASSUME NEW n \in Entries', n < i PROVE n \in Entries /\ instances'[n] = instances[n] OBVIOUS
  <2>2. n \in 1 .. i - 1 BY <2>1, <1>5 DEF Entries
  <2>3. n \in Entries BY <2>2, <1>0 DEF Entries
  <2> QED BY <2>2, <2>3, <1>9
<1>11. Making' /\ Locking'
  <2>1. Making' BY <1>6, <1>7 DEF Making
  <2>2. Locking' BY <1>3, <1>7 DEF Locking
  <2> QED BY <2>1, <2>2
<1>12. Emitting' BY <1>6, <1>7 DEF Emitting, MessageFits, Logs!Alive
<1>13. LevelsReach'
  <2>1. OneSetter' /\ SetterAgrees' /\ MakersAgree' BY <1>3, <1>6, <1>7, <1>l DEF OneSetter, SetterAgrees, MakersAgree
  <2>2. AllHaveLevel' BY <1>3, <1>6, <1>7, <1>l DEF AllHaveLevel, HasLevel, Logs!Quiet, Logs!Alive
  <2>3. SweptHaveLevel' BY <1>1, <1>3, <1>4, <1>6, <1>7, <1>10, <1>l DEF SweptHaveLevel, HasLevel
  <2> QED BY <2>1, <2>2, <2>3 DEF LevelsReach
<1>14. UsersReach'
  <2>1. ToldAreMade' /\ OneTeller' /\ TellerAgrees' BY <1>3, <1>6, <1>7, <1>l DEF ToldAreMade, OneTeller, TellerAgrees
  <2>2. AllHaveUser' BY <1>3, <1>6, <1>7, <1>l DEF AllHaveUser, HasUser, Logs!Quiet, Logs!Alive
  <2>3. SweptHaveUser' BY <1>1, <1>3, <1>4, <1>6, <1>7, <1>10, <1>l DEF SweptHaveUser, HasUser
  <2> QED BY <2>1, <2>2, <2>3 DEF UsersReach
<1> QED BY <1>9, <1>11, <1>12, <1>13, <1>14

\* A turn of set_log_level's sweep that sets a logger.
LEMMA VisitSetsKeeps ==
  ASSUME Logs!ConstantsOK, LogTyped, Listing, Making, Locking, Emitting, LevelsReach, UsersReach, NEW t \in Threads, Logs!Visit(t), loggers[instances[job[t].i]].state # "dropped", job[t].op = "levels"
  PROVE  Listing' /\ Making' /\ Locking' /\ Emitting' /\ LevelsReach' /\ UsersReach'
<1>0. /\ level \in Logs!Levels /\ instances \in Seq(Loggers) /\ loggers \in [Loggers -> LogRecords]
      /\ lock \in Threads \cup {Logs!None} /\ job \in [Threads -> LogJobs] /\ Logs!None \notin Threads /\ told \subseteq Loggers
  BY DEF LogTyped, Logs!ConstantsOK
<1>l. /\ OneSetter /\ SetterAgrees /\ MakersAgree /\ AllHaveLevel /\ SweptHaveLevel
      /\ ToldAreMade /\ OneTeller /\ TellerAgrees /\ AllHaveUser /\ SweptHaveUser
  BY DEF LevelsReach, UsersReach
<1>e. \A n \in Entries : instances[n] \in Loggers BY <1>0 DEF Entries
<1>t. told \subseteq Loggers BY <1>0
<1>1. PICK i \in Entries : i = job[t].i
  <2>1. job[t].i \in Nat /\ job[t].i >= 1 /\ job[t].i <= Len(instances) BY <1>0 DEF Logs!Visit, Locking, LogJobs
  <2> QED BY <2>1, <1>0 DEF Entries
<1>2. PICK l \in Loggers : l = instances[i] BY <1>e
<1>3. job[t].pc = "visit" /\ UNCHANGED <<level, lock, told, last, overlapped>> BY DEF Logs!Visit
<1>4. \A u \in Threads : job[u].pc = "visit" => u = t BY <1>3, <1>0 DEF Locking
<1>5. i \in Nat BY DEF Entries
<1>6. PICK value \in Logs!Levels : value = job[t].level BY DEF Locking
<1>7. PICK j : j = Logs!Noted(l, value) OBVIOUS
<1>8. /\ j \in [Threads -> LogJobs]
      /\ \A u \in Threads : /\ Same(j[u], job[u]) /\ job[u].during \subseteq j[u].during
                            /\ job[u].op = "emit" /\ job[u].logger = l => value \in j[u].during
  BY <1>7, NotedKeeps
<1>9. PICK n \in Nat : n = i + 1 BY <1>5
<1>10. /\ loggers' = [loggers EXCEPT ![l].level = value] /\ own' = own \ {l} /\ UNCHANGED instances
       /\ job' = [j EXCEPT ![t].i = n]
  BY <1>1, <1>2, <1>6, <1>7, <1>9 DEF Logs!Visit
<1>11. /\ job'[t].op = "levels" /\ job'[t].pc = "visit" /\ job'[t].level = value /\ job'[t].i = n
       /\ \A u \in Threads : u # t => job'[u] = j[u]
  <2>1. job' = [j EXCEPT ![t] = [j[t] EXCEPT !.i = n]] BY <1>8, <1>10
  <2>2. job'[t] = [j[t] EXCEPT !.i = n] /\ \A u \in Threads : u # t => job'[u] = j[u] BY <2>1, <1>8
  <2>3. j[t] \in LogJobs /\ Same(j[t], job[t]) BY <1>8
  <2>4. job'[t].op = j[t].op /\ job'[t].pc = j[t].pc /\ job'[t].level = j[t].level /\ job'[t].i = n BY <2>2, <2>3 DEF LogJobs
  <2> QED BY <2>2, <2>3, <2>4, <1>3, <1>6 DEF Same
<1>12. \A u \in Threads : u # t =>
         /\ job'[u].op = job[u].op /\ job'[u].logger = job[u].logger /\ job'[u].level = job[u].level /\ job'[u].user = job[u].user
         /\ job'[u].pc = job[u].pc /\ job'[u].called = job[u].called /\ job'[u].printed = job[u].printed /\ job'[u].i = job[u].i
         /\ job[u].during \subseteq job'[u].during
         /\ (job[u].op = "emit" /\ job[u].logger = l => value \in job'[u].during)
  BY <1>8, <1>11 DEF Same
<1>13. loggers'[l].level = value /\ loggers'[l].state = loggers[l].state /\ loggers'[l].user = loggers[l].user
  BY <1>10, <1>0 DEF LogRecords
<1>14. \A k \in Loggers : k # l => loggers'[k] = loggers[k] BY <1>10, <1>0
<1>15. \A k \in Loggers : loggers'[k].state = loggers[k].state /\ loggers'[k].user = loggers[k].user BY <1>13, <1>14
<1>16. loggers[l].state = "live" BY <1>1, <1>2 DEF Listing, Known
<1>17. Listing' BY <1>0, <1>10, <1>15, SameList
<1>18. \A u \in Threads : job'[u].op = "new" => /\ u # t /\ job[u].op = "new" /\ job'[u].logger = job[u].logger /\ job[u].logger \in Loggers
                                                /\ job[u].logger # l /\ loggers'[job[u].logger] = loggers[job[u].logger]
  <2>1. SUFFICES ASSUME NEW u \in Threads, job'[u].op = "new"
                 PROVE  /\ u # t /\ job[u].op = "new" /\ job'[u].logger = job[u].logger /\ job[u].logger \in Loggers
                        /\ job[u].logger # l /\ loggers'[job[u].logger] = loggers[job[u].logger]
    OBVIOUS
  <2>2. u # t BY <2>1, <1>11
  <2>3. job[u].op = "new" /\ job'[u].logger = job[u].logger BY <2>1, <2>2, <1>12
  <2>4. job[u].logger \in Loggers /\ job[u].logger # l BY <2>3, <1>16 DEF Making
  <2> QED BY <2>2, <2>3, <2>4, <1>14
<1>19. Making'
  <2>1. \A u \in Threads : job'[u].op = "new" => job'[u].logger \in Loggers /\ loggers'[job'[u].logger].state = "untracked"
    BY <1>18 DEF Making
  <2>2. \A u, v \in Threads : job'[u].op = "new" /\ job'[v].op = "new" /\ job'[u].logger = job'[v].logger => u = v
    BY <1>18 DEF Making
  <2> QED BY <2>1, <2>2 DEF Making
<1>20. Locking'
  <2>1. SUFFICES ASSUME NEW u \in Threads
                 PROVE  /\ lock' = u <=> job'[u].pc = "visit"
                        /\ job'[u].op \in Sweeps <=> job'[u].pc \in {"lock", "visit"}
                        /\ job'[u].pc = "visit" => job'[u].i >= 1
                        /\ job'[u].op = "levels" => job'[u].level \in Logs!Levels
    BY DEF Locking
  <2>2. CASE u = t
    <3>1. n >= 1 BY <1>5, <1>9
    <3> QED BY <3>1, <2>2, <1>3, <1>6, <1>11 DEF Locking, Sweeps
  <2>3. CASE u # t
    <3>1. job'[u].op = job[u].op /\ job'[u].pc = job[u].pc /\ job'[u].i = job[u].i /\ job'[u].level = job[u].level /\ lock' = lock
      BY <2>3, <1>3, <1>12
    <3> QED BY <3>1 DEF Locking
  <2> QED BY <2>2, <2>3
<1>21. Emitting'
  <2>1. SUFFICES ASSUME NEW u \in Threads, job'[u].op = "emit"
                 PROVE  /\ job'[u].logger \in Loggers /\ loggers'[job'[u].logger].state = "live" /\ loggers'[job'[u].logger].level \in job'[u].during
                        /\ MessageFits(job'[u])
    BY DEF Emitting, MessageFits, Logs!Alive
  <2>2. u # t BY <2>1, <1>11
  <2>3. /\ job[u].op = "emit" /\ job'[u].logger = job[u].logger /\ job[u].during \subseteq job'[u].during
        /\ (job[u].logger = l => value \in job'[u].during)
    BY <2>1, <2>2, <1>12
  <2>4. job[u].logger \in Loggers /\ loggers[job[u].logger].state = "live" /\ loggers[job[u].logger].level \in job[u].during /\ MessageFits(job[u])
    BY <2>3 DEF Emitting, Logs!Alive
  <2>5. MessageFits(job'[u]) BY <2>2, <2>4, <1>12 DEF MessageFits
  <2>6. loggers'[job[u].logger].state = "live" BY <2>4, <1>15
  <2>7. loggers'[job[u].logger].level \in job'[u].during
    <3>1. CASE job[u].logger = l BY <3>1, <2>3, <1>13
    <3>2. CASE job[u].logger # l BY <3>2, <2>3, <2>4, <1>14
    <3> QED BY <3>1, <3>2
  <2> QED BY <2>3, <2>4, <2>5, <2>6, <2>7
<1>22. LevelsReach'
  <2>1. OneSetter' BY <1>3, <1>11, <1>12, <1>l DEF OneSetter
  <2>2. SetterAgrees' BY <1>3, <1>6, <1>11, <1>12, <1>l DEF SetterAgrees
  <2>3. MakersAgree' BY <1>3, <1>18, <1>l DEF MakersAgree
  <2>4. AllHaveLevel' BY <1>11 DEF AllHaveLevel, Logs!Quiet
  <2>5. SweptHaveLevel'
    <3>1. SUFFICES ASSUME "levels" \notin overlapped, NEW u \in Threads, job'[u].op = "levels", job'[u].pc = "visit", NEW m \in Entries, m < job'[u].i
                   PROVE  instances[m] \in own' \/ loggers'[instances[m]].level = level
      BY <1>3, <1>10 DEF SweptHaveLevel, HasLevel, Entries
    <3>2. u = t BY <3>1, <1>4, <1>12
    <3>3. m < n BY <3>1, <3>2, <1>11
    <3>4. value = level BY <3>1, <1>6, <1>l DEF SetterAgrees
    <3>5. m \in Nat BY DEF Entries
    <3>6. CASE m = i BY <3>6, <3>4, <1>2, <1>13
    <3>7. CASE m # i
      <4>1. m < i BY <3>3, <3>5, <3>7, <1>5, <1>9
      <4>2. instances[m] # l BY <3>7, <1>2 DEF Listing, Distinct
      <4>3. instances[m] \in own \/ loggers[instances[m]].level = level BY <4>1, <3>1, <1>1, <1>3, <1>l DEF SweptHaveLevel, HasLevel
      <4> QED BY <4>2, <4>3, <1>10, <1>14, <1>e
    <3> QED BY <3>6, <3>7
  <2> QED BY <2>1, <2>2, <2>3, <2>4, <2>5 DEF LevelsReach
<1>23. UsersReach'
  <2>1. ToldAreMade' BY <1>3, <1>15, <1>l, <1>t DEF ToldAreMade
  <2>2. OneTeller' BY <1>3, <1>11, <1>12, <1>l DEF OneTeller
  <2>3. TellerAgrees' BY <1>3, <1>11, <1>12, <1>l DEF TellerAgrees
  <2>4. AllHaveUser'
    <3>1. Logs!Quiet({"users"})' => Logs!Quiet({"users"}) BY <1>11, <1>12 DEF Logs!Quiet
    <3> QED BY <3>1, <1>3, <1>15, <1>l DEF AllHaveUser, HasUser, Logs!Alive
  <2>5. SweptHaveUser' BY <1>4, <1>11, <1>12 DEF SweptHaveUser
  <2> QED BY <2>1, <2>2, <2>3, <2>4, <2>5 DEF UsersReach
<1> QED BY <1>17, <1>19, <1>20, <1>21, <1>22, <1>23

\* A turn of on_log's sweep that gives a logger its callback.
LEMMA VisitTellsKeeps ==
  ASSUME Logs!ConstantsOK, LogTyped, Listing, Making, Locking, Emitting, LevelsReach, UsersReach, NEW t \in Threads, Logs!Visit(t), loggers[instances[job[t].i]].state # "dropped", job[t].op # "levels"
  PROVE  Listing' /\ Making' /\ Locking' /\ Emitting' /\ LevelsReach' /\ UsersReach'
<1>0. /\ level \in Logs!Levels /\ instances \in Seq(Loggers) /\ loggers \in [Loggers -> LogRecords]
      /\ lock \in Threads \cup {Logs!None} /\ job \in [Threads -> LogJobs] /\ Logs!None \notin Threads /\ told \subseteq Loggers
  BY DEF LogTyped, Logs!ConstantsOK
<1>l. /\ OneSetter /\ SetterAgrees /\ MakersAgree /\ AllHaveLevel /\ SweptHaveLevel
      /\ ToldAreMade /\ OneTeller /\ TellerAgrees /\ AllHaveUser /\ SweptHaveUser
  BY DEF LevelsReach, UsersReach
<1>e. \A n \in Entries : instances[n] \in Loggers BY <1>0 DEF Entries
<1>t. told \subseteq Loggers BY <1>0
<1>1. PICK i \in Entries : i = job[t].i
  <2>1. job[t].i \in Nat /\ job[t].i >= 1 /\ job[t].i <= Len(instances) BY <1>0 DEF Logs!Visit, Locking, LogJobs
  <2> QED BY <2>1, <1>0 DEF Entries
<1>2. PICK l \in Loggers : l = instances[i] BY <1>e
<1>3. job[t].pc = "visit" /\ UNCHANGED <<level, lock, told, last, overlapped>> BY DEF Logs!Visit
<1>4. \A u \in Threads : job[u].pc = "visit" => u = t BY <1>3, <1>0 DEF Locking
<1>5. i \in Nat BY DEF Entries
<1>6. job[t].op = "users" BY <1>3 DEF Locking, Sweeps
<1>7. PICK user \in Logs!Users : user = job[t].user BY <1>0 DEF LogJobs
<1>9. PICK n \in Nat : n = i + 1 BY <1>5
<1>10. /\ loggers' = [loggers EXCEPT ![l].user = user] /\ UNCHANGED <<own, instances>>
       /\ job' = [job EXCEPT ![t].i = n]
  BY <1>1, <1>2, <1>7, <1>9 DEF Logs!Visit
<1>11. /\ job'[t].op = "users" /\ job'[t].pc = "visit" /\ job'[t].user = user /\ job'[t].i = n
       /\ \A u \in Threads : u # t => job'[u] = job[u]
  <2>1. job' = [job EXCEPT ![t] = [job[t] EXCEPT !.i = n]] BY <1>0, <1>10
  <2>2. job'[t] = [job[t] EXCEPT !.i = n] /\ \A u \in Threads : u # t => job'[u] = job[u] BY <2>1, <1>0
  <2>3. job[t] \in LogJobs BY <1>0
  <2>4. job'[t].op = job[t].op /\ job'[t].pc = job[t].pc /\ job'[t].user = job[t].user /\ job'[t].i = n BY <2>2, <2>3 DEF LogJobs
  <2> QED BY <2>2, <2>4, <1>3, <1>6, <1>7
<1>13. loggers'[l].user = user /\ loggers'[l].state = loggers[l].state /\ loggers'[l].level = loggers[l].level
  BY <1>10, <1>0 DEF LogRecords
<1>14. \A k \in Loggers : k # l => loggers'[k] = loggers[k] BY <1>10, <1>0
<1>15. \A k \in Loggers : loggers'[k].state = loggers[k].state /\ loggers'[k].level = loggers[k].level BY <1>13, <1>14
<1>16. loggers[l].state = "live" BY <1>1, <1>2 DEF Listing, Known
<1>17. Listing' BY <1>0, <1>10, <1>15, SameList
<1>18. \A u \in Threads : job'[u].op = "new" => u # t /\ job'[u] = job[u] BY <1>11
<1>19. Making'
  <2>1. \A u \in Threads : job'[u].op = "new" => job'[u].logger \in Loggers /\ loggers'[job'[u].logger].state = "untracked"
    BY <1>15, <1>18 DEF Making
  <2>2. \A u, v \in Threads : job'[u].op = "new" /\ job'[v].op = "new" /\ job'[u].logger = job'[v].logger => u = v
    BY <1>18 DEF Making
  <2> QED BY <2>1, <2>2 DEF Making
<1>20. Locking'
  <2>1. SUFFICES ASSUME NEW u \in Threads
                 PROVE  /\ lock' = u <=> job'[u].pc = "visit"
                        /\ job'[u].op \in Sweeps <=> job'[u].pc \in {"lock", "visit"}
                        /\ job'[u].pc = "visit" => job'[u].i >= 1
                        /\ job'[u].op = "levels" => job'[u].level \in Logs!Levels
    BY DEF Locking
  <2>2. CASE u = t
    <3>1. n >= 1 BY <1>5, <1>9
    <3> QED BY <3>1, <2>2, <1>3, <1>6, <1>11 DEF Locking, Sweeps
  <2>3. CASE u # t
    <3>1. job'[u] = job[u] /\ lock' = lock BY <2>3, <1>3, <1>11
    <3> QED BY <3>1 DEF Locking
  <2> QED BY <2>2, <2>3
<1>21. Emitting'
  <2>1. SUFFICES ASSUME NEW u \in Threads, job'[u].op = "emit"
                 PROVE  /\ job'[u].logger \in Loggers /\ loggers'[job'[u].logger].state = "live" /\ loggers'[job'[u].logger].level \in job'[u].during
                        /\ MessageFits(job'[u])
    BY DEF Emitting, MessageFits, Logs!Alive
  <2>2. u # t BY <2>1, <1>11
  <2>3. job'[u] = job[u] BY <2>2, <1>11
  <2>4. job[u].logger \in Loggers /\ loggers[job[u].logger].state = "live" /\ loggers[job[u].logger].level \in job[u].during /\ MessageFits(job[u])
    BY <2>1, <2>3 DEF Emitting, Logs!Alive
  <2> QED BY <2>3, <2>4, <1>15
<1>22. LevelsReach'
  <2>1. OneSetter' BY <1>3, <1>11, <1>l DEF OneSetter
  <2>2. SetterAgrees' BY <1>3, <1>11, <1>l DEF SetterAgrees
  <2>3. MakersAgree' BY <1>3, <1>15, <1>18, <1>l DEF MakersAgree, Making
  <2>4. AllHaveLevel'
    <3>1. Logs!Quiet({"levels"})' => Logs!Quiet({"levels"}) BY <1>6, <1>11 DEF Logs!Quiet
    <3> QED BY <3>1, <1>3, <1>10, <1>15, <1>l DEF AllHaveLevel, HasLevel, Logs!Alive
  <2>5. SweptHaveLevel' BY <1>4, <1>11 DEF SweptHaveLevel
  <2> QED BY <2>1, <2>2, <2>3, <2>4, <2>5 DEF LevelsReach
<1>23. UsersReach'
  <2>1. ToldAreMade' BY <1>3, <1>15, <1>l, <1>t DEF ToldAreMade
  <2>2. OneTeller' BY <1>3, <1>6, <1>11, <1>l DEF OneTeller
  <2>3. TellerAgrees' BY <1>3, <1>6, <1>7, <1>11, <1>l DEF TellerAgrees
  <2>4. AllHaveUser' BY <1>11 DEF AllHaveUser, Logs!Quiet
  <2>5. SweptHaveUser'
    <3>1. SUFFICES ASSUME "users" \notin overlapped, NEW u \in Threads, job'[u].op = "users", job'[u].pc = "visit", NEW m \in Entries, m < job'[u].i,
                          instances[m] \in told
                   PROVE  loggers'[instances[m]].user = last
      BY <1>3, <1>10 DEF SweptHaveUser, HasUser, Entries
    <3>2. u = t BY <3>1, <1>4, <1>11
    <3>3. m < n BY <3>1, <3>2, <1>11
    <3>4. user = last BY <3>1, <1>6, <1>7, <1>l DEF TellerAgrees
    <3>5. m \in Nat BY DEF Entries
    <3>6. CASE m = i BY <3>6, <3>4, <1>2, <1>13
    <3>7. CASE m # i
      <4>1. m < i BY <3>3, <3>5, <3>7, <1>5, <1>9
      <4>2. instances[m] # l BY <3>7, <1>2 DEF Listing, Distinct
      <4>3. loggers[instances[m]].user = last BY <4>1, <3>1, <1>1, <1>3, <1>6, <1>l DEF SweptHaveUser, HasUser
      <4> QED BY <4>2, <4>3, <1>14, <1>e
    <3> QED BY <3>6, <3>7
  <2> QED BY <2>1, <2>2, <2>3, <2>4, <2>5 DEF UsersReach
<1> QED BY <1>17, <1>19, <1>20, <1>21, <1>22, <1>23

\* Every step keeps the invariant.
LEMMA LogInvKeeps ==
  ASSUME Logs!ConstantsOK, LogInv, [Logs!Next]_(Logs!loggerVars)
  PROVE  LogInv'
<1>0. LogTyped /\ Listing /\ Making /\ Locking /\ Emitting /\ LevelsReach /\ UsersReach BY DEF LogInv
<1>1. CASE Logs!Next
  <2>1. LogTyped' BY <1>0, <1>1, LogTypes
  <2> DEFINE Rest == Listing /\ Making /\ Locking /\ Emitting /\ LevelsReach /\ UsersReach
  <2>2. ASSUME NEW l \in Loggers, Logs!Drop(l) PROVE Rest' BY <1>0, <2>2, DropKeeps
  <2>3. ASSUME NEW t \in Threads, Logs!New(t) PROVE Rest' BY <1>0, <2>3, NewKeeps
  <2>4. ASSUME NEW t \in Threads, Logs!track_instance(t) PROVE Rest' BY <1>0, <2>4, TrackKeeps
  <2>5. ASSUME NEW t \in Threads, Logs!SetLogLevel(t) PROVE Rest' BY <1>0, <2>5, SetLevelKeeps
  <2>6. ASSUME NEW t \in Threads, Logs!SetUserLogHandler(t) PROVE Rest' BY <1>0, <2>6, SetUserKeeps
  <2>7. ASSUME NEW t \in Threads, Logs!SweepLocks(t) PROVE Rest' BY <1>0, <2>7, LockKeeps
  <2>8. ASSUME NEW t \in Threads, Logs!SweepEnds(t) PROVE Rest' BY <1>0, <2>8, EndKeeps
  <2>9. ASSUME NEW t \in Threads, Logs!EmitCalls(t) PROVE Rest' BY <1>0, <2>9, CallsKeeps
  <2>10. ASSUME NEW t \in Threads, Logs!EmitPrints(t) PROVE Rest' BY <1>0, <2>10, PrintsKeeps
  <2>11. ASSUME NEW t \in Threads, Logs!EmitReturns(t) PROVE Rest' BY <1>0, <2>11, ReturnKeeps
  <2>12. ASSUME NEW t \in Threads, Logs!Visit(t) PROVE Rest' BY <1>0, <2>12, VisitDropsKeeps, VisitSetsKeeps, VisitTellsKeeps
  <2>13. ASSUME NEW t \in Threads, NEW l \in Loggers, Logs!SetOwnLevel(t, l) PROVE Rest' BY <1>0, <2>13, OwnLevelKeeps
  <2>14. ASSUME NEW t \in Threads, NEW l \in Loggers, Logs!SetOwnHandler(t, l) \/ Logs!SetOwnUser(t, l) PROVE Rest' BY <1>0, <2>14, OwnRestKeeps
  <2>15. ASSUME NEW t \in Threads, NEW l \in Loggers, Logs!Emit(t, l) PROVE Rest' BY <1>0, <2>15, EmitKeeps
  <2>16. Rest'
    <3> HIDE DEF Rest
    <3> QED BY <1>1, <2>2, <2>3, <2>4, <2>5, <2>6, <2>7, <2>8, <2>9, <2>10, <2>11, <2>12, <2>13, <2>14, <2>15 DEF Logs!Next
  <2> QED BY <2>1, <2>16 DEF LogInv
<1>2. CASE UNCHANGED Logs!loggerVars
  <2>1. UNCHANGED <<level, instances, loggers, lock, job, begun, own, told, last, overlapped>> BY <1>2 DEF Logs!loggerVars
  <2>2. LogTyped' BY <1>0, <2>1 DEF LogTyped
  <2>3. Listing' BY <1>0, <2>1 DEF Listing, Distinct, Entered, Known, Entries, Logs!Alive
  <2>4. Making' BY <1>0, <2>1 DEF Making
  <2>5. Locking' BY <1>0, <2>1 DEF Locking
  <2>6. Emitting' BY <1>0, <2>1 DEF Emitting, MessageFits, Logs!Alive
  <2>7. LevelsReach'
    <3>1. OneSetter' /\ SetterAgrees' /\ MakersAgree' BY <1>0, <2>1 DEF LevelsReach, OneSetter, SetterAgrees, MakersAgree
    <3>2. AllHaveLevel' BY <1>0, <2>1 DEF LevelsReach, AllHaveLevel, HasLevel, Logs!Quiet, Logs!Alive
    <3>3. SweptHaveLevel' BY <1>0, <2>1 DEF LevelsReach, SweptHaveLevel, HasLevel, Entries
    <3> QED BY <3>1, <3>2, <3>3 DEF LevelsReach
  <2>8. UsersReach'
    <3>1. ToldAreMade' /\ OneTeller' /\ TellerAgrees' BY <1>0, <2>1 DEF UsersReach, ToldAreMade, OneTeller, TellerAgrees
    <3>2. AllHaveUser' BY <1>0, <2>1 DEF UsersReach, AllHaveUser, HasUser, Logs!Quiet, Logs!Alive
    <3>3. SweptHaveUser' BY <1>0, <2>1 DEF UsersReach, SweptHaveUser, HasUser, Entries
    <3> QED BY <3>1, <3>2, <3>3 DEF UsersReach
  <2> QED BY <2>2, <2>3, <2>4, <2>5, <2>6, <2>7, <2>8 DEF LogInv
<1> QED BY <1>1, <1>2

\* Nothing is made yet.
LEMMA LogInvBegins ==
  ASSUME Logs!ConstantsOK, Logs!Init
  PROVE  LogInv
<1>1. /\ level = Logs!Info /\ instances = <<>> /\ lock = Logs!None /\ begun = 0 /\ own = {} /\ told = {} /\ last = Logs!NoUser /\ overlapped = {}
      /\ \A l \in Loggers : loggers[l].state = "unborn"
      /\ \A t \in Threads : job[t].op = "idle" /\ job[t].pc = ""
  BY IdleIsTyped DEF Logs!Init
<1>2. LogTyped
  <2>1. Logs!Info \in Logs!Levels BY DEF Logs!Info, Logs!Levels, Logs!Debug, Logs!Silent
  <2>2. [state |-> "unborn", level |-> Logs!Info, user |-> Logs!NoUser, handler |-> "default"] \in LogRecords BY <2>1, IdleIsTyped DEF LogRecords
  <2>3. loggers \in [Loggers -> LogRecords] /\ job \in [Threads -> LogJobs] BY <2>2, IdleIsTyped DEF Logs!Init
  <2>4. instances = <<>> /\ begun = 0 /\ told = {} /\ own = {} BY DEF Logs!Init
  <2>6. instances \in Seq(Loggers) BY <2>4
  <2>7. told \subseteq Loggers /\ own \subseteq Loggers BY <2>4
  <2>5. begun \in 0 .. MaxCalls
    <3>1. MaxCalls \in Nat BY DEF Logs!ConstantsOK
    <3> QED BY <2>4, <3>1
  <2> QED BY <2>1, <2>3, <2>5, <2>6, <2>7, <1>1, IdleIsTyped DEF LogTyped
<1>3. Entries = {}
  <2>1. Len(instances) = 0 BY <1>1
  <2> QED BY <2>1 DEF Entries
<1>4. Listing BY <1>1, <1>3 DEF Listing, Distinct, Entered, Known, Logs!Alive
<1>5. Making BY <1>1 DEF Making
<1>6. Locking BY <1>1 DEF Locking, Sweeps, Logs!ConstantsOK
<1>7. Emitting BY <1>1 DEF Emitting
<1>8. LevelsReach BY <1>1 DEF LevelsReach, OneSetter, SetterAgrees, MakersAgree, AllHaveLevel, SweptHaveLevel, Logs!Alive
<1>9. UsersReach BY <1>1 DEF UsersReach, ToldAreMade, OneTeller, TellerAgrees, AllHaveUser, SweptHaveUser, Logs!Alive
<1> QED BY <1>2, <1>4, <1>5, <1>6, <1>7, <1>8, <1>9 DEF LogInv

\* What the invariant says of the loggers.
LEMMA LogInvShows ==
  ASSUME Logs!ConstantsOK, LogInv
  PROVE  Logs!TypeOK /\ Logs!SettersReachEveryLogger /\ Logs!EveryLoggerIsListed /\ Logs!MessagesMeetALevel
<1>0. /\ LogTyped /\ Distinct /\ Entered /\ Known /\ Locking /\ Emitting
      /\ AllHaveLevel /\ AllHaveUser
  BY DEF LogInv, Listing, LevelsReach, UsersReach
<1>1. Logs!TypeOK
  <2>1. \A n \in 1 .. Len(instances) : instances[n] \in Loggers BY <1>0 DEF LogTyped
  <2>2. \A t \in Threads : lock = t <=> job[t].pc = "visit" BY <1>0 DEF Locking
  <2> QED BY <1>0, <2>1, <2>2 DEF LogTyped, LogRecords, Logs!TypeOK
<1>2. Logs!SettersReachEveryLogger BY <1>0 DEF Logs!SettersReachEveryLogger, AllHaveLevel, AllHaveUser, HasLevel, HasUser
<1>3. Logs!EveryLoggerIsListed
  <2>1. ASSUME NEW l \in Loggers, Logs!Alive(l) PROVE Cardinality({n \in 1 .. Len(instances) : instances[n] = l}) = 1
    <3>1. PICK k \in Entries : instances[k] = l BY <1>0, <2>1 DEF Entered
    <3>2. {n \in Entries : instances[n] = l} = {k} BY <1>0, <3>1 DEF Distinct
    <3>3. Cardinality({k}) = 1 BY FS_Singleton
    <3> QED BY <3>2, <3>3 DEF Entries
  <2>2. \A n \in 1 .. Len(instances) : loggers[instances[n]].state \in {"live", "dropped"} BY <1>0 DEF Known, Entries
  <2>3. ASSUME NEW l \in Loggers, Logs!Alive(l) PROVE Logs!Cardinality({n \in 1 .. Len(instances) : instances[n] = l}) = 1
    <3> DEFINE places == {n \in 1 .. Len(instances) : instances[n] = l}
    <3>1. Logs!Cardinality(places) = Cardinality(places) BY DEF Logs!Cardinality, Cardinality
    <3> QED BY <2>1, <2>3, <3>1
  <2> QED BY <2>2, <2>3 DEF Logs!EveryLoggerIsListed
<1>4. Logs!MessagesMeetALevel BY <1>0 DEF Logs!MessagesMeetALevel, Emitting, MessageFits
<1> QED BY <1>1, <1>2, <1>3, <1>4

\* set_log_level and on_log sweep a list that loggers enter late, and whose dead
\* entries the sweep takes out by moving the last entry into the gap.  Between calls
\* that did not overlap every live logger has what they set, the list names every
\* live logger once, and a message is kept or left out by a level its logger had.
THEOREM SettersReachTheLoggers ==
  ASSUME Logs!ConstantsOK
  PROVE  Logs!Spec => [](Logs!TypeOK /\ Logs!SettersReachEveryLogger /\ Logs!EveryLoggerIsListed /\ Logs!MessagesMeetALevel)
<1>1. Logs!Init => LogInv BY LogInvBegins
<1>2. LogInv /\ [Logs!Next]_(Logs!loggerVars) => LogInv' BY LogInvKeeps
<1>3. LogInv => Logs!TypeOK /\ Logs!SettersReachEveryLogger /\ Logs!EveryLoggerIsListed /\ Logs!MessagesMeetALevel BY LogInvShows
<1> QED BY <1>1, <1>2, <1>3, PTL DEF Logs!Spec
=============================================================================
