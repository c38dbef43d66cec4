---------------------------- MODULE RemoteConfig ----------------------------
(***************************************************************************)
(* Remote Config (api.rs, storage.rs, fetch.rs): fetch, activate and the   *)
(* custom signals of one instance over the file storage.  A setting of the *)
(* storage cache is two steps, the storage and then the cached copy; the   *)
(* tasks of a multi-threaded runtime interleave between any two.           *)
(*                                                                         *)
(* The template version v has the ETag v and the parameters Params[v].     *)
(***************************************************************************)
EXTENDS Integers, Sequences, FiniteSets

CONSTANTS Tasks, Keys, Defaults,   \* tasks; parameter names, those with a default
          Params,                  \* the parameters of each template, version by version
          SignalKeys, MaxSignals,  \* custom signals and their limit
          MaxTime, MaxCalls,       \* bounds: the clock, calls
          MaxFaults                \* bound: failed writes and crashes

VARIABLES server,  \* the template version at the backend, 0 for none
          clock,
          rc,      \* last_successful_fetch, settings, initialize_once
          cache,   \* RemoteConfigStorageCache
          record,  \* FileRemoteConfigStorage.inner
          disk,    \* the file
          jobs, past

rcVars == <<server, clock, rc, cache, record, disk, jobs, past>>

None == -1
Versions == 0 .. Len(Params)
NoRecord == [status |-> "noFetchYet", time |-> None, config |-> 0, etag |-> None, version |-> None, signals |-> {}]
Torn == [NoRecord EXCEPT !.status = "torn"]
Idle == [pc |-> "idle", now |-> 0, asked |-> 0, etag |-> None, todo |-> <<>>, mid |-> FALSE, both |-> FALSE]

TypeOK ==
  /\ server \in Versions /\ clock \in 0 .. MaxTime
  /\ rc.fetched \in [config : Versions, etag : {None} \cup Versions] /\ rc.interval \in Nat
  /\ \A r \in {cache, record, disk} :
       /\ r.config \in Versions /\ r.etag \in {None} \cup Versions /\ r.version \in {None} \cup Versions
       /\ r.signals \subseteq SignalKeys /\ Cardinality(r.signals) <= MaxSignals
  /\ past.calls <= MaxCalls /\ past.faults <= MaxFaults

Nothing == [config |-> 0, etag |-> None]

Init ==
  /\ server = 0 /\ clock = 0
  /\ rc = [fetched |-> Nothing, interval |-> 1, ready |-> FALSE]
  /\ cache = NoRecord /\ record = NoRecord /\ disk = NoRecord
  /\ jobs = [t \in Tasks |-> Idle]
  /\ past = [calls |-> 0, faults |-> 0, disorder |-> FALSE, failed |-> FALSE, newest |-> 0]

At(t, pc) == jobs[t].pc = pc
goes(t, job) == jobs' = [jobs EXCEPT ![t] = job]

\* The calls, each of which first loads what is stored, once.
ensure_initialized ==
  /\ rc' = [rc EXCEPT !.ready = TRUE]
  /\ cache' = IF rc.ready THEN cache ELSE record

\* Bounded: and none begins once the calls before it were in disorder.
call(t) == /\ At(t, "idle") /\ disk # Torn /\ past.calls < MaxCalls /\ ~past.disorder
           /\ past' = [past EXCEPT !.calls = @ + 1]

\* The set calls on the storage cache that a task still has to make.
sets(t, writes) == goes(t, IF writes = <<>> THEN Idle ELSE [jobs[t] EXCEPT !.pc = "writing", !.todo = writes])

\* fetch: refused within the interval, else the request carries the ETag of
\* the active template.
Fetch(t, both) ==
  /\ call(t) /\ ensure_initialized
  /\ LET throttled == cache'.time # None /\ clock - cache'.time < rc.interval
     IN IF throttled THEN sets(t, <<[field |-> "status", value |-> "throttle"]>>)
        ELSE goes(t, [Idle EXCEPT !.pc = "fetching", !.now = clock, !.asked = server, !.etag = cache'.etag, !.both = both])
  /\ UNCHANGED <<server, clock, record, disk>>

\* The answers of RemoteConfigFetchHttpClient where the backend had version v:
\* that template, "not modified" (304 or NO_CHANGE), a template without an ETag,
\* or an error.
Answers(t, v) ==
  {"failure"}
  \cup (IF v = 0 THEN {"noTemplate"} ELSE IF jobs[t].etag = v THEN {"notModified"} ELSE {"template"})

\* An answer is of a version the backend had since it was asked; what is stored is
\* what comes last.
FetchReturns(t) ==
  /\ At(t, "fetching")
  /\ \E v \in jobs[t].asked .. server : \E answer \in Answers(t, v) :
       LET done == <<[field |-> "status", value |-> "success"], [field |-> "time", value |-> jobs[t].now]>>
       IN /\ rc' = CASE answer = "template" -> [rc EXCEPT !.fetched = [config |-> v, etag |-> v]]
                     [] answer = "noTemplate" -> [rc EXCEPT !.fetched = Nothing]
                     [] OTHER -> rc
          /\ IF answer = "failure" THEN goes(t, [Idle EXCEPT !.pc = "writing", !.todo = <<[field |-> "status", value |-> "failure"]>>])
             ELSE sets(t, done)
          /\ past' = IF answer \in {"template", "noTemplate"}
                     THEN [past EXCEPT !.disorder = @ \/ v < past.newest, !.newest = IF v > @ THEN v ELSE @] ELSE past
  /\ UNCHANGED <<server, clock, cache, record, disk>>

\* Mutant of activated: the ETag is stored before the configuration.
activated_EtagFirst(fetched) ==
  <<[field |-> "etag", value |-> fetched.etag], [field |-> "config", value |-> fetched.config],
    [field |-> "version", value |-> fetched.config]>>

\* What activate stores, in this order.
activated(fetched) ==
  <<[field |-> "config", value |-> fetched.config], [field |-> "etag", value |-> fetched.etag],
    [field |-> "version", value |-> fetched.config]>>

\* activate: what was fetched last, unless it has no ETag or is active already.
activates(t) ==
  sets(t, IF rc'.fetched.etag = None \/ rc'.fetched.etag = cache'.etag THEN <<>> ELSE activated(rc'.fetched))

Activate(t) ==
  /\ call(t) /\ ensure_initialized
  /\ activates(t)
  /\ UNCHANGED <<server, clock, record, disk>>

\* No key or value is too long or of a type that is no signal.
Valid(signals) == signals \subseteq SignalKeys

\* set_custom_signals: a value for one signal, or null for another.
SetCustomSignals(t, add, remove) ==
  /\ Valid(add \cup remove)   \* an invalid one is refused before anything happens
  /\ call(t) /\ ensure_initialized
  /\ sets(t, <<[field |-> "signals", value |-> <<add, remove>>]>>)
  /\ UNCHANGED <<server, clock, record, disk>>

merge_custom_signals(existing, update) == (existing \cup update[1]) \ update[2]

\* A timeout of zero is refused, every interval is taken.
set_fetch_timeout_millis(timeout) == timeout > 0

SetConfigSettings(timeout, interval) ==
  /\ past.calls < MaxCalls
  /\ rc' = IF set_fetch_timeout_millis(timeout) THEN [rc EXCEPT !.interval = interval] ELSE rc
  /\ past' = [past EXCEPT !.calls = @ + 1]
  /\ UNCHANGED <<server, clock, cache, record, disk, jobs>>

(***************************************************************************)
(* The storage cache                                                       *)
(***************************************************************************)
Value(t) == LET w == Head(jobs[t].todo) IN IF w.field = "signals" THEN merge_custom_signals(record.signals, w.value) ELSE w.value
Refused(t) == Head(jobs[t].todo).field = "signals" /\ Cardinality(Value(t)) > MaxSignals
Overlaps(t) == \E u \in Tasks \ {t} : jobs[u].todo # <<>>

\* The record is changed, then the file is written with all of it.
persist(t) ==
  /\ At(t, "writing") /\ ~jobs[t].mid /\ ~Refused(t)
  /\ record' = [record EXCEPT ![Head(jobs[t].todo).field] = Value(t)]

StorageSets(t) ==
  /\ persist(t)
  /\ disk' = record'
  /\ goes(t, [jobs[t] EXCEPT !.mid = TRUE, !.todo = <<[field |-> Head(@).field, value |-> Value(t)]>> \o Tail(@)])
  /\ past' = [past EXCEPT !.disorder = @ \/ Overlaps(t)]
  /\ UNCHANGED <<server, clock, rc, cache>>

\* The write fails: the record keeps the change, the call ends with an error.
StorageFails(t) ==
  /\ persist(t) /\ past.faults < MaxFaults
  /\ goes(t, Idle)
  /\ past' = [past EXCEPT !.faults = @ + 1, !.failed = TRUE, !.disorder = @ \/ Overlaps(t)]
  /\ UNCHANGED <<server, clock, rc, cache, disk>>

\* Too many signals.
StorageRefuses(t) ==
  /\ At(t, "writing") /\ ~jobs[t].mid /\ Refused(t)
  /\ goes(t, Idle)
  /\ UNCHANGED <<server, clock, rc, cache, record, disk, past>>

\* The cached copy follows; then the next of the call's settings, or, for
\* fetch_and_activate, activate.
CacheSets(t) ==
  /\ At(t, "writing") /\ jobs[t].mid
  /\ cache' = [cache EXCEPT ![Head(jobs[t].todo).field] = Head(jobs[t].todo).value]
  /\ goes(t, IF Len(jobs[t].todo) > 1 THEN [jobs[t] EXCEPT !.todo = Tail(@), !.mid = FALSE]
             ELSE IF jobs[t].both THEN [Idle EXCEPT !.pc = "fetched"] ELSE Idle)
  /\ past' = [past EXCEPT !.disorder = @ \/ Overlaps(t)]
  /\ UNCHANGED <<server, clock, rc, record, disk>>

FetchedActivates(t) ==
  /\ At(t, "fetched")
  /\ UNCHANGED <<rc, cache>>
  /\ activates(t)
  /\ UNCHANGED <<server, clock, record, disk, past>>

(***************************************************************************)
(* The surroundings                                                        *)
(***************************************************************************)
Publish == /\ server < Len(Params) /\ server' = server + 1
           /\ UNCHANGED <<clock, rc, cache, record, disk, jobs, past>>

Tick == /\ clock < MaxTime /\ clock' = clock + 1
        /\ UNCHANGED <<server, rc, cache, record, disk, jobs, past>>

\* A new process on the same file.  One that dies while it writes leaves a
\* torn file, with which FileRemoteConfigStorage::new fails.
Restart ==
  /\ past.faults < MaxFaults /\ disk # Torn
  /\ \/ disk' = disk /\ record' = disk
     \/ (\E t \in Tasks : At(t, "writing") /\ ~jobs[t].mid) /\ disk' = Torn /\ record' = NoRecord
  /\ cache' = NoRecord
  /\ rc' = [fetched |-> Nothing, interval |-> 1, ready |-> FALSE]
  /\ jobs' = [t \in Tasks |-> Idle]
  /\ past' = [past EXCEPT !.faults = @ + 1]
  /\ UNCHANGED <<server, clock>>

TaskSteps(t) ==
  \/ \E both \in BOOLEAN : Fetch(t, both)
  \/ FetchReturns(t) \/ Activate(t) \/ FetchedActivates(t)
  \/ \E s \in SignalKeys : SetCustomSignals(t, {s}, {}) \/ SetCustomSignals(t, {}, {s})
  \/ StorageSets(t) \/ StorageFails(t) \/ StorageRefuses(t) \/ CacheSets(t)

Next == Publish \/ Tick \/ Restart \/ (\E timeout, interval \in {0, 1} : SetConfigSettings(timeout, interval)) \/ \E t \in Tasks : TaskSteps(t)

Spec == Init /\ [][Next]_rcVars
-----------------------------------------------------------------------------
\* The values read by the application.
active == IF cache.config = 0 THEN {} ELSE Params[cache.config]

get_value(key) ==
  IF key \in active THEN <<"remote", cache.config>> ELSE IF key \in Defaults THEN <<"default", key>> ELSE <<"static">>

\* A stored ETag never belongs to a newer template than the configuration
\* beside it, in the cache, the storage and the file, also after failed writes
\* and crashes: the backend would answer "not modified" and the newer template
\* would never arrive.  Nor is the version shown newer than the ETag.
\* Overlapping calls can break it.
EtagNotNewer ==
  ~past.disorder => \A r \in {cache, record, disk} : r.version <= r.etag /\ r.etag <= r.config

\* Between calls the cache, the storage and the file agree, and the values
\* read are those of the last activated template, unless calls overlapped, a
\* write failed, or nothing was loaded yet.
CacheAgreesWithStorage ==
  ~past.disorder /\ ~past.failed /\ rc.ready /\ disk # Torn /\ (\A t \in Tasks : jobs[t].todo = <<>>) =>
    /\ cache = record /\ record = disk
    /\ \A key \in Keys : get_value(key)[1] = "remote" => get_value(key)[2] <= past.newest

\* Both, and the types of the variables: what a run checks and RemoteConfigProofs
\* proves.
EtagFollowsConfig == TypeOK /\ EtagNotNewer /\ CacheAgreesWithStorage

\* What the theorems ask of the constants.
ConstantsOK ==
  /\ Len(Params) \in Nat /\ IsFiniteSet(SignalKeys)
  /\ MaxSignals \in Nat /\ MaxTime \in Nat /\ MaxCalls \in Nat /\ MaxFaults \in Nat

\* A copy of the stored settings.
Statuses == {"noFetchYet", "success", "failure", "throttle"}
Copies == [status : Statuses, time : {None} \cup 0 .. MaxTime, config : Versions, etag : {None} \cup Versions,
           version : {None} \cup Versions, signals : SUBSET SignalKeys]
Fits(signals) == Cardinality(signals) <= MaxSignals

Typed ==
  /\ server \in Versions /\ clock \in 0 .. MaxTime
  /\ rc \in [fetched : [config : Versions, etag : {None} \cup Versions], interval : Nat, ready : BOOLEAN]
  /\ cache \in Copies /\ record \in Copies /\ disk \in Copies \cup {Torn}
  /\ Fits(cache.signals) /\ Fits(record.signals) /\ Fits(disk.signals)
  /\ past \in [calls : 0 .. MaxCalls, faults : 0 .. MaxFaults, disorder : BOOLEAN, failed : BOOLEAN, newest : Versions]
  /\ DOMAIN jobs = Tasks

\* No copy is of a newer template than was ever fetched, and what was fetched last is
\* the newest unless answers came in disorder.
NotNewer ==
  /\ cache.config <= past.newest /\ record.config <= past.newest /\ disk.config <= past.newest
  /\ rc.fetched.etag # None =>
       /\ rc.fetched.etag = rc.fetched.config /\ rc.fetched.config <= past.newest
       /\ ~past.disorder => rc.fetched.config = past.newest

\* The settings that activate still has to store for version v, and what it has stored.
Put(f, v) == [field |-> f, value |-> v]

Activating(j, v) ==
  \/ /\ j.todo = <<Put("config", v), Put("etag", v), Put("version", v)>>
     /\ ~past.disorder => cache.etag <= v /\ record.etag <= v /\ (j.mid => record.config = v)
  \/ /\ j.todo = <<Put("etag", v), Put("version", v)>>
     /\ ~past.disorder => cache.config = v /\ record.config = v /\ (j.mid => record.etag = v)
  \/ /\ j.todo = <<Put("version", v)>>
     /\ ~past.disorder => cache.config = v /\ record.config = v /\ cache.etag = v /\ record.etag = v

\* The settings of a fetch and of set_custom_signals.
Noting(j) ==
  \/ \E s \in Statuses : j.todo = <<Put("status", s)>>
  \/ \E n \in 0 .. MaxTime : \/ j.todo = <<Put("status", "success"), Put("time", n)>>
                             \/ j.todo = <<Put("time", n)>>
  \/ ~j.mid /\ \E a, b \in SUBSET SignalKeys : j.todo = <<Put("signals", <<a, b>>)>>
  \/ j.mid /\ \E a \in SUBSET SignalKeys : Fits(a) /\ j.todo = <<Put("signals", a)>>

\* Where a task stands.
StageOf(j) ==
  /\ DOMAIN j = DOMAIN Idle
  /\ j.pc # "idle" => rc.ready /\ disk # Torn
  /\ j.pc = "fetching" => j.now \in 0 .. MaxTime /\ j.asked \in Versions
  /\ \/ j.pc # "writing" /\ j.todo = <<>> /\ j.mid = FALSE
     \/ /\ j.pc = "writing" /\ j.mid \in BOOLEAN
        /\ Noting(j) \/ \E v \in Versions : v <= past.newest /\ Activating(j, v)

Stages == \A t \in Tasks : StageOf(jobs[t])

\* The file is the storage; the cache lacks the one setting that is being stored.
Agreement ==
  ~past.disorder /\ ~past.failed /\ disk # Torn =>
    /\ record = disk
    /\ rc.ready => \/ cache = record /\ \A t \in Tasks : ~jobs[t].mid
                   \/ \E t \in Tasks : /\ jobs[t].mid /\ \A u \in Tasks \ {t} : ~jobs[u].mid
                                       /\ record = [cache EXCEPT ![Head(jobs[t].todo).field] = Head(jobs[t].todo).value]

IInv == Typed /\ NotNewer /\ EtagNotNewer /\ Stages /\ Agreement
=============================================================================
