----------------------------- MODULE DataConnect -----------------------------
(***************************************************************************)
(* Data Connect: the query manager of a service, which keeps the last      *)
(* result of a query for the subscribers of it, the transport under it,    *)
(* built once, and the emulator the transport may be told to use.  One     *)
(* query; every step that takes a lock of its own is an action.  A         *)
(* subscriber here gave callbacks for results and for errors.              *)
(***************************************************************************)
EXTENDS Integers, Sequences, FiniteSets

CONSTANTS Tasks,         \* threads that call the service; each subscribes at most once
          MaxFetches,    \* bound: queries executed
          MaxVersion,    \* bound: mutations
          MaxManagers    \* bound: query managers created

VARIABLES override,   \* transport_override is set
          connecting, \* connect_emulator has set it and not yet looked for the transport
          transport,  \* the OnceCell, and whether the transport uses the emulator
          cached,     \* QUERY_MANAGER_CACHE: the manager of the service, 0 when none
          managers,   \* TrackedQuery of the query, for every manager
          calls, fetches, version, now,
          results,    \* history: results fetched, which may come back serialized
          seen        \* history: what each subscriber was told

dcVars == <<override, connecting, transport, cached, managers, calls, fetches, version, now, results, seen>>

Error == -2
NoCache == [version |-> -1, time |-> -1, fetched |-> FALSE]
TrackedQuery == [subscribers |-> {}, cache |-> NoCache, error |-> FALSE]
Idle == [pc |-> "idle", op |-> "none", manager |-> 0, initial |-> NoCache, snapshot |-> NoCache, override |-> FALSE]

Init ==
  /\ override \in BOOLEAN  \* FIREBASE_DATA_CONNECT_EMULATOR_HOST
  /\ connecting = FALSE /\ transport = [state |-> "none", emulator |-> FALSE]
  /\ cached = 0 /\ managers = <<>> /\ calls = [t \in Tasks |-> Idle] /\ fetches = <<>>
  /\ version = 0 /\ now = 0 /\ results = {} /\ seen = [t \in Tasks |-> {}]

At(t, pc) == calls[t].pc = pc
goes(t, call) == calls' = [calls EXCEPT ![t] = call]
Manager(t) == managers[calls[t].manager]

TypeOK ==
  /\ transport.state \in {"none", "building", "ready"} /\ cached \in 0 .. Len(managers)
  /\ \A i \in DOMAIN managers : managers[i].subscribers \subseteq Tasks
  /\ \A t \in Tasks : calls[t].manager \in 0 .. Len(managers)

(***************************************************************************)
(* The transport and the managers                                          *)
(***************************************************************************)
\* The override is set once: the same emulator again changes nothing, and another one
\* is refused (AlreadyInitialized).
connect_emulator ==
  /\ ~override /\ override' = TRUE /\ connecting' = TRUE
  /\ UNCHANGED <<transport, cached, managers, calls, fetches, version, now, results, seen>>

\* Then the transport is told, if it is there.
use_emulator ==
  /\ connecting /\ connecting' = FALSE
  /\ transport' = IF transport.state = "ready" THEN [transport EXCEPT !.emulator = TRUE] ELSE transport
  /\ UNCHANGED <<override, cached, managers, calls, fetches, version, now, results, seen>>

\* A query or a runtime of queries asks for the cached manager, or one to be made; a
\* mutation asks for the transport alone.
Begin(t, op, initial) ==
  /\ At(t, "idle")
  /\ LET manager == IF op = "mutate" THEN 0 ELSE cached
     IN goes(t, [Idle EXCEPT !.op = op, !.initial = initial, !.manager = manager,
                             !.pc = IF manager # 0 THEN "track" ELSE "transport"])
  /\ UNCHANGED <<override, connecting, transport, cached, managers, fetches, version, now, results, seen>>

\* transport(): the first caller builds it, reading the override; others wait.
BuildTransport(t) ==
  /\ At(t, "transport") /\ transport.state = "none"
  /\ transport' = [transport EXCEPT !.state = "building"]
  /\ goes(t, [calls[t] EXCEPT !.pc = "built", !.override = override])
  /\ UNCHANGED <<override, connecting, cached, managers, fetches, version, now, results, seen>>

PublishTransport(t) ==
  /\ At(t, "built")
  /\ transport' = [state |-> "ready", emulator |-> calls[t].override]
  /\ goes(t, [calls[t] EXCEPT !.pc = "transport", !.override = FALSE])
  /\ UNCHANGED <<override, connecting, cached, managers, fetches, version, now, results, seen>>

\* The manager goes into the cache over one another task put there meanwhile.
InsertManager(t) ==
  /\ At(t, "transport") /\ transport.state = "ready" /\ calls[t].op # "mutate" /\ Len(managers) < MaxManagers
  /\ managers' = Append(managers, TrackedQuery)
  /\ cached' = Len(managers) + 1
  /\ goes(t, [calls[t] EXCEPT !.pc = "track", !.manager = Len(managers) + 1])
  /\ UNCHANGED <<override, connecting, transport, fetches, version, now, results, seen>>

\* query_runtime: whoever asked holds the manager, cached or no longer.
DataConnectQueryRuntime(t) ==
  /\ At(t, "track") /\ calls[t].op = "runtime" /\ goes(t, Idle)
  /\ UNCHANGED <<override, connecting, transport, cached, managers, fetches, version, now, results, seen>>

\* A DataConnectQueryRuntime is closed or dropped.
release_query_manager ==
  /\ cached # 0 /\ cached' = 0
  /\ UNCHANGED <<override, connecting, transport, managers, calls, fetches, version, now, results, seen>>

(***************************************************************************)
(* subscribe                                                               *)
(***************************************************************************)
\* Through a runtime, with the manager it holds.
SubscribeThrough(t, m, initial) ==
  /\ At(t, "idle")
  /\ goes(t, [Idle EXCEPT !.op = "subscribe", !.initial = initial, !.manager = m, !.pc = "track"])
  /\ UNCHANGED <<override, connecting, transport, cached, managers, fetches, version, now, results, seen>>

maybe_update_cache(tracked, cache) == IF cache.time > tracked.cache.time THEN [tracked EXCEPT !.cache = cache] ELSE tracked

track(t) ==
  /\ At(t, "track") /\ calls[t].op = "subscribe"
  /\ managers' = [managers EXCEPT ![calls[t].manager] = maybe_update_cache(@, calls[t].initial)]
  /\ goes(t, [calls[t] EXCEPT !.pc = "add", !.initial = NoCache])
  /\ UNCHANGED <<override, connecting, transport, cached, fetches, version, now, results, seen>>

\* Mutant of AddSubscriber: the cache is read first.
AddSubscriber_AfterSnapshot(t) ==
  /\ \/ /\ At(t, "add")
        /\ goes(t, [calls[t] EXCEPT !.pc = "late", !.snapshot = Manager(t).cache]) /\ UNCHANGED managers
     \/ /\ At(t, "late")
        /\ managers' = [managers EXCEPT ![calls[t].manager].subscribers = @ \cup {t}]
        /\ goes(t, [calls[t] EXCEPT !.pc = "tell"])
  /\ UNCHANGED <<override, connecting, transport, cached, fetches, version, now, results, seen>>

\* The subscriber is added before the cache is read.
AddSubscriber(t) ==
  /\ At(t, "add")
  /\ managers' = [managers EXCEPT ![calls[t].manager].subscribers = @ \cup {t}]
  /\ goes(t, [calls[t] EXCEPT !.pc = "snapshot"])
  /\ UNCHANGED <<override, connecting, transport, cached, fetches, version, now, results, seen>>

cache_snapshot(t) ==
  /\ At(t, "snapshot")
  /\ goes(t, [calls[t] EXCEPT !.pc = "tell", !.snapshot = Manager(t).cache])
  /\ UNCHANGED <<override, connecting, transport, cached, managers, fetches, version, now, results, seen>>

\* A query under way; a spawned one goes on whoever loses interest.
fetch(manager, spawned) ==
  [manager |-> manager, spawned |-> spawned, pc |-> "sent", version |-> -1, time |-> -1, told |-> {}]

\* The cached result, or a fetch of its own task.
Show(t) ==
  /\ At(t, "tell")
  /\ LET cache == calls[t].snapshot
     IN /\ seen' = [seen EXCEPT ![t] = IF cache # NoCache THEN @ \cup {cache.version} ELSE @]
        /\ fetches' = IF cache = NoCache THEN Append(fetches, fetch(calls[t].manager, TRUE)) ELSE fetches
  /\ goes(t, [calls[t] EXCEPT !.pc = "shown", !.snapshot = NoCache])
  /\ UNCHANGED <<override, connecting, transport, cached, managers, version, now, results>>

\* Then the error of the last fetch, if it failed.
last_error(t) ==
  /\ At(t, "shown")
  /\ seen' = [seen EXCEPT ![t] = IF Manager(t).error THEN @ \cup {Error} ELSE @]
  /\ goes(t, [calls[t] EXCEPT !.pc = "subscribed"])
  /\ UNCHANGED <<override, connecting, transport, cached, managers, fetches, version, now, results>>

\* QuerySubscriptionHandle closed or dropped.
remove_subscriber(t) ==
  /\ At(t, "subscribed")
  /\ managers' = [managers EXCEPT ![calls[t].manager].subscribers = @ \ {t}]
  /\ goes(t, [calls[t] EXCEPT !.pc = "unsubscribed"])
  /\ UNCHANGED <<override, connecting, transport, cached, fetches, version, now, results, seen>>

(***************************************************************************)
(* execute_query, execute_mutation                                         *)
(***************************************************************************)
\* With the manager of the service; the caller may ask for something else meanwhile.
Execute(t) ==
  /\ At(t, "track") /\ calls[t].op = "execute" /\ Len(fetches) < MaxFetches
  /\ fetches' = Append(fetches, fetch(calls[t].manager, FALSE))
  /\ goes(t, Idle)
  /\ UNCHANGED <<override, connecting, transport, cached, managers, version, now, results, seen>>

\* Through a runtime.
execute_query(m) ==
  /\ Len(fetches) < MaxFetches
  /\ fetches' = Append(fetches, fetch(m, FALSE))
  /\ UNCHANGED <<override, connecting, transport, cached, managers, calls, version, now, results, seen>>

\* The backend takes the mutation or the call fails, before or after that.
execute_mutation(t, taken) ==
  /\ At(t, "transport") /\ transport.state = "ready" /\ calls[t].op = "mutate"
  /\ taken => version < MaxVersion
  /\ version' = IF taken THEN version + 1 ELSE version
  /\ goes(t, Idle)
  /\ UNCHANGED <<override, connecting, transport, cached, managers, fetches, now, results, seen>>

FetchAt(i, pc) == fetches[i].pc = pc
fetchGoes(i, f) == fetches' = [fetches EXCEPT ![i] = f]
Done(i) == [fetch(fetches[i].manager, fetches[i].spawned) EXCEPT !.pc = "done"]

\* Whoever awaits the result drops the future.
Abandon(i) ==
  /\ FetchAt(i, "sent") /\ ~fetches[i].spawned
  /\ fetchGoes(i, Done(i))
  /\ UNCHANGED <<override, connecting, transport, cached, managers, calls, version, now, results, seen>>

\* The backend answers: with the data as it stands, or with an error (credentials,
\* a transport error, a status, GraphQL errors).
perform_request(i, ok) ==
  /\ FetchAt(i, "sent")
  /\ fetchGoes(i, [fetches[i] EXCEPT !.version = IF ok THEN version ELSE Error, !.pc = IF ok THEN "answered" ELSE "failed"])
  /\ UNCHANGED <<override, connecting, transport, cached, managers, calls, version, now, results, seen>>

\* The time of a result is the time its answer is read.
ReadTime(i) ==
  /\ FetchAt(i, "answered") /\ now' = now + 1
  /\ fetchGoes(i, [fetches[i] EXCEPT !.pc = "timed", !.time = now + 1])
  /\ UNCHANGED <<override, connecting, transport, cached, managers, calls, version, results, seen>>

Result(i) == [version |-> fetches[i].version, time |-> fetches[i].time, fetched |-> TRUE]

\* Over a later result too.
set_cache(i) ==
  /\ FetchAt(i, "timed")
  /\ managers' = [managers EXCEPT ![fetches[i].manager].cache = Result(i)]
  /\ fetchGoes(i, [fetches[i] EXCEPT !.pc = "cached"])
  /\ UNCHANGED <<override, connecting, transport, cached, calls, version, now, results, seen>>

clear_error(i) ==
  /\ FetchAt(i, "cached")
  /\ managers' = [managers EXCEPT ![fetches[i].manager].error = FALSE]
  /\ fetchGoes(i, [fetches[i] EXCEPT !.pc = "cleared"])
  /\ UNCHANGED <<override, connecting, transport, cached, calls, version, now, results, seen>>

\* The callbacks of the subscribers there are by then.
notify_success(i) ==
  /\ FetchAt(i, "cleared")
  /\ fetchGoes(i, [fetches[i] EXCEPT !.pc = "telling", !.told = managers[fetches[i].manager].subscribers])
  /\ UNCHANGED <<override, connecting, transport, cached, managers, calls, version, now, results, seen>>

record_error(i) ==
  /\ FetchAt(i, "failed")
  /\ managers' = [managers EXCEPT ![fetches[i].manager].error = TRUE]
  /\ fetchGoes(i, [fetches[i] EXCEPT !.pc = "telling", !.told = managers[fetches[i].manager].subscribers])
  /\ UNCHANGED <<override, connecting, transport, cached, calls, version, now, results, seen>>

\* One callback after another, also when its handle was dropped meanwhile.
Callback(i, t) ==
  /\ FetchAt(i, "telling") /\ t \in fetches[i].told
  /\ seen' = [seen EXCEPT ![t] = @ \cup {fetches[i].version}]
  /\ fetchGoes(i, [fetches[i] EXCEPT !.told = @ \ {t}])
  /\ UNCHANGED <<override, connecting, transport, cached, managers, calls, version, now, results>>

\* A result that was returned can be serialized, and come back with a subscription.
Return(i) ==
  /\ FetchAt(i, "telling") /\ fetches[i].told = {}
  /\ results' = IF fetches[i].version # Error THEN results \cup {Result(i)} ELSE results
  /\ fetchGoes(i, Done(i))
  /\ UNCHANGED <<override, connecting, transport, cached, managers, calls, version, now, seen>>

\* cache_from_serialized: what is brought along is marked as not fetched here.
Serialized == {NoCache} \cup {[result EXCEPT !.fetched = FALSE] : result \in results}

Next ==
  \/ connect_emulator \/ use_emulator \/ release_query_manager
  \/ \E t \in Tasks :
       \/ \E op \in {"execute", "runtime", "mutate"} : Begin(t, op, NoCache)
       \/ \E initial \in Serialized :
            Begin(t, "subscribe", initial) \/ \E m \in DOMAIN managers : SubscribeThrough(t, m, initial)
       \/ BuildTransport(t) \/ PublishTransport(t) \/ InsertManager(t) \/ DataConnectQueryRuntime(t)
       \/ track(t) \/ AddSubscriber(t) \/ cache_snapshot(t) \/ Show(t) \/ last_error(t) \/ remove_subscriber(t)
       \/ Execute(t) \/ \E taken \in BOOLEAN : execute_mutation(t, taken)
  \/ \E m \in DOMAIN managers : execute_query(m)
  \/ \E i \in DOMAIN fetches :
       \/ Abandon(i) \/ \E ok \in BOOLEAN : perform_request(i, ok)
       \/ ReadTime(i) \/ set_cache(i) \/ clear_error(i) \/ notify_success(i) \/ record_error(i)
       \/ Return(i) \/ \E t \in Tasks : Callback(i, t)

Spec == Init /\ [][Next]_dcVars
-----------------------------------------------------------------------------
Active(i) == fetches[i].pc # "done"

\* However a subscription and fetches interleave, once no fetch of its manager
\* is under way a subscriber was told something, and has been told the fetched
\* result its manager caches (query.rs: added before the cache is read, the
\* cache set before the subscribers are notified).
SubscribersSeeTheCache ==
  /\ TypeOK
  /\ \A t \in Tasks : At(t, "subscribed") /\ (\A i \in DOMAIN fetches : Active(i) => fetches[i].manager # calls[t].manager) =>
       /\ seen[t] # {}
       /\ Manager(t).cache.fetched => Manager(t).cache.version \in seen[t]

\* The inductive invariant of DataConnectProofs.  First the types: a manager exists
\* before a call or a fetch holds it, and what a subscriber brings was not fetched here.
Caches == [version : Int, time : Int, fetched : BOOLEAN]
Offered == [version : Int, time : Int, fetched : {FALSE}]
Placing == {"track", "add", "snapshot", "tell", "shown", "subscribed", "unsubscribed"}
Ops == {"none", "subscribe", "execute", "runtime", "mutate"}
CallType == [pc : {"idle", "transport", "built"} \cup Placing, op : Ops, manager : Nat, initial : Offered, snapshot : Caches, override : BOOLEAN]
FetchType == [manager : Nat, spawned : BOOLEAN,
              pc : {"sent", "answered", "timed", "cached", "cleared", "failed", "telling", "done"},
              version : Int, time : Int, told : SUBSET Tasks]
TrackedType == [subscribers : SUBSET Tasks, cache : Caches, error : BOOLEAN]

Typed ==
  /\ override \in BOOLEAN /\ connecting \in BOOLEAN /\ transport \in [state : {"none", "building", "ready"}, emulator : BOOLEAN]
  /\ managers \in Seq(TrackedType) /\ cached \in 0 .. Len(managers)
  /\ calls \in [Tasks -> CallType] /\ fetches \in Seq(FetchType)
  /\ version \in Int /\ now \in Int /\ results \subseteq Caches
  /\ seen \in [Tasks -> SUBSET Int]

ManagersExist ==
  /\ \A t \in Tasks : /\ calls[t].manager \in 0 .. Len(managers)
                      /\ calls[t].pc \in Placing => calls[t].manager # 0
  /\ \A i \in DOMAIN fetches : fetches[i].manager \in 1 .. Len(managers)

\* Fetch i will tell t of version v, or of anything at all.
WillTell(i, t) ==
  /\ fetches[i].manager = calls[t].manager
  /\ fetches[i].pc \in {"sent", "answered", "timed", "cached", "cleared", "failed"} \/ (fetches[i].pc = "telling" /\ t \in fetches[i].told)
WillTellOf(i, t, v) ==
  WillTell(i, t) /\ fetches[i].pc \in {"cached", "cleared", "telling"} /\ fetches[i].version = v

Subscribed(t) ==
  calls[t].pc \in {"snapshot", "tell", "shown", "subscribed"} => t \in Manager(t).subscribers

\* Nobody can drop the future of the fetch a subscription started.
Told(t) ==
  calls[t].pc \in {"shown", "subscribed"} => seen[t] # {} \/ \E i \in DOMAIN fetches : fetches[i].spawned /\ WillTell(i, t)

\* What the manager caches reaches the subscriber: it has it, or the copy it is about
\* to be shown, or the fetch that cached it has still to notify.
CacheReaches(t) ==
  calls[t].pc \in {"tell", "shown", "subscribed"} /\ Manager(t).cache.fetched =>
    \/ Manager(t).cache.version \in seen[t]
    \/ calls[t].pc = "tell" /\ calls[t].snapshot = Manager(t).cache
    \/ \E i \in DOMAIN fetches : WillTellOf(i, t, Manager(t).cache.version)

IInv == Typed /\ ManagersExist /\ \A t \in Tasks : Subscribed(t) /\ Told(t) /\ CacheReaches(t)
=============================================================================
