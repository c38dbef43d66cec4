-------------------------- MODULE DataConnectProofs --------------------------
(***************************************************************************)
(* Every subscriber of a Data Connect query ends up with the result its    *)
(* manager caches, for any number of subscribers, managers and fetches,    *)
(* however their steps interleave.  The second part is about the in-memory *)
(* store of FirestoreWrites, for any tasks, documents and data.            *)
(***************************************************************************)
EXTENDS DataConnect, SequencesExt, FiniteSetTheorems, SequenceTheorems, TLAPS

\* Firestore's in-memory store, the other thing queries and writes are run on.
CONSTANTS Keys, Payloads, MAX_BATCH_WRITES, MaxWrites
VARIABLES documents, versions, tasks, past
Writes == INSTANCE FirestoreWrites
-----------------------------------------------------------------------------

\* A sequence with one element replaced.
Put(s, k, x) == [s EXCEPT ![k] = x]

LEMMA PutProperties ==
  ASSUME NEW S, NEW s \in Seq(S), NEW k \in DOMAIN s, NEW x \in S
  PROVE  /\ Put(s, k, x) \in Seq(S) /\ DOMAIN Put(s, k, x) = DOMAIN s /\ Len(Put(s, k, x)) = Len(s)
         /\ Put(s, k, x)[k] = x /\ \A j \in DOMAIN s : j # k => Put(s, k, x)[j] = s[j]
  BY DEF Put

LEMMA AddProperties ==
  ASSUME NEW S, NEW s \in Seq(S), NEW x \in S
  PROVE  /\ Append(s, x) \in Seq(S) /\ Len(Append(s, x)) = Len(s) + 1 /\ Len(s) \in Nat
         /\ DOMAIN s = 1 .. Len(s) /\ DOMAIN Append(s, x) = 1 .. Len(s) + 1
         /\ Append(s, x)[Len(s) + 1] = x /\ \A j \in DOMAIN s : Append(s, x)[j] = s[j]
  OBVIOUS

LEMMA NoCacheIsACache ==
  /\ NoCache \in Caches /\ NoCache \in Offered /\ ~NoCache.fetched
  /\ TrackedQuery \in TrackedType /\ Idle \in CallType
<1>1. NoCache \in Caches /\ NoCache \in Offered /\ ~NoCache.fetched
  BY DEF NoCache, Caches, Offered
<1> QED BY <1>1 DEF TrackedQuery, TrackedType, Idle, CallType, Ops

LEMMA SerializedAreOffered ==
  ASSUME Typed, NEW initial \in Serialized
  PROVE  initial \in Offered
<1>1. CASE initial = NoCache
  BY <1>1, NoCacheIsACache
<1>2. ASSUME NEW result \in results, initial = [result EXCEPT !.fetched = FALSE] PROVE initial \in Offered
  BY <1>2 DEF Typed, Caches, Offered
<1> QED BY <1>1, <1>2 DEF Serialized

\* A call that has got as far as its manager has one.
LEMMA ManagerIsThere ==
  ASSUME Typed, ManagersExist, NEW u \in Tasks
  PROVE  /\ calls[u].manager \in 0 .. Len(managers) /\ Len(managers) \in Nat
         /\ calls[u].pc \in Placing => calls[u].manager \in DOMAIN managers
<1>1. Len(managers) \in Nat /\ DOMAIN managers = 1 .. Len(managers)
  BY DEF Typed
<1>2. calls[u].manager \in 0 .. Len(managers)
  BY DEF ManagersExist
<1>3. calls[u].pc \in Placing => calls[u].manager # 0
  BY DEF ManagersExist
<1> QED BY <1>1, <1>2, <1>3

\* What a task knows stays true while its call, what it was shown and the fetches stay,
\* and its manager keeps what it caches or takes a result that a subscriber brought.
LEMMA TaskUntouched ==
  ASSUME IInv, ManagersExist', NEW u \in Tasks,
         calls'[u] = calls[u], seen'[u] = seen[u],
         \A i \in DOMAIN fetches : i \in DOMAIN fetches' /\ fetches'[i] = fetches[i],
         \A m \in DOMAIN managers :
           /\ u \in managers[m].subscribers => u \in managers'[m].subscribers
           /\ managers'[m].cache = managers[m].cache \/ ~managers'[m].cache.fetched
  PROVE  (Subscribed(u) /\ Told(u) /\ CacheReaches(u))'
<1>1. Subscribed(u) /\ Told(u) /\ CacheReaches(u) /\ ManagersExist /\ Typed
  BY DEF IInv
<1>2. calls[u].pc \in Placing => calls[u].manager \in DOMAIN managers
  BY <1>1, ManagerIsThere
<1>3. Subscribed(u)'
  BY <1>1, <1>2 DEF Subscribed, Manager, Placing
<1>4. Told(u)'
  BY <1>1 DEF Told, WillTell
<1>5. CacheReaches(u)'
  BY <1>1, <1>2 DEF CacheReaches, WillTellOf, WillTell, Manager, Placing
<1> QED BY <1>3, <1>4, <1>5

-----------------------------------------------------------------------------
\* The steps that leave managers, fetches and what was seen alone, and move no call past
\* its manager: those of the emulator, the release of a manager, a mutation, the
\* beginning of a call and the building of the transport.
LEMMA PlainStep ==
  ASSUME IInv, Typed', UNCHANGED <<managers, fetches, seen>>,
         \A u \in Tasks : calls'[u] = calls[u] \/ (calls'[u].pc \in {"idle", "transport", "built", "track"}
                                                  /\ calls'[u].manager \in 0 .. Len(managers)
                                                  /\ (calls'[u].pc = "track" => calls'[u].manager # 0))
  PROVE  IInv'
<1>1. ManagersExist'
  BY DEF IInv, ManagersExist, Placing
<1>2. ASSUME NEW u \in Tasks PROVE (Subscribed(u) /\ Told(u) /\ CacheReaches(u))'
  <2>1. CASE calls'[u] = calls[u]
    BY <1>1, <2>1, TaskUntouched
  <2>2. CASE calls'[u].pc \in {"idle", "transport", "built", "track"}
    BY <2>2 DEF Subscribed, Told, CacheReaches
  <2> QED BY <2>1, <2>2
<1> QED BY <1>1, <1>2 DEF IInv

LEMMA PlainActions ==
  ASSUME IInv, connect_emulator \/ use_emulator \/ release_query_manager \/ UNCHANGED dcVars
  PROVE  IInv'
<1>1. Typed'
  <2>1. CASE connect_emulator
    BY <2>1 DEF connect_emulator, IInv, Typed
  <2>2. CASE use_emulator
    BY <2>2 DEF use_emulator, IInv, Typed
  <2>3. CASE release_query_manager
    BY <2>3 DEF release_query_manager, IInv, Typed
  <2>4. CASE UNCHANGED dcVars
    BY <2>4 DEF dcVars, IInv, Typed
  <2> QED BY <2>1, <2>2, <2>3, <2>4
<1>2. UNCHANGED <<managers, calls, fetches, seen>>
  BY DEF connect_emulator, use_emulator, release_query_manager, dcVars
<1> QED BY <1>1, <1>2, PlainStep

\* The same of a step of task t, whose call becomes this one.
LEMMA PlainCall ==
  ASSUME IInv, Typed', NEW t \in Tasks, NEW call, calls' = [calls EXCEPT ![t] = call],
         call.pc \in {"idle", "transport", "built", "track"}, call.manager \in 0 .. Len(managers),
         call.pc = "track" => call.manager # 0, UNCHANGED <<managers, fetches, seen>>
  PROVE  IInv'
<1>1. \A u \in Tasks : calls'[u] = IF u = t THEN call ELSE calls[u]
  BY DEF IInv, Typed
<1> QED BY <1>1, PlainStep

LEMMA BeginStep ==
  ASSUME IInv, NEW t \in Tasks, NEW op \in Ops, NEW initial \in Offered, Begin(t, op, initial)
  PROVE  IInv'
<1>1. PICK manager : manager = IF op = "mutate" THEN 0 ELSE cached
  OBVIOUS
<1>2. PICK call : call = [Idle EXCEPT !.op = op, !.initial = initial, !.manager = manager,
                                      !.pc = IF manager # 0 THEN "track" ELSE "transport"]
  OBVIOUS
<1>3. calls' = [calls EXCEPT ![t] = call] /\ UNCHANGED <<override, connecting, transport, cached, managers, fetches, version, now, results, seen>>
  BY <1>1, <1>2 DEF Begin, goes
<1>4. manager \in 0 .. Len(managers) /\ manager \in Nat
  BY <1>1 DEF IInv, Typed
<1>5. call \in CallType /\ call.manager = manager /\ call.pc = IF manager # 0 THEN "track" ELSE "transport"
  BY <1>2, <1>4, NoCacheIsACache DEF CallType, Placing
<1>6. Typed'
  BY <1>3, <1>5 DEF IInv, Typed
<1> QED BY <1>3, <1>4, <1>5, <1>6, PlainCall

LEMMA SubscribeThroughStep ==
  ASSUME IInv, NEW t \in Tasks, NEW m \in DOMAIN managers, NEW initial \in Offered, SubscribeThrough(t, m, initial)
  PROVE  IInv'
<1>1. PICK call : call = [Idle EXCEPT !.op = "subscribe", !.initial = initial, !.manager = m, !.pc = "track"]
  OBVIOUS
<1>2. calls' = [calls EXCEPT ![t] = call] /\ UNCHANGED <<override, connecting, transport, cached, managers, fetches, version, now, results, seen>>
  BY <1>1 DEF SubscribeThrough, goes
<1>3. m \in 0 .. Len(managers) /\ m \in Nat /\ m # 0
  BY DEF IInv, Typed
<1>4. call \in CallType /\ call.manager = m /\ call.pc = "track"
  BY <1>1, <1>3, NoCacheIsACache DEF CallType, Placing, Ops
<1>5. Typed'
  BY <1>2, <1>4 DEF IInv, Typed
<1> QED BY <1>2, <1>3, <1>4, <1>5, PlainCall

LEMMA TransportStep ==
  ASSUME IInv, NEW t \in Tasks, BuildTransport(t) \/ PublishTransport(t)
  PROVE  IInv'
<1>1. Typed /\ calls[t] \in CallType /\ override \in BOOLEAN /\ calls[t].manager \in 0 .. Len(managers)
  BY ManagerIsThere DEF IInv, Typed
<1>2. PICK pc \in {"built", "transport"}, o \in BOOLEAN : calls' = [calls EXCEPT ![t] = [calls[t] EXCEPT !.pc = pc, !.override = o]]
  BY <1>1 DEF BuildTransport, PublishTransport, goes
<1>3. PICK call : call = [calls[t] EXCEPT !.pc = pc, !.override = o]
  OBVIOUS
<1>4. call \in CallType /\ call.pc = pc /\ call.manager = calls[t].manager
  BY <1>1, <1>2, <1>3 DEF CallType
<1>5. transport' \in [state : {"none", "building", "ready"}, emulator : BOOLEAN]
  BY <1>1 DEF BuildTransport, PublishTransport, Typed, CallType
<1>6. UNCHANGED <<override, connecting, cached, managers, fetches, version, now, results, seen>>
  BY DEF BuildTransport, PublishTransport
<1>7. Typed'
  BY <1>1, <1>2, <1>3, <1>4, <1>5, <1>6 DEF Typed
<1> QED BY <1>1, <1>2, <1>3, <1>4, <1>6, <1>7, PlainCall

\* A call that ends with nothing but a runtime or a mutation.
LEMMA PlainEnd ==
  ASSUME IInv, NEW t \in Tasks, DataConnectQueryRuntime(t) \/ \E taken \in BOOLEAN : execute_mutation(t, taken)
  PROVE  IInv'
<1>1. calls' = [calls EXCEPT ![t] = Idle] /\ UNCHANGED <<override, connecting, transport, cached, managers, fetches, now, results, seen>>
  BY DEF DataConnectQueryRuntime, execute_mutation, goes
<1>2. version' \in Int
  BY DEF DataConnectQueryRuntime, execute_mutation, IInv, Typed
<1>3. Idle \in CallType /\ Idle.pc = "idle" /\ Idle.manager = 0
  BY NoCacheIsACache DEF Idle
<1>4. Typed'
  BY <1>1, <1>2, <1>3 DEF IInv, Typed
<1>5. 0 \in 0 .. Len(managers)
  BY DEF IInv, Typed
<1> QED BY <1>1, <1>3, <1>4, <1>5, PlainCall

-----------------------------------------------------------------------------
\* A step of one task: it may place itself with a manager, and add a fetch or a manager.
LEMMA TaskStep ==
  ASSUME IInv, Typed', NEW t \in Tasks,
         \A u \in Tasks : u # t => calls'[u] = calls[u] /\ seen'[u] = seen[u],
         calls'[t].manager \in 0 .. Len(managers'), calls'[t].pc \in Placing => calls'[t].manager # 0,
         Len(managers') >= Len(managers),
         \A i \in DOMAIN fetches : i \in DOMAIN fetches' /\ fetches'[i] = fetches[i],
         \A i \in DOMAIN fetches' : i \in DOMAIN fetches \/ fetches'[i].manager \in 1 .. Len(managers'),
         \A m \in DOMAIN managers :
           /\ \A u \in Tasks : u # t /\ u \in managers[m].subscribers => u \in managers'[m].subscribers
           /\ managers'[m].cache = managers[m].cache \/ ~managers'[m].cache.fetched,
         (Subscribed(t) /\ Told(t) /\ CacheReaches(t))'
  PROVE  IInv'
<1>1. Len(managers) \in Nat /\ Len(managers') \in Nat
  BY DEF IInv, Typed
<1>2. ASSUME NEW u \in Tasks
      PROVE  calls'[u].manager \in 0 .. Len(managers') /\ (calls'[u].pc \in Placing => calls'[u].manager # 0)
  <2>1. calls[u].manager \in 0 .. Len(managers) /\ (calls[u].pc \in Placing => calls[u].manager # 0)
    BY DEF IInv, ManagersExist
  <2> QED BY <1>1, <2>1
<1>3. ASSUME NEW i \in DOMAIN fetches' PROVE fetches'[i].manager \in 1 .. Len(managers')
  <2>1. CASE i \in DOMAIN fetches
    <3>1. fetches[i].manager \in 1 .. Len(managers)
      BY <2>1 DEF IInv, ManagersExist
    <3> QED BY <1>1, <2>1, <3>1
  <2> QED BY <2>1
<1>4. ManagersExist'
  BY <1>2, <1>3 DEF ManagersExist
<1>5. ASSUME NEW u \in Tasks PROVE (Subscribed(u) /\ Told(u) /\ CacheReaches(u))'
  <2>1. CASE u # t
    BY <1>4, <2>1, TaskUntouched
  <2> QED BY <2>1
<1> QED BY <1>4, <1>5 DEF IInv

\* The new call of a step of a task.
LEMMA TaskTypes ==
  ASSUME Typed, NEW t \in Tasks, NEW call \in CallType, calls' = [calls EXCEPT ![t] = call]
  PROVE  calls' \in [Tasks -> CallType] /\ calls'[t] = call /\ \A u \in Tasks : u # t => calls'[u] = calls[u]
  BY DEF Typed

LEMMA InsertManagerStep ==
  ASSUME IInv, NEW t \in Tasks, InsertManager(t) PROVE IInv'
<1>1. Typed /\ calls[t] \in CallType /\ Len(managers) \in Nat
  BY DEF IInv, Typed
<1>2. PICK call : calls' = [calls EXCEPT ![t] = call] /\ call = [calls[t] EXCEPT !.pc = "track", !.manager = Len(managers) + 1]
  BY DEF InsertManager, goes
<1>3. call \in CallType /\ call.pc = "track" /\ call.manager = Len(managers) + 1
  <2>1. Len(managers) + 1 \in Nat /\ "track" \in Placing
    BY <1>1 DEF Placing
  <2> QED BY <1>1, <1>2, <2>1 DEF CallType
<1>4. /\ calls' \in [Tasks -> CallType] /\ calls'[t] = call
      /\ \A u \in Tasks : u # t => calls'[u] = calls[u]
  BY <1>1, <1>2, <1>3, TaskTypes
<1>5. /\ managers' = Append(managers, TrackedQuery) /\ cached' = Len(managers) + 1
      /\ UNCHANGED <<override, connecting, transport, fetches, version, now, results, seen>>
  BY DEF InsertManager
<1>6. /\ managers' \in Seq(TrackedType) /\ Len(managers') = Len(managers) + 1
      /\ \A m \in DOMAIN managers : managers'[m] = managers[m]
  BY <1>1, <1>5, NoCacheIsACache, AddProperties DEF Typed
<1>7. Typed'
  BY <1>1, <1>4, <1>5, <1>6 DEF Typed
<1>8. (Subscribed(t) /\ Told(t) /\ CacheReaches(t))'
  BY <1>3, <1>4 DEF Subscribed, Told, CacheReaches
<1> QED BY <1>1, <1>3, <1>4, <1>5, <1>6, <1>7, <1>8, TaskStep

\* maybe_update_cache keeps what was fetched or puts a result there that was not.
LEMMA OfferedIsNotFetched ==
  ASSUME NEW tracked \in TrackedType, NEW cache \in Offered
  PROVE  /\ maybe_update_cache(tracked, cache) \in TrackedType
         /\ maybe_update_cache(tracked, cache).subscribers = tracked.subscribers
         /\ \/ maybe_update_cache(tracked, cache).cache = tracked.cache
            \/ ~maybe_update_cache(tracked, cache).cache.fetched
<1>1. cache \in Caches /\ ~cache.fetched
  BY DEF Offered, Caches
<1> QED BY <1>1 DEF maybe_update_cache, TrackedType

\* A step of a task that changes the query its manager tracks, keeping the subscribers,
\* and what it caches or taking what was not fetched.
LEMMA TrackedStep ==
  ASSUME IInv, NEW t \in Tasks, NEW call \in CallType, calls' = [calls EXCEPT ![t] = call],
         calls[t].pc \in Placing, call.manager = calls[t].manager, call.pc \in Placing,
         NEW x \in TrackedType, managers' = [managers EXCEPT ![calls[t].manager] = x],
         \A u \in Tasks : u # t /\ u \in Manager(t).subscribers => u \in x.subscribers,
         x.cache = Manager(t).cache \/ ~x.cache.fetched,
         \/ call.pc \in {"add", "unsubscribed"}
         \/ call.pc = "snapshot" /\ t \in x.subscribers,
         UNCHANGED <<override, connecting, transport, cached, fetches, version, now, results, seen>>
  PROVE  IInv'
<1>1. Typed /\ Len(managers) \in Nat
  BY DEF IInv, Typed
<1>2. /\ calls' \in [Tasks -> CallType] /\ calls'[t] = call
      /\ \A u \in Tasks : u # t => calls'[u] = calls[u]
  BY <1>1, TaskTypes
<1>3. PICK m : m = calls[t].manager
  OBVIOUS
<1>4. m \in DOMAIN managers /\ m \in 0 .. Len(managers) /\ m # 0
  BY <1>1, <1>3, ManagerIsThere DEF IInv, ManagersExist
<1>5. managers' = Put(managers, m, x)
  BY <1>3 DEF Put
<1>6. /\ managers' \in Seq(TrackedType) /\ Len(managers') = Len(managers) /\ managers'[m] = x
      /\ \A j \in DOMAIN managers : j # m => managers'[j] = managers[j]
  <2>1. managers \in Seq(TrackedType)
    BY <1>1 DEF Typed
  <2>2. /\ Put(managers, m, x) \in Seq(TrackedType) /\ Len(Put(managers, m, x)) = Len(managers)
        /\ Put(managers, m, x)[m] = x
        /\ \A j \in DOMAIN managers : j # m => Put(managers, m, x)[j] = managers[j]
    BY <1>4, <2>1, PutProperties
  <2> QED BY <1>5, <2>2
<1>7. Typed'
  BY <1>1, <1>2, <1>6 DEF Typed
<1>8. (Subscribed(t) /\ Told(t) /\ CacheReaches(t))'
  BY <1>2, <1>3, <1>6 DEF Subscribed, Told, CacheReaches, Manager
<1>9. \A j \in DOMAIN managers :
        /\ \A u \in Tasks : u # t /\ u \in managers[j].subscribers => u \in managers'[j].subscribers
        /\ managers'[j].cache = managers[j].cache \/ ~managers'[j].cache.fetched
  BY <1>3, <1>6 DEF Manager
<1> QED BY <1>1, <1>2, <1>3, <1>4, <1>6, <1>7, <1>8, <1>9, TaskStep

\* What a placed call has.
LEMMA PlacedCall ==
  ASSUME IInv, NEW t \in Tasks, calls[t].pc \in Placing
  PROVE  calls[t] \in CallType /\ Manager(t) \in TrackedType
<1>1. calls[t] \in CallType /\ calls[t].manager \in DOMAIN managers /\ managers \in Seq(TrackedType)
  BY ManagerIsThere DEF IInv, Typed
<1> QED BY <1>1 DEF Manager

LEMMA TrackStep ==
  ASSUME IInv, NEW t \in Tasks, track(t) PROVE IInv'
<1>1. calls[t].pc = "track" /\ calls[t] \in CallType /\ Manager(t) \in TrackedType /\ calls[t].pc \in Placing
  BY PlacedCall DEF track, At, Placing
<1>2. PICK call : call = [calls[t] EXCEPT !.pc = "add", !.initial = NoCache]
  OBVIOUS
<1>3. call \in CallType /\ call.pc = "add" /\ call.manager = calls[t].manager
  BY <1>1, <1>2, NoCacheIsACache DEF CallType, Placing
<1>4. PICK x : x = maybe_update_cache(Manager(t), calls[t].initial)
  OBVIOUS
<1>5. calls[t].initial \in Offered
  BY <1>1 DEF CallType
<1>6. x \in TrackedType /\ x.subscribers = Manager(t).subscribers /\ (x.cache = Manager(t).cache \/ ~x.cache.fetched)
  BY <1>1, <1>4, <1>5, OfferedIsNotFetched
<1>7. managers' = [managers EXCEPT ![calls[t].manager] = x] /\ calls' = [calls EXCEPT ![t] = call]
  BY <1>2, <1>4 DEF track, goes, Manager
<1>8. UNCHANGED <<override, connecting, transport, cached, fetches, version, now, results, seen>>
  BY DEF track
<1> QED BY <1>1, <1>3, <1>6, <1>7, <1>8, TrackedStep DEF Placing

LEMMA AddSubscriberStep ==
  ASSUME IInv, NEW t \in Tasks, AddSubscriber(t) PROVE IInv'
<1>1. calls[t].pc = "add" /\ calls[t] \in CallType /\ Manager(t) \in TrackedType /\ calls[t].pc \in Placing
  BY PlacedCall DEF AddSubscriber, At, Placing
<1>2. PICK call : call = [calls[t] EXCEPT !.pc = "snapshot"]
  OBVIOUS
<1>3. call \in CallType /\ call.pc = "snapshot" /\ call.manager = calls[t].manager
  BY <1>1, <1>2 DEF CallType, Placing
<1>4. PICK x : x = [Manager(t) EXCEPT !.subscribers = @ \cup {t}]
  OBVIOUS
<1>5. x \in TrackedType /\ x.subscribers = Manager(t).subscribers \cup {t} /\ x.cache = Manager(t).cache
  BY <1>1, <1>4 DEF TrackedType
<1>6. managers' = [managers EXCEPT ![calls[t].manager] = x] /\ calls' = [calls EXCEPT ![t] = call]
  BY <1>2, <1>4 DEF AddSubscriber, goes, Manager
<1>7. UNCHANGED <<override, connecting, transport, cached, fetches, version, now, results, seen>>
  BY DEF AddSubscriber
<1> QED BY <1>1, <1>3, <1>5, <1>6, <1>7, TrackedStep DEF Placing

LEMMA RemoveSubscriberStep ==
  ASSUME IInv, NEW t \in Tasks, remove_subscriber(t) PROVE IInv'
<1>1. calls[t].pc = "subscribed" /\ calls[t] \in CallType /\ Manager(t) \in TrackedType /\ calls[t].pc \in Placing
  BY PlacedCall DEF remove_subscriber, At, Placing
<1>2. PICK call : call = [calls[t] EXCEPT !.pc = "unsubscribed"]
  OBVIOUS
<1>3. call \in CallType /\ call.pc = "unsubscribed" /\ call.manager = calls[t].manager
  BY <1>1, <1>2 DEF CallType, Placing
<1>4. PICK x : x = [Manager(t) EXCEPT !.subscribers = @ \ {t}]
  OBVIOUS
<1>5. x \in TrackedType /\ x.subscribers = Manager(t).subscribers \ {t} /\ x.cache = Manager(t).cache
  BY <1>1, <1>4 DEF TrackedType
<1>6. managers' = [managers EXCEPT ![calls[t].manager] = x] /\ calls' = [calls EXCEPT ![t] = call]
  BY <1>2, <1>4 DEF remove_subscriber, goes, Manager
<1>7. UNCHANGED <<override, connecting, transport, cached, fetches, version, now, results, seen>>
  BY DEF remove_subscriber
<1> QED BY <1>1, <1>3, <1>5, <1>6, <1>7, TrackedStep DEF Placing

LEMMA CacheSnapshotStep ==
  ASSUME IInv, NEW t \in Tasks, cache_snapshot(t) PROVE IInv'
<1>1. Typed /\ calls[t] \in CallType /\ Len(managers) \in Nat /\ calls[t].pc = "snapshot" /\ Subscribed(t)
  BY DEF IInv, Typed, cache_snapshot, At
<1>2. PICK m : m = calls[t].manager
  OBVIOUS
<1>3. m \in DOMAIN managers /\ m \in 0 .. Len(managers) /\ m # 0
  BY <1>1, <1>2, ManagerIsThere DEF IInv, Placing, ManagersExist
<1>4. managers[m] \in TrackedType /\ managers[m].cache \in Caches
  <2>1. managers[m] \in TrackedType
    BY <1>1, <1>3 DEF Typed
  <2> QED BY <2>1 DEF TrackedType
<1>5. PICK call : calls' = [calls EXCEPT ![t] = call] /\ call = [calls[t] EXCEPT !.pc = "tell", !.snapshot = managers[m].cache]
  BY <1>2 DEF cache_snapshot, goes, Manager
<1>6. call \in CallType /\ call.pc = "tell" /\ call.manager = m /\ call.snapshot = managers[m].cache
  BY <1>1, <1>2, <1>4, <1>5 DEF CallType, Placing
<1>7. /\ calls' \in [Tasks -> CallType] /\ calls'[t] = call
      /\ \A u \in Tasks : u # t => calls'[u] = calls[u]
  BY <1>1, <1>5, <1>6, TaskTypes
<1>8. UNCHANGED <<override, connecting, transport, cached, managers, fetches, version, now, results, seen>>
  BY DEF cache_snapshot
<1>9. Typed'
  BY <1>1, <1>7, <1>8 DEF Typed
<1>10. (Subscribed(t) /\ Told(t) /\ CacheReaches(t))'
  BY <1>1, <1>2, <1>6, <1>7, <1>8 DEF Subscribed, Told, CacheReaches, Manager
<1> QED BY <1>1, <1>3, <1>6, <1>7, <1>8, <1>9, <1>10, TaskStep

\* A fetch more.
LEMMA NewFetch ==
  ASSUME Typed, NEW m \in Nat, NEW spawned \in BOOLEAN, fetches' = Append(fetches, fetch(m, spawned))
  PROVE  /\ fetches' \in Seq(FetchType)
         /\ \A i \in DOMAIN fetches : i \in DOMAIN fetches' /\ fetches'[i] = fetches[i]
         /\ \A i \in DOMAIN fetches' : i \in DOMAIN fetches \/ fetches'[i].manager = m
         /\ \E i \in DOMAIN fetches' : /\ fetches'[i].manager = m /\ fetches'[i].pc = "sent"
                                      /\ fetches'[i].spawned = spawned
<1>1. /\ fetch(m, spawned) \in FetchType /\ fetch(m, spawned).manager = m
      /\ fetch(m, spawned).pc = "sent" /\ fetch(m, spawned).spawned = spawned
  BY DEF fetch, FetchType
<1>2. /\ fetches' \in Seq(FetchType) /\ Len(fetches) \in Nat
      /\ DOMAIN fetches = 1 .. Len(fetches) /\ DOMAIN fetches' = 1 .. Len(fetches) + 1
      /\ fetches'[Len(fetches) + 1] = fetch(m, spawned)
      /\ \A j \in DOMAIN fetches : fetches'[j] = fetches[j]
  BY <1>1, AddProperties DEF Typed
<1>3. Len(fetches) + 1 \in DOMAIN fetches'
  BY <1>2
<1> QED BY <1>1, <1>2, <1>3

\* A subscription is shown what is cached, or starts a fetch that nobody can drop.
LEMMA ShowStep ==
  ASSUME IInv, NEW t \in Tasks, Show(t) PROVE IInv'
<1>1. Typed /\ calls[t] \in CallType /\ Len(managers) \in Nat /\ calls[t].pc = "tell"
  BY DEF IInv, Typed, Show, At
<1>2. PICK m : m = calls[t].manager
  OBVIOUS
<1>3. m \in DOMAIN managers /\ m \in 1 .. Len(managers) /\ m \in Nat
  <2>1. DOMAIN managers = 1 .. Len(managers)
    BY <1>1 DEF Typed
  <2> QED BY <1>1, <1>2, <2>1, ManagerIsThere DEF IInv, Placing
<1>4. PICK call : calls' = [calls EXCEPT ![t] = call] /\ call = [calls[t] EXCEPT !.pc = "shown", !.snapshot = NoCache]
  BY DEF Show, goes
<1>5. call \in CallType /\ call.pc = "shown" /\ call.manager = m
  BY <1>1, <1>2, <1>4, NoCacheIsACache DEF CallType, Placing
<1>6. /\ calls' \in [Tasks -> CallType] /\ calls'[t] = call
      /\ \A u \in Tasks : u # t => calls'[u] = calls[u]
  BY <1>1, <1>4, <1>5, TaskTypes
<1>7. PICK cache : cache = calls[t].snapshot /\ cache \in Caches /\ cache.version \in Int
  BY <1>1 DEF CallType, Caches
<1>8. /\ seen' = [seen EXCEPT ![t] = IF cache # NoCache THEN @ \cup {cache.version} ELSE @]
      /\ fetches' = IF cache = NoCache THEN Append(fetches, fetch(m, TRUE)) ELSE fetches
      /\ UNCHANGED <<override, connecting, transport, cached, managers, version, now, results>>
  BY <1>2, <1>7 DEF Show
<1>9. /\ seen' \in [Tasks -> SUBSET Int] /\ seen[t] \subseteq seen'[t] /\ (cache # NoCache => cache.version \in seen'[t])
      /\ \A u \in Tasks : u # t => seen'[u] = seen[u]
  BY <1>1, <1>7, <1>8 DEF Typed
<1>10. /\ fetches' \in Seq(FetchType)
       /\ \A i \in DOMAIN fetches : i \in DOMAIN fetches' /\ fetches'[i] = fetches[i]
       /\ \A i \in DOMAIN fetches' : i \in DOMAIN fetches \/ fetches'[i].manager = m
       /\ cache = NoCache => \E i \in DOMAIN fetches' : fetches'[i].manager = m /\ fetches'[i].pc = "sent" /\ fetches'[i].spawned
  <2>1. CASE cache # NoCache
    BY <1>1, <1>8, <2>1 DEF Typed
  <2>2. CASE cache = NoCache
    BY <1>1, <1>3, <1>8, <2>2, NewFetch
  <2> QED BY <2>1, <2>2
<1>11. Typed'
  BY <1>1, <1>6, <1>8, <1>9, <1>10 DEF Typed
<1>12. (Subscribed(t) /\ Told(t) /\ CacheReaches(t))'
  <2>1. calls'[t].pc = "shown" /\ calls'[t].manager = m /\ managers' = managers
    BY <1>5, <1>6, <1>8
  <2>2. Subscribed(t)'
    BY <1>1, <1>2, <2>1 DEF IInv, Subscribed, Manager
  <2>3. Told(t)'
    BY <1>9, <1>10, <2>1 DEF Told, WillTell
  <2>4. CacheReaches(t)'
    <3>1. CASE managers[m].cache.version \in seen[t]
      BY <1>9, <2>1, <3>1 DEF CacheReaches, Manager
    <3>2. CASE managers[m].cache.fetched /\ cache = managers[m].cache
      BY <1>9, <2>1, <3>2, NoCacheIsACache DEF CacheReaches, Manager
    <3>3. CASE \E i \in DOMAIN fetches : WillTellOf(i, t, managers[m].cache.version)
      BY <1>2, <1>10, <2>1, <3>3 DEF CacheReaches, Manager, WillTellOf, WillTell
    <3>4. CASE ~managers[m].cache.fetched
      BY <2>1, <3>4 DEF CacheReaches, Manager
    <3> QED BY <1>1, <1>2, <1>7, <3>1, <3>2, <3>3, <3>4 DEF IInv, CacheReaches, Manager
  <2> QED BY <2>2, <2>3, <2>4
<1>13. calls'[t].manager \in 0 .. Len(managers') /\ calls'[t].manager # 0 /\ Len(managers') >= Len(managers)
  BY <1>1, <1>3, <1>5, <1>6, <1>8
<1>14. \A i \in DOMAIN fetches' : i \in DOMAIN fetches \/ fetches'[i].manager \in 1 .. Len(managers')
  BY <1>3, <1>8, <1>10
<1>15. managers' = managers
  BY <1>8
<1> QED BY <1>6, <1>9, <1>10, <1>11, <1>12, <1>13, <1>14, <1>15, TaskStep

LEMMA LastErrorStep ==
  ASSUME IInv, NEW t \in Tasks, last_error(t) PROVE IInv'
<1>1. Typed /\ calls[t] \in CallType /\ Len(managers) \in Nat /\ calls[t].pc = "shown"
  BY DEF IInv, Typed, last_error, At
<1>2. PICK m : m = calls[t].manager
  OBVIOUS
<1>3. m \in DOMAIN managers /\ m \in 0 .. Len(managers) /\ m # 0
  BY <1>1, <1>2, ManagerIsThere DEF IInv, Placing, ManagersExist
<1>4. PICK call : calls' = [calls EXCEPT ![t] = call] /\ call = [calls[t] EXCEPT !.pc = "subscribed"]
  BY DEF last_error, goes
<1>5. call \in CallType /\ call.pc = "subscribed" /\ call.manager = m
  BY <1>1, <1>2, <1>4 DEF CallType, Placing
<1>6. /\ calls' \in [Tasks -> CallType] /\ calls'[t] = call
      /\ \A u \in Tasks : u # t => calls'[u] = calls[u]
  BY <1>1, <1>4, <1>5, TaskTypes
<1>7. /\ seen' \in [Tasks -> SUBSET Int] /\ seen[t] \subseteq seen'[t]
      /\ \A u \in Tasks : u # t => seen'[u] = seen[u]
  BY <1>1 DEF last_error, Typed, Error
<1>8. UNCHANGED <<override, connecting, transport, cached, managers, fetches, version, now, results>>
  BY DEF last_error
<1>9. Typed'
  BY <1>1, <1>6, <1>7, <1>8 DEF Typed
<1>10. (Subscribed(t) /\ Told(t) /\ CacheReaches(t))'
  <2>1. Subscribed(t) /\ Told(t) /\ CacheReaches(t)
    BY DEF IInv
  <2>2. Subscribed(t)'
    BY <1>1, <1>2, <1>5, <1>6, <1>8, <2>1 DEF Subscribed, Manager
  <2>3. Told(t)'
    BY <1>1, <1>2, <1>5, <1>6, <1>7, <1>8, <2>1 DEF Told, WillTell
  <2>4. CacheReaches(t)'
    BY <1>1, <1>2, <1>5, <1>6, <1>7, <1>8, <2>1 DEF CacheReaches, Manager, WillTellOf, WillTell
  <2> QED BY <2>2, <2>3, <2>4
<1> QED BY <1>1, <1>3, <1>5, <1>6, <1>7, <1>8, <1>9, <1>10, TaskStep

LEMMA ExecuteStep ==
  ASSUME IInv, NEW t \in Tasks, Execute(t) PROVE IInv'
<1>1. Typed /\ calls[t] \in CallType /\ Len(managers) \in Nat /\ calls[t].pc = "track"
  BY DEF IInv, Typed, Execute, At
<1>2. calls[t].manager \in 1 .. Len(managers) /\ calls[t].manager \in Nat
  <2>1. DOMAIN managers = 1 .. Len(managers)
    BY <1>1 DEF Typed
  <2> QED BY <1>1, <2>1, ManagerIsThere DEF IInv, Placing
<1>3. /\ calls' = [calls EXCEPT ![t] = Idle] /\ fetches' = Append(fetches, fetch(calls[t].manager, FALSE))
      /\ UNCHANGED <<override, connecting, transport, cached, managers, version, now, results, seen>>
  BY DEF Execute, goes
<1>4. /\ fetches' \in Seq(FetchType)
      /\ \A i \in DOMAIN fetches : i \in DOMAIN fetches' /\ fetches'[i] = fetches[i]
      /\ \A i \in DOMAIN fetches' : i \in DOMAIN fetches \/ fetches'[i].manager = calls[t].manager
  BY <1>1, <1>2, <1>3, NewFetch
<1>5. Idle \in CallType /\ Idle.pc = "idle" /\ Idle.manager = 0 /\ 0 \in 0 .. Len(managers)
  BY <1>1, NoCacheIsACache DEF Idle
<1>6. /\ calls' \in [Tasks -> CallType] /\ calls'[t] = Idle
      /\ \A u \in Tasks : u # t => calls'[u] = calls[u]
  BY <1>1, <1>3, <1>5, TaskTypes
<1>7. Typed'
  BY <1>1, <1>3, <1>4, <1>6 DEF Typed
<1>8. (Subscribed(t) /\ Told(t) /\ CacheReaches(t))' /\ calls'[t].pc \notin Placing
  BY <1>5, <1>6 DEF Subscribed, Told, CacheReaches, Placing
<1>9. calls'[t].manager \in 0 .. Len(managers') /\ Len(managers') >= Len(managers)
  BY <1>1, <1>3, <1>5, <1>6
<1>10. \A i \in DOMAIN fetches' : i \in DOMAIN fetches \/ fetches'[i].manager \in 1 .. Len(managers')
  BY <1>2, <1>3, <1>4
<1>11. UNCHANGED <<managers, seen>>
  BY <1>3
<1> QED BY <1>4, <1>6, <1>7, <1>8, <1>9, <1>10, <1>11, TaskStep

LEMMA ExecuteQueryStep ==
  ASSUME IInv, NEW m \in DOMAIN managers, execute_query(m) PROVE IInv'
<1>1. Typed /\ ManagersExist /\ m \in 1 .. Len(managers) /\ m \in Nat
  BY DEF IInv, Typed
<1>2. /\ fetches' = Append(fetches, fetch(m, FALSE))
      /\ UNCHANGED <<override, connecting, transport, cached, managers, calls, version, now, results, seen>>
  BY DEF execute_query
<1>3. /\ fetches' \in Seq(FetchType)
      /\ \A i \in DOMAIN fetches : i \in DOMAIN fetches' /\ fetches'[i] = fetches[i]
      /\ \A i \in DOMAIN fetches' : i \in DOMAIN fetches \/ fetches'[i].manager = m
  BY <1>1, <1>2, NewFetch
<1>4. Typed'
  BY <1>1, <1>2, <1>3 DEF Typed
<1>5. ManagersExist'
  BY <1>1, <1>2, <1>3 DEF ManagersExist
<1>6. ASSUME NEW u \in Tasks PROVE (Subscribed(u) /\ Told(u) /\ CacheReaches(u))'
  BY <1>2, <1>3, <1>5, TaskUntouched
<1> QED BY <1>4, <1>5, <1>6 DEF IInv

-----------------------------------------------------------------------------
\* A step of fetch i that leaves what is cached: whom it was going to tell, and of what,
\* it still will, or has told.
LEMMA FetchStep ==
  ASSUME IInv, Typed', NEW i \in DOMAIN fetches, NEW f \in FetchType, fetches' = Put(fetches, i, f),
         f.manager = fetches[i].manager, f.spawned = fetches[i].spawned, UNCHANGED calls, Len(managers') = Len(managers),
         \A m \in DOMAIN managers : /\ managers'[m].subscribers = managers[m].subscribers
                                    /\ managers'[m].cache = managers[m].cache,
         \A u \in Tasks : seen[u] \subseteq seen'[u],
         \A u \in Tasks : u \in managers[fetches[i].manager].subscribers /\ WillTell(i, u) /\ fetches[i].spawned =>
           \/ f.pc \in {"answered", "timed", "cached", "cleared", "failed"} \/ (f.pc = "telling" /\ u \in f.told)
           \/ seen'[u] # {},
         \A u \in Tasks :
           u \in managers[fetches[i].manager].subscribers /\ WillTell(i, u) /\ fetches[i].pc \in {"cached", "cleared", "telling"} =>
           \/ /\ f.pc = "cleared" \/ (f.pc = "telling" /\ u \in f.told)
              /\ f.version = fetches[i].version
           \/ fetches[i].version \in seen'[u]
  PROVE  IInv'
<1>1. Typed /\ ManagersExist /\ fetches \in Seq(FetchType)
  BY DEF IInv, Typed
<1>2. /\ DOMAIN fetches' = DOMAIN fetches /\ fetches'[i] = f
      /\ \A j \in DOMAIN fetches : j # i => fetches'[j] = fetches[j]
  BY <1>1, PutProperties
<1>3. ManagersExist'
  BY <1>1, <1>2 DEF ManagersExist
<1>4. ASSUME NEW u \in Tasks, calls[u].pc \in {"snapshot", "tell", "shown", "subscribed"}
      PROVE  u \in managers[calls[u].manager].subscribers /\ calls[u].manager \in DOMAIN managers
  BY <1>1, <1>4, ManagerIsThere DEF IInv, Subscribed, Manager, Placing
<1>5. ASSUME NEW u \in Tasks PROVE Subscribed(u)'
  BY <1>4 DEF Subscribed, Manager
<1>6. ASSUME NEW u \in Tasks PROVE Told(u)'
  <2> SUFFICES ASSUME calls[u].pc \in {"shown", "subscribed"}
               PROVE  seen'[u] # {} \/ \E j \in DOMAIN fetches' : fetches'[j].spawned /\ WillTell(j, u)'
    BY DEF Told
  <2>1. seen[u] # {} \/ \E j \in DOMAIN fetches : fetches[j].spawned /\ WillTell(j, u)
    BY DEF IInv, Told
  <2>2. CASE seen[u] # {}
    BY <2>2
  <2>3. ASSUME NEW j \in DOMAIN fetches, fetches[j].spawned, WillTell(j, u)
        PROVE  seen'[u] # {} \/ \E k \in DOMAIN fetches' : fetches'[k].spawned /\ WillTell(k, u)'
    <3>1. CASE j = i
      BY <1>2, <1>4, <2>3, <3>1 DEF WillTell
    <3>2. CASE j # i
      BY <1>2, <2>3, <3>2 DEF WillTell
    <3> QED BY <3>1, <3>2
  <2> QED BY <2>1, <2>2, <2>3
<1>7. ASSUME NEW u \in Tasks PROVE CacheReaches(u)'
  <2>0. PICK v : v = managers[calls[u].manager].cache.version
    OBVIOUS
  <2> SUFFICES ASSUME calls[u].pc \in {"tell", "shown", "subscribed"}, managers[calls[u].manager].cache.fetched
               PROVE  \/ v \in seen'[u]
                      \/ calls[u].pc = "tell" /\ calls[u].snapshot = managers[calls[u].manager].cache
                      \/ \E j \in DOMAIN fetches' : WillTellOf(j, u, v)'
    BY <1>4, <2>0 DEF CacheReaches, Manager
  <2>1. \/ v \in seen[u]
        \/ calls[u].pc = "tell" /\ calls[u].snapshot = managers[calls[u].manager].cache
        \/ \E j \in DOMAIN fetches : WillTellOf(j, u, v)
    BY <2>0 DEF IInv, CacheReaches, Manager
  <2>2. ASSUME NEW j \in DOMAIN fetches, WillTellOf(j, u, v)
        PROVE  v \in seen'[u] \/ \E k \in DOMAIN fetches' : WillTellOf(k, u, v)'
    <3>1. CASE j = i
      <4>1. WillTell(i, u) /\ fetches[i].pc \in {"cached", "cleared", "telling"} /\ fetches[i].version = v
        BY <2>2, <3>1 DEF WillTellOf
      <4>2. fetches[i].manager = calls[u].manager
        BY <4>1 DEF WillTell
      <4>3. ((f.pc = "cleared" \/ (f.pc = "telling" /\ u \in f.told)) /\ f.version = v) \/ v \in seen'[u]
        BY <1>4, <4>1, <4>2
      <4>4. CASE (f.pc = "cleared" \/ (f.pc = "telling" /\ u \in f.told)) /\ f.version = v
        <5>1. WillTellOf(i, u, v)'
          BY <1>2, <4>2, <4>4 DEF WillTellOf, WillTell
        <5> QED BY <1>2, <5>1
      <4> QED BY <4>3, <4>4
    <3>2. CASE j # i
      BY <1>2, <2>2, <3>2 DEF WillTellOf, WillTell
    <3> QED BY <3>1, <3>2
  <2> QED BY <2>1, <2>2
<1> QED BY <1>3, <1>5, <1>6, <1>7 DEF IInv

\* What replaces the fetch is one.
LEMMA FetchTypes ==
  ASSUME Typed, NEW i \in DOMAIN fetches, NEW f \in FetchType, fetches' = Put(fetches, i, f)
  PROVE  fetches' \in Seq(FetchType)
  BY PutProperties DEF Typed

\* A fetch that is abandoned was nobody's but its caller's.
LEMMA AbandonStep ==
  ASSUME IInv, NEW i \in DOMAIN fetches, Abandon(i) PROVE IInv'
<1>1. Typed /\ fetches[i] \in FetchType /\ fetches[i].pc = "sent" /\ ~fetches[i].spawned
  BY DEF IInv, Typed, Abandon, FetchAt
<1>2. PICK f : f = Done(i)
  OBVIOUS
<1>3. f \in FetchType /\ f.manager = fetches[i].manager /\ f.spawned = fetches[i].spawned /\ f.pc = "done"
  BY <1>1, <1>2 DEF Done, fetch, FetchType
<1>4. fetches' = Put(fetches, i, f) /\ UNCHANGED <<override, connecting, transport, cached, managers, calls, version, now, results, seen>>
  BY <1>2 DEF Abandon, fetchGoes, Put
<1>5. Typed'
  BY <1>1, <1>3, <1>4, FetchTypes DEF Typed
<1> QED BY <1>1, <1>3, <1>4, <1>5, FetchStep

LEMMA AnswerStep ==
  ASSUME IInv, NEW i \in DOMAIN fetches, ReadTime(i) \/ \E ok \in BOOLEAN : perform_request(i, ok) PROVE IInv'
<1>1. Typed /\ fetches[i] \in FetchType /\ version \in Int /\ now \in Int /\ Error \in Int
  BY DEF IInv, Typed, Error
<1>2. PICK f : /\ fetches' = [fetches EXCEPT ![i] = f]
               /\ f \in FetchType /\ f.manager = fetches[i].manager /\ f.spawned = fetches[i].spawned
               /\ f.pc \in {"answered", "timed", "failed"}
  <2>2. CASE ReadTime(i)
    <3>1. [fetches[i] EXCEPT !.pc = "timed", !.time = now + 1]
            = [fetches[i] EXCEPT !.version = fetches[i].version, !.time = now + 1, !.pc = "timed"]
      BY <1>1 DEF FetchType
    <3>2. fetches[i].version \in Int /\ now + 1 \in Int
      BY <1>1 DEF FetchType
    <3>3. PICK g : g = [fetches[i] EXCEPT !.version = fetches[i].version, !.time = now + 1, !.pc = "timed"]
      OBVIOUS
    <3>4. g \in FetchType /\ g.manager = fetches[i].manager /\ g.spawned = fetches[i].spawned /\ g.pc = "timed"
      BY <1>1, <3>2, <3>3 DEF FetchType
    <3>5. fetches' = [fetches EXCEPT ![i] = g]
      BY <2>2, <3>1, <3>3 DEF ReadTime, fetchGoes
    <3> QED BY <3>4, <3>5
  <2>3. ASSUME NEW ok \in BOOLEAN, perform_request(i, ok)
        PROVE \E g : /\ fetches' = [fetches EXCEPT ![i] = g]
                     /\ g \in FetchType /\ g.manager = fetches[i].manager /\ g.spawned = fetches[i].spawned
                     /\ g.pc \in {"answered", "timed", "failed"}
    <3>1. PICK v \in Int, pc \in {"answered", "timed", "failed"} : fetches' = [fetches EXCEPT ![i] = [fetches[i] EXCEPT !.version = v, !.pc = pc]]
      BY <1>1, <2>3 DEF perform_request, fetchGoes
    <3>2. [fetches[i] EXCEPT !.version = v, !.pc = pc] = [fetches[i] EXCEPT !.version = v, !.time = fetches[i].time, !.pc = pc]
      BY <1>1 DEF FetchType
    <3>3. fetches[i].time \in Int
      BY <1>1 DEF FetchType
    <3>4. PICK g : g = [fetches[i] EXCEPT !.version = v, !.time = fetches[i].time, !.pc = pc]
      OBVIOUS
    <3>5. g \in FetchType /\ g.manager = fetches[i].manager /\ g.spawned = fetches[i].spawned /\ g.pc = pc
      BY <1>1, <3>3, <3>4 DEF FetchType
    <3>6. fetches' = [fetches EXCEPT ![i] = g]
      BY <3>1, <3>2, <3>4
    <3> QED BY <3>5, <3>6
  <2> QED BY <2>2, <2>3
<1>3. fetches[i].pc \in {"sent", "answered"} /\ now' \in Int
  <2>1. CASE ReadTime(i)
    BY <1>1, <2>1 DEF ReadTime, FetchAt
  <2>2. CASE \E ok \in BOOLEAN : perform_request(i, ok)
    BY <1>1, <2>2 DEF perform_request, FetchAt
  <2> QED BY <2>1, <2>2
<1>4. fetches' = Put(fetches, i, f) /\ UNCHANGED <<override, connecting, transport, cached, managers, calls, version, results, seen>>
  BY <1>2 DEF ReadTime, perform_request, Put
<1>5. Typed'
  BY <1>1, <1>2, <1>3, <1>4, FetchTypes DEF Typed
<1> QED BY <1>1, <1>2, <1>3, <1>4, <1>5, FetchStep

\* The manager of a fetch, with its subscribers and cache kept, and any error.
LEMMA ErrorTypes ==
  ASSUME Typed, ManagersExist, NEW i \in DOMAIN fetches, NEW e \in BOOLEAN,
         managers' = [managers EXCEPT ![fetches[i].manager].error = e]
  PROVE  /\ managers' \in Seq(TrackedType) /\ Len(managers') = Len(managers)
         /\ managers[fetches[i].manager].subscribers \in SUBSET Tasks
         /\ \A m \in DOMAIN managers : /\ managers'[m].subscribers = managers[m].subscribers
                                       /\ managers'[m].cache = managers[m].cache
<1>1. PICK m : m = fetches[i].manager
  OBVIOUS
<1>2. m \in DOMAIN managers /\ managers \in Seq(TrackedType)
  BY <1>1 DEF Typed, ManagersExist
<1>3. managers[m] \in TrackedType
  BY <1>2
<1>4. PICK x : x = [managers[m] EXCEPT !.error = e]
  OBVIOUS
<1>5. x \in TrackedType /\ x.subscribers = managers[m].subscribers /\ x.cache = managers[m].cache /\ x.subscribers \in SUBSET Tasks
  BY <1>3, <1>4 DEF TrackedType
<1>6. managers' = Put(managers, m, x)
  BY <1>1, <1>4 DEF Put
<1>7. /\ managers' \in Seq(TrackedType) /\ Len(managers') = Len(managers) /\ managers'[m] = x
      /\ \A j \in DOMAIN managers : j # m => managers'[j] = managers[j]
  <2>1. x \in TrackedType
    BY <1>5
  <2>2. /\ Put(managers, m, x) \in Seq(TrackedType) /\ Len(Put(managers, m, x)) = Len(managers)
        /\ Put(managers, m, x)[m] = x
        /\ \A j \in DOMAIN managers : j # m => Put(managers, m, x)[j] = managers[j]
    BY <1>2, <2>1, PutProperties
  <2> QED BY <1>6, <2>2
<1> QED BY <1>1, <1>5, <1>7

LEMMA ErrorStep ==
  ASSUME IInv, NEW i \in DOMAIN fetches, clear_error(i) \/ record_error(i) PROVE IInv'
<1>1. Typed /\ ManagersExist /\ fetches[i] \in FetchType
  BY DEF IInv, Typed
<1>2. PICK e \in BOOLEAN : managers' = [managers EXCEPT ![fetches[i].manager].error = e]
  BY DEF clear_error, record_error
<1>3. /\ managers' \in Seq(TrackedType) /\ Len(managers') = Len(managers)
      /\ managers[fetches[i].manager].subscribers \in SUBSET Tasks
      /\ \A m \in DOMAIN managers : /\ managers'[m].subscribers = managers[m].subscribers
                                    /\ managers'[m].cache = managers[m].cache
  BY <1>1, <1>2, ErrorTypes
<1>4. PICK f : /\ fetches' = [fetches EXCEPT ![i] = f]
               /\ f \in FetchType /\ f.manager = fetches[i].manager /\ f.spawned = fetches[i].spawned
               /\ f.version = fetches[i].version
               /\ \/ fetches[i].pc = "cached" /\ f.pc = "cleared"
                  \/ /\ fetches[i].pc = "failed" /\ f.pc = "telling"
                     /\ f.told = managers[fetches[i].manager].subscribers
  <2>1. CASE clear_error(i)
    <3>1. PICK f : f = [fetches[i] EXCEPT !.pc = "cleared"]
      OBVIOUS
    <3>2. f \in FetchType /\ f.manager = fetches[i].manager /\ f.spawned = fetches[i].spawned /\ f.version = fetches[i].version /\ f.pc = "cleared"
      BY <1>1, <3>1 DEF FetchType
    <3> QED BY <2>1, <3>1, <3>2 DEF clear_error, fetchGoes, FetchAt
  <2>2. CASE record_error(i)
    <3>1. PICK f : f = [fetches[i] EXCEPT !.pc = "telling", !.told = managers[fetches[i].manager].subscribers]
      OBVIOUS
    <3>2. /\ f \in FetchType /\ f.manager = fetches[i].manager /\ f.spawned = fetches[i].spawned /\ f.version = fetches[i].version
          /\ f.pc = "telling" /\ f.told = managers[fetches[i].manager].subscribers
      BY <1>1, <1>3, <3>1 DEF FetchType
    <3> QED BY <2>2, <3>1, <3>2 DEF record_error, fetchGoes, FetchAt
  <2> QED BY <2>1, <2>2
<1>5. fetches' = Put(fetches, i, f) /\ UNCHANGED <<override, connecting, transport, cached, calls, version, now, results, seen>>
  BY <1>4 DEF clear_error, record_error, Put
<1>6. fetches' \in Seq(FetchType)
  BY <1>1, <1>4, <1>5, FetchTypes
<1>7. Typed'
  BY <1>1, <1>3, <1>5, <1>6 DEF Typed
<1> QED BY <1>3, <1>4, <1>5, <1>7, FetchStep

LEMMA NotifyStep ==
  ASSUME IInv, NEW i \in DOMAIN fetches, notify_success(i) PROVE IInv'
<1>1. Typed /\ ManagersExist /\ fetches[i] \in FetchType /\ fetches[i].pc = "cleared"
  BY DEF IInv, Typed, notify_success, FetchAt
<1>2. managers[fetches[i].manager] \in TrackedType
  BY <1>1 DEF Typed, ManagersExist
<1>3. PICK f : f = [fetches[i] EXCEPT !.pc = "telling", !.told = managers[fetches[i].manager].subscribers]
  OBVIOUS
<1>4. /\ f \in FetchType /\ f.manager = fetches[i].manager /\ f.spawned = fetches[i].spawned /\ f.pc = "telling"
      /\ f.version = fetches[i].version /\ f.told = managers[fetches[i].manager].subscribers
  BY <1>1, <1>2, <1>3 DEF FetchType, TrackedType
<1>5. fetches' = Put(fetches, i, f) /\ UNCHANGED <<override, connecting, transport, cached, managers, calls, version, now, results, seen>>
  BY <1>3 DEF notify_success, fetchGoes, Put
<1>6. fetches' \in Seq(FetchType)
  BY <1>1, <1>4, <1>5, FetchTypes
<1>7. Typed'
  BY <1>1, <1>5, <1>6 DEF Typed
<1> QED BY <1>4, <1>5, <1>7, FetchStep

LEMMA CallbackStep ==
  ASSUME IInv, NEW i \in DOMAIN fetches, NEW t \in Tasks, Callback(i, t) PROVE IInv'
<1>1. Typed /\ fetches[i] \in FetchType /\ fetches[i].pc = "telling"
  BY DEF IInv, Typed, Callback, FetchAt
<1>2. PICK f : f = [fetches[i] EXCEPT !.told = @ \ {t}]
  OBVIOUS
<1>3. /\ f \in FetchType /\ f.manager = fetches[i].manager /\ f.spawned = fetches[i].spawned /\ f.pc = "telling"
      /\ f.version = fetches[i].version /\ f.told = fetches[i].told \ {t} /\ fetches[i].version \in Int
  BY <1>1, <1>2 DEF FetchType
<1>4. fetches' = Put(fetches, i, f) /\ UNCHANGED <<override, connecting, transport, cached, managers, calls, version, now, results>>
  BY <1>2 DEF Callback, fetchGoes, Put
<1>5. seen' = [seen EXCEPT ![t] = @ \cup {fetches[i].version}]
  BY DEF Callback
<1>6. /\ seen' \in [Tasks -> SUBSET Int] /\ \A u \in Tasks : seen[u] \subseteq seen'[u]
      /\ fetches[i].version \in seen'[t]
  BY <1>1, <1>3, <1>5 DEF Typed
<1>7. fetches' \in Seq(FetchType)
  BY <1>1, <1>3, <1>4, FetchTypes
<1>8. Typed'
  BY <1>1, <1>4, <1>6, <1>7 DEF Typed
<1>9. \A u \in Tasks : WillTell(i, u) => u \in fetches[i].told
  BY <1>1 DEF WillTell
<1>10. \A u \in Tasks : WillTell(i, u) => u \in f.told \/ fetches[i].version \in seen'[u]
  BY <1>3, <1>6, <1>9
<1> QED BY <1>3, <1>4, <1>6, <1>8, <1>10, FetchStep

LEMMA ReturnStep ==
  ASSUME IInv, NEW i \in DOMAIN fetches, Return(i) PROVE IInv'
<1>1. Typed /\ fetches[i] \in FetchType /\ fetches[i].pc = "telling" /\ fetches[i].told = {}
  BY DEF IInv, Typed, Return, FetchAt
<1>2. PICK f : f = Done(i)
  OBVIOUS
<1>3. f \in FetchType /\ f.manager = fetches[i].manager /\ f.spawned = fetches[i].spawned
  BY <1>1, <1>2 DEF Done, fetch, FetchType
<1>4. fetches' = Put(fetches, i, f) /\ UNCHANGED <<override, connecting, transport, cached, managers, calls, version, now, seen>>
  BY <1>2 DEF Return, fetchGoes, Put
<1>5. Result(i) \in Caches
  BY <1>1 DEF Result, FetchType, Caches
<1>6. results' \subseteq Caches
  BY <1>1, <1>5 DEF Return, Typed
<1>7. fetches' \in Seq(FetchType)
  BY <1>1, <1>3, <1>4, FetchTypes
<1>8. Typed'
  BY <1>1, <1>4, <1>6, <1>7 DEF Typed
<1>9. \A u \in Tasks : ~WillTell(i, u)
  BY <1>1 DEF WillTell
<1> QED BY <1>3, <1>4, <1>8, <1>9, FetchStep

\* The result that is cached is the one its fetch, and no other, will notify of.
LEMMA SetCacheStep ==
  ASSUME IInv, NEW i \in DOMAIN fetches, set_cache(i) PROVE IInv'
<1>1. Typed /\ ManagersExist /\ fetches[i] \in FetchType /\ fetches[i].pc = "timed"
  BY DEF IInv, Typed, set_cache, FetchAt
<1>2. PICK m : m = fetches[i].manager
  OBVIOUS
<1>3. m \in DOMAIN managers /\ managers[m] \in TrackedType
  BY <1>1, <1>2 DEF Typed, ManagersExist
<1>4. PICK cache : cache = Result(i)
  OBVIOUS
<1>5. cache \in Caches /\ cache.version = fetches[i].version
  <2>1. fetches[i].version \in Int /\ fetches[i].time \in Int
    BY <1>1 DEF FetchType
  <2> QED BY <1>4, <2>1 DEF Caches, Result
<1>6. PICK x : x = [managers[m] EXCEPT !.cache = cache]
  OBVIOUS
<1>7. x \in TrackedType /\ x.subscribers = managers[m].subscribers /\ x.cache = cache
  BY <1>3, <1>5, <1>6 DEF TrackedType
<1>8. PICK f : f = [fetches[i] EXCEPT !.pc = "cached"]
  OBVIOUS
<1>9. f \in FetchType /\ f.manager = m /\ f.spawned = fetches[i].spawned /\ f.pc = "cached" /\ f.version = fetches[i].version
  BY <1>1, <1>2, <1>8 DEF FetchType
<1>10. /\ managers' = Put(managers, m, x) /\ fetches' = Put(fetches, i, f)
       /\ UNCHANGED <<override, connecting, transport, cached, calls, version, now, results, seen>>
  BY <1>2, <1>4, <1>6, <1>8 DEF set_cache, fetchGoes, Put
<1>11. /\ managers' \in Seq(TrackedType) /\ Len(managers') = Len(managers) /\ managers'[m] = x
       /\ \A j \in DOMAIN managers : j # m => managers'[j] = managers[j]
  <2>1. managers \in Seq(TrackedType) /\ x \in TrackedType
    BY <1>1, <1>7 DEF Typed
  <2>2. /\ Put(managers, m, x) \in Seq(TrackedType) /\ Len(Put(managers, m, x)) = Len(managers)
        /\ Put(managers, m, x)[m] = x
        /\ \A j \in DOMAIN managers : j # m => Put(managers, m, x)[j] = managers[j]
    BY <1>3, <2>1, PutProperties
  <2> QED BY <1>10, <2>2
<1>12. /\ fetches' \in Seq(FetchType) /\ DOMAIN fetches' = DOMAIN fetches /\ fetches'[i] = f
       /\ \A j \in DOMAIN fetches : j # i => fetches'[j] = fetches[j]
  <2>1. fetches \in Seq(FetchType) /\ f \in FetchType
    BY <1>1, <1>9 DEF Typed
  <2> QED BY <1>10, <2>1, PutProperties
<1>13. Typed'
  BY <1>1, <1>5, <1>10, <1>11, <1>12 DEF Typed
<1>14. ManagersExist'
  BY <1>1, <1>2, <1>9, <1>10, <1>11, <1>12 DEF ManagersExist
<1>15. ASSUME NEW u \in Tasks PROVE Subscribed(u)'
  <2>1. calls[u].pc \in {"snapshot", "tell", "shown", "subscribed"} =>
          calls[u].manager \in DOMAIN managers /\ u \in managers[calls[u].manager].subscribers
    BY <1>1, ManagerIsThere DEF IInv, Subscribed, Manager, Placing
  <2> QED BY <1>7, <1>10, <1>11, <2>1 DEF Subscribed, Manager
<1>16. ASSUME NEW u \in Tasks PROVE Told(u)'
  <2>1. \A j \in DOMAIN fetches : fetches[j].spawned /\ WillTell(j, u) => fetches'[j].spawned /\ WillTell(j, u)'
    BY <1>2, <1>9, <1>10, <1>12 DEF WillTell
  <2> QED BY <1>10, <1>12, <2>1 DEF IInv, Told
<1>17. ASSUME NEW u \in Tasks PROVE CacheReaches(u)'
  <2> SUFFICES ASSUME calls[u].pc \in {"tell", "shown", "subscribed"}, managers'[calls[u].manager].cache.fetched
               PROVE  \/ managers'[calls[u].manager].cache.version \in seen[u]
                      \/ calls[u].pc = "tell" /\ calls[u].snapshot = managers'[calls[u].manager].cache
                      \/ \E j \in DOMAIN fetches' : /\ fetches'[j].manager = calls[u].manager
                                                    /\ \/ fetches'[j].pc \in {"cached", "cleared"}
                                                       \/ fetches'[j].pc = "telling" /\ u \in fetches'[j].told
                                                    /\ fetches'[j].version = managers'[calls[u].manager].cache.version
    BY <1>10 DEF CacheReaches, Manager, WillTellOf, WillTell
  <2>1. calls[u].manager \in DOMAIN managers
    BY <1>1, ManagerIsThere DEF Placing
  <2>2. CASE calls[u].manager = m
    BY <1>5, <1>7, <1>9, <1>11, <1>12, <2>2
  <2>3. CASE calls[u].manager # m
    <3>1. managers'[calls[u].manager] = managers[calls[u].manager]
      BY <1>11, <2>1, <2>3
    <3>2. \/ managers[calls[u].manager].cache.version \in seen[u]
          \/ calls[u].pc = "tell" /\ calls[u].snapshot = managers[calls[u].manager].cache
          \/ \E j \in DOMAIN fetches : WillTellOf(j, u, managers[calls[u].manager].cache.version)
      BY <3>1 DEF IInv, CacheReaches, Manager
    <3>3. ASSUME NEW j \in DOMAIN fetches, WillTellOf(j, u, managers[calls[u].manager].cache.version)
          PROVE  /\ j \in DOMAIN fetches' /\ fetches'[j].manager = calls[u].manager
                 /\ fetches'[j].pc \in {"cached", "cleared"} \/ (fetches'[j].pc = "telling" /\ u \in fetches'[j].told)
                 /\ fetches'[j].version = managers'[calls[u].manager].cache.version
      <4>1. j # i
        BY <1>1, <3>3 DEF WillTellOf
      <4> QED BY <1>12, <3>1, <3>3, <4>1 DEF WillTellOf, WillTell
    <3> QED BY <3>1, <3>2, <3>3
  <2> QED BY <2>2, <2>3
<1> QED BY <1>13, <1>14, <1>15, <1>16, <1>17 DEF IInv

-----------------------------------------------------------------------------
\* Every step of the query manager keeps what a subscriber may rely on (query.rs,
\* QueryManager): its manager knows it, and what that caches reaches it.
THEOREM SubscribersAreKept == Spec => []IInv
<1>1. Init => IInv
  <2> SUFFICES ASSUME Init PROVE IInv
    OBVIOUS
  <2>1. Typed
    <3>1. managers = <<>> /\ fetches = <<>> /\ calls = [t \in Tasks |-> Idle] /\ Idle \in CallType
      BY NoCacheIsACache DEF Init
    <3>2. managers \in Seq(TrackedType) /\ fetches \in Seq(FetchType) /\ Len(managers) = 0
      BY <3>1
    <3>3. calls \in [Tasks -> CallType]
      BY <3>1
    <3>4. transport \in [state : {"none", "building", "ready"}, emulator : BOOLEAN] /\ seen \in [Tasks -> SUBSET Int]
      BY DEF Init
    <3>5. override \in BOOLEAN /\ connecting \in BOOLEAN
      BY DEF Init
    <3>6. cached = 0 /\ version = 0 /\ now = 0 /\ results = {}
      BY DEF Init
    <3>7. cached \in 0 .. Len(managers) /\ version \in Int /\ now \in Int /\ results \subseteq Caches
      BY <3>2, <3>6
    <3> QED BY <3>2, <3>3, <3>4, <3>5, <3>7 DEF Typed
  <2>2. ManagersExist
    BY DEF Init, ManagersExist, Idle, Placing
  <2>3. \A t \in Tasks : calls[t].pc = "idle"
    BY DEF Init, Idle
  <2> QED BY <2>1, <2>2, <2>3 DEF IInv, Subscribed, Told, CacheReaches
<1>2. IInv /\ [Next]_dcVars => IInv'
  <2> SUFFICES ASSUME IInv, [Next]_dcVars PROVE IInv'
    OBVIOUS
  <2>1. CASE connect_emulator \/ use_emulator \/ release_query_manager \/ UNCHANGED dcVars
    BY <2>1, PlainActions
  <2>2. ASSUME NEW t \in Tasks, NEW op \in {"execute", "runtime", "mutate"}, Begin(t, op, NoCache) PROVE IInv'
    BY <2>2, BeginStep, NoCacheIsACache DEF Ops
  <2>3. ASSUME NEW t \in Tasks, NEW initial \in Serialized, Begin(t, "subscribe", initial) PROVE IInv'
    BY <2>3, BeginStep, SerializedAreOffered DEF Ops, IInv
  <2>4. ASSUME NEW t \in Tasks, NEW initial \in Serialized, NEW m \in DOMAIN managers, SubscribeThrough(t, m, initial)
        PROVE  IInv'
    BY <2>4, SubscribeThroughStep, SerializedAreOffered DEF IInv
  <2>5. ASSUME NEW t \in Tasks, BuildTransport(t) \/ PublishTransport(t) PROVE IInv'
    BY <2>5, TransportStep
  <2>6. ASSUME NEW t \in Tasks, DataConnectQueryRuntime(t) \/ \E taken \in BOOLEAN : execute_mutation(t, taken) PROVE IInv'
    BY <2>6, PlainEnd
  <2>7. ASSUME NEW t \in Tasks, InsertManager(t) PROVE IInv'
    BY <2>7, InsertManagerStep
  <2>8. ASSUME NEW t \in Tasks, track(t) PROVE IInv'
    BY <2>8, TrackStep
  <2>9. ASSUME NEW t \in Tasks, AddSubscriber(t) PROVE IInv'
    BY <2>9, AddSubscriberStep
  <2>10. ASSUME NEW t \in Tasks, cache_snapshot(t) PROVE IInv'
    BY <2>10, CacheSnapshotStep
  <2>11. ASSUME NEW t \in Tasks, Show(t) PROVE IInv'
    BY <2>11, ShowStep
  <2>12. ASSUME NEW t \in Tasks, last_error(t) PROVE IInv'
    BY <2>12, LastErrorStep
  <2>13. ASSUME NEW t \in Tasks, remove_subscriber(t) PROVE IInv'
    BY <2>13, RemoveSubscriberStep
  <2>14. ASSUME NEW t \in Tasks, Execute(t) PROVE IInv'
    BY <2>14, ExecuteStep
  <2>15. ASSUME NEW m \in DOMAIN managers, execute_query(m) PROVE IInv'
    BY <2>15, ExecuteQueryStep
  <2>16. ASSUME NEW i \in DOMAIN fetches, Abandon(i) PROVE IInv'
    BY <2>16, AbandonStep
  <2>17. ASSUME NEW i \in DOMAIN fetches, ReadTime(i) \/ \E ok \in BOOLEAN : perform_request(i, ok) PROVE IInv'
    BY <2>17, AnswerStep
  <2>18. ASSUME NEW i \in DOMAIN fetches, set_cache(i) PROVE IInv'
    BY <2>18, SetCacheStep
  <2>19. ASSUME NEW i \in DOMAIN fetches, clear_error(i) \/ record_error(i) PROVE IInv'
    BY <2>19, ErrorStep
  <2>20. ASSUME NEW i \in DOMAIN fetches, notify_success(i) PROVE IInv'
    BY <2>20, NotifyStep
  <2>21. ASSUME NEW i \in DOMAIN fetches, NEW t \in Tasks, Callback(i, t) PROVE IInv'
    BY <2>21, CallbackStep
  <2>22. ASSUME NEW i \in DOMAIN fetches, Return(i) PROVE IInv'
    BY <2>22, ReturnStep
  <2> QED BY <2>1, <2>2, <2>3, <2>4, <2>5, <2>6, <2>7, <2>8, <2>9, <2>10, <2>11, <2>12, <2>13, <2>14,
            <2>15, <2>16, <2>17, <2>18, <2>19, <2>20, <2>21, <2>22 DEF Next
<1> QED BY <1>1, <1>2, PTL DEF Spec

\* However subscriptions and fetches interleave, once no fetch of its manager is under
\* way a subscriber was told something, and the fetched result its manager caches
\* (query.rs: added before the cache is read, cached before the subscribers are notified).
THEOREM CachedResultsReachSubscribers == Spec => []SubscribersSeeTheCache
<1>1. IInv => TypeOK
  <2> SUFFICES ASSUME IInv PROVE TypeOK
    OBVIOUS
  <2>1. Typed /\ ManagersExist
    BY DEF IInv
  <2>2. transport.state \in {"none", "building", "ready"} /\ cached \in 0 .. Len(managers)
    BY <2>1 DEF Typed
  <2>3. ASSUME NEW i \in DOMAIN managers PROVE managers[i].subscribers \subseteq Tasks
    <3>1. managers[i] \in TrackedType
      BY <2>1, <2>3 DEF Typed
    <3> QED BY <3>1 DEF TrackedType
  <2> QED BY <2>1, <2>2, <2>3 DEF TypeOK, ManagersExist
<1>2. IInv /\ TypeOK => SubscribersSeeTheCache
  <2> SUFFICES ASSUME IInv, TypeOK, NEW t \in Tasks, calls[t].pc = "subscribed",
                      \A i \in DOMAIN fetches : fetches[i].pc # "done" => fetches[i].manager # calls[t].manager
               PROVE  /\ seen[t] # {}
                      /\ Manager(t).cache.fetched => Manager(t).cache.version \in seen[t]
    BY DEF SubscribersSeeTheCache, At, Active
  <2>1. \A i \in DOMAIN fetches : ~WillTell(i, t)
    BY DEF WillTell
  <2>2. Told(t) /\ CacheReaches(t)
    BY DEF IInv
  <2> QED BY <2>1, <2>2 DEF Told, CacheReaches, WillTellOf
<1> QED BY <1>1, <1>2, SubscribersAreKept, PTL
-----------------------------------------------------------------------------
(***************************************************************************)
(* Writes and the in-memory store.  Staging touches only the task's own    *)
(* record; a commit that overlaps no other is the one thing that moves     *)
(* documents and versions.                                                 *)
(***************************************************************************)
WriteOps == {"set", "update", "delete", "verify"}
Preconditions == [kind : {"none", "exists", "updateTime"}, n : Int]
AllOptions == UNION {Writes!Options(data) : data \in Payloads}
Encoded ==
  {Writes!encode_set_data(key, data, options) : key \in Keys, data \in Payloads, options \in AllOptions}
  \cup {Writes!encode_update_document_data(key, data) : key \in Keys, data \in Payloads}
  \cup {Writes!Bare(op, key) : op \in {"delete", "verify"}, key \in Keys}
StagedWrites == {[w EXCEPT !.pre = precondition] : w \in Encoded, precondition \in Preconditions}
Stages == {"idle", "checking", "applying", "versioning"}
Commits == [pc : Stages, writes : Seq(StagedWrites), conditional : BOOLEAN, at : Nat, read : [Keys -> Int]]

WritesTyped ==
  /\ documents = [k \in Keys |-> documents[k]] /\ \A k \in Keys : documents[k].exists \in BOOLEAN
  /\ versions \in [next : Nat, of : [Keys -> Nat]]
  /\ tasks \in [Tasks -> Commits]
  /\ past.overlapped \in BOOLEAN /\ past.torn \in BOOLEAN
  /\ past = [staged |-> past.staged, overlapped |-> past.overlapped, torn |-> past.torn]

\* A transaction has read finitely many documents.
ReadsAreFinite == \A t \in Tasks : IsFiniteSet({k \in Keys : tasks[t].read[k] # -1})

\* A commit is at one of its writes.
AtAWrite ==
  \A t \in Tasks :
    /\ Writes!Busy(t) => tasks[t].at \in 1 .. Len(tasks[t].writes)
    /\ Writes!At(t, "idle") => tasks[t].at = 1
    /\ Writes!At(t, "versioning") => Writes!Current(t).op # "verify"

\* Without overlaps one commit runs at a time, a document is ahead of its version only
\* while that version is about to be set, and what was checked still holds.
CommitsAlone ==
  ~past.overlapped =>
    /\ \A t, u \in Tasks : Writes!Busy(t) /\ Writes!Busy(u) => t = u
    /\ Writes!VersionsTrackDocuments
    /\ \A t \in Tasks :
         /\ Writes!At(t, "versioning") => (documents[Writes!Current(t).key].exists <=> Writes!Current(t).op # "delete")
         /\ Writes!At(t, "checking") => \A i \in 1 .. tasks[t].at - 1 : Writes!check_precondition(tasks[t].writes[i])
         /\ Writes!At(t, "applying") /\ tasks[t].conditional /\ tasks[t].at = 1 =>
              \A i \in DOMAIN tasks[t].writes : Writes!check_precondition(tasks[t].writes[i])

WritesInv == WritesTyped /\ ReadsAreFinite /\ AtAWrite /\ CommitsAlone

\* A write that was staged is for a document.
LEMMA StagedHaveKeys ==
  ASSUME NEW w \in StagedWrites
  PROVE  w.key \in Keys /\ w.op \in WriteOps /\ w.pre \in Preconditions
<1>1. PICK v \in Encoded, p \in Preconditions : w = [v EXCEPT !.pre = p]
  BY DEF StagedWrites
<1>2. v.key \in Keys /\ v.op \in WriteOps /\ DOMAIN v = {"op", "key", "data", "all", "mask", "transforms", "pre"}
  <2>1. ASSUME NEW op, NEW key, NEW data, NEW all, NEW mask
        PROVE  LET e == Writes!Write(op, key, data, all, mask)
               IN e.key = key /\ e.op = op /\ DOMAIN e = {"op", "key", "data", "all", "mask", "transforms", "pre"}
    BY DEF Writes!Write
  <2>2. ASSUME NEW op, NEW key \in Keys
        PROVE  Writes!Bare(op, key).key = key /\ Writes!Bare(op, key).op = op
               /\ DOMAIN Writes!Bare(op, key) = {"op", "key", "data", "all", "mask", "transforms", "pre"}
    BY DEF Writes!Bare, Writes!Write
  <2>3. CASE \E key \in Keys, data \in Payloads, options \in AllOptions : v = Writes!encode_set_data(key, data, options)
    BY <2>1, <2>3 DEF Writes!encode_set_data, WriteOps
  <2>4. CASE \E key \in Keys, data \in Payloads : v = Writes!encode_update_document_data(key, data)
    <3>1. PICK key \in Keys, data \in Payloads : v = Writes!Write("update", key, data, FALSE, Writes!Plain(data) \cup Writes!Deleted(data))
      BY <2>4 DEF Writes!encode_update_document_data
    <3> QED BY <3>1 DEF Writes!Write, WriteOps
  <2>5. CASE \E op \in {"delete", "verify"}, key \in Keys : v = Writes!Bare(op, key)
    BY <2>2, <2>5 DEF WriteOps
  <2> QED BY <2>3, <2>4, <2>5 DEF Encoded
<1> QED BY <1>1, <1>2

LEMMA SetToSeqIsSeq ==
  ASSUME NEW S, IsFiniteSet(S)
  PROVE  SetToSeq(S) \in Seq(S) /\ (S = {} => SetToSeq(S) = <<>>)
<1>1. Cardinality(S) \in Nat /\ ExistsBijection(1 .. Cardinality(S), S)
  BY FS_CardinalityType
<1>2. \E f \in [1 .. Cardinality(S) -> S] : IsInjective(f)
  BY <1>1 DEF ExistsBijection, Bijection, Injection, IsInjective
<1>3. SetToSeq(S) \in [1 .. Cardinality(S) -> S]
  BY <1>2 DEF SetToSeq
<1>4. SetToSeq(S) \in Seq(S)
  BY <1>1, <1>3
<1>5. ASSUME S = {} PROVE SetToSeq(S) = <<>>
  BY <1>3, <1>5, FS_EmptySet
<1> QED BY <1>4, <1>5

\* What a commit sends is its writes and a verify entry for each document only read.
LEMMA FinishedAreStaged ==
  ASSUME WritesInv, NEW t \in Tasks
  PROVE  /\ Writes!finish(t) \in Seq(StagedWrites) /\ Len(Writes!finish(t)) \in Nat
         /\ Writes!finish(t) # <<>> => 1 \in DOMAIN Writes!finish(t) /\ 1 \in 1 .. Len(Writes!finish(t))
<1> DEFINE only == {k \in Keys : tasks[t].read[k] # -1 /\ ~Writes!written(t, k)}
           verify(k) == [Writes!Bare("verify", k) EXCEPT !.pre = Writes!precondition_for(t, k)]
           image == {verify(k) : k \in only}
<1>1. tasks[t] \in Commits
  BY DEF WritesInv, WritesTyped
<1>2. IsFiniteSet(only)
  <2>1. only \in SUBSET {k \in Keys : tasks[t].read[k] # -1}
    OBVIOUS
  <2> QED BY <2>1, FS_Subset DEF WritesInv, ReadsAreFinite
<1>3. IsFiniteSet(image)
  <2>1. [k \in only |-> verify(k)] \in Surjection(only, image)
    BY DEF Surjection
  <2> QED BY <2>1, <1>2, FS_Surjection
<1>4. image \subseteq StagedWrites
  <2> SUFFICES ASSUME NEW k \in only PROVE verify(k) \in StagedWrites
    OBVIOUS
  <2>1. Writes!precondition_for(t, k) \in Preconditions
    BY <1>1 DEF Writes!precondition_for, Preconditions, Writes!None, Writes!Exists, Writes!UpdateTime, Commits
  <2>2. Writes!Bare("verify", k) \in Encoded
    BY DEF Encoded
  <2> QED BY <2>1, <2>2 DEF StagedWrites
<1>5. SetToSeq(image) \in Seq(StagedWrites)
  BY <1>3, <1>4, SetToSeqIsSeq
<1>6. Writes!finish(t) \in Seq(StagedWrites)
  <2>1. Writes!SetToSeq(image) = SetToSeq(image)
    <3>1. Writes!Cardinality(image) = Cardinality(image)
      BY DEF Writes!Cardinality, Cardinality
    <3> QED BY <3>1 DEF Writes!SetToSeq, SetToSeq, Writes!IsInjective, IsInjective
  <2>2. Writes!SetToSeq(image) \in Seq(StagedWrites)
    BY <1>5, <2>1
  <2> QED BY <1>1, <2>2 DEF Writes!finish, Commits
<1> QED BY <1>6

LEMMA WritesInitially == ASSUME Writes!Init PROVE WritesInv
<1>1. Writes!Idle \in Commits
  BY DEF Writes!Idle, Commits, Stages
<1>2. WritesTyped
  BY <1>1 DEF Writes!Init, WritesTyped, Writes!NoDocument
<1>3. ReadsAreFinite
  <2>1. ASSUME NEW t \in Tasks PROVE {k \in Keys : tasks[t].read[k] # -1} = {}
    BY DEF Writes!Init, Writes!Idle
  <2> QED BY <2>1, FS_EmptySet DEF ReadsAreFinite
<1>4. AtAWrite /\ CommitsAlone
  BY DEF Writes!Init, AtAWrite, CommitsAlone, Writes!Idle, Writes!Busy, Writes!At, Writes!VersionsTrackDocuments, Writes!NoDocument
<1> QED BY <1>2, <1>3, <1>4 DEF WritesInv

\* A task that is not committing changes its own record only.
LEMMA StagingKeeps ==
  ASSUME WritesInv, NEW t \in Tasks, NEW job \in Commits,
         Writes!At(t, "idle"), job.pc = "idle", job.at = 1, Writes!goes(t, job),
         IsFiniteSet({k \in Keys : job.read[k] # -1}),
         past' = [past EXCEPT !.staged = past'.staged], UNCHANGED <<documents, versions>>
  PROVE  WritesInv'
<1>1. tasks' \in [Tasks -> Commits] /\ tasks'[t] = job /\ \A u \in Tasks : u # t => tasks'[u] = tasks[u]
  BY DEF WritesInv, WritesTyped, Writes!goes
<1>2. past'.overlapped = past.overlapped /\ past'.torn = past.torn
  BY DEF WritesInv, WritesTyped
<1>3. WritesTyped'
  BY <1>1, <1>2 DEF WritesInv, WritesTyped
<1>4. ReadsAreFinite'
  BY <1>1 DEF WritesInv, ReadsAreFinite
<1>5. AtAWrite'
  BY <1>1 DEF WritesInv, AtAWrite, Writes!Busy, Writes!At, Writes!Current
<1>6. CommitsAlone'
  <2> SUFFICES ASSUME ~past.overlapped PROVE CommitsAlone'
    BY <1>2 DEF CommitsAlone
  <2>1. \A u \in Tasks : Writes!Busy(u)' => u # t /\ tasks'[u] = tasks[u] /\ Writes!Busy(u)
    BY <1>1 DEF Writes!Busy, Writes!At
  <2>2. \A u \in Tasks : Writes!Busy(u) => u # t
    BY DEF Writes!Busy
  <2>3. Writes!VersionsTrackDocuments'
    BY <2>1, <2>2, <1>1, <1>2 DEF WritesInv, CommitsAlone, Writes!Busy, Writes!At, Writes!Current, Writes!VersionsTrackDocuments
  <2>4. ASSUME NEW w PROVE Writes!check_precondition(w)' <=> Writes!check_precondition(w)
    BY DEF Writes!check_precondition
  <2> QED BY <2>1, <2>3, <2>4, <1>2 DEF WritesInv, CommitsAlone, Writes!Busy, Writes!At, Writes!Current
<1> QED BY <1>3, <1>4, <1>5, <1>6 DEF WritesInv

LEMMA StagesKeepInv ==
  ASSUME WritesInv, NEW t \in Tasks, NEW w \in Encoded, NEW precondition \in Preconditions,
         Writes!stages(t, w, precondition)
  PROVE  WritesInv'
<1> DEFINE job == [tasks[t] EXCEPT !.writes = Append(@, [w EXCEPT !.pre = precondition])]
<1>1. tasks[t] \in Commits
  BY DEF WritesInv, WritesTyped
<1>2. [w EXCEPT !.pre = precondition] \in StagedWrites
  BY DEF StagedWrites
<1>3. job \in Commits /\ job.pc = tasks[t].pc /\ job.at = tasks[t].at /\ job.read = tasks[t].read
  <2>1. Append(tasks[t].writes, [w EXCEPT !.pre = precondition]) \in Seq(StagedWrites)
    BY <1>1, <1>2 DEF Commits
  <2> QED BY <1>1, <2>1 DEF Commits
<1>4. Writes!At(t, "idle") /\ Writes!goes(t, job) /\ past' = [past EXCEPT !.staged = past'.staged] /\ UNCHANGED <<documents, versions>>
  BY DEF Writes!stages, WritesInv, WritesTyped
<1>5. job.pc = "idle" /\ job.at = 1
  BY <1>3, <1>4 DEF Writes!At, WritesInv, AtAWrite
<1>6. IsFiniteSet({k \in Keys : job.read[k] # -1})
  BY <1>3 DEF WritesInv, ReadsAreFinite
<1> HIDE DEF job
<1> QED BY <1>3, <1>4, <1>5, <1>6, StagingKeeps

LEMMA PreconditionsTyped ==
  ASSUME WritesInv, NEW t \in Tasks, NEW key \in Keys
  PROVE  Writes!precondition_for(t, key) \in Preconditions /\ Writes!precondition_for_update(t, key) \in Preconditions
<1>1. tasks[t].read[key] \in Int
  BY DEF WritesInv, WritesTyped, Commits
<1> QED BY <1>1 DEF Writes!precondition_for, Writes!precondition_for_update, Preconditions, Writes!None, Writes!Exists, Writes!UpdateTime

LEMMA IdleIsACommit == Writes!Idle \in Commits /\ Writes!Idle.pc = "idle" /\ Writes!Idle.at = 1 /\ IsFiniteSet({k \in Keys : Writes!Idle.read[k] # -1})
<1>1. {k \in Keys : Writes!Idle.read[k] # -1} = {}
  BY DEF Writes!Idle
<1> QED BY <1>1, FS_EmptySet DEF Writes!Idle, Commits, Stages

LEMMA StagingSteps ==
  ASSUME WritesInv, NEW t \in Tasks,
         \/ \E k \in Keys, d \in Payloads : Writes!StageUpdate(t, k, d) \/ \E o \in Writes!Options(d) : Writes!StageSet(t, k, d, o)
         \/ \E k \in Keys : Writes!StageDelete(t, k) \/ Writes!Read(t, k)
         \/ Writes!Transact(t) \/ Writes!Discard(t)
  PROVE  WritesInv'
<1>0. tasks[t] \in Commits /\ past = [past EXCEPT !.staged = past.staged]
  BY DEF WritesInv, WritesTyped
<1>1. ASSUME NEW k \in Keys, NEW d \in Payloads, Writes!StageUpdate(t, k, d) PROVE WritesInv'
  <2>1. Writes!encode_update_document_data(k, d) \in Encoded
    BY DEF Encoded
  <2> QED BY <1>1, <2>1, StagesKeepInv, PreconditionsTyped DEF Writes!StageUpdate
<1>2. ASSUME NEW k \in Keys, NEW d \in Payloads, NEW o \in Writes!Options(d), Writes!StageSet(t, k, d, o) PROVE WritesInv'
  <2>1. o \in AllOptions
    BY DEF AllOptions
  <2> QED BY <1>2, <2>1, StagesKeepInv, PreconditionsTyped DEF Writes!StageSet, Encoded
<1>3. ASSUME NEW k \in Keys, Writes!StageDelete(t, k) PROVE WritesInv'
  <2>1. Writes!Bare("delete", k) \in Encoded
    BY DEF Encoded
  <2> QED BY <1>3, <2>1, StagesKeepInv, PreconditionsTyped DEF Writes!StageDelete
<1>4. ASSUME NEW k \in Keys, Writes!Read(t, k) PROVE WritesInv'
  <2> DEFINE found == IF documents[k].exists THEN versions.of[k] ELSE 0
             job == [tasks[t] EXCEPT !.read[k] = found]
  <2>1. found \in Int
    BY DEF WritesInv, WritesTyped
  <2>2. job \in Commits /\ job.pc = tasks[t].pc /\ job.at = tasks[t].at
    BY <1>0, <2>1 DEF Commits
  <2>3. Writes!At(t, "idle") /\ Writes!goes(t, job) /\ UNCHANGED <<documents, versions, past>>
    BY <1>4 DEF Writes!Read
  <2>4. job.pc = "idle" /\ job.at = 1
    BY <2>2, <2>3 DEF Writes!At, WritesInv, AtAWrite
  <2>5. IsFiniteSet({j \in Keys : job.read[j] # -1})
    <3>1. {j \in Keys : job.read[j] # -1} \in SUBSET ({j \in Keys : tasks[t].read[j] # -1} \cup {k})
      BY <1>0 DEF Commits
    <3> QED BY <3>1, FS_AddElement, FS_Subset DEF WritesInv, ReadsAreFinite
  <2> HIDE DEF job
  <2> QED BY <1>0, <2>2, <2>3, <2>4, <2>5, StagingKeeps
<1>5. CASE Writes!Transact(t)
  <2> DEFINE job == [Writes!Idle EXCEPT !.conditional = TRUE]
  <2>1. job \in Commits /\ job.pc = "idle" /\ job.at = 1 /\ job.read = Writes!Idle.read
    BY IdleIsACommit DEF Commits
  <2>2. Writes!At(t, "idle") /\ Writes!goes(t, job) /\ UNCHANGED <<documents, versions, past>>
    BY <1>5, IdleIsACommit DEF Writes!Transact, Writes!At
  <2>3. IsFiniteSet({k \in Keys : job.read[k] # -1})
    BY <2>1, IdleIsACommit
  <2> HIDE DEF job
  <2> QED BY <1>0, <2>1, <2>2, <2>3, StagingKeeps
<1>6. CASE Writes!Discard(t)
  BY <1>0, <1>6, IdleIsACommit, StagingKeeps DEF Writes!Discard, Writes!ends
<1> QED BY <1>1, <1>2, <1>3, <1>4, <1>5, <1>6

LEMMA CommitStep == ASSUME WritesInv, NEW t \in Tasks, Writes!Commit(t) PROVE WritesInv'
<1> DEFINE job == [tasks[t] EXCEPT !.pc = IF tasks[t].conditional THEN "checking" ELSE "applying", !.writes = Writes!finish(t)]
<1>1. Writes!finish(t) \in Seq(StagedWrites) /\ Writes!finish(t) # <<>> /\ 1 \in 1 .. Len(Writes!finish(t)) /\ tasks[t] \in Commits /\ tasks[t].at = 1
  BY FinishedAreStaged DEF Writes!Commit, WritesInv, WritesTyped, AtAWrite
<1>2. job \in Commits /\ job.writes = Writes!finish(t) /\ job.at = 1 /\ job.read = tasks[t].read /\ job.conditional = tasks[t].conditional
      /\ job.pc = IF tasks[t].conditional THEN "checking" ELSE "applying"
  BY <1>1 DEF Commits, Stages
<1> HIDE DEF job
<1>3. tasks'[t] = job /\ tasks' \in [Tasks -> Commits] /\ \A u \in Tasks : u # t => tasks'[u] = tasks[u]
  BY <1>2 DEF WritesInv, WritesTyped, Writes!Commit, Writes!goes, job
<1>4. UNCHANGED <<documents, versions>> /\ Writes!At(t, "idle")
  BY DEF Writes!Commit
<1>5. past'.overlapped = (past.overlapped \/ \E u \in Tasks : Writes!Busy(u)) /\ past' = [staged |-> past'.staged, overlapped |-> past'.overlapped, torn |-> past'.torn]
      /\ past'.torn \in BOOLEAN
  BY DEF Writes!Commit, WritesInv, WritesTyped
<1>6. WritesTyped'
  BY <1>3, <1>4, <1>5 DEF WritesInv, WritesTyped
<1>7. ReadsAreFinite'
  BY <1>2, <1>3 DEF WritesInv, ReadsAreFinite
<1>8. AtAWrite'
  BY <1>1, <1>2, <1>3 DEF WritesInv, AtAWrite, Writes!Busy, Writes!At, Writes!Current
<1>9. CommitsAlone'
  <2> SUFFICES ASSUME ~past'.overlapped PROVE CommitsAlone'
    BY DEF CommitsAlone
  <2>1. ~past.overlapped /\ \A u \in Tasks : ~Writes!Busy(u)
    BY <1>5
  <2>2. \A u \in Tasks : Writes!Busy(u)' => u = t
    BY <1>3, <2>1 DEF Writes!Busy, Writes!At
  <2>3. Writes!VersionsTrackDocuments'
    BY <1>4, <2>1 DEF Writes!VersionsTrackDocuments, WritesInv, CommitsAlone, Writes!Busy, Writes!At
  <2>4. ASSUME NEW u \in Tasks, Writes!At(u, "applying")', (tasks[u].conditional)' PROVE FALSE
    BY <1>2, <1>3, <2>1, <2>2, <2>4 DEF Writes!At, Writes!Busy
  <2>5. ASSUME NEW u \in Tasks, Writes!At(u, "checking")' PROVE u = t /\ tasks'[u].at = 1
    BY <1>2, <1>3, <2>2, <2>5 DEF Writes!At, Writes!Busy
  <2>6. ASSUME NEW u \in Tasks, Writes!At(u, "versioning")' PROVE FALSE
    BY <1>2, <1>3, <2>2, <2>6 DEF Writes!At, Writes!Busy
  <2> QED BY <2>2, <2>3, <2>4, <2>5, <2>6 DEF CommitsAlone
<1> QED BY <1>6, <1>7, <1>8, <1>9 DEF WritesInv

\* A commit at work.
LEMMA AtWork ==
  ASSUME WritesInv, NEW t \in Tasks, Writes!Busy(t)
  PROVE  /\ tasks[t] \in Commits /\ tasks[t].at \in DOMAIN tasks[t].writes /\ DOMAIN tasks[t].writes = 1 .. Len(tasks[t].writes)
         /\ Len(tasks[t].writes) \in Nat /\ Writes!Current(t) \in StagedWrites
         /\ Writes!Current(t).key \in Keys /\ Writes!Current(t).op \in WriteOps /\ Writes!Current(t).pre \in Preconditions
<1>1. tasks[t] \in Commits /\ tasks[t].at \in 1 .. Len(tasks[t].writes)
  BY DEF WritesInv, WritesTyped, AtAWrite
<1>2. tasks[t].writes \in Seq(StagedWrites)
  BY <1>1 DEF Commits
<1>3. Writes!Current(t) \in StagedWrites
  BY <1>1, <1>2 DEF Writes!Current
<1> QED BY <1>1, <1>2, <1>3, StagedHaveKeys

\* What a step of one commit leaves alone.
LEMMA CommitsAloneKept ==
  ASSUME WritesInv, NEW t \in Tasks, Writes!Busy(t), WritesTyped', past'.overlapped = past.overlapped,
         \A u \in Tasks : u # t => tasks'[u] = tasks[u],
         ~past.overlapped => Writes!VersionsTrackDocuments',
         ~past.overlapped =>
           /\ Writes!At(t, "versioning")' => (documents'[Writes!Current(t)'.key].exists <=> Writes!Current(t)'.op # "delete")
           /\ Writes!At(t, "checking")' => \A i \in 1 .. tasks'[t].at - 1 : Writes!check_precondition(tasks[t].writes[i])'
           /\ Writes!At(t, "applying")' /\ tasks'[t].conditional /\ tasks'[t].at = 1 =>
                \A i \in DOMAIN tasks'[t].writes : Writes!check_precondition(tasks[t].writes[i])'
  PROVE  CommitsAlone'
<1> SUFFICES ASSUME ~past.overlapped PROVE CommitsAlone'
  BY DEF CommitsAlone
<1>1. \A u \in Tasks : Writes!Busy(u) => u = t
  BY DEF WritesInv, CommitsAlone
<1>2. \A u \in Tasks : Writes!Busy(u)' => u = t
  BY <1>1 DEF Writes!Busy, Writes!At
<1>3. \A u \in Tasks : Writes!At(u, "versioning")' \/ Writes!At(u, "checking")' \/ Writes!At(u, "applying")' => u = t
  BY <1>2 DEF Writes!Busy, Writes!At
<1> QED BY <1>2, <1>3 DEF CommitsAlone

LEMMA EndsIsTyped ==
  ASSUME WritesInv, NEW t \in Tasks, NEW job \in Commits, Writes!goes(t, job), documents' = [k \in Keys |-> documents'[k]],
         \A k \in Keys : documents'[k].exists \in BOOLEAN, versions' \in [next : Nat, of : [Keys -> Nat]],
         past' = [past EXCEPT !.torn = past'.torn], past'.torn \in BOOLEAN,
         job = Writes!Idle \/ job.read = tasks[t].read
  PROVE  /\ WritesTyped' /\ ReadsAreFinite' /\ tasks'[t] = job /\ \A u \in Tasks : u # t => tasks'[u] = tasks[u]
         /\ past'.overlapped = past.overlapped
<1>1. tasks' \in [Tasks -> Commits] /\ tasks'[t] = job /\ \A u \in Tasks : u # t => tasks'[u] = tasks[u]
  BY DEF WritesInv, WritesTyped, Writes!goes
<1>2. WritesTyped' /\ past'.overlapped = past.overlapped
  BY <1>1 DEF WritesInv, WritesTyped
<1>3. IsFiniteSet({k \in Keys : job.read[k] # -1})
  BY IdleIsACommit DEF WritesInv, ReadsAreFinite
<1> QED BY <1>1, <1>2, <1>3 DEF WritesInv, ReadsAreFinite

\* What proceeds leaves: the next write, or nothing.
LEMMA ProceedsTo ==
  ASSUME WritesInv, NEW t \in Tasks, Writes!Busy(t), Writes!proceeds(t)
  PROVE  \E job \in Commits :
           /\ Writes!goes(t, job)
           /\ \/ job = Writes!Idle
              \/ /\ job.pc = "applying" /\ job.at \in 2 .. Len(tasks[t].writes) /\ job.writes = tasks[t].writes
                 /\ job.read = tasks[t].read /\ job.conditional = tasks[t].conditional
<1> DEFINE job == [tasks[t] EXCEPT !.pc = "applying", !.at = tasks[t].at + 1]
<1>1. CASE tasks[t].at < Len(tasks[t].writes)
  <2>1. job \in Commits /\ job.pc = "applying" /\ job.at = tasks[t].at + 1 /\ job.writes = tasks[t].writes
        /\ job.read = tasks[t].read /\ job.conditional = tasks[t].conditional
    <3>1. tasks[t] \in Commits /\ tasks[t].at + 1 \in Nat /\ "applying" \in Stages
      BY <1>1, AtWork DEF Stages
    <3> QED BY <3>1 DEF Commits
  <2>2. job.at \in 2 .. Len(tasks[t].writes)
    BY <1>1, <2>1, AtWork
  <2>3. Writes!goes(t, job)
    BY <1>1 DEF Writes!proceeds
  <2> HIDE DEF job
  <2> QED BY <2>1, <2>2, <2>3
<1>2. CASE ~(tasks[t].at < Len(tasks[t].writes))
  BY <1>2, IdleIsACommit DEF Writes!proceeds, Writes!ends
<1> QED BY <1>1, <1>2

LEMMA CheckStep == ASSUME WritesInv, NEW t \in Tasks, Writes!Check(t) PROVE WritesInv'
<1>1. Writes!Busy(t) /\ Writes!At(t, "checking") /\ UNCHANGED <<documents, versions, past>>
  BY DEF Writes!Check, Writes!Busy, Writes!At
<1>2. PICK job \in Commits :
        /\ Writes!goes(t, job)
        /\ \/ job = Writes!Idle
           \/ /\ job.pc = "checking" /\ job.at = tasks[t].at + 1 /\ job.at \in 1 .. Len(tasks[t].writes)
              /\ job.writes = tasks[t].writes /\ job.read = tasks[t].read /\ Writes!check_precondition(Writes!Current(t))
           \/ /\ job.pc = "applying" /\ job.at = 1 /\ job.writes = tasks[t].writes /\ job.read = tasks[t].read
              /\ tasks[t].at = Len(tasks[t].writes) /\ Writes!check_precondition(Writes!Current(t))
  <2>1. CASE ~Writes!check_precondition(Writes!Current(t))
    BY <2>1, IdleIsACommit DEF Writes!Check, Writes!ends
  <2>2. CASE Writes!check_precondition(Writes!Current(t)) /\ tasks[t].at < Len(tasks[t].writes)
    <3> DEFINE job == [tasks[t] EXCEPT !.at = tasks[t].at + 1]
    <3>1. job \in Commits /\ job.pc = "checking" /\ job.at = tasks[t].at + 1 /\ job.writes = tasks[t].writes /\ job.read = tasks[t].read
      BY <1>1, AtWork DEF Commits, Writes!At
    <3>2. job.at \in 1 .. Len(tasks[t].writes)
      BY <1>1, <2>2, <3>1, AtWork
    <3>3. Writes!goes(t, job)
      BY <2>2 DEF Writes!Check
    <3> HIDE DEF job
    <3> QED BY <2>2, <3>1, <3>2, <3>3
  <2>3. CASE Writes!check_precondition(Writes!Current(t)) /\ ~(tasks[t].at < Len(tasks[t].writes))
    <3> DEFINE job == [tasks[t] EXCEPT !.pc = "applying", !.at = 1]
    <3>1. job \in Commits /\ job.pc = "applying" /\ job.at = 1 /\ job.writes = tasks[t].writes /\ job.read = tasks[t].read
      BY <1>1, AtWork DEF Commits, Stages
    <3>2. tasks[t].at = Len(tasks[t].writes)
      BY <1>1, <2>3, AtWork
    <3>3. Writes!goes(t, job)
      BY <2>3 DEF Writes!Check
    <3> HIDE DEF job
    <3> QED BY <2>3, <3>1, <3>2, <3>3
  <2> QED BY <2>1, <2>2, <2>3
<1>3. /\ WritesTyped' /\ ReadsAreFinite' /\ tasks'[t] = job /\ \A u \in Tasks : u # t => tasks'[u] = tasks[u]
      /\ past'.overlapped = past.overlapped
  <2>1. past' = [past EXCEPT !.torn = past'.torn] /\ past'.torn \in BOOLEAN
    BY <1>1 DEF WritesInv, WritesTyped
  <2> QED BY <1>1, <1>2, <2>1, EndsIsTyped DEF WritesInv, WritesTyped
<1>4. AtAWrite'
  BY <1>1, <1>2, <1>3, AtWork, IdleIsACommit DEF WritesInv, AtAWrite, Writes!Busy, Writes!At, Writes!Current
<1>5. ASSUME NEW w PROVE Writes!check_precondition(w)' <=> Writes!check_precondition(w)
  BY <1>1 DEF Writes!check_precondition
<1>6. ASSUME ~past.overlapped PROVE Writes!VersionsTrackDocuments'
  <2>1. \A u \in Tasks : Writes!At(u, "versioning") => u # t /\ tasks'[u] = tasks[u]
    BY <1>1, <1>3 DEF Writes!At
  <2> QED BY <1>1, <1>6, <2>1 DEF WritesInv, CommitsAlone, Writes!VersionsTrackDocuments, Writes!At, Writes!Current
<1>7. ~past.overlapped => \A i \in 1 .. tasks[t].at - 1 : Writes!check_precondition(tasks[t].writes[i])
  BY <1>1 DEF WritesInv, CommitsAlone
<1>8. CommitsAlone'
  <2>1. ASSUME ~past.overlapped, Writes!At(t, "checking")', NEW i \in 1 .. tasks'[t].at - 1 PROVE Writes!check_precondition(tasks[t].writes[i])'
    <3>1. tasks'[t].pc = "checking" /\ tasks'[t].at = tasks[t].at + 1 /\ tasks'[t].writes = tasks[t].writes /\ Writes!check_precondition(Writes!Current(t))
      BY <1>2, <1>3, <2>1, IdleIsACommit DEF Writes!At
    <3>2. tasks[t].at \in Nat
      BY <1>1, AtWork
    <3>3. CASE i = tasks[t].at
      BY <3>1, <3>3, <1>5 DEF Writes!Current
    <3>4. CASE i # tasks[t].at
      <4>1. i \in 1 .. tasks[t].at - 1
        BY <2>1, <3>1, <3>2, <3>4
      <4> QED BY <4>1, <3>1, <2>1, <1>5, <1>7
    <3> QED BY <3>3, <3>4
  <2>2. ASSUME ~past.overlapped, Writes!At(t, "applying")', NEW i \in DOMAIN tasks'[t].writes PROVE Writes!check_precondition(tasks[t].writes[i])'
    BY <1>1, <1>2, <1>3, <1>5, <1>7, <2>2, AtWork, IdleIsACommit DEF Writes!At, Writes!Current
  <2>3. ~Writes!At(t, "versioning")'
    BY <1>2, <1>3, IdleIsACommit DEF Writes!At
  <2>4. tasks'[t].writes = tasks[t].writes \/ tasks'[t] = Writes!Idle
    BY <1>2, <1>3
  <2> QED BY <1>1, <1>3, <1>6, <2>1, <2>2, <2>3, <2>4, CommitsAloneKept, IdleIsACommit DEF Writes!At
<1> QED BY <1>3, <1>4, <1>8 DEF WritesInv

LEMMA ApplyStep == ASSUME WritesInv, NEW t \in Tasks, Writes!Apply(t) PROVE WritesInv'
<1> DEFINE w == Writes!Current(t)
<1>1. Writes!Busy(t) /\ Writes!At(t, "applying") /\ UNCHANGED <<versions, past>> /\ Writes!Applicable(documents[w.key], w)
      /\ documents' = [documents EXCEPT ![w.key] = Writes!applied(documents[w.key], w)]
  BY DEF Writes!Apply, Writes!Busy, Writes!At
<1>2. w.key \in Keys /\ w.op \in WriteOps
  BY <1>1, AtWork
<1>3. /\ documents' = [k \in Keys |-> documents'[k]] /\ \A k \in Keys : k # w.key => documents'[k] = documents[k]
      /\ documents'[w.key] = Writes!applied(documents[w.key], w)
  BY <1>1, <1>2 DEF WritesInv, WritesTyped
<1>4. /\ documents'[w.key].exists \in BOOLEAN
      /\ w.op # "verify" => (documents'[w.key].exists <=> w.op # "delete")
      /\ w.op = "verify" => documents'[w.key] = documents[w.key]
  <2>1. CASE w.op \in {"set", "update"}
    <3>1. documents'[w.key].exists = TRUE
      BY <1>3, <2>1 DEF Writes!applied, Writes!apply_set, Writes!apply_update, Writes!Document
    <3> QED BY <2>1, <3>1
  <2>2. CASE w.op = "delete"
    <3>1. documents'[w.key] = Writes!NoDocument
      BY <1>3, <2>2 DEF Writes!applied
    <3>2. documents'[w.key].exists = FALSE
      BY <3>1 DEF Writes!NoDocument
    <3> QED BY <2>2, <3>2
  <2>3. CASE w.op = "verify"
    BY <1>2, <1>3, <2>3 DEF Writes!applied, WritesInv, WritesTyped
  <2> QED BY <1>2, <2>1, <2>2, <2>3 DEF WriteOps
<1>5. PICK job \in Commits :
        /\ Writes!goes(t, job)
        /\ \/ job = Writes!Idle /\ w.op = "verify"
           \/ /\ job.pc = "applying" /\ job.at \in 2 .. Len(tasks[t].writes) /\ job.writes = tasks[t].writes
              /\ job.read = tasks[t].read /\ w.op = "verify"
           \/ /\ job.pc = "versioning" /\ job.at = tasks[t].at /\ job.writes = tasks[t].writes /\ job.read = tasks[t].read
              /\ w.op # "verify"
  <2>1. CASE w.op = "verify"
    <3>1. Writes!proceeds(t)
      BY <2>1 DEF Writes!Apply
    <3> QED BY <1>1, <2>1, <3>1, ProceedsTo
  <2>2. CASE w.op # "verify"
    <3> DEFINE job == [tasks[t] EXCEPT !.pc = "versioning"]
    <3>1. job \in Commits /\ job.pc = "versioning" /\ job.at = tasks[t].at /\ job.writes = tasks[t].writes /\ job.read = tasks[t].read
      BY <1>1, AtWork DEF Commits, Stages
    <3>2. Writes!goes(t, job)
      BY <2>2 DEF Writes!Apply
    <3> HIDE DEF job
    <3> QED BY <2>2, <3>1, <3>2
  <2> QED BY <2>1, <2>2
<1>6. /\ WritesTyped' /\ ReadsAreFinite' /\ tasks'[t] = job /\ \A u \in Tasks : u # t => tasks'[u] = tasks[u]
      /\ past'.overlapped = past.overlapped
  <2>1. past' = [past EXCEPT !.torn = past'.torn] /\ past'.torn \in BOOLEAN /\ versions' \in [next : Nat, of : [Keys -> Nat]]
    BY <1>1 DEF WritesInv, WritesTyped
  <2>2. \A k \in Keys : documents'[k].exists \in BOOLEAN
    BY <1>3, <1>4 DEF WritesInv, WritesTyped
  <2> QED BY <1>3, <1>5, <2>1, <2>2, EndsIsTyped
<1>7. AtAWrite'
  <2>1. Writes!Current(t)' = tasks'[t].writes[tasks'[t].at]
    BY DEF Writes!Current
  <2>2. Len(tasks[t].writes) \in Nat /\ tasks[t].at \in 1 .. Len(tasks[t].writes)
    BY <1>1, AtWork
  <2>3. /\ Writes!Busy(t)' => tasks'[t].at \in 1 .. Len(tasks'[t].writes)
        /\ Writes!At(t, "idle")' => tasks'[t].at = 1
        /\ Writes!At(t, "versioning")' => Writes!Current(t)'.op # "verify"
    BY <1>5, <1>6, <2>1, <2>2, IdleIsACommit DEF Writes!Busy, Writes!At, Writes!Current
  <2>4. ASSUME NEW u \in Tasks, u # t
        PROVE  /\ Writes!Busy(u)' => tasks'[u].at \in 1 .. Len(tasks'[u].writes)
               /\ Writes!At(u, "idle")' => tasks'[u].at = 1
               /\ Writes!At(u, "versioning")' => Writes!Current(u)'.op # "verify"
    BY <1>6, <2>4 DEF WritesInv, AtAWrite, Writes!Busy, Writes!At, Writes!Current
  <2> QED BY <2>3, <2>4 DEF AtAWrite
<1>8. ~Writes!At(t, "checking")' /\ (Writes!At(t, "applying")' => tasks'[t].at # 1)
  BY <1>5, <1>6, IdleIsACommit DEF Writes!At
<1>9. Writes!At(t, "versioning")' => Writes!Current(t)' = w /\ w.op # "verify"
  BY <1>5, <1>6, IdleIsACommit DEF Writes!At, Writes!Current
<1>10. ASSUME ~past.overlapped PROVE Writes!VersionsTrackDocuments'
  <2>1. \A u \in Tasks : ~Writes!At(u, "versioning")
    BY <1>1, <1>10 DEF WritesInv, CommitsAlone, Writes!At, Writes!Busy
  <2>2. \A k \in Keys : documents[k].exists <=> versions.of[k] # 0
    BY <1>10, <2>1 DEF WritesInv, CommitsAlone, Writes!VersionsTrackDocuments
  <2>3. w.op # "verify" => Writes!At(t, "versioning")' /\ Writes!Current(t)'.key = w.key
    BY <1>5, <1>6 DEF Writes!At, Writes!Current
  <2> QED BY <1>1, <1>3, <1>4, <2>2, <2>3 DEF Writes!VersionsTrackDocuments
<1>11. CommitsAlone'
  BY <1>1, <1>4, <1>6, <1>8, <1>9, <1>10, CommitsAloneKept
<1> QED BY <1>6, <1>7, <1>11 DEF WritesInv

LEMMA ApplyFailsStep == ASSUME WritesInv, NEW t \in Tasks, Writes!ApplyFails(t) PROVE WritesInv'
<1>1. Writes!Busy(t) /\ Writes!At(t, "applying") /\ UNCHANGED <<documents, versions>> /\ Writes!goes(t, Writes!Idle)
  BY DEF Writes!ApplyFails, Writes!Busy, Writes!At, Writes!ends
<1>2. past' = [past EXCEPT !.torn = past'.torn] /\ past'.torn \in BOOLEAN
  BY DEF Writes!ApplyFails, WritesInv, WritesTyped
<1>3. /\ WritesTyped' /\ ReadsAreFinite' /\ tasks'[t] = Writes!Idle /\ \A u \in Tasks : u # t => tasks'[u] = tasks[u]
      /\ past'.overlapped = past.overlapped
  BY <1>1, <1>2, EndsIsTyped, IdleIsACommit DEF WritesInv, WritesTyped
<1>4. AtAWrite'
  BY <1>3, IdleIsACommit DEF WritesInv, AtAWrite, Writes!Busy, Writes!At, Writes!Current
<1>5. ASSUME ~past.overlapped PROVE Writes!VersionsTrackDocuments'
  <2>1. \A u \in Tasks : ~Writes!At(u, "versioning")
    BY <1>1, <1>5 DEF WritesInv, CommitsAlone, Writes!At, Writes!Busy
  <2> QED BY <1>1, <1>5, <2>1 DEF WritesInv, CommitsAlone, Writes!VersionsTrackDocuments
<1>6. ~Writes!At(t, "versioning")' /\ ~Writes!At(t, "checking")' /\ ~Writes!At(t, "applying")'
  BY <1>3, IdleIsACommit DEF Writes!At
<1>7. CommitsAlone'
  BY <1>1, <1>3, <1>5, <1>6, CommitsAloneKept
<1> QED BY <1>3, <1>4, <1>7 DEF WritesInv

LEMMA VersionStep == ASSUME WritesInv, NEW t \in Tasks, Writes!Version(t) PROVE WritesInv'
<1> DEFINE w == Writes!Current(t)
<1>1. Writes!Busy(t) /\ Writes!At(t, "versioning") /\ UNCHANGED <<documents, past>> /\ Writes!proceeds(t)
  BY DEF Writes!Version, Writes!Busy, Writes!At
<1>2. w.key \in Keys /\ w.op \in WriteOps
  BY <1>1, AtWork
<1>3. /\ versions' \in [next : Nat, of : [Keys -> Nat]] /\ (versions'.of[w.key] # 0 <=> w.op # "delete")
      /\ \A k \in Keys : k # w.key => versions'.of[k] = versions.of[k]
  <2>1. versions \in [next : Nat, of : [Keys -> Nat]]
    BY DEF WritesInv, WritesTyped
  <2>2. CASE w.op = "delete"
    <3>1. versions' = [versions EXCEPT !.of[w.key] = 0]
      BY <2>2 DEF Writes!Version
    <3> QED BY <1>2, <2>1, <2>2, <3>1
  <2>3. CASE w.op # "delete"
    <3>1. versions' = [next |-> versions.next + 1, of |-> [versions.of EXCEPT ![w.key] = versions.next + 1]]
      BY <2>3 DEF Writes!Version
    <3> QED BY <1>2, <2>1, <2>3, <3>1
  <2> QED BY <2>2, <2>3
<1>4. PICK job \in Commits :
        /\ Writes!goes(t, job)
        /\ \/ job = Writes!Idle
           \/ /\ job.pc = "applying" /\ job.at \in 2 .. Len(tasks[t].writes) /\ job.writes = tasks[t].writes
              /\ job.read = tasks[t].read /\ job.conditional = tasks[t].conditional
  BY <1>1, ProceedsTo
<1>5. /\ WritesTyped' /\ ReadsAreFinite' /\ tasks'[t] = job /\ \A u \in Tasks : u # t => tasks'[u] = tasks[u]
      /\ past'.overlapped = past.overlapped
  <2>1. past' = [past EXCEPT !.torn = past'.torn] /\ past'.torn \in BOOLEAN
    BY <1>1 DEF WritesInv, WritesTyped
  <2> QED BY <1>1, <1>3, <1>4, <2>1, EndsIsTyped DEF WritesInv, WritesTyped
<1>6. AtAWrite'
  BY <1>4, <1>5, IdleIsACommit DEF WritesInv, AtAWrite, Writes!Busy, Writes!At, Writes!Current
<1>7. ~Writes!At(t, "versioning")' /\ ~Writes!At(t, "checking")' /\ (Writes!At(t, "applying")' => tasks'[t].at # 1)
  BY <1>4, <1>5, IdleIsACommit DEF Writes!At
<1>8. ASSUME ~past.overlapped PROVE Writes!VersionsTrackDocuments'
  <2>1. \A u \in Tasks : Writes!At(u, "versioning") => u = t
    BY <1>1, <1>8 DEF WritesInv, CommitsAlone, Writes!At, Writes!Busy
  <2>2. \A k \in Keys : k # w.key => (documents[k].exists <=> versions.of[k] # 0)
    BY <1>8, <2>1 DEF WritesInv, CommitsAlone, Writes!VersionsTrackDocuments
  <2>3. documents[w.key].exists <=> w.op # "delete"
    BY <1>1, <1>8 DEF WritesInv, CommitsAlone
  <2> QED BY <1>1, <1>3, <2>2, <2>3 DEF Writes!VersionsTrackDocuments
<1>9. CommitsAlone'
  BY <1>1, <1>5, <1>7, <1>8, CommitsAloneKept
<1> QED BY <1>5, <1>6, <1>9 DEF WritesInv

\* The inductive invariant of the in-memory store (in_memory.rs: commit, commit_conditional):
\* without overlaps one commit is at one of its writes, and what it checked still holds
\* until it applies the first.
THEOREM CommitsRunAlone == Writes!Spec => []WritesInv
<1>1. Writes!Init => WritesInv
  BY WritesInitially
<1>2. WritesInv /\ [Writes!Next]_Writes!writeVars => WritesInv'
  <2> SUFFICES ASSUME WritesInv, [Writes!Next]_Writes!writeVars PROVE WritesInv'
    OBVIOUS
  <2>1. ASSUME NEW t \in Tasks, Writes!Steps(t) PROVE WritesInv'
    BY <2>1, StagingSteps, CommitStep, CheckStep, ApplyStep, ApplyFailsStep, VersionStep DEF Writes!Steps
  <2>2. CASE UNCHANGED Writes!writeVars
    <3>1. UNCHANGED <<documents, versions, tasks, past>>
      BY <2>2 DEF Writes!writeVars
    <3>2. WritesTyped' /\ ReadsAreFinite' /\ AtAWrite'
      BY <3>1 DEF WritesInv, WritesTyped, ReadsAreFinite, AtAWrite, Writes!At, Writes!Busy, Writes!Current
    <3>3. Writes!VersionsTrackDocuments' <=> Writes!VersionsTrackDocuments
      BY <3>1 DEF Writes!VersionsTrackDocuments, Writes!At, Writes!Current
    <3>4. CommitsAlone'
      BY <3>1, <3>3 DEF WritesInv, CommitsAlone, Writes!check_precondition, Writes!At, Writes!Busy, Writes!Current
    <3> QED BY <3>2, <3>4 DEF WritesInv
  <2> QED BY <2>1, <2>2 DEF Writes!Next
<1> QED BY <1>1, <1>2, PTL DEF Writes!Spec

\* For any tasks, documents and data, batches and transactions of the in-memory store:
\* as long as commits do not overlap, a document has a version exactly when it exists,
\* and a transaction starts to apply its writes to the versions it read
\* (check_precondition, bump_version).  The condition is the caller's to keep and not
\* the store's: a commit that gets between the check and the application of another
\* (in_memory.rs:267-282) breaks it, against the store's own comment at line 266.
THEOREM CommitsApplyToWhatTheyRead ==
  Writes!Spec => [](~past.overlapped => Writes!VersionsTrackDocuments /\ Writes!AppliesToWhatWasRead)
<1>1. WritesInv => (~past.overlapped => Writes!VersionsTrackDocuments /\ Writes!AppliesToWhatWasRead)
  <2> SUFFICES ASSUME WritesInv, ~past.overlapped PROVE Writes!VersionsTrackDocuments /\ Writes!AppliesToWhatWasRead
    OBVIOUS
  <2>1. CommitsAlone
    BY DEF WritesInv
  <2>2. Writes!VersionsTrackDocuments
    BY <2>1 DEF CommitsAlone
  <2>3. Writes!AppliesToWhatWasRead
    BY <2>1 DEF CommitsAlone, Writes!AppliesToWhatWasRead
  <2> QED BY <2>2, <2>3
<1> QED BY <1>1, CommitsRunAlone, PTL
=============================================================================
