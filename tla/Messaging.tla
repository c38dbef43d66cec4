----------------------------- MODULE Messaging ------------------------------
(***************************************************************************)
(* Registration tokens of Cloud Messaging (messaging/api.rs, token_store,  *)
(* subscription, sw_manager, fcm_rest): the pages of a browser share the   *)
(* token's record in IndexedDB and the push subscription, each with a cache*)
(* of the record that the others' broadcasts keep up to date.  A native    *)
(* program has one record in memory and a placeholder for a token.         *)
(*                                                                         *)
(* A subscription is its number, made for a key; a token is its number.    *)
(***************************************************************************)
EXTENDS Integers, Sequences, FiniteSets

CONSTANTS Pages,
          Keys,                      \* VAPID keys asked with, "blank" and "default" among them
          TOKEN_EXPIRATION, AuthLifetime, AUTH_TOKEN_REFRESH_BUFFER,
          MaxNow, MaxCalls, MaxFaults  \* bounds

\* AuthLifetime is for how long a token is valid after its issue.
ConstantsOK == AuthLifetime \in Nat

VARIABLES platform,
          store,         \* the record kept for the app
          cache, opened, \* TOKEN_CACHE, and the pages listening on BROADCAST_CHANNEL
          channel,       \* broadcasts on their way to a page
          subscription,  \* of the browser's PushManager
          permission,
          installed,     \* when the installation's auth token expires
          live,          \* registrations at FCM
          calls, now, counts,
          disturbed      \* history: calls overlapped, or one failed after FCM had done its part

messagingVars == <<platform, store, cache, opened, channel, subscription, permission, installed, live, calls, now, counts, disturbed>>

None == [token |-> 0, created |-> 0, sub |-> 0, key |-> "none", expires |-> 0]
NotCached == [None EXCEPT !.token = -1]
NoSubscription == 0
Idle == [pc |-> "idle", op |-> "none", key |-> "none", sub |-> 0, began |-> 0, record |-> None, expires |-> 0, then |-> "none"]

Init ==
  /\ platform \in {"web", "native"}
  /\ store = None /\ cache = [p \in Pages |-> NotCached] /\ opened = {} /\ channel = [p \in Pages |-> <<>>]
  /\ subscription = NoSubscription /\ permission = "default" /\ installed = 0
  /\ live = {} /\ calls = [p \in Pages |-> Idle] /\ now = 0
  /\ counts = [tokens |-> 0, subs |-> 0, calls |-> 0, faults |-> 0]
  /\ disturbed = FALSE

At(p, pc) == calls[p].pc = pc
goes(p, call) == calls' = [calls EXCEPT ![p] = call]
step(p, pc) == goes(p, [calls[p] EXCEPT !.pc = pc])
count(what) == counts' = [counts EXCEPT ![what] = @ + 1]
browser == <<platform, subscription, permission, now>>

TypeOK ==
  /\ counts.calls <= MaxCalls /\ counts.faults <= MaxFaults /\ counts.tokens <= 3 * MaxCalls
  /\ \A p \in Pages : calls[p].pc = "idle" => calls[p] = Idle
  /\ \A r \in live : r.token \in 1 .. counts.tokens
  /\ platform = "native" => cache = [p \in Pages |-> NotCached]

Quiet == (\A p \in Pages : At(p, "idle") /\ channel[p] = <<>>)

(***************************************************************************)
(* The store                                                               *)
(***************************************************************************)
is_expired(record, at) == at - record.created >= TOKEN_EXPIRATION
auth_token_expired(record, at) == at + AUTH_TOKEN_REFRESH_BUFFER >= record.expires

announced(p, record) ==
  /\ cache' = [cache EXCEPT ![p] = record]
  /\ channel' = [o \in Pages |-> IF o # p /\ o \in opened THEN Append(channel[o], record) ELSE channel[o]]

\* handle_broadcast_message
Deliver(p) ==
  /\ channel[p] # <<>>
  /\ cache' = [cache EXCEPT ![p] = Head(channel[p])]
  /\ channel' = [channel EXCEPT ![p] = Tail(@)]
  /\ UNCHANGED <<store, opened, installed, live, calls, counts, disturbed, browser>>

\* What get_token_wasm and delete_token_impl do with the record they read: a
\* token that is fresh is returned, one of the same subscription updated, one
\* of another deleted and a new one registered.
read(p, record) ==
  LET call == [calls[p] EXCEPT !.record = record, !.began = now]
      same == record.sub = call.sub /\ record.key = call.key
      needs_refresh == auth_token_expired(record, now)
  IN IF call.op = "delete" THEN IF record = None THEN Idle ELSE [call EXCEPT !.pc = "installing", !.then = "deleting"]
     ELSE IF record = None THEN [call EXCEPT !.pc = "installing", !.then = "registering"]
     ELSE IF ~same THEN [call EXCEPT !.pc = "installing", !.then = "deleting"]
     ELSE IF ~is_expired(record, now) /\ ~needs_refresh THEN Idle
     ELSE [call EXCEPT !.pc = "installing", !.then = "updating", !.expires = IF needs_refresh THEN 0 ELSE installed]

ReadCached(p) ==
  /\ At(p, "reading") /\ cache[p] # NotCached
  /\ goes(p, read(p, cache[p]))
  /\ opened' = opened \cup {p}
  /\ UNCHANGED <<store, cache, channel, installed, live, counts, disturbed, browser>>

ReadStored(p) ==
  /\ At(p, "reading") /\ cache[p] = NotCached
  /\ goes(p, [calls[p] EXCEPT !.pc = "caching", !.record = store])
  /\ opened' = opened \cup {p}
  /\ UNCHANGED <<store, cache, channel, installed, live, counts, disturbed, browser>>

Cache(p) ==
  /\ At(p, "caching")
  /\ cache' = [cache EXCEPT ![p] = calls[p].record]
  /\ goes(p, read(p, calls[p].record))
  /\ UNCHANGED <<store, opened, channel, installed, live, counts, disturbed, browser>>

\* write_token
Put(p) ==
  /\ At(p, "putting")
  /\ store' = calls[p].record
  /\ step(p, "announcing")
  /\ UNCHANGED <<cache, opened, channel, installed, live, counts, disturbed, browser>>

Announce(p) ==
  /\ At(p, "announcing")
  /\ announced(p, calls[p].record)
  /\ goes(p, Idle)
  /\ UNCHANGED <<store, opened, installed, live, counts, disturbed, browser>>

removed(p) == IF calls[p].op = "delete" THEN [calls[p] EXCEPT !.pc = "worker"]
              ELSE [calls[p] EXCEPT !.pc = "installing", !.then = "registering", !.expires = 0]

\* remove_token
Check(p) ==
  /\ At(p, "checking")
  /\ goes(p, IF store # None THEN [calls[p] EXCEPT !.pc = "erasing"] ELSE removed(p))
  /\ UNCHANGED <<store, cache, opened, channel, installed, live, counts, disturbed, browser>>

Erase(p) ==
  /\ At(p, "erasing")
  /\ store' = None
  /\ step(p, "erased")
  /\ UNCHANGED <<cache, opened, channel, installed, live, counts, disturbed, browser>>

Erased(p) ==
  /\ At(p, "erased")
  /\ announced(p, None)
  /\ goes(p, removed(p))
  /\ UNCHANGED <<store, opened, installed, live, counts, disturbed, browser>>

(***************************************************************************)
(* The browser                                                             *)
(***************************************************************************)
Begin(p, op, key) ==
  /\ platform = "web" /\ At(p, "idle") /\ counts.calls < MaxCalls /\ count("calls")
  /\ goes(p, [Idle EXCEPT !.pc = IF op = "get" THEN "worker" ELSE "reading", !.op = op,
                          !.key = IF op = "delete" \/ key = "blank" THEN "default" ELSE key])
  /\ disturbed' = (disturbed \/ ~Quiet)
  /\ UNCHANGED <<store, cache, opened, channel, installed, live, browser>>

\* register_default, wait_for_registration_active
Worker(p) ==
  /\ At(p, "worker")
  /\ step(p, IF calls[p].op = "get" THEN "subscribing" ELSE "unsubscribing")
  /\ UNCHANGED <<store, cache, opened, channel, installed, live, counts, disturbed, browser>>

\* PushSubscriptionManager.subscribe: a subscription there is serves any key.
Subscribe(p) ==
  /\ At(p, "subscribing")
  /\ IF subscription # NoSubscription
     THEN goes(p, [calls[p] EXCEPT !.pc = "reading", !.sub = subscription])
     ELSE step(p, "creating")
  /\ UNCHANGED <<store, cache, opened, channel, installed, live, counts, disturbed, browser>>

\* The browser asks the user first; another page's subscription is returned.
Create(p) ==
  /\ At(p, "creating") /\ permission # "denied"
  /\ permission' = "granted"
  /\ IF subscription = NoSubscription THEN subscription' = counts.subs + 1 /\ count("subs") ELSE UNCHANGED <<subscription, counts>>
  /\ goes(p, [calls[p] EXCEPT !.pc = "reading", !.sub = subscription'])
  /\ UNCHANGED <<platform, store, cache, opened, channel, installed, live, now, disturbed>>

CreateDenied(p) ==
  /\ At(p, "creating")
  /\ permission # "granted" /\ permission' = "denied"
  /\ goes(p, Idle)
  /\ UNCHANGED <<platform, store, cache, opened, channel, subscription, installed, live, now, counts, disturbed>>

Unsubscribe(p) ==
  /\ At(p, "unsubscribing")
  /\ subscription' = NoSubscription
  /\ goes(p, Idle)
  /\ UNCHANGED <<platform, store, cache, opened, channel, permission, installed, live, now, counts, disturbed>>

\* request_permission
RequestPermission(answer) ==
  /\ platform = "web" /\ permission = "default" /\ answer \in {"granted", "denied"}
  /\ permission' = answer
  /\ UNCHANGED <<platform, store, cache, opened, channel, subscription, installed, live, calls, now, counts, disturbed>>

\* The push service ends a subscription.
Dropped ==
  /\ subscription # NoSubscription /\ subscription' = NoSubscription
  /\ UNCHANGED <<platform, store, cache, opened, channel, permission, installed, live, calls, now, counts, disturbed>>

(***************************************************************************)
(* FCM                                                                     *)
(***************************************************************************)
\* fetch_installation_info: a new auth token when forced or expired
Install(p) ==
  /\ At(p, "installing")
  /\ LET expires == IF calls[p].expires = 0 \/ now >= installed THEN now + AuthLifetime ELSE installed
     IN installed' = expires /\ goes(p, [calls[p] EXCEPT !.pc = calls[p].then, !.expires = expires])
  /\ UNCHANGED <<store, cache, opened, channel, live, counts, disturbed, browser>>

\* Mutant of recorded: the key asked with is not kept.
recorded_DefaultKey(p, token) == [token |-> token, created |-> calls[p].began, sub |-> calls[p].sub, key |-> "default", expires |-> calls[p].expires]

\* The record that goes with a token FCM answered.
recorded(p, token) == [token |-> token, created |-> calls[p].began, sub |-> calls[p].sub, key |-> calls[p].key, expires |-> calls[p].expires]
registration(p, token) == [token |-> token, sub |-> calls[p].sub, key |-> calls[p].key]
without(token) == {r \in live : r.token # token}

\* What a request does at FCM, and the call once it is answered.  An update
\* may answer the token it was asked about, or another in its place.
Effect(p, token) ==
  CASE At(p, "registering") -> live \cup {registration(p, token)}
    [] At(p, "updating") -> without(calls[p].record.token) \cup {registration(p, token)}
    [] At(p, "deleting") -> without(calls[p].record.token)

answered(p, token) ==
  IF At(p, "deleting") THEN [calls[p] EXCEPT !.pc = "checking"]
  ELSE [calls[p] EXCEPT !.pc = "putting", !.record = recorded(p, token)]

Requesting(p) == \E pc \in {"registering", "updating", "deleting"} : At(p, pc)

\* The token of an answer: new, or the one there is.
Tokens(p) ==
  CASE At(p, "registering") -> {counts.tokens + 1}
    [] At(p, "updating") -> {counts.tokens + 1, calls[p].record.token}
    [] OTHER -> {calls[p].record.token}

Serve(p) ==
  /\ Requesting(p)
  /\ \E token \in Tokens(p) :
       /\ live' = Effect(p, token) /\ goes(p, answered(p, token))
       /\ IF token > counts.tokens THEN count("tokens") ELSE UNCHANGED counts
  /\ UNCHANGED <<store, cache, opened, channel, installed, disturbed, browser>>

\* FCM did it but the answer is lost: a 408, 429, 500, 503 or 504 is sent
\* again, anything else ends the call; the deletion before a registration
\* is not looked at.
ServeLost(p, again) ==
  /\ Requesting(p) /\ counts.faults < MaxFaults /\ disturbed' = TRUE
  /\ \E token \in Tokens(p) :
       /\ live' = Effect(p, token)
       /\ counts' = [counts EXCEPT !.faults = @ + 1, !.tokens = IF token > @ THEN token ELSE @]
  /\ goes(p, IF again THEN calls[p] ELSE IF At(p, "deleting") /\ calls[p].op = "get" THEN [calls[p] EXCEPT !.pc = "checking"] ELSE Idle)
  /\ UNCHANGED <<store, cache, opened, channel, installed, browser>>

\* Past these, FCM and the store disagree until the call is done.
Committed(p) == \E pc \in {"checking", "erasing", "erased", "putting", "announcing"} : At(p, pc)

\* An await fails, or FCM refuses, and the call returns the error; a refused
\* deletion before a registration is not looked at.
Fail(p) ==
  /\ ~At(p, "idle") /\ ~At(p, "announcing") /\ ~At(p, "erased") /\ counts.faults < MaxFaults /\ count("faults")
  /\ LET ignored == At(p, "deleting") /\ calls[p].op = "get"
     IN /\ goes(p, IF ignored THEN [calls[p] EXCEPT !.pc = "checking"] ELSE Idle)
        /\ disturbed' = (disturbed \/ Committed(p) \/ ignored)
  /\ UNCHANGED <<store, cache, opened, channel, installed, live, browser>>

\* The page is closed or loaded again.
Reload(p) ==
  /\ p \in opened /\ counts.faults < MaxFaults /\ count("faults")
  /\ cache' = [cache EXCEPT ![p] = NotCached] /\ opened' = opened \ {p} /\ channel' = [channel EXCEPT ![p] = <<>>]
  /\ goes(p, Idle) /\ disturbed' = (disturbed \/ Committed(p))
  /\ UNCHANGED <<store, installed, live, browser>>

(***************************************************************************)
(* Native, and the rest                                                    *)
(***************************************************************************)
\* get_token_native: the store is read, and written, under its lock.
GetTokenNative(p, key) ==
  /\ platform = "native" /\ At(p, "idle") /\ key # "blank" /\ counts.calls < MaxCalls /\ count("calls")
  /\ goes(p, IF store # None /\ ~is_expired(store, now) THEN Idle ELSE [Idle EXCEPT !.pc = "generating"])
  /\ UNCHANGED <<store, cache, opened, channel, installed, live, disturbed, browser>>

GenerateToken(p) ==
  /\ At(p, "generating") /\ count("tokens")
  /\ store' = [None EXCEPT !.token = counts.tokens + 1, !.created = now, !.expires = MaxNow + 1]
  /\ goes(p, Idle)
  /\ UNCHANGED <<cache, opened, channel, installed, live, disturbed, browser>>

DeleteTokenNative ==
  /\ platform = "native" /\ store # None /\ store' = None
  /\ UNCHANGED <<cache, opened, channel, installed, live, calls, counts, disturbed, browser>>

\* current_timestamp_ms
Tick ==
  /\ now < MaxNow /\ now' = now + 1
  /\ UNCHANGED <<platform, store, cache, opened, channel, subscription, permission, installed, live, calls, counts, disturbed>>

Next ==
  \/ \E p \in Pages :
       \/ \E op \in {"get", "delete"}, key \in Keys : (op = "delete" => key = "default") /\ Begin(p, op, key)
       \/ Deliver(p) \/ ReadCached(p) \/ ReadStored(p) \/ Cache(p) \/ Put(p) \/ Announce(p)
       \/ Check(p) \/ Erase(p) \/ Erased(p) \/ Worker(p) \/ Subscribe(p) \/ Create(p) \/ CreateDenied(p) \/ Unsubscribe(p)
       \/ Install(p) \/ Serve(p) \/ Fail(p) \/ Reload(p) \/ GenerateToken(p)
       \/ \E again \in BOOLEAN : ServeLost(p, again)
       \/ \E key \in Keys : GetTokenNative(p, key)
  \/ \E answer \in {"granted", "denied"} : RequestPermission(answer)
  \/ DeleteTokenNative \/ Dropped \/ Tick

Spec == Init /\ [][Next]_messagingVars
-----------------------------------------------------------------------------
\* Between calls, and with all broadcasts in, FCM has just the registration the
\* browser keeps, for the subscription it was made with, and every page knows
\* of it: unless calls overlapped, or one failed after FCM had done its part.
OneRegistration ==
  platform = "web" /\ Quiet /\ ~disturbed =>
    /\ live = IF store = None THEN {} ELSE {[token |-> store.token, sub |-> store.sub, key |-> store.key]}
    /\ \A p \in Pages : cache[p] \in {NotCached, store}
=============================================================================
