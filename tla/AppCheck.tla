------------------------------ MODULE AppCheck ------------------------------
(***************************************************************************)
(* One App Check instance: the token cache (state.rs), get_token and its   *)
(* exchanges (api.rs, providers.rs), and the proactive refresher           *)
(* (refresher.rs).  Threads are the callers and the loops that refreshers    *)
(* spawn; a step is what a task does between two locks, atomic operations  *)
(* or awaits, because the runtime is multi-threaded.                       *)
(*                                                                         *)
(* Time is counted in units of TOKEN_REFRESH_OFFSET and kept as what is    *)
(* left of each duration, which Tick lowers.  A token is the life it has   *)
(* left, 0 when expired.  The attestation backend is external.             *)
(***************************************************************************)
EXTENDS Integers, FiniteSets

CONSTANTS Callers,      \* tasks of the application
          Loops,        \* bound: loops alive at once
          Refreshers,   \* bound: refreshers ever made
          Ttl,          \* lifetime of an exchanged token
          Offset,       \* TOKEN_REFRESH_OFFSET
          MinWait, MaxWait,  \* TOKEN_RETRY_MIN_WAIT, TOKEN_RETRY_MAX_WAIT
          OneDay,       \* how long 403 and 404 block
          MaxCalls      \* bound: calls of the application

VARIABLES st,        \* AppCheckState, and whether REGISTRY has the entry
          refs,      \* RefresherInner of every refresher made
          jobs,      \* what each task is doing
          throttle,  \* ThrottleData: what is left until allow_requests_after
          calls,     \* calls made so far
          past       \* history for the properties

acVars == <<st, refs, jobs, throttle, calls, past>>

Threads == Callers \cup Loops
NoToken == -1
Tokens == NoToken .. Ttl
Idle == [pc |-> "idle", ref |-> 0, cached |-> NoToken, ok |-> TRUE, own |-> 0, left |-> 0]

ConstantsOK ==
  /\ Callers \cap Loops = {} /\ {Refreshers, MinWait, MaxWait, MaxCalls} \subseteq Nat
  /\ {Ttl, Offset, OneDay} \subseteq Nat \ {0} /\ MinWait <= MaxWait

\* AppCheckToken::is_expired
is_expired(token) == token <= 0

TypeOK ==
  /\ st \in [listed : BOOLEAN, activated : BOOLEAN, auto : BOOLEAN, token : Tokens,
             refresher : 0 .. Refreshers]
  /\ refs \in [1 .. Refreshers -> [made : BOOLEAN, running : BOOLEAN, cancel : BOOLEAN, wait : MinWait .. MaxWait]]
  /\ jobs \in [Threads -> [pc : {"idle", "activating", "exchanging", "limited", "reading", "ensuring", "starting",
                               "resetting", "clearing", "top", "sleeping"},
                         ref : 0 .. Refreshers, cached : Tokens, ok : BOOLEAN, own : 0 .. Refreshers,
                         left : 0 .. (Ttl + MaxWait)]]
  /\ throttle \in 0 .. OneDay
  /\ calls \in 0 .. MaxCalls
  /\ past \in [raced : BOOLEAN, stale : BOOLEAN, blocked : 0 .. OneDay, ignored : BOOLEAN]

Init ==
  /\ st = [listed |-> FALSE, activated |-> FALSE, auto |-> FALSE, token |-> NoToken, refresher |-> 0]
  /\ refs = [r \in 1 .. Refreshers |-> [made |-> FALSE, running |-> FALSE, cancel |-> FALSE, wait |-> MinWait]]
  /\ jobs = [t \in Threads |-> Idle]
  /\ throttle = 0
  /\ calls = 0
  /\ past = [raced |-> FALSE, stale |-> FALSE, blocked |-> 0, ignored |-> FALSE]

Less(n) == IF n > 0 THEN n - 1 ELSE n

Tick ==
  /\ st' = [st EXCEPT !.token = Less(@)]
  /\ jobs' = [t \in Threads |-> [jobs[t] EXCEPT !.cached = Less(@), !.left = Less(@)]]
  /\ throttle' = Less(throttle)
  /\ past' = [past EXCEPT !.blocked = Less(@)]
  /\ UNCHANGED <<refs, calls>>

At(t, pc) == jobs[t].pc = pc
goes(t, job) == jobs' = [jobs EXCEPT ![t] = job]

\* A call of the application begins.
call(t) == t \in Callers /\ At(t, "idle") /\ calls < MaxCalls /\ calls' = calls + 1

\* A caller returns, a loop turns.
finish(t, ok) == IF t \in Loops THEN [Idle EXCEPT !.pc = "top", !.own = jobs[t].own, !.ok = ok] ELSE Idle

\* Threads between the look at the switch and the start of the refresher.
Starting == {t \in Threads : jobs[t].pc \in {"ensuring", "starting", "resetting"}}

(***************************************************************************)
(* initialize_app_check                                                    *)
(***************************************************************************)
\* The look in REGISTRY: a second call has no effect, Ok or AlreadyInitialized.
InitializeLook(t, auto) ==
  /\ call(t)
  /\ IF st.listed THEN UNCHANGED jobs
     ELSE goes(t, [Idle EXCEPT !.pc = "activating", !.ok = auto])
  /\ UNCHANGED <<st, refs, throttle, past>>

\* ensure_activation: activated already, only by the same switch.
ensure_activation(auto) ==
  /\ st.activated => st.auto = auto
  /\ st' = [st EXCEPT !.listed = TRUE, !.activated = TRUE, !.auto = auto]

\* It may fail after another task's; then the entry, the components and the
\* refresher.
InitializeActivate(t) ==
  /\ At(t, "activating")
  /\ \/ /\ st.activated   \* another provider, or the other switch
        /\ goes(t, Idle) /\ UNCHANGED st
     \/ /\ ensure_activation(jobs[t].ok)
        /\ goes(t, IF jobs[t].ok THEN [Idle EXCEPT !.pc = "reading"] ELSE Idle)
  /\ UNCHANGED <<refs, throttle, calls, past>>

(***************************************************************************)
(* The provider.                                                           *)
(***************************************************************************)
\* What may be left until allow_requests_after.  Other statuses back off for
\* a second and its doubles, of which a unit of time at most is left.
set_backoff(forbidden) == IF forbidden THEN {OneDay} ELSE {0, 1}

\* throw_if_throttled
Throttled == throttle > 0

\* The request is sent.
exchanges(t, pc) ==
  /\ goes(t, [jobs[t] EXCEPT !.pc = pc, !.cached = IF pc = "limited" THEN NoToken ELSE st.token])
  /\ past' = [past EXCEPT !.ignored = @ \/ past.blocked > 0]

Exchanging == {t \in Threads : jobs[t].pc \in {"exchanging", "limited"}}

\* An error status backs off, a network error does not.  `blocked` remembers
\* a refusal no other exchange was under way to replace.
backsOff(t, stale) ==
  \/ UNCHANGED throttle /\ past' = [past EXCEPT !.stale = @ \/ stale]
  \/ \E forbidden \in BOOLEAN :
       /\ throttle' \in set_backoff(forbidden)
       /\ past' = [past EXCEPT !.stale = @ \/ stale,
                               !.blocked = IF forbidden /\ Exchanging = {t} THEN OneDay ELSE 0]

(***************************************************************************)
(* get_token                                                               *)
(***************************************************************************)
\* What of the token read before the exchange may still serve.
usable_cached(cached) == IF is_expired(cached) THEN NoToken ELSE cached

\* A caller, not a loop, is handed an expired token.
HandsOutStale(t, token) == t \in Callers /\ token # NoToken /\ is_expired(token)

\* Everything get_token does before it awaits the exchange.
get_token(t, force_refresh) ==
  IF ~force_refresh /\ ~is_expired(st.token)
  THEN goes(t, finish(t, TRUE)) /\ UNCHANGED past
  ELSE IF Throttled
  THEN /\ goes(t, finish(t, FALSE))
       /\ past' = [past EXCEPT !.stale = @ \/ HandsOutStale(t, usable_cached(st.token))]
  ELSE exchanges(t, "exchanging")

\* Called directly or by AppCheckTokenProvider, which forces a refresh after
\* invalidate_token.
GetToken(t, force_refresh) ==
  /\ call(t) /\ st.activated
  /\ get_token(t, force_refresh)
  /\ UNCHANGED <<st, refs, throttle>>

store_token == st' = [st EXCEPT !.token = Ttl]

\* The throttle is cleared, the cache replaced, and on_token_stored goes on to
\* the refresher.
ExchangeSucceeds(t) ==
  /\ At(t, "exchanging")
  /\ throttle' = 0
  /\ store_token
  /\ goes(t, [jobs[t] EXCEPT !.pc = "reading", !.cached = NoToken])
  /\ UNCHANGED <<refs, calls, past>>

\* A fatal, soft or throttled error, with what is left of the cached token.
ExchangeFails(t) ==
  /\ At(t, "exchanging")
  /\ backsOff(t, HandsOutStale(t, usable_cached(jobs[t].cached)))
  /\ goes(t, finish(t, FALSE))
  /\ UNCHANGED <<st, refs, calls>>

\* get_limited_use_token asks the provider and leaves the cache alone.
GetLimitedUseToken(t) ==
  /\ call(t) /\ st.activated
  /\ IF Throttled THEN UNCHANGED <<jobs, past>> ELSE exchanges(t, "limited")
  /\ UNCHANGED <<st, refs, throttle>>

LimitedReturns(t) ==
  /\ At(t, "limited")
  /\ goes(t, Idle)
  /\ (throttle' = 0 /\ UNCHANGED past) \/ backsOff(t, FALSE)
  /\ UNCHANGED <<st, refs, calls>>

\* add_token_listener starts the refresher when enabled.
AddTokenListener(t) ==
  /\ call(t) /\ st.activated
  /\ goes(t, IF st.auto THEN [Idle EXCEPT !.pc = "reading"] ELSE Idle)
  /\ UNCHANGED <<st, refs, throttle, past>>

(***************************************************************************)
(* maybe_start_refresher and Refresher::start                              *)
(***************************************************************************)
\* The look at the switch ...
ReadSwitch(t) ==
  /\ At(t, "reading")
  /\ goes(t, IF st.auto THEN [jobs[t] EXCEPT !.pc = "ensuring"] ELSE finish(t, TRUE))
  /\ UNCHANGED <<st, refs, throttle, calls, past>>

Fresh == CHOOSE r \in 1 .. Refreshers : ~refs[r].made

\* ... the refresher, made under the lock if there is none ...
EnsureRefresher(t) ==
  /\ At(t, "ensuring")
  /\ \/ /\ st.refresher # 0
        /\ goes(t, [jobs[t] EXCEPT !.pc = "starting", !.ref = st.refresher])
        /\ UNCHANGED <<st, refs>>
     \/ /\ st.refresher = 0 /\ \E r \in 1 .. Refreshers : ~refs[r].made
        /\ refs' = [refs EXCEPT ![Fresh].made = TRUE]
        /\ st' = [st EXCEPT !.refresher = Fresh]
        /\ goes(t, [jobs[t] EXCEPT !.pc = "starting", !.ref = Fresh])
  /\ UNCHANGED <<throttle, calls, past>>

\* Mutant of StartRefresher: `running` is set without being compared.
StartRefresher_Unconditional(t) ==
  /\ At(t, "starting")
  /\ refs' = [refs EXCEPT ![jobs[t].ref].running = TRUE]
  /\ goes(t, [jobs[t] EXCEPT !.pc = "resetting"])
  /\ UNCHANGED <<st, throttle, calls, past>>

\* ... `running` compared and set ...
StartRefresher(t) ==
  /\ At(t, "starting")
  /\ IF refs[jobs[t].ref].running
     THEN goes(t, finish(t, TRUE)) /\ UNCHANGED refs
     ELSE /\ refs' = [refs EXCEPT ![jobs[t].ref].running = TRUE]
          /\ goes(t, [jobs[t] EXCEPT !.pc = "resetting"])
  /\ UNCHANGED <<st, throttle, calls, past>>

\* ... then the wait and the cancellation are reset and the loop is spawned.
SpawnLoop(t) ==
  /\ At(t, "resetting")
  /\ \E l \in Loops :
       /\ At(l, "idle")
       /\ refs' = [refs EXCEPT ![jobs[t].ref].wait = MinWait, ![jobs[t].ref].cancel = FALSE]
       /\ jobs' = [jobs EXCEPT ![t] = finish(t, TRUE), ![l] = [Idle EXCEPT !.pc = "top", !.own = jobs[t].ref]]
  /\ UNCHANGED <<st, throttle, calls, past>>

(***************************************************************************)
(* run_loop                                                                *)
(***************************************************************************)
\* Half the lifetime plus the offset after issue, but the offset before expiry.
compute_refresh_delay(token) ==
  LET mid == Ttl \div 2 + Offset - (Ttl - token)
      latest == token - Offset
      target == IF mid <= latest THEN mid ELSE latest
  IN IF token = NoToken \/ target < 0 THEN 0 ELSE target

\* What this turn waits, and what the next failure will wait.
next_wait(r, succeeded) == IF succeeded THEN compute_refresh_delay(st.token) ELSE refs[r].wait
next_error_wait(r, succeeded) ==
  IF succeeded THEN MinWait ELSE IF 2 * refs[r].wait > MaxWait THEN MaxWait ELSE 2 * refs[r].wait

\* The end of run_loop, whoever runs on the refresher by now.
ends(l) ==
  /\ refs' = [refs EXCEPT ![jobs[l].own].running = FALSE, ![jobs[l].own].cancel = FALSE]
  /\ goes(l, Idle)

\* Look at the cancellation, choose the wait, sleep.
LoopTop(l) ==
  /\ l \in Loops /\ At(l, "top")
  /\ LET r == jobs[l].own
     IN IF refs[r].cancel THEN ends(l)
        ELSE /\ refs' = [refs EXCEPT ![r].wait = next_error_wait(r, jobs[l].ok)]
             /\ goes(l, [jobs[l] EXCEPT !.pc = "sleeping", !.left = next_wait(r, jobs[l].ok)])
  /\ UNCHANGED <<st, throttle, calls, past>>

\* Awake: look at the cancellation again, then the operation.
LoopWakes(l) ==
  /\ l \in Loops /\ At(l, "sleeping") /\ jobs[l].left = 0
  /\ IF refs[jobs[l].own].cancel
     THEN ends(l) /\ UNCHANGED past
     ELSE get_token(l, st.token # NoToken) /\ UNCHANGED refs
  /\ UNCHANGED <<st, throttle, calls>>

(***************************************************************************)
(* set_token_auto_refresh_enabled                                          *)
(***************************************************************************)
\* The switch first ...
SetAutoRefresh(t, enabled) ==
  /\ call(t) /\ st.activated
  /\ st' = [st EXCEPT !.auto = enabled]
  /\ goes(t, [Idle EXCEPT !.pc = IF enabled THEN "reading" ELSE "clearing"])
  /\ past' = [past EXCEPT !.raced = @ \/ (~enabled /\ Starting # {}) \/ \E u \in Threads : At(u, "clearing")]
  /\ UNCHANGED <<refs, throttle>>

\* ... then clear_token_refresher stops the loop, under the lock.
ClearRefresher(t) ==
  /\ At(t, "clearing")
  /\ refs' = IF st.refresher = 0 THEN refs
             ELSE [refs EXCEPT ![st.refresher].cancel = TRUE, ![st.refresher].running = FALSE]
  /\ st' = [st EXCEPT !.refresher = 0]
  /\ goes(t, Idle)
  /\ UNCHANGED <<throttle, calls, past>>

CallerBegins(t) ==
  \/ \E flag \in BOOLEAN : InitializeLook(t, flag) \/ GetToken(t, flag) \/ SetAutoRefresh(t, flag)
  \/ GetLimitedUseToken(t) \/ AddTokenListener(t)

TaskGoesOn(t) ==
  \/ InitializeActivate(t) \/ ExchangeSucceeds(t) \/ ExchangeFails(t) \/ LimitedReturns(t)
  \/ ReadSwitch(t) \/ EnsureRefresher(t) \/ StartRefresher(t) \/ SpawnLoop(t)
  \/ ClearRefresher(t) \/ LoopTop(t) \/ LoopWakes(t)

Next == Tick \/ \E t \in Threads : CallerBegins(t) \/ TaskGoesOn(t)

Spec == Init /\ [][Next]_acVars
-----------------------------------------------------------------------------
Live == {l \in Loops : ~At(l, "idle") /\ ~refs[jobs[l].own].cancel}

\* The doc of set_token_auto_refresh_enabled: disabling stops the background
\* task.  Unless a switch overlaps a start or another switch, one loop at most
\* goes on, and none once refresh is disabled.
LoopsFollowTheSwitch ==
  ~past.raced =>
    /\ Cardinality(Live) <= 1
    /\ st.auto \/ Live = {} \/ \E t \in Callers : At(t, "clearing")

\* get_token never hands out an expired token, also beside an error that came
\* after a long exchange.
TokensHandedOutAreValid == ~past.stale

\* After a 403 or 404 no exchange is sent for a day, unless another one was
\* under way when it came.
ForbiddenIsRespected == ~past.ignored

\* A loop that sleeps after a success wakes before the cached token expires.
RefreshPrecedesExpiry ==
  \A l \in Loops : At(l, "sleeping") /\ jobs[l].ok /\ ~is_expired(st.token)
    => jobs[l].left < st.token
=============================================================================
