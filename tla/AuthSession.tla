----------------------------- MODULE AuthSession -----------------------------
(***************************************************************************)
(* The session of one Auth instance (firebase-auth, api/core/mod.rs): the  *)
(* current user, its tokens, the persisted session and its cached copy,    *)
(* the auth-state listeners and the scheduled token refresh.               *)
(*                                                                         *)
(* A step is what a task does between two awaits: a call awaits its REST   *)
(* answer, and everything that the answer causes runs without suspending,  *)
(* as it does on a single-threaded runtime.  Answers arrive in any order.  *)
(* Users are objects: each sign-in and each profile update makes a new one *)
(* and calls in progress keep the one they began with.  ID token, refresh  *)
(* token and expiry are one token number; 0 stands for none.               *)
(***************************************************************************)
EXTENDS Naturals, Sequences, FiniteSets

CONSTANTS
    Uids,           \* accounts
    None,           \* no user, no session, nobody notified
    Kinds,          \* the asynchronous calls made, a subset of AllKinds
    MaxCalls,       \* calls begun
    MaxTokens,      \* tokens minted by the backend
    MaxFaults       \* restarts, writes of another instance to the store and failed
                    \* writes of this one, together

AllKinds == {"sign_in", "reauth", "refresh", "update", "reload", "delete", "restore"}

ASSUME AuthAssumption ==
    /\ Kinds \subseteq AllKinds
    /\ {MaxCalls, MaxTokens, MaxFaults} \subseteq Nat
    /\ None \notin Uids /\ None \notin [uid : Uids, token : Nat]

VARIABLES
    auth,       \* the Auth instance and its store, see Fresh
    calls,      \* calls awaiting their answer: id, kind, user, token sent, account
    count,      \* how often each bounded thing happened
    past        \* history: which disorders happened

vars == <<auth, calls, count, past>>

(***************************************************************************)
(* A persisted session is the uid and token of a user.  `timers` are the   *)
(* scheduled refreshes neither fired nor cancelled, `slot` the one whose   *)
(* cancel flag refresh_cancel holds (0: none, or one that is over), `told` *)
(* last_notified_uid (<<>> before the first notification).                 *)
(***************************************************************************)
Fresh(store) ==
    [users |-> <<>>, current |-> 0, cache |-> None, store |-> store,
     timers |-> {}, slot |-> 0, told |-> <<>>]

UidOf(a, u) == IF u = 0 THEN None ELSE a.users[u].uid
StateOf(a, u) ==
    IF u = 0 \/ a.users[u].token = 0 THEN None
    ELSE [uid |-> a.users[u].uid, token |-> a.users[u].token]

----------------------------------------------------------------------------
(* What the synchronous parts of Auth do to the instance *)

RemoveTimer(a, id) ==
    [a EXCEPT !.timers = {t \in @ : t.id # id}, !.slot = IF @ = id THEN 0 ELSE @]

\* The flag of the cancelled timer stays in refresh_cancel.
cancel_scheduled_refresh_KeepsFlag(a) == [RemoveTimer(a, a.slot) EXCEPT !.slot = a.slot]

cancel_scheduled_refresh(a) == RemoveTimer(a, a.slot)

\* A timer with an id that no pending one has.
AddTimer(a, u) ==
    LET id == CHOOSE i \in 1 .. Cardinality(a.timers) + 1 : \A t \in a.timers : t.id # i
    IN  [a EXCEPT !.timers = @ \cup {[id |-> id, user |-> u]}, !.slot = id]

\* The old timer's cancel flag is replaced and not set.
schedule_refresh_Uncancelled(a, u) ==
    IF a.users[u].token = 0 THEN a ELSE AddTimer(a, u)

\* Without an expiry there is nothing to schedule.
schedule_refresh(a, u) ==
    LET c == cancel_scheduled_refresh(a)
    IN  IF a.users[u].token = 0 THEN c ELSE AddTimer(c, u)

\* AuthStateListeners::notify calls the observers when the uid changed.
notify(a, uid) == [a EXCEPT !.told = <<uid>>]

NeedsWrite(a, s) == a.cache # s

\* The cached copy is taken for the store.
set_persisted_state_CacheOnly(a, s) == [a EXCEPT !.cache = s]

set_persisted_state(a, s) ==
    IF NeedsWrite(a, s) THEN [a EXCEPT !.cache = s, !.store = s] ELSE a

\* save_persisted_state, then the next refresh.
after_token_update(a, u) ==
    schedule_refresh(set_persisted_state(a, StateOf(a, u)), u)

\* The scheduled refresh is left alone.
clear_local_user_state_KeepsTimer(a) ==
    IF a.current = 0 THEN a
    ELSE [a EXCEPT !.users[a.current].token = 0, !.current = 0]

\* The tokens of the user that was current are cleared, not those of others.
clear_local_user_state(a) ==
    LET c == cancel_scheduled_refresh(a)
    IN  IF c.current = 0 THEN c
        ELSE [c EXCEPT !.users[c.current].token = 0, !.current = 0]

sign_out(a, fails) ==
    LET c == clear_local_user_state(a)
    IN  notify(IF fails THEN c ELSE set_persisted_state(c, None), None)

\* A new user object with these tokens becomes current.
Adopt(a, uid, token) ==
    [a EXCEPT !.users = Append(@, [uid |-> uid, token |-> token]),
              !.current = Len(a.users) + 1]

UpdateTokens(a, u, token) == [a EXCEPT !.users[u].token = token]

\* The listeners are not told.
Settle_Unpublished(a, u, publish, fails) ==
    IF fails THEN a ELSE after_token_update(a, u)

\* after_token_update and what follows it; a failed write ends the call before both.
Settle(a, u, publish, fails) ==
    IF fails THEN a
    ELSE LET b == after_token_update(a, u)
         IN  IF publish THEN notify(b, UidOf(b, u)) ELSE b

\* The store changed under the instance, or is read at startup.
sync_from_persistence(a, s) ==
    IF a.cache = s THEN a
    ELSE LET b == IF s = None THEN notify(clear_local_user_state(a), None)
                  ELSE LET n == Adopt(a, s.uid, s.token)
                       IN  notify(schedule_refresh(n, n.current), s.uid)
         IN  [b EXCEPT !.cache = s]

----------------------------------------------------------------------------
(* Calls and their answers *)

Init ==
    /\ auth = Fresh(None)
    /\ calls = {}
    /\ count = [calls |-> 0, tokens |-> 0, faults |-> 0]
    /\ past = [stale |-> FALSE, failed |-> FALSE, mismatch |-> FALSE]

\* The calls that need no signed-in user.
SignsIn(c) == c.kind \in {"sign_in", "reauth"}

\* A task calls an asynchronous method.  All but the sign-ins need a current user
\* with tokens.  An ID token that has expired is refreshed before the call proper:
\* a refresh call of its own does the same.
Begin ==
    /\ count.calls < MaxCalls
    /\ \E kind \in Kinds, uid \in Uids :
          /\ \/ kind \in {"sign_in", "reauth"}
             \/ StateOf(auth, auth.current) # None /\ uid = UidOf(auth, auth.current)
          /\ calls' = calls \cup {[id |-> count.calls + 1, kind |-> kind, uid |-> uid,
                                   user |-> auth.current]}
    /\ count' = [count EXCEPT !.calls = @ + 1]
    /\ UNCHANGED <<auth, past>>

\* The next token the backend will issue.
Mint == count.tokens + 1
CanMint == count.tokens < MaxTokens

\* A scheduled refresh wakes; a cancelled one returns at once.
TimerFires ==
    /\ \E t \in auth.timers :
          /\ auth' = RemoveTimer(auth, t.id)
          /\ calls' = IF auth.users[t.user].token = 0 THEN calls
                      ELSE calls \cup {[id |-> MaxCalls + Mint, kind |-> "refresh", user |-> t.user,
                                        uid |-> UidOf(auth, t.user)]}
    /\ UNCHANGED <<count, past>>

Done(c) == calls' = calls \ {c}

\* The store may fail to take s, if there is something to write.
MayFail(a, s, fails) == fails => NeedsWrite(a, s) /\ count.faults < MaxFaults

Count(minted, fails) ==
    count' = [count EXCEPT !.tokens = @ + (IF minted THEN 1 ELSE 0),
                           !.faults = @ + (IF fails THEN 1 ELSE 0)]

\* The answer to c was for a user that is not the current one any more.
Stale(c) == ~SignsIn(c) /\ c.user # auth.current

Record(c, fails, mismatch) ==
    past' = [stale    |-> past.stale \/ Stale(c),
             failed   |-> past.failed \/ fails,
             mismatch |-> past.mismatch \/ mismatch]

\* finalize_sign_in, upsert_user_from_idp_response and the like.
SignedIn(c) ==
    /\ c.kind = "sign_in" /\ CanMint /\ Done(c)
    /\ \E fails \in BOOLEAN :
          LET n == Adopt(auth, c.uid, Mint)
          IN  /\ MayFail(n, StateOf(n, n.current), fails)
              /\ auth' = Settle(n, n.current, TRUE, fails)
              /\ Count(TRUE, fails)
              /\ Record(c, fails, FALSE)

\* apply_password_reauth: whoever the password belongs to becomes current, unpublished.
Reauthenticated(c) ==
    /\ c.kind = "reauth" /\ CanMint /\ Done(c)
    /\ \E fails \in BOOLEAN :
          LET n == Adopt(auth, c.uid, Mint)
          IN  /\ MayFail(n, StateOf(n, n.current), fails)
              /\ auth' = Settle(n, n.current, FALSE, fails)
              /\ Count(TRUE, fails)
              /\ Record(c, fails, c.uid # UidOf(auth, auth.current))

\* refresh_user_token: the user the call began with gets the token.
\* restore_session goes on to reload whoever is current now.
Refreshed(c) ==
    /\ c.kind \in {"refresh", "restore"} /\ CanMint
    /\ \E fails \in BOOLEAN :
          LET n == UpdateTokens(auth, c.user, Mint)
          IN  /\ calls' = (calls \ {c}) \cup
                     (IF c.kind = "refresh" \/ fails \/ auth.current = 0 THEN {}
                      ELSE {[c EXCEPT !.kind = "restored", !.user = auth.current,
                                      !.uid = UidOf(auth, auth.current)]})
              /\ MayFail(n, StateOf(n, c.user), fails)
              /\ auth' = Settle(n, c.user, TRUE, fails)
              /\ Count(TRUE, fails)
              /\ Record(c, fails, FALSE)

\* apply_account_update: a new user object replaces the current one; its tokens
\* are new ones (email, password) or those its predecessor has by now.
AccountUpdated(c) ==
    /\ c.kind = "update" /\ Done(c)
    /\ \E fails \in BOOLEAN, token \in {auth.users[c.user].token, Mint} :
          LET n == Adopt(auth, c.uid, token)
          IN  /\ token <= MaxTokens
              /\ MayFail(n, StateOf(n, n.current), fails)
              /\ auth' = Settle(n, n.current, TRUE, fails)
              /\ Count(token = Mint, fails)
              /\ Record(c, fails, FALSE)

\* reload: the profile is replaced; only the ID-token listeners hear of it.
Reloaded(c) ==
    /\ c.kind \in {"reload", "restored"} /\ Done(c)
    /\ \E fails \in BOOLEAN :
          LET n == Adopt(auth, c.uid, auth.users[c.user].token)
          IN  /\ MayFail(n, StateOf(n, n.current), fails)
              /\ auth' = Settle(n, n.current, FALSE, fails)
              /\ Count(FALSE, fails)
              /\ Record(c, fails, FALSE)

\* delete_user, and restore_session told that the session is dead, sign out.
Expelled(c) ==
    /\ c.kind \in {"delete", "restore", "restored"} /\ Done(c)
    /\ \E fails \in BOOLEAN :
          /\ MayFail(auth, None, fails)
          /\ auth' = sign_out(auth, fails)
          /\ Count(FALSE, fails)
          /\ Record(c, fails, FALSE)

\* The call ends with an error, or needed no answer (a token that still lasts).
Ended(c) == Done(c) /\ UNCHANGED <<auth, count, past>>

\* sign_out is synchronous.
SignOut ==
    /\ \E fails \in BOOLEAN :
          /\ MayFail(auth, None, fails)
          /\ auth' = sign_out(auth, fails)
          /\ Count(FALSE, fails)
          /\ past' = [past EXCEPT !.failed = @ \/ fails]
    /\ UNCHANGED calls

\* Another instance with the same store signs out or in; this one's listener runs.
PeerWrites ==
    /\ count.faults < MaxFaults
    /\ \E s \in {None} \cup [uid : Uids, token : IF CanMint THEN {Mint} ELSE {}] :
          /\ s # auth.store
          /\ auth' = sync_from_persistence([auth EXCEPT !.store = s], s)
          /\ Count(s # None, TRUE)
    /\ UNCHANGED <<calls, past>>

\* The process restarts and initialize restores the session.
Restart ==
    /\ count.faults < MaxFaults
    /\ auth' = sync_from_persistence(Fresh(auth.store), auth.store)
    /\ calls' = {}
    /\ Count(FALSE, TRUE)
    /\ UNCHANGED past

Answer(c) ==
    \/ SignedIn(c) \/ Reauthenticated(c) \/ Refreshed(c) \/ AccountUpdated(c)
    \/ Reloaded(c) \/ Expelled(c) \/ Ended(c)

Next ==
    \/ Begin
    \/ \E c \in calls : Answer(c)
    \/ TimerFires \/ SignOut \/ PeerWrites \/ Restart

Spec == Init /\ [][Next]_vars

----------------------------------------------------------------------------
(* Properties *)

Tokens == 0 .. MaxTokens
Session == [uid : Uids, token : Tokens \ {0}] \cup {None}
Notified == {<<>>} \cup {<<u>> : u \in Uids \cup {None}}
Users == Seq([uid : Uids, token : Tokens])
Timers == SUBSET [id : Nat \ {0}, user : Nat \ {0}]
AuthRecord ==
    [users : Users, current : Nat, cache : Session, store : Session,
     timers : Timers, slot : Nat, told : Notified]
CallRecord == [id : Nat, kind : AllKinds \cup {"restored"}, uid : Uids, user : Nat]

\* The instance, its calls and the counters keep their types: in particular the
\* current user, the timers and the calls refer to users that exist, and
\* refresh_cancel holds the flag of a pending refresh or nothing.
TypeOK ==
    /\ auth \in AuthRecord
    /\ auth.current <= Len(auth.users)
    /\ \A t \in auth.timers : t.user <= Len(auth.users)
    /\ auth.slot \in {0} \cup {t.id : t \in auth.timers}
    /\ calls \subseteq CallRecord
    /\ \A c \in calls : c.user <= Len(auth.users) /\ (c.user = 0 => SignsIn(c))
    /\ count \in [calls : 0 .. MaxCalls, tokens : Tokens, faults : 0 .. MaxFaults]
    /\ past \in [stale : BOOLEAN, failed : BOOLEAN, mismatch : BOOLEAN]

\* No answer was applied for a user that was no longer the current one, and no
\* write of the store failed.
Orderly == ~past.stale /\ ~past.failed

\* What is stored, and its cached copy, is the session of the current user with the
\* token it has now, through sign-ins, refreshes, profile updates, deletions, changes
\* by other instances and restarts: save_persisted_state is on every path.
SessionIsPersisted ==
    Orderly => auth.store = StateOf(auth, auth.current) /\ auth.cache = auth.store

\* The auth-state listeners were last told of the account that is current, however
\* calls, scheduled refreshes and peers interleave, unless reauthentication was given
\* another account's password: publish_user is on every path that changes the account.
ListenersFollow ==
    Orderly /\ ~past.mismatch =>
        auth.told = <<UidOf(auth, auth.current)>> \/ (auth.told = <<>> /\ auth.current = 0)

\* At most one scheduled refresh is pending, in every execution, stale answers and
\* failed writes included: schedule_refresh_for_user cancels the one before it.
OneLiveTimer == Cardinality(auth.timers) <= 1

\* A pending refresh is for the current user: none is left behind by a sign-out,
\* a change of account or a profile update.
TimersServeTheCurrentUser ==
    Orderly => \A t \in auth.timers : t.user = auth.current

\* refresh_cancel is the flag of the only pending refresh, and a call answered for a
\* user knows that user's account: what OneLiveTimer and ListenersFollow rest on.
OneTimer(a) ==
    \/ a.timers = {} /\ a.slot = 0
    \/ \E t \in a.timers : a.timers = {t} /\ a.slot = t.id

CallsKnowTheirUser ==
    \A c \in calls : ~SignsIn(c) => auth.users[c.user].uid = c.uid

\* The inductive invariant behind the four properties above.
SessionInv ==
    /\ TypeOK /\ OneTimer(auth) /\ CallsKnowTheirUser
    /\ SessionIsPersisted /\ ListenersFollow /\ TimersServeTheCurrentUser

\* Once the stored session is gone only an answer to a sign-in stores one again:
\* sign_out "clears persisted credentials" (api/core/mod.rs:309) for good, whatever
\* answers arrive after it.
SignedOutIsForgotten ==
    [][auth.store = None /\ auth.store' # None => \E c \in calls \ calls' : SignsIn(c)]_vars

=============================================================================
