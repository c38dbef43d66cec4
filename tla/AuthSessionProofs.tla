-------------------------- MODULE AuthSessionProofs --------------------------
(***************************************************************************)
(* Proofs about AuthSession, for any accounts, kinds of calls and bounds:  *)
(* type correctness, at most one pending refresh, and, in every execution  *)
(* without a stale answer or a failed write, agreement of the store, the   *)
(* listeners and the pending refresh with the current user.                *)
(*                                                                         *)
(* The first part says what each synchronous part of Auth does to the      *)
(* instance; the second, one step per action, that SessionInv is kept.     *)
(* The third part is about OAuthRedirect, where redirects and popups end:   *)
(* each completes the request it was started for.                          *)
(* After it comes AppCheck: its refresh loops and the tokens it hands out. *)
(***************************************************************************)
EXTENDS AuthSession, Integers, FiniteSetTheorems, TLAPS

\* Redirects and popups, which end in a sign-in or a link.
CONSTANTS Providers, Accounts, Pages, MaxRequests
VARIABLES handlers, pending, requests, arrived, pages, signedIn, exchanged
Redirect == INSTANCE OAuthRedirect WITH Users <- Accounts, calls <- pages, user <- signedIn, applied <- exchanged
-----------------------------------------------------------------------------
\* What the lemmas need of the instance, and the agreement they preserve.
Sound(a) ==
    /\ a \in AuthRecord /\ a.current <= Len(a.users) /\ OneTimer(a)
    /\ \A t \in a.timers : t.user <= Len(a.users)
Saved(a) == a.store = StateOf(a, a.current) /\ a.cache = a.store
Told(a) == a.told = <<UidOf(a, a.current)>> \/ (a.told = <<>> /\ a.current = 0)
Served(a) == \A t \in a.timers : t.user = a.current

\* What cancelling, scheduling and storing leave alone.
SameUsers(a, b) == b.users = a.users /\ b.current = a.current

\* Users are never removed and keep their account.
KeepsUids(a, b) ==
    /\ Len(a.users) <= Len(b.users)
    /\ \A i \in 1 .. Len(a.users) : b.users[i].uid = a.users[i].uid

-----------------------------------------------------------------------------
\* A user object is an account and a token.
LEMMA UserType ==
  ASSUME NEW a \in AuthRecord, NEW u \in 1 .. Len(a.users)
  PROVE  /\ a.users \in Users /\ Len(a.users) \in Nat
         /\ a.users[u] \in [uid : Uids, token : Tokens]
<1>1. ASSUME NEW S, NEW s \in Seq(S), NEW i \in 1 .. Len(s)
      PROVE  Len(s) \in Nat /\ s[i] \in S
  OBVIOUS
<1>2. a.users \in Users
  BY DEF AuthRecord
<1> QED BY <1>1, <1>2 DEF Users

\* The session to persist for a user is a session.
LEMMA StateType ==
  ASSUME NEW a \in AuthRecord, NEW u \in 0 .. Len(a.users)
  PROVE  StateOf(a, u) \in Session /\ UidOf(a, u) \in Uids \cup {None}
<1>1. u = 0 \/ u \in 1 .. Len(a.users)
  OBVIOUS
<1>2. CASE u = 0
  BY <1>2 DEF StateOf, UidOf, Session
<1>3. CASE u # 0
  <2>1. a.users[u] \in [uid : Uids, token : Tokens]
    BY <1>1, <1>3, UserType
  <2> QED BY <1>3, <2>1 DEF StateOf, UidOf, Session
<1> QED BY <1>2, <1>3

\* Removing the only pending refresh leaves none (cancel_scheduled_refresh, and
\* the spawned task when it wakes).
LEMMA RemovesTheTimer ==
  ASSUME NEW a, Sound(a), NEW id, id = a.slot
  PROVE  /\ RemoveTimer(a, id) \in AuthRecord
         /\ RemoveTimer(a, id).timers = {} /\ RemoveTimer(a, id).slot = 0
         /\ SameUsers(a, RemoveTimer(a, id))
         /\ RemoveTimer(a, id).store = a.store /\ RemoveTimer(a, id).cache = a.cache
         /\ RemoveTimer(a, id).told = a.told
<1> DEFINE r == RemoveTimer(a, id)
<1>1. {t \in a.timers : t.id # id} = {}
  BY DEF Sound, OneTimer
<1>2. r = [a EXCEPT !.timers = {}, !.slot = 0]
  BY <1>1 DEF RemoveTimer, Sound, AuthRecord
<1>3. {} \in Timers
  BY DEF Timers
<1> HIDE DEF r
<1>4. /\ r \in AuthRecord /\ r.timers = {} /\ r.slot = 0 /\ SameUsers(a, r)
      /\ r.store = a.store /\ r.cache = a.cache /\ r.told = a.told
  BY <1>2, <1>3 DEF Sound, AuthRecord, SameUsers
<1> QED BY <1>4 DEF r

\* With no refresh pending, the one that is added is the only one.
LEMMA AddsTheTimer ==
  ASSUME NEW a \in AuthRecord, a.timers = {}, NEW u \in 1 .. Len(a.users)
  PROVE  /\ AddTimer(a, u) \in AuthRecord
         /\ AddTimer(a, u).timers = {[id |-> 1, user |-> u]} /\ AddTimer(a, u).slot = 1
         /\ SameUsers(a, AddTimer(a, u))
         /\ AddTimer(a, u).store = a.store /\ AddTimer(a, u).cache = a.cache
         /\ AddTimer(a, u).told = a.told
<1>1. Cardinality(a.timers) = 0
  BY FS_EmptySet
<1>2. (CHOOSE i \in 1 .. Cardinality(a.timers) + 1 : \A t \in a.timers : t.id # i) = 1
  BY <1>1
<1>3. AddTimer(a, u) = [a EXCEPT !.timers = {[id |-> 1, user |-> u]}, !.slot = 1]
  BY <1>2 DEF AddTimer, AuthRecord
<1>4. {[id |-> 1, user |-> u]} \in Timers
  BY DEF Timers, AuthRecord, Users
<1> DEFINE r == AddTimer(a, u)
<1>r. r = [a EXCEPT !.timers = {[id |-> 1, user |-> u]}, !.slot = 1]
  BY <1>3
<1> HIDE DEF r
<1>5. /\ r \in AuthRecord /\ r.timers = {[id |-> 1, user |-> u]} /\ r.slot = 1
      /\ SameUsers(a, r) /\ r.store = a.store /\ r.cache = a.cache /\ r.told = a.told
  BY <1>r, <1>4 DEF AuthRecord, SameUsers
<1> QED BY <1>5 DEF r

\* schedule_refresh_for_user leaves at most the refresh of that user pending.
LEMMA Schedules ==
  ASSUME NEW a, Sound(a), NEW u \in 1 .. Len(a.users)
  PROVE  /\ Sound(schedule_refresh(a, u))
         /\ SameUsers(a, schedule_refresh(a, u))
         /\ schedule_refresh(a, u).store = a.store
         /\ schedule_refresh(a, u).cache = a.cache
         /\ schedule_refresh(a, u).told = a.told
         /\ \A t \in schedule_refresh(a, u).timers : t.user = u
<1> DEFINE c == cancel_scheduled_refresh(a)
           s == schedule_refresh(a, u)
<1>1. /\ c \in AuthRecord /\ c.timers = {} /\ c.slot = 0 /\ SameUsers(a, c)
      /\ c.store = a.store /\ c.cache = a.cache /\ c.told = a.told
  BY RemovesTheTimer DEF cancel_scheduled_refresh
<1>2. CASE a.users[u].token = 0
  <2>1. s = c
    BY <1>2 DEF schedule_refresh
  <2> QED BY <1>1, <2>1 DEF Sound, SameUsers, OneTimer
<1>3. CASE a.users[u].token # 0
  <2>1. s = AddTimer(c, u)
    BY <1>3 DEF schedule_refresh
  <2>2. /\ s \in AuthRecord /\ s.timers = {[id |-> 1, user |-> u]} /\ s.slot = 1
        /\ SameUsers(c, s) /\ s.store = c.store /\ s.cache = c.cache /\ s.told = c.told
    BY <1>1, <2>1, AddsTheTimer DEF SameUsers
  <2> QED BY <1>1, <2>2 DEF Sound, SameUsers, OneTimer
<1> QED BY <1>2, <1>3

\* set_persisted_state brings store and cache to the session, if they agreed.
LEMMA Persists ==
  ASSUME NEW a, Sound(a), NEW s \in Session
  PROVE  /\ Sound(set_persisted_state(a, s))
         /\ SameUsers(a, set_persisted_state(a, s))
         /\ set_persisted_state(a, s).told = a.told
         /\ set_persisted_state(a, s).timers = a.timers
         /\ a.cache = a.store =>
              set_persisted_state(a, s).store = s /\ set_persisted_state(a, s).cache = s
  BY DEF set_persisted_state, NeedsWrite, Sound, AuthRecord, SameUsers, OneTimer

\* after_token_update stores the session of the user and schedules its refresh.
LEMMA Updates ==
  ASSUME NEW a, Sound(a), NEW u \in 1 .. Len(a.users)
  PROVE  /\ Sound(after_token_update(a, u))
         /\ SameUsers(a, after_token_update(a, u))
         /\ after_token_update(a, u).told = a.told
         /\ \A t \in after_token_update(a, u).timers : t.user = u
         /\ a.cache = a.store =>
              /\ after_token_update(a, u).store = StateOf(a, u)
              /\ after_token_update(a, u).cache = StateOf(a, u)
<1> DEFINE p == set_persisted_state(a, StateOf(a, u))
<1>1. StateOf(a, u) \in Session
  BY StateType DEF Sound, AuthRecord
<1>2. /\ Sound(p) /\ SameUsers(a, p) /\ p.told = a.told
      /\ a.cache = a.store => p.store = StateOf(a, u) /\ p.cache = StateOf(a, u)
  BY <1>1, Persists
<1>3. u \in 1 .. Len(p.users)
  BY <1>2 DEF SameUsers
<1>4. after_token_update(a, u) = schedule_refresh(p, u)
  BY DEF after_token_update
<1> HIDE DEF p
<1> QED BY <1>2, <1>3, <1>4, Schedules DEF SameUsers

\* AuthStateListeners::notify changes what the listeners know and nothing else.
LEMMA Notifies ==
  ASSUME NEW a, Sound(a), NEW uid \in Uids \cup {None}
  PROVE  /\ Sound(notify(a, uid)) /\ SameUsers(a, notify(a, uid))
         /\ notify(a, uid).timers = a.timers /\ notify(a, uid).slot = a.slot
         /\ notify(a, uid).store = a.store /\ notify(a, uid).cache = a.cache
         /\ notify(a, uid).told = <<uid>>
<1>1. <<uid>> \in Notified
  BY DEF Notified
<1> QED BY <1>1 DEF notify, Sound, AuthRecord, SameUsers, OneTimer

\* Settle stores, schedules and, if asked to, publishes the user of the call; a
\* failed write leaves the instance as it was.
LEMMA Settles ==
  ASSUME NEW a, Sound(a), NEW u \in 1 .. Len(a.users),
         NEW publish \in BOOLEAN, NEW fails \in BOOLEAN
  PROVE  /\ Sound(Settle(a, u, publish, fails))
         /\ SameUsers(a, Settle(a, u, publish, fails))
         /\ ~fails /\ u = a.current =>
              /\ a.cache = a.store => Saved(Settle(a, u, publish, fails))
              /\ Served(Settle(a, u, publish, fails))
              /\ publish \/ a.told = <<UidOf(a, u)>> => Told(Settle(a, u, publish, fails))
<1>1. CASE fails
  BY <1>1 DEF Settle, SameUsers
<1>2. CASE ~fails
  <2> DEFINE b == after_token_update(a, u)
  <2>1. /\ Sound(b) /\ SameUsers(a, b) /\ b.told = a.told
        /\ \A t \in b.timers : t.user = u
        /\ a.cache = a.store => b.store = StateOf(a, u) /\ b.cache = StateOf(a, u)
    BY Updates
  <2>2. StateOf(b, u) = StateOf(a, u) /\ UidOf(b, u) = UidOf(a, u)
    BY <2>1 DEF SameUsers, StateOf, UidOf
  <2>3. CASE ~publish
    <3>1. Settle(a, u, publish, fails) = b
      BY <1>2, <2>3 DEF Settle
    <3> HIDE DEF b
    <3> QED BY <2>1, <2>2, <2>3, <3>1 DEF Saved, Served, Told, SameUsers
  <2>4. CASE publish
    <3> DEFINE n == notify(b, UidOf(b, u))
    <3>1. Settle(a, u, publish, fails) = n
      BY <1>2, <2>4 DEF Settle
    <3> HIDE DEF b
    <3>2. UidOf(b, u) \in Uids \cup {None}
      BY <2>1, StateType DEF Sound, SameUsers
    <3>3. /\ Sound(n) /\ SameUsers(b, n) /\ n.timers = b.timers
          /\ n.store = b.store /\ n.cache = b.cache /\ n.told = <<UidOf(b, u)>>
      BY <2>1, <3>2, Notifies
    <3>4. StateOf(n, u) = StateOf(b, u) /\ UidOf(n, u) = UidOf(b, u)
      BY <3>3 DEF SameUsers, StateOf, UidOf
    <3> HIDE DEF n
    <3> QED BY <2>1, <2>2, <3>1, <3>3, <3>4 DEF Saved, Served, Told, SameUsers
  <2> QED BY <2>3, <2>4
<1> QED BY <1>1, <1>2

\* A new user object becomes current; the others stay as they are.
LEMMA Adopts ==
  ASSUME NEW a, Sound(a), NEW uid \in Uids, NEW token \in Tokens
  PROVE  LET n == Adopt(a, uid, token) IN
         /\ Sound(n) /\ KeepsUids(a, n)
         /\ n.current \in 1 .. Len(n.users)
         /\ n.users[n.current] = [uid |-> uid, token |-> token]
         /\ n.store = a.store /\ n.cache = a.cache /\ n.told = a.told
<1> DEFINE user == [uid |-> uid, token |-> token]
           users == Append(a.users, user)
           n == Adopt(a, uid, token)
<1>1. user \in [uid : Uids, token : Tokens]
  OBVIOUS
<1>2. a.users \in Users
  BY DEF Sound, AuthRecord
<1>3. ASSUME NEW S, NEW s \in Seq(S), NEW e \in S
      PROVE  /\ Append(s, e) \in Seq(S) /\ Len(s) \in Nat /\ Len(Append(s, e)) = Len(s) + 1
             /\ Append(s, e)[Len(s) + 1] = e
             /\ \A i \in 1 .. Len(s) : Append(s, e)[i] = s[i]
  OBVIOUS
<1>4. /\ users \in Users /\ Len(a.users) \in Nat /\ Len(users) = Len(a.users) + 1
      /\ users[Len(a.users) + 1] = user
      /\ \A i \in 1 .. Len(a.users) : users[i] = a.users[i]
  BY <1>1, <1>2, <1>3 DEF Users
<1>5. n = [a EXCEPT !.users = users, !.current = Len(a.users) + 1]
  BY DEF Adopt, Sound, AuthRecord
<1> HIDE DEF n, users
<1>6. /\ n \in AuthRecord /\ n.users = users /\ n.current = Len(a.users) + 1
      /\ n.timers = a.timers /\ n.slot = a.slot
      /\ n.store = a.store /\ n.cache = a.cache /\ n.told = a.told
  <2>1. users \in Users /\ Len(a.users) + 1 \in Nat /\ a \in AuthRecord
    BY <1>4 DEF Sound
  <2> QED BY <1>5, <2>1 DEF AuthRecord
<1>7. \A t \in n.timers : t.user <= Len(n.users)
  <2> SUFFICES ASSUME NEW t \in a.timers PROVE t.user <= Len(a.users) + 1
    BY <1>4, <1>6
  <2>1. t.user <= Len(a.users) /\ t.user \in Nat
    BY DEF Sound, AuthRecord, Timers
  <2> QED BY <1>4, <2>1
<1>8. Sound(n)
  <2>1. OneTimer(n)
    BY <1>6 DEF Sound, OneTimer
  <2> QED BY <1>4, <1>6, <1>7, <2>1 DEF Sound
<1>9. KeepsUids(a, n)
  BY <1>4, <1>6 DEF KeepsUids
<1> QED BY <1>4, <1>6, <1>8, <1>9 DEF n

\* New tokens for one user change that user's tokens only.
LEMMA Retokens ==
  ASSUME NEW a, Sound(a), NEW u \in 1 .. Len(a.users), NEW token \in Tokens
  PROVE  LET n == UpdateTokens(a, u, token) IN
         /\ Sound(n) /\ KeepsUids(a, n) /\ Len(n.users) = Len(a.users)
         /\ n.current = a.current /\ n.timers = a.timers /\ n.slot = a.slot
         /\ n.store = a.store /\ n.cache = a.cache /\ n.told = a.told
<1> DEFINE users == [a.users EXCEPT ![u].token = token]
           n == UpdateTokens(a, u, token)
<1>1. a.users \in Users /\ a.users[u] \in [uid : Uids, token : Tokens]
  BY UserType DEF Sound
<1>2. [a.users[u] EXCEPT !.token = token] \in [uid : Uids, token : Tokens]
  BY <1>1
<1>3. ASSUME NEW S, NEW s \in Seq(S), NEW e \in S, NEW i \in 1 .. Len(s)
      PROVE  /\ [s EXCEPT ![i] = e] \in Seq(S) /\ Len(s) \in Nat
             /\ Len([s EXCEPT ![i] = e]) = Len(s)
             /\ \A j \in 1 .. Len(s) : [s EXCEPT ![i] = e][j] = IF j = i THEN e ELSE s[j]
  OBVIOUS
<1>4. users = [a.users EXCEPT ![u] = [a.users[u] EXCEPT !.token = token]]
  OBVIOUS
<1>5. /\ users \in Users /\ Len(a.users) \in Nat /\ Len(users) = Len(a.users)
      /\ \A j \in 1 .. Len(a.users) :
           users[j] = IF j = u THEN [a.users[u] EXCEPT !.token = token] ELSE a.users[j]
  BY <1>1, <1>2, <1>3, <1>4 DEF Users
<1>6. [a.users[u] EXCEPT !.token = token].uid = a.users[u].uid
  BY <1>1
<1>7. n = [a EXCEPT !.users = users]
  BY DEF UpdateTokens
<1> HIDE DEF n, users
<1>8. /\ n \in AuthRecord /\ n.users = users /\ n.current = a.current
      /\ n.timers = a.timers /\ n.slot = a.slot
      /\ n.store = a.store /\ n.cache = a.cache /\ n.told = a.told
  <2>1. users \in Users /\ a \in AuthRecord
    BY <1>5 DEF Sound
  <2> QED BY <1>7, <2>1 DEF AuthRecord
<1>9. Sound(n)
  BY <1>5, <1>8 DEF Sound, OneTimer
<1>10. KeepsUids(a, n)
  <2> SUFFICES ASSUME NEW j \in 1 .. Len(a.users) PROVE users[j].uid = a.users[j].uid
    BY <1>5, <1>8 DEF KeepsUids
  <2>1. CASE j = u
    BY <1>5, <1>6, <2>1
  <2>2. CASE j # u
    BY <1>5, <2>2
  <2> QED BY <2>1, <2>2
<1> QED BY <1>5, <1>8, <1>9, <1>10 DEF n

\* clear_local_user_state leaves nobody signed in and no refresh pending.
LEMMA Clears ==
  ASSUME NEW a, Sound(a)
  PROVE  LET c == clear_local_user_state(a) IN
         /\ Sound(c) /\ KeepsUids(a, c)
         /\ c.current = 0 /\ c.timers = {} /\ c.slot = 0
         /\ c.store = a.store /\ c.cache = a.cache /\ c.told = a.told
<1> DEFINE b == cancel_scheduled_refresh(a)
           c == clear_local_user_state(a)
<1>1. /\ b \in AuthRecord /\ b.timers = {} /\ b.slot = 0 /\ SameUsers(a, b)
      /\ b.store = a.store /\ b.cache = a.cache /\ b.told = a.told
  BY RemovesTheTimer DEF cancel_scheduled_refresh
<1>2. Sound(b)
  BY <1>1 DEF Sound, SameUsers, OneTimer
<1> HIDE DEF b
<1>3. Len(a.users) \in Nat
  BY DEF Sound, AuthRecord, Users
<1>4. CASE b.current = 0
  <2>1. c = b
    BY <1>4 DEF clear_local_user_state, b
  <2> QED BY <1>1, <1>2, <1>3, <1>4, <2>1 DEF KeepsUids, SameUsers
<1>5. CASE b.current # 0
  <2> DEFINE n == UpdateTokens(b, b.current, 0)
  <2>1. c = [n EXCEPT !.current = 0]
    BY <1>5 DEF clear_local_user_state, b, UpdateTokens
  <2>2. b.current \in 1 .. Len(b.users) /\ 0 \in Tokens
    BY <1>2, <1>5, AuthAssumption DEF Sound, AuthRecord, Tokens
  <2>3. /\ Sound(n) /\ KeepsUids(b, n) /\ n.timers = {} /\ n.slot = 0
        /\ n.store = b.store /\ n.cache = b.cache /\ n.told = b.told
    BY <1>1, <1>2, <2>2, Retokens
  <2> HIDE DEF n, c
  <2>4. n \in AuthRecord /\ Len(n.users) \in Nat
    BY <2>3 DEF Sound, AuthRecord, Users
  <2>5. /\ c \in AuthRecord /\ c.current = 0 /\ c.timers = {} /\ c.slot = 0 /\ c.users = n.users
        /\ c.store = b.store /\ c.cache = b.cache /\ c.told = b.told
    BY <2>1, <2>3, <2>4 DEF AuthRecord
  <2>6. Sound(c)
    BY <2>4, <2>5 DEF Sound, OneTimer
  <2>7. KeepsUids(a, c)
    BY <1>1, <2>3, <2>5 DEF KeepsUids, SameUsers
  <2> QED BY <1>1, <2>5, <2>6, <2>7 DEF c
<1> QED BY <1>4, <1>5

\* sign_out leaves nobody signed in, nothing stored unless that failed, and the
\* listeners told.
LEMMA SignsOut ==
  ASSUME NEW a, Sound(a), NEW fails \in BOOLEAN
  PROVE  LET b == sign_out(a, fails) IN
         /\ Sound(b) /\ KeepsUids(a, b) /\ Told(b) /\ Served(b)
         /\ ~fails /\ a.cache = a.store => Saved(b)
<1> DEFINE c == clear_local_user_state(a)
           p == IF fails THEN c ELSE set_persisted_state(c, None)
           b == sign_out(a, fails)
<1>1. /\ Sound(c) /\ KeepsUids(a, c) /\ c.current = 0 /\ c.timers = {}
      /\ c.store = a.store /\ c.cache = a.cache
  BY Clears
<1> HIDE DEF c
<1>2. None \in Session /\ None \in Uids \cup {None}
  BY DEF Session
<1>3. /\ Sound(p) /\ SameUsers(c, p) /\ p.timers = {}
      /\ ~fails /\ a.cache = a.store => p.store = None /\ p.cache = None
  BY <1>1, <1>2, Persists DEF SameUsers
<1>4. b = notify(p, None)
  BY DEF sign_out, c
<1> HIDE DEF p, b
<1>5. /\ Sound(b) /\ SameUsers(p, b) /\ b.timers = {} /\ b.told = <<None>>
      /\ b.store = p.store /\ b.cache = p.cache
  BY <1>2, <1>3, <1>4, Notifies
<1>6. b.current = 0 /\ KeepsUids(a, b)
  BY <1>1, <1>3, <1>5 DEF SameUsers, KeepsUids
<1>7. Told(b) /\ Served(b)
  BY <1>5, <1>6 DEF Told, Served, UidOf
<1>8. ~fails /\ a.cache = a.store => Saved(b)
  BY <1>3, <1>5, <1>6 DEF Saved, StateOf
<1> QED BY <1>5, <1>6, <1>7, <1>8 DEF b

\* A new current user that is settled: finalize_sign_in, apply_account_update,
\* reload and apply_password_reauth.
LEMMA AdoptsAndSettles ==
  ASSUME NEW a, Sound(a), NEW uid \in Uids, NEW token \in Tokens,
         NEW publish \in BOOLEAN, NEW fails \in BOOLEAN
  PROVE  LET n == Adopt(a, uid, token)
             b == Settle(n, n.current, publish, fails)
         IN  /\ Sound(b) /\ KeepsUids(a, b)
             /\ ~fails => /\ Served(b)
                          /\ a.cache = a.store => Saved(b)
                          /\ publish \/ a.told = <<uid>> => Told(b)
<1> DEFINE n == Adopt(a, uid, token)
           b == Settle(n, n.current, publish, fails)
<1>1. /\ Sound(n) /\ KeepsUids(a, n) /\ n.current \in 1 .. Len(n.users)
      /\ n.users[n.current] = [uid |-> uid, token |-> token]
      /\ n.store = a.store /\ n.cache = a.cache /\ n.told = a.told
  BY Adopts
<1> HIDE DEF n
<1>2. /\ Sound(b) /\ SameUsers(n, b)
      /\ ~fails => /\ n.cache = n.store => Saved(b)
                   /\ Served(b)
                   /\ publish \/ n.told = <<UidOf(n, n.current)>> => Told(b)
  BY <1>1, Settles
<1>3. UidOf(n, n.current) = uid
  BY <1>1 DEF UidOf
<1>4. KeepsUids(a, b)
  BY <1>1, <1>2 DEF KeepsUids, SameUsers
<1> QED BY <1>1, <1>2, <1>3, <1>4 DEF n

\* New tokens for a user that are settled: refresh_user_token.
LEMMA RetokensAndSettles ==
  ASSUME NEW a, Sound(a), NEW u \in 1 .. Len(a.users), NEW token \in Tokens,
         NEW fails \in BOOLEAN
  PROVE  LET n == UpdateTokens(a, u, token)
             b == Settle(n, u, TRUE, fails)
         IN  /\ Sound(b) /\ KeepsUids(a, b)
             /\ Len(b.users) = Len(a.users) /\ b.current = a.current
             /\ ~fails /\ u = a.current => Served(b) /\ Told(b) /\ (a.cache = a.store => Saved(b))
<1> DEFINE n == UpdateTokens(a, u, token)
           b == Settle(n, u, TRUE, fails)
<1>1. /\ Sound(n) /\ KeepsUids(a, n) /\ Len(n.users) = Len(a.users) /\ n.current = a.current
      /\ n.store = a.store /\ n.cache = a.cache
  BY Retokens
<1> HIDE DEF n
<1>2. u \in 1 .. Len(n.users)
  BY <1>1
<1>3. /\ Sound(b) /\ SameUsers(n, b)
      /\ ~fails /\ u = n.current => /\ n.cache = n.store => Saved(b)
                                    /\ Served(b) /\ Told(b)
  BY <1>1, <1>2, Settles
<1>4. KeepsUids(a, b) /\ Len(b.users) = Len(a.users) /\ b.current = a.current
  BY <1>1, <1>3 DEF KeepsUids, SameUsers
<1> QED BY <1>1, <1>3, <1>4 DEF n

\* sync_from_persistence brings the instance to a session it had not cached.
LEMMA Syncs ==
  ASSUME NEW a, Sound(a), NEW s \in Session, a.store = s
  PROVE  LET b == sync_from_persistence(a, s) IN
         /\ Sound(b) /\ KeepsUids(a, b)
         /\ a.cache = s => b = a
         /\ a.cache # s => Saved(b) /\ Told(b) /\ Served(b)
<1> DEFINE b == sync_from_persistence(a, s)
<1>1. Len(a.users) \in Nat /\ a \in AuthRecord
  BY DEF Sound, AuthRecord, Users
<1>2. CASE a.cache = s
  BY <1>1, <1>2 DEF sync_from_persistence, KeepsUids
<1>3. CASE a.cache # s /\ s = None
  <2> DEFINE c == clear_local_user_state(a)
             n == notify(c, None)
  <2>1. Sound(c) /\ KeepsUids(a, c) /\ c.current = 0 /\ c.timers = {} /\ c.store = s
    BY Clears
  <2> HIDE DEF c
  <2>2. /\ Sound(n) /\ SameUsers(c, n) /\ n.timers = {} /\ n.store = s /\ n.told = <<None>>
    BY <2>1, Notifies
  <2>3. b = [n EXCEPT !.cache = None]
    BY <1>3 DEF sync_from_persistence, c
  <2> HIDE DEF n, b
  <2>4. n \in AuthRecord /\ None \in Session
    BY <2>2 DEF Sound, Session
  <2>5. /\ b \in AuthRecord /\ SameUsers(n, b) /\ b.timers = {} /\ b.slot = n.slot
        /\ b.store = s /\ b.cache = s /\ b.told = <<None>>
    BY <1>3, <2>2, <2>3, <2>4 DEF AuthRecord, SameUsers
  <2>6. Sound(b)
    BY <2>2, <2>5 DEF Sound, SameUsers, OneTimer
  <2>7. KeepsUids(a, b) /\ b.current = 0
    BY <2>1, <2>2, <2>5 DEF SameUsers, KeepsUids
  <2>8. Saved(b) /\ Told(b) /\ Served(b)
    BY <1>3, <2>5, <2>7 DEF Saved, Told, Served, StateOf, UidOf
  <2> QED BY <1>3, <2>6, <2>7, <2>8 DEF b
<1>4. CASE a.cache # s /\ s # None
  <2>1. s \in [uid : Uids, token : Tokens \ {0}] /\ s.uid \in Uids /\ s.token \in Tokens
        /\ s.token # 0 /\ s = [uid |-> s.uid, token |-> s.token]
    BY <1>4 DEF Session
  <2> DEFINE n == Adopt(a, s.uid, s.token)
             r == schedule_refresh(n, n.current)
             p == notify(r, s.uid)
  <2>2. /\ Sound(n) /\ KeepsUids(a, n) /\ n.current \in 1 .. Len(n.users)
        /\ n.users[n.current] = [uid |-> s.uid, token |-> s.token] /\ n.store = s
    BY <2>1, Adopts
  <2> HIDE DEF n
  <2>3. /\ Sound(r) /\ SameUsers(n, r) /\ r.store = s
        /\ \A t \in r.timers : t.user = n.current
    BY <2>2, Schedules
  <2> HIDE DEF r
  <2>4. /\ Sound(p) /\ SameUsers(r, p) /\ p.store = s /\ p.told = <<s.uid>> /\ p.timers = r.timers
    BY <2>1, <2>3, Notifies
  <2>5. b = [p EXCEPT !.cache = s]
    BY <1>4 DEF sync_from_persistence, n, r
  <2> HIDE DEF p, b
  <2>6. p \in AuthRecord
    BY <2>4 DEF Sound
  <2>7. /\ b \in AuthRecord /\ SameUsers(p, b) /\ b.timers = p.timers /\ b.slot = p.slot
        /\ b.store = s /\ b.cache = s /\ b.told = <<s.uid>>
    BY <2>4, <2>5, <2>6 DEF AuthRecord, SameUsers
  <2>8. Sound(b)
    BY <2>4, <2>7 DEF Sound, SameUsers, OneTimer
  <2>9. KeepsUids(a, b) /\ b.current = n.current /\ b.users = n.users /\ n.current # 0
    BY <2>2, <2>3, <2>4, <2>7 DEF SameUsers, KeepsUids
  <2>10. StateOf(b, b.current) = s /\ UidOf(b, b.current) = s.uid
    BY <2>1, <2>2, <2>9 DEF StateOf, UidOf
  <2>11. Saved(b) /\ Told(b) /\ Served(b)
    BY <2>3, <2>4, <2>7, <2>9, <2>10 DEF Saved, Told, Served
  <2> QED BY <1>4, <2>8, <2>9, <2>11 DEF b
<1> QED BY <1>2, <1>3, <1>4

-----------------------------------------------------------------------------
\* Calls refer to users of the instance and know their accounts.
CallsFit(cs, a) ==
    /\ cs \subseteq CallRecord
    /\ \A c \in cs : c.user <= Len(a.users) /\ (c.user = 0 => SignsIn(c))
    /\ \A c \in cs : ~SignsIn(c) => a.users[c.user].uid = c.uid

Counts == [calls : 0 .. MaxCalls, tokens : Tokens, faults : 0 .. MaxFaults]
Pasts == [stale : BOOLEAN, failed : BOOLEAN, mismatch : BOOLEAN]

\* SessionInv in the terms of the lemmas above.
LEMMA InvMeans ==
  SessionInv <=> /\ Sound(auth) /\ CallsFit(calls, auth) /\ count \in Counts /\ past \in Pasts
                 /\ Orderly => Saved(auth) /\ Served(auth)
                 /\ Orderly /\ ~past.mismatch => Told(auth)
<1>1. TypeOK /\ OneTimer(auth) /\ CallsKnowTheirUser
        <=> Sound(auth) /\ CallsFit(calls, auth) /\ count \in Counts /\ past \in Pasts
  BY DEF TypeOK, CallsKnowTheirUser, Sound, CallsFit, OneTimer, Counts, Pasts
<1>2. /\ SessionIsPersisted <=> (Orderly => Saved(auth))
      /\ ListenersFollow <=> (Orderly /\ ~past.mismatch => Told(auth))
      /\ TimersServeTheCurrentUser <=> (Orderly => Served(auth))
  BY DEF SessionIsPersisted, ListenersFollow, TimersServeTheCurrentUser, Saved, Told, Served
<1> QED BY <1>1, <1>2 DEF SessionInv

\* Calls still fit when users were added or changed, and when some have ended.
LEMMA CallsStillFit ==
  ASSUME NEW a, Sound(a), NEW b, Sound(b), KeepsUids(a, b), NEW cs, CallsFit(cs, a),
         NEW ds \in SUBSET cs
  PROVE  CallsFit(ds, b)
<1>1. Len(a.users) \in Nat /\ Len(b.users) \in Nat
  BY DEF Sound, AuthRecord, Users
<1> SUFFICES ASSUME NEW c \in ds
             PROVE  /\ c \in CallRecord /\ c.user <= Len(b.users) /\ (c.user = 0 => SignsIn(c))
                    /\ ~SignsIn(c) => b.users[c.user].uid = c.uid
  BY DEF CallsFit
<1>2. /\ c \in CallRecord /\ c.user <= Len(a.users) /\ (c.user = 0 => SignsIn(c))
      /\ ~SignsIn(c) => a.users[c.user].uid = c.uid
  BY DEF CallsFit
<1>3. c.user \in Nat
  BY <1>2 DEF CallRecord
<1>4. c.user <= Len(b.users)
  BY <1>1, <1>2, <1>3 DEF KeepsUids
<1>5. ~SignsIn(c) => c.user \in 1 .. Len(a.users)
  BY <1>1, <1>2, <1>3
<1> QED BY <1>2, <1>4, <1>5 DEF KeepsUids

\* The counters stay within their bounds.
LEMMA CountsStay ==
  ASSUME count \in Counts, NEW minted \in BOOLEAN, NEW fails \in BOOLEAN,
         minted => CanMint, fails => count.faults < MaxFaults, Count(minted, fails)
  PROVE  count' \in Counts
<1>1. MaxTokens \in Nat /\ MaxFaults \in Nat
  BY AuthAssumption
<1>2. count.tokens \in 0 .. MaxTokens /\ count.faults \in 0 .. MaxFaults
  BY DEF Counts, Tokens
<1>3. /\ count.tokens + (IF minted THEN 1 ELSE 0) \in 0 .. MaxTokens
      /\ count.faults + (IF fails THEN 1 ELSE 0) \in 0 .. MaxFaults
  BY <1>1, <1>2 DEF CanMint
<1> QED BY <1>3 DEF Count, Counts, Tokens

\* The next token is one.
LEMMA MintType ==
  ASSUME count \in Counts
  PROVE  /\ Mint \in Nat \ {0}
         /\ CanMint => Mint \in Tokens
         /\ Mint <= MaxTokens => CanMint
  BY AuthAssumption DEF Counts, Tokens, Mint, CanMint

\* An answer is recorded: afterwards all is orderly only if it was before, the
\* answer was not stale and its write did not fail.
LEMMA Records ==
  ASSUME past \in Pasts, NEW c, NEW fails \in BOOLEAN, NEW mismatch \in BOOLEAN,
         Record(c, fails, mismatch)
  PROVE  /\ past' \in Pasts
         /\ Orderly' => Orderly /\ ~Stale(c) /\ ~fails
         /\ ~past'.mismatch => ~past.mismatch /\ ~mismatch
<1>1. Stale(c) \in BOOLEAN
  BY DEF Stale
<1> QED BY <1>1 DEF Record, Pasts, Orderly

\* The parts of SessionInv, for a step that ends in a sound instance.
LEMMA Concludes ==
  ASSUME Sound(auth'), CallsFit(calls', auth'), count' \in Counts, past' \in Pasts,
         Orderly' => Saved(auth') /\ Served(auth'),
         Orderly' /\ ~past'.mismatch => Told(auth')
  PROVE  SessionInv'
<1>1. TypeOK' /\ OneTimer(auth)' /\ CallsKnowTheirUser'
  BY DEF TypeOK, CallsKnowTheirUser, Sound, CallsFit, OneTimer, Counts, Pasts
<1>2. SessionIsPersisted' /\ ListenersFollow' /\ TimersServeTheCurrentUser'
  BY DEF SessionIsPersisted, ListenersFollow, TimersServeTheCurrentUser, Saved, Told, Served, Orderly
<1> QED BY <1>1, <1>2 DEF SessionInv

\* An answer that makes a user object with these tokens current keeps the
\* invariant, if the account is published or is the one that was current.
LEMMA AnswerAdopts ==
  ASSUME SessionInv, NEW c \in calls, Done(c), NEW token \in Tokens,
         NEW publish \in BOOLEAN, NEW fails \in BOOLEAN, NEW mismatch \in BOOLEAN,
         NEW minted \in BOOLEAN, minted => CanMint, Count(minted, fails),
         LET n == Adopt(auth, c.uid, token)
         IN  /\ MayFail(n, StateOf(n, n.current), fails)
             /\ auth' = Settle(n, n.current, publish, fails),
         Record(c, fails, mismatch),
         publish \/ (~Stale(c) /\ ~mismatch => c.uid = UidOf(auth, auth.current))
  PROVE  SessionInv'
<1>1. /\ Sound(auth) /\ CallsFit(calls, auth) /\ count \in Counts /\ past \in Pasts
      /\ Orderly => Saved(auth) /\ Served(auth)
      /\ Orderly /\ ~past.mismatch => Told(auth)
  BY InvMeans
<1>2. c.uid \in Uids
  BY <1>1 DEF CallsFit, CallRecord
<1>3. /\ Sound(auth') /\ KeepsUids(auth, auth')
      /\ ~fails => /\ Served(auth')
                   /\ auth.cache = auth.store => Saved(auth')
                   /\ publish \/ auth.told = <<c.uid>> => Told(auth')
  BY <1>1, <1>2, AdoptsAndSettles
<1>4. CallsFit(calls', auth')
  BY <1>1, <1>3, CallsStillFit DEF Done
<1>5. count' \in Counts
  BY <1>1, CountsStay DEF MayFail
<1>6. /\ past' \in Pasts
      /\ Orderly' => Orderly /\ ~Stale(c) /\ ~fails
      /\ ~past'.mismatch => ~past.mismatch /\ ~mismatch
  BY <1>1, Records
<1>7. Orderly' => Saved(auth') /\ Served(auth')
  BY <1>1, <1>3, <1>6 DEF Saved
<1>8. ASSUME Orderly', ~past'.mismatch PROVE Told(auth')
  <2>1. CASE publish
    BY <1>3, <1>6, <1>8, <2>1
  <2>2. CASE ~publish
    <3>1. c.uid = UidOf(auth, auth.current) /\ Told(auth)
      BY <1>1, <1>6, <1>8, <2>2
    <3>2. auth.current # 0
      BY <1>2, <3>1, AuthAssumption DEF UidOf
    <3> QED BY <1>3, <1>6, <1>8, <3>1, <3>2 DEF Told
  <2> QED BY <2>1, <2>2
<1> QED BY <1>3, <1>4, <1>5, <1>6, <1>7, <1>8, Concludes

\* What an answer finds: its user exists, and is the current one unless stale.
LEMMA AnswerFinds ==
  ASSUME SessionInv, NEW c \in calls, ~SignsIn(c)
  PROVE  /\ c.user \in 1 .. Len(auth.users)
         /\ auth.users[c.user].token \in Tokens /\ c.uid = auth.users[c.user].uid
         /\ ~Stale(c) => c.uid = UidOf(auth, auth.current)
<1>1. Sound(auth) /\ CallsFit(calls, auth)
  BY InvMeans
<1>2. auth \in AuthRecord /\ Len(auth.users) \in Nat
  BY <1>1 DEF Sound, AuthRecord, Users
<1>3. c.user \in 1 .. Len(auth.users) /\ c.uid = auth.users[c.user].uid
  BY <1>1, <1>2 DEF CallsFit, CallRecord
<1> QED BY <1>2, <1>3, UserType DEF Stale, UidOf

\* Sign-ins, reauthentication, account updates and reloads keep the invariant.
LEMMA AdoptingStep ==
  ASSUME SessionInv, NEW c \in calls,
         SignedIn(c) \/ Reauthenticated(c) \/ AccountUpdated(c) \/ Reloaded(c)
  PROVE  SessionInv'
<1>1. count \in Counts
  BY InvMeans
<1>2. CASE SignedIn(c)
  <2>1. PICK fails \in BOOLEAN :
           LET n == Adopt(auth, c.uid, Mint)
           IN  /\ MayFail(n, StateOf(n, n.current), fails)
               /\ auth' = Settle(n, n.current, TRUE, fails)
               /\ Count(TRUE, fails)
               /\ Record(c, fails, FALSE)
    BY <1>2 DEF SignedIn
  <2>2. CanMint /\ Done(c) /\ Mint \in Tokens
    BY <1>1, <1>2, MintType DEF SignedIn
  <2> QED BY <2>1, <2>2, AnswerAdopts
<1>3. CASE Reauthenticated(c)
  <2> DEFINE other == c.uid # UidOf(auth, auth.current)
  <2>1. PICK fails \in BOOLEAN :
           LET n == Adopt(auth, c.uid, Mint)
           IN  /\ MayFail(n, StateOf(n, n.current), fails)
               /\ auth' = Settle(n, n.current, FALSE, fails)
               /\ Count(TRUE, fails)
               /\ Record(c, fails, other)
    BY <1>3 DEF Reauthenticated
  <2>2. CanMint /\ Done(c) /\ Mint \in Tokens
    BY <1>1, <1>3, MintType DEF Reauthenticated
  <2>3. other \in BOOLEAN /\ (~other => c.uid = UidOf(auth, auth.current))
    OBVIOUS
  <2> HIDE DEF other
  <2> QED BY <2>1, <2>2, <2>3, AnswerAdopts
<1>4. CASE AccountUpdated(c)
  <2>1. PICK fails \in BOOLEAN, token \in {auth.users[c.user].token, Mint} :
           LET n == Adopt(auth, c.uid, token)
           IN  /\ token <= MaxTokens
               /\ MayFail(n, StateOf(n, n.current), fails)
               /\ auth' = Settle(n, n.current, TRUE, fails)
               /\ Count(token = Mint, fails)
               /\ Record(c, fails, FALSE)
    BY <1>4 DEF AccountUpdated
  <2>2. Done(c) /\ ~SignsIn(c)
    BY <1>4 DEF AccountUpdated, SignsIn
  <2>3. token \in Tokens /\ (token = Mint => CanMint)
    BY <1>1, <2>1, <2>2, AnswerFinds, MintType
  <2> DEFINE minted == token = Mint
  <2>4. minted \in BOOLEAN /\ (minted => CanMint) /\ Count(minted, fails)
    BY <2>1, <2>3
  <2> HIDE DEF minted
  <2> QED BY <2>1, <2>2, <2>3, <2>4, AnswerAdopts
<1>5. CASE Reloaded(c)
  <2>1. PICK fails \in BOOLEAN :
           LET n == Adopt(auth, c.uid, auth.users[c.user].token)
           IN  /\ MayFail(n, StateOf(n, n.current), fails)
               /\ auth' = Settle(n, n.current, FALSE, fails)
               /\ Count(FALSE, fails)
               /\ Record(c, fails, FALSE)
    BY <1>5 DEF Reloaded
  <2>2. Done(c) /\ ~SignsIn(c)
    BY <1>5 DEF Reloaded, SignsIn
  <2>3. /\ auth.users[c.user].token \in Tokens
        /\ ~Stale(c) => c.uid = UidOf(auth, auth.current)
    BY <2>2, AnswerFinds
  <2> QED BY <2>1, <2>2, <2>3, AnswerAdopts
<1> QED BY <1>2, <1>3, <1>4, <1>5

\* A refresh keeps the invariant, and restore_session's reload begins with the
\* user that is current then.
LEMMA RefreshStep ==
  ASSUME SessionInv, NEW c \in calls, Refreshed(c)
  PROVE  SessionInv'
<1>1. /\ Sound(auth) /\ CallsFit(calls, auth) /\ count \in Counts /\ past \in Pasts
      /\ Orderly => Saved(auth) /\ Served(auth)
  BY InvMeans
<1>2. ~SignsIn(c) /\ CanMint /\ Mint \in Tokens
  BY <1>1, MintType DEF Refreshed, SignsIn
<1>3. c.user \in 1 .. Len(auth.users)
  BY <1>2, AnswerFinds
<1> DEFINE later == [c EXCEPT !.kind = "restored", !.user = auth.current,
                              !.uid = UidOf(auth, auth.current)]
<1>4. PICK fails \in BOOLEAN :
         /\ calls' = (calls \ {c}) \cup
                (IF c.kind = "refresh" \/ fails \/ auth.current = 0 THEN {} ELSE {later})
         /\ MayFail(UpdateTokens(auth, c.user, Mint),
                    StateOf(UpdateTokens(auth, c.user, Mint), c.user), fails)
         /\ auth' = Settle(UpdateTokens(auth, c.user, Mint), c.user, TRUE, fails)
         /\ Count(TRUE, fails)
         /\ Record(c, fails, FALSE)
  BY DEF Refreshed
<1>5. /\ Sound(auth') /\ KeepsUids(auth, auth')
      /\ Len(auth'.users) = Len(auth.users) /\ auth'.current = auth.current
      /\ ~fails /\ c.user = auth.current =>
           Served(auth') /\ Told(auth') /\ (auth.cache = auth.store => Saved(auth'))
  BY <1>1, <1>2, <1>3, <1>4, RetokensAndSettles
<1>6. CallsFit(calls \ {c}, auth')
  BY <1>1, <1>5, CallsStillFit
<1>7. auth.current # 0 => CallsFit({later}, auth')
  <2> SUFFICES ASSUME auth.current # 0 PROVE CallsFit({later}, auth')
    OBVIOUS
  <2>1. /\ auth \in AuthRecord /\ auth.current \in 1 .. Len(auth.users)
        /\ Len(auth.users) \in Nat
    <3>1. auth \in AuthRecord /\ auth.current <= Len(auth.users) /\ auth.users \in Users
          /\ auth.current \in Nat
      BY <1>1 DEF Sound, AuthRecord
    <3> QED BY <3>1 DEF Users
  <2>2. auth.users[auth.current].uid \in Uids /\ UidOf(auth, auth.current) = auth.users[auth.current].uid
    <3>1. auth.users[auth.current] \in [uid : Uids, token : Tokens]
      BY <2>1, UserType
    <3> QED BY <3>1 DEF UidOf
  <2>3. c \in CallRecord
    BY <1>1 DEF CallsFit
  <2>4. /\ later \in CallRecord /\ later.user = auth.current /\ later.kind = "restored"
        /\ later.uid = auth.users[auth.current].uid
    <3>1. PICK uid \in Uids : uid = UidOf(auth, auth.current)
      BY <2>2
    <3>2. PICK u \in Nat : u = auth.current
      BY <2>1
    <3>3. later = [c EXCEPT !.kind = "restored", !.user = u, !.uid = uid]
      BY <3>1, <3>2
    <3> HIDE DEF later
    <3>4. later \in CallRecord /\ later.user = u /\ later.kind = "restored" /\ later.uid = uid
      BY <2>3, <3>3 DEF CallRecord
    <3> QED BY <2>2, <3>1, <3>2, <3>4
  <2>5. auth'.users[auth.current].uid = auth.users[auth.current].uid
    BY <1>5, <2>1 DEF KeepsUids
  <2> HIDE DEF later
  <2> QED BY <1>5, <2>1, <2>4, <2>5 DEF CallsFit, SignsIn
<1> HIDE DEF later
<1>8. CallsFit(calls', auth')
  BY <1>4, <1>6, <1>7 DEF CallsFit
<1>9. count' \in Counts
  BY <1>1, <1>2, <1>4, CountsStay DEF MayFail
<1>10. past' \in Pasts /\ (Orderly' => Orderly /\ ~Stale(c) /\ ~fails)
  BY <1>1, <1>4, Records
<1>11. Orderly' => Saved(auth') /\ Served(auth') /\ Told(auth')
  BY <1>1, <1>2, <1>5, <1>10 DEF Saved, Stale
<1> QED BY <1>5, <1>8, <1>9, <1>10, <1>11, Concludes

\* A sign-out that an answer causes keeps the invariant.
LEMMA ExpelStep ==
  ASSUME SessionInv, NEW c \in calls, Expelled(c)
  PROVE  SessionInv'
<1>1. /\ Sound(auth) /\ CallsFit(calls, auth) /\ count \in Counts /\ past \in Pasts
      /\ Orderly => Saved(auth)
  BY InvMeans
<1>2. PICK fails \in BOOLEAN :
         /\ MayFail(auth, None, fails) /\ auth' = sign_out(auth, fails)
         /\ Count(FALSE, fails) /\ Record(c, fails, FALSE)
  BY DEF Expelled
<1>3. /\ Sound(auth') /\ KeepsUids(auth, auth') /\ Told(auth') /\ Served(auth')
      /\ ~fails /\ auth.cache = auth.store => Saved(auth')
  BY <1>1, <1>2, SignsOut
<1>4. CallsFit(calls', auth')
  BY <1>1, <1>3, CallsStillFit DEF Expelled, Done
<1>5. count' \in Counts
  BY <1>1, <1>2, CountsStay DEF MayFail
<1>6. past' \in Pasts /\ (Orderly' => Orderly /\ ~fails)
  BY <1>1, <1>2, Records
<1> QED BY <1>1, <1>3, <1>4, <1>5, <1>6, Concludes DEF Saved

\* sign_out keeps the invariant.
LEMMA SignOutStep ==
  ASSUME SessionInv, SignOut
  PROVE  SessionInv'
<1>1. /\ Sound(auth) /\ CallsFit(calls, auth) /\ count \in Counts /\ past \in Pasts
      /\ Orderly => Saved(auth)
  BY InvMeans
<1>2. PICK fails \in BOOLEAN :
         /\ MayFail(auth, None, fails) /\ auth' = sign_out(auth, fails)
         /\ Count(FALSE, fails) /\ past' = [past EXCEPT !.failed = @ \/ fails]
  BY DEF SignOut
<1>3. /\ Sound(auth') /\ KeepsUids(auth, auth') /\ Told(auth') /\ Served(auth')
      /\ ~fails /\ auth.cache = auth.store => Saved(auth')
  BY <1>1, <1>2, SignsOut
<1>4. CallsFit(calls', auth')
  BY <1>1, <1>3, CallsStillFit DEF SignOut
<1>5. count' \in Counts
  BY <1>1, <1>2, CountsStay DEF MayFail
<1>6. past' \in Pasts /\ (Orderly' => Orderly /\ ~fails)
  BY <1>1, <1>2 DEF Pasts, Orderly
<1> QED BY <1>1, <1>3, <1>4, <1>5, <1>6, Concludes DEF Saved

\* A change of the store by another instance keeps the invariant.
LEMMA PeerStep ==
  ASSUME SessionInv, PeerWrites
  PROVE  SessionInv'
<1>1. /\ Sound(auth) /\ CallsFit(calls, auth) /\ count \in Counts /\ past \in Pasts
      /\ Orderly => Saved(auth)
  BY InvMeans
<1>2. PICK s \in {None} \cup [uid : Uids, token : IF CanMint THEN {Mint} ELSE {}] :
         /\ s # auth.store
         /\ auth' = sync_from_persistence([auth EXCEPT !.store = s], s)
         /\ Count(s # None, TRUE)
  BY DEF PeerWrites
<1>3. s \in Session /\ (s # None => CanMint)
  BY <1>1, MintType DEF Session
<1> DEFINE a == [auth EXCEPT !.store = s]
<1>4. /\ a \in AuthRecord /\ SameUsers(auth, a) /\ a.timers = auth.timers /\ a.slot = auth.slot
      /\ a.store = s /\ a.cache = auth.cache
  BY <1>1, <1>3 DEF Sound, AuthRecord, SameUsers
<1> HIDE DEF a
<1>5. Sound(a) /\ KeepsUids(auth, a)
  <2>1. Len(auth.users) \in Nat
    BY <1>1 DEF Sound, AuthRecord, Users
  <2> QED BY <1>1, <1>4, <2>1 DEF Sound, SameUsers, OneTimer, KeepsUids
<1>6. /\ Sound(auth') /\ KeepsUids(a, auth')
      /\ a.cache # s => Saved(auth') /\ Told(auth') /\ Served(auth')
  BY <1>2, <1>3, <1>4, <1>5, Syncs DEF a
<1>7. CallsFit(calls', auth')
  <2>1. CallsFit(calls, a)
    BY <1>1, <1>5, CallsStillFit
  <2> QED BY <1>5, <1>6, <2>1, CallsStillFit DEF PeerWrites
<1>8. count' \in Counts
  <2> DEFINE minted == s # None
  <2>1. minted \in BOOLEAN /\ (minted => CanMint) /\ Count(minted, TRUE) /\ count.faults < MaxFaults
    BY <1>2, <1>3 DEF PeerWrites
  <2> HIDE DEF minted
  <2> QED BY <1>1, <2>1, CountsStay
<1>9. past' = past /\ (Orderly' => Orderly)
  BY DEF PeerWrites, Orderly
<1>10. Orderly' => a.cache # s
  BY <1>1, <1>2, <1>4, <1>9 DEF Saved
<1> QED BY <1>1, <1>6, <1>7, <1>8, <1>9, <1>10, Concludes

\* A restart keeps the invariant: what initialize restores is what was stored.
LEMMA RestartStep ==
  ASSUME SessionInv, Restart
  PROVE  SessionInv'
<1>1. Sound(auth) /\ count \in Counts /\ past \in Pasts
  BY InvMeans
<1> DEFINE f == Fresh(auth.store)
<1>2. auth.store \in Session /\ None \in Session
  BY <1>1 DEF Sound, AuthRecord, Session
<1>3. /\ f \in AuthRecord /\ f.users = <<>> /\ f.current = 0 /\ f.timers = {} /\ f.slot = 0
      /\ f.cache = None /\ f.store = auth.store /\ f.told = <<>>
  <2>1. <<>> \in Users /\ {} \in Timers /\ <<>> \in Notified
    BY DEF Users, Timers, Notified
  <2> QED BY <1>2, <2>1 DEF Fresh, AuthRecord
<1> HIDE DEF f
<1>4. Sound(f)
  BY <1>3 DEF Sound, OneTimer
<1>5. /\ Sound(auth') /\ KeepsUids(f, auth')
      /\ f.cache = auth.store => auth' = f
      /\ f.cache # auth.store => Saved(auth') /\ Told(auth') /\ Served(auth')
  BY <1>2, <1>3, <1>4, Syncs DEF Restart, f
<1>6. f.cache = auth.store => Saved(f) /\ Told(f) /\ Served(f)
  BY <1>3 DEF Saved, Told, Served, StateOf, UidOf
<1>7. CallsFit(calls', auth')
  BY DEF Restart, CallsFit
<1>8. count' \in Counts
  BY <1>1, CountsStay DEF Restart
<1>9. past' \in Pasts
  BY <1>1 DEF Restart
<1> QED BY <1>5, <1>6, <1>7, <1>8, <1>9, Concludes

\* Beginning a call and the waking of a scheduled refresh keep the invariant.
LEMMA CallStep ==
  ASSUME SessionInv, Begin \/ TimerFires
  PROVE  SessionInv'
<1>1. /\ Sound(auth) /\ CallsFit(calls, auth) /\ count \in Counts /\ past \in Pasts
      /\ Orderly => Saved(auth) /\ Served(auth)
      /\ Orderly /\ ~past.mismatch => Told(auth)
  BY InvMeans
<1>2. auth \in AuthRecord /\ Len(auth.users) \in Nat
      /\ auth.current \in Nat /\ auth.current <= Len(auth.users)
  <2>1. auth.users \in Users /\ auth.current \in Nat /\ auth \in AuthRecord
        /\ auth.current <= Len(auth.users)
    BY <1>1 DEF Sound, AuthRecord
  <2> QED BY <2>1 DEF Users
<1>3. ASSUME NEW id \in Nat, NEW kind \in AllKinds, NEW uid \in Uids,
             NEW u \in 0 .. Len(auth.users),
             kind \in {"sign_in", "reauth"} \/ (u # 0 /\ auth.users[u].uid = uid)
      PROVE  CallsFit(calls \cup {[id |-> id, kind |-> kind, uid |-> uid, user |-> u]}, auth)
  <2> DEFINE d == [id |-> id, kind |-> kind, uid |-> uid, user |-> u]
  <2>1. d \in CallRecord /\ d.user = u /\ d.uid = uid /\ d.kind = kind
    BY <1>2 DEF CallRecord
  <2> HIDE DEF d
  <2>2. /\ d.user <= Len(auth.users) /\ (d.user = 0 => SignsIn(d))
        /\ ~SignsIn(d) => auth.users[d.user].uid = d.uid
    BY <1>2, <1>3, <2>1 DEF SignsIn
  <2>3. CallsFit(calls \cup {d}, auth)
    BY <1>1, <2>1, <2>2 DEF CallsFit
  <2> QED BY <2>3 DEF d
<1>4. CASE Begin
  <2>1. PICK kind \in Kinds, uid \in Uids :
           /\ \/ kind \in {"sign_in", "reauth"}
              \/ StateOf(auth, auth.current) # None /\ uid = UidOf(auth, auth.current)
           /\ calls' = calls \cup {[id |-> count.calls + 1, kind |-> kind, uid |-> uid,
                                    user |-> auth.current]}
    BY <1>4 DEF Begin
  <2>2. kind \in AllKinds /\ count.calls + 1 \in Nat /\ auth.current \in 0 .. Len(auth.users)
    BY <1>1, <1>2, AuthAssumption DEF Counts
  <2>3. kind \in {"sign_in", "reauth"} \/ (auth.current # 0 /\ auth.users[auth.current].uid = uid)
    BY <2>1 DEF StateOf, UidOf
  <2>4. CallsFit(calls', auth)
    BY <1>3, <2>1, <2>2, <2>3
  <2>5. count' \in Counts
    <3>1. count' = [count EXCEPT !.calls = @ + 1] /\ count.calls < MaxCalls /\ MaxCalls \in Nat
      BY <1>4, AuthAssumption DEF Begin
    <3> QED BY <1>1, <3>1 DEF Counts
  <2>6. auth' = auth /\ past' = past /\ (Orderly' <=> Orderly)
    BY <1>4 DEF Begin, Orderly
  <2> QED BY <1>1, <2>4, <2>5, <2>6, Concludes
<1>5. CASE TimerFires
  <2>1. PICK t \in auth.timers :
           /\ auth' = RemoveTimer(auth, t.id)
           /\ calls' = IF auth.users[t.user].token = 0 THEN calls
                       ELSE calls \cup {[id |-> MaxCalls + Mint, kind |-> "refresh", user |-> t.user,
                                         uid |-> UidOf(auth, t.user)]}
    BY <1>5 DEF TimerFires
  <2>2. t.id = auth.slot /\ t.user \in 1 .. Len(auth.users)
    <3>1. t.id = auth.slot /\ t.user <= Len(auth.users)
      BY <1>1 DEF Sound, OneTimer
    <3>2. auth.timers \in Timers
      BY <1>2 DEF AuthRecord
    <3>3. t.user \in Nat \ {0}
      BY <3>2 DEF Timers
    <3> QED BY <1>2, <3>1, <3>3
  <2>3. /\ auth' \in AuthRecord /\ auth'.timers = {} /\ auth'.slot = 0 /\ SameUsers(auth, auth')
        /\ auth'.store = auth.store /\ auth'.cache = auth.cache /\ auth'.told = auth.told
    <3> DEFINE r == RemoveTimer(auth, t.id)
    <3>1. /\ r \in AuthRecord /\ r.timers = {} /\ r.slot = 0 /\ SameUsers(auth, r)
          /\ r.store = auth.store /\ r.cache = auth.cache /\ r.told = auth.told
      <4>1. Sound(auth) /\ t.id = auth.slot
        BY <1>1, <2>2
      <4>2. PICK a, id : a = auth /\ id = t.id /\ id = a.slot /\ Sound(a)
        BY <4>1
      <4>3. r = RemoveTimer(a, id)
        BY <4>2
      <4> HIDE DEF r
      <4>4. /\ r \in AuthRecord /\ r.timers = {} /\ r.slot = 0 /\ SameUsers(a, r)
            /\ r.store = a.store /\ r.cache = a.cache /\ r.told = a.told
        BY <4>2, <4>3, RemovesTheTimer
      <4> QED BY <4>2, <4>4
    <3>2. auth' = r
      BY <2>1
    <3> HIDE DEF r
    <3> QED BY <3>1, <3>2 DEF SameUsers
  <2>4. Sound(auth')
    BY <1>2, <2>3 DEF Sound, SameUsers, OneTimer
  <2>5. CallsFit(calls', auth)
    <3>1. MaxCalls + Mint \in Nat /\ "refresh" \in AllKinds
      BY <1>1, MintType, AuthAssumption DEF AllKinds
    <3>2. auth.users[t.user] \in [uid : Uids, token : Tokens]
      BY <1>2, <2>2, UserType
    <3>3. /\ UidOf(auth, t.user) \in Uids /\ t.user \in 0 .. Len(auth.users)
          /\ t.user # 0 /\ auth.users[t.user].uid = UidOf(auth, t.user)
      BY <1>2, <2>2, <3>2 DEF UidOf
    <3>4. CallsFit(calls \cup {[id |-> MaxCalls + Mint, kind |-> "refresh",
                                uid |-> UidOf(auth, t.user), user |-> t.user]}, auth)
      BY <1>3, <3>1, <3>3
    <3> QED BY <1>1, <2>1, <3>4
  <2>6. CallsFit(calls', auth')
    BY <2>3, <2>5 DEF SameUsers, CallsFit
  <2>7. count' = count /\ past' = past /\ (Orderly' <=> Orderly)
    BY <1>5 DEF TimerFires, Orderly
  <2>8. /\ Saved(auth) => Saved(auth')
        /\ Told(auth) => Told(auth')
        /\ Served(auth')
    BY <2>3 DEF SameUsers, Saved, Told, Served, StateOf, UidOf
  <2> QED BY <1>1, <2>4, <2>6, <2>7, <2>8, Concludes
<1> QED BY <1>4, <1>5

\* Every step keeps SessionInv.
LEMMA SessionStep ==
  ASSUME SessionInv, [Next]_vars
  PROVE  SessionInv'
<1>1. CASE Begin \/ TimerFires
  BY <1>1, CallStep
<1>2. ASSUME NEW c \in calls, Answer(c) PROVE SessionInv'
  <2>1. CASE SignedIn(c) \/ Reauthenticated(c) \/ AccountUpdated(c) \/ Reloaded(c)
    BY <2>1, AdoptingStep
  <2>2. CASE Refreshed(c)
    BY <2>2, RefreshStep
  <2>3. CASE Expelled(c)
    BY <2>3, ExpelStep
  <2>4. CASE Ended(c)
    <3>1. /\ Sound(auth) /\ CallsFit(calls, auth) /\ count \in Counts /\ past \in Pasts
          /\ Orderly => Saved(auth) /\ Served(auth)
          /\ Orderly /\ ~past.mismatch => Told(auth)
      BY InvMeans
    <3>2. CallsFit(calls', auth)
      BY <2>4, <3>1 DEF Ended, Done, CallsFit
    <3>3. auth' = auth /\ count' = count /\ past' = past /\ (Orderly' <=> Orderly)
      BY <2>4 DEF Ended, Orderly
    <3> QED BY <3>1, <3>2, <3>3, Concludes
  <2> QED BY <1>2, <2>1, <2>2, <2>3, <2>4 DEF Answer
<1>3. CASE SignOut
  BY <1>3, SignOutStep
<1>4. CASE PeerWrites
  BY <1>4, PeerStep
<1>5. CASE Restart
  BY <1>5, RestartStep
<1>6. CASE UNCHANGED vars
  BY <1>6 DEF vars, SessionInv, TypeOK, CallsKnowTheirUser, SessionIsPersisted, ListenersFollow,
              TimersServeTheCurrentUser, Orderly
<1> QED BY <1>1, <1>2, <1>3, <1>4, <1>5, <1>6 DEF Next

\* A new Auth over an empty store satisfies SessionInv.
LEMMA SessionInit == Init => SessionInv
<1> SUFFICES ASSUME Init PROVE SessionInv
  OBVIOUS
<1>1. <<>> \in Users /\ {} \in Timers /\ <<>> \in Notified /\ None \in Session /\ 0 \in Tokens
  BY AuthAssumption DEF Users, Timers, Notified, Session, Tokens
<1>2. auth \in AuthRecord /\ auth = Fresh(None)
  BY <1>1 DEF Init, Fresh, AuthRecord
<1>3. Sound(auth) /\ Saved(auth) /\ Told(auth) /\ Served(auth)
  BY <1>2 DEF Fresh, Sound, OneTimer, Saved, Told, Served, StateOf, UidOf
<1>4. CallsFit(calls, auth) /\ count \in Counts /\ past \in Pasts
  BY <1>1, AuthAssumption DEF Init, CallsFit, Counts, Pasts
<1> QED BY <1>3, <1>4, InvMeans

\* SessionInv holds in every reachable state.
LEMMA SessionHolds == Spec => []SessionInv
<1>1. SessionInv /\ [Next]_vars => SessionInv'
  BY SessionStep
<1> QED BY SessionInit, <1>1, PTL DEF Spec

\* Type correctness of the session of an Auth instance.
THEOREM AuthTypeCorrect == Spec => []TypeOK
<1>1. SessionInv => TypeOK
  BY DEF SessionInv
<1> QED BY SessionHolds, <1>1, PTL

\* However many calls, peers, restarts and failures there are, the store and its
\* cache hold the session of the current user unless an answer was stale or a write
\* failed (save_persisted_state on every path).
THEOREM SessionStaysPersisted == Spec => []SessionIsPersisted
<1>1. SessionInv => SessionIsPersisted
  BY DEF SessionInv
<1> QED BY SessionHolds, <1>1, PTL

\* The listeners were last told of the current account, unless an answer was stale,
\* a write failed or another account reauthenticated (publish_user).
THEOREM ListenersStayInformed == Spec => []ListenersFollow
<1>1. SessionInv => ListenersFollow
  BY DEF SessionInv
<1> QED BY SessionHolds, <1>1, PTL

\* At most one refresh is pending, stale answers and failed writes included
\* (schedule_refresh_for_user cancels the timer before it spawns another).
THEOREM OneTimerAtMost == Spec => []OneLiveTimer
<1>1. SessionInv => OneLiveTimer
  <2>1. OneTimer(auth) => auth.timers = {} \/ \E t \in auth.timers : auth.timers = {t}
    BY DEF OneTimer
  <2>2. ASSUME auth.timers = {} PROVE OneLiveTimer
    BY <2>2, FS_EmptySet DEF OneLiveTimer
  <2>3. ASSUME NEW t, auth.timers = {t} PROVE OneLiveTimer
    <3>1. Cardinality({t}) = 1
      BY FS_Singleton
    <3> QED BY <2>3, <3>1 DEF OneLiveTimer
  <2> QED BY <2>1, <2>2, <2>3 DEF SessionInv
<1> QED BY SessionHolds, <1>1, PTL

\* The refresh that is pending is for the current user, unless an answer was stale or
\* a write failed: every path that replaces the user cancels the timer of the one
\* before.
THEOREM TimersStayWithTheUser == Spec => []TimersServeTheCurrentUser
<1>1. SessionInv => TimersServeTheCurrentUser
  BY DEF SessionInv
<1> QED BY SessionHolds, <1>1, PTL

-----------------------------------------------------------------------------
(***************************************************************************)
(* Redirects, for any number of providers, pages and requests: where the   *)
(* credential of a request is, and what the events say of it.              *)
(***************************************************************************)
Requested == [provider : Providers, challenge : Nat, operation : Redirect!Operations \cup {"none"}, back : BOOLEAN]
Events == [provider : Providers \cup {"none"}, operation : Redirect!Operations \cup {"none"}, verifier : Nat, request : Nat]
Credentials ==
  [provider : Providers \cup {"none"}, kind : {"none", "code", "token"}, challenge : Nat, verifier : Nat, request : Nat,
   account : Accounts \cup {Redirect!Nobody}]
Applications == [request : Nat, operation : Redirect!Operations \cup {"none"}, event : Nat, kind : {"none", "code", "token"}]

Typed ==
  /\ requests \in Seq(Requested) /\ pending \in Events /\ arrived \subseteq Credentials
  /\ pages \in [Pages -> [pc : {"idle", "taking", "completing", "exchanging"}, event : Events, credential : Credentials]]
  /\ exchanged \subseteq Applications

\* An event belongs to a request, with its operation and no other's verifier.
EventFits(event, all) ==
  /\ event.request \in 1 .. Len(all)
  /\ event.operation = all[event.request].operation
  /\ event.verifier \in {Redirect!NoVerifier, event.request}

\* A credential belongs to a request that came back.
CredentialFits(credential, all) ==
  /\ credential.request \in 1 .. Len(all)
  /\ all[credential.request].back = TRUE
  /\ credential.challenge = all[credential.request].challenge

EventsFit ==
  /\ \A i \in 1 .. Len(requests) : requests[i].challenge \in {Redirect!NoVerifier, i}
  /\ pending # Redirect!NoEvent => EventFits(pending, requests)
  /\ \A p \in Pages : pages[p].pc # "idle" => EventFits(pages[p].event, requests)

CredentialsFit ==
  /\ \A a \in arrived : CredentialFits(a, requests) /\ a.verifier = Redirect!NoVerifier
  /\ \A p \in Pages : Redirect!At(p, "exchanging") =>
       /\ CredentialFits(pages[p].credential, requests)
       /\ pages[p].credential.verifier \in {Redirect!NoVerifier, pages[p].event.request}
  /\ \A a \in exchanged :
       /\ a.request \in 1 .. Len(requests) /\ requests[a.request].back = TRUE
       /\ a.kind = "code" /\ requests[a.request].challenge # Redirect!NoVerifier =>
            a.event = a.request /\ a.operation = requests[a.request].operation

\* A credential is in one place.
CredentialsAreOnce ==
  /\ \A a, b \in arrived : a.request = b.request => a = b
  /\ \A a, b \in exchanged : a.request = b.request => a = b
  /\ \A a \in arrived, b \in exchanged : a.request # b.request
  /\ \A p \in Pages : Redirect!At(p, "exchanging") =>
       /\ \A a \in arrived \cup exchanged : a.request # pages[p].credential.request
       /\ \A q \in Pages : Redirect!At(q, "exchanging") /\ q # p => pages[q].credential.request # pages[p].credential.request

RedirectsInv == Typed /\ EventsFit /\ CredentialsFit /\ CredentialsAreOnce

\* What a new request leaves of those before it.
LEMMA OneMore ==
  ASSUME NEW all \in Seq(Requested), NEW request \in Requested
  PROVE  /\ Append(all, request) \in Seq(Requested) /\ Len(Append(all, request)) = Len(all) + 1
         /\ \A i \in 1 .. Len(all) : Append(all, request)[i] = all[i]
         /\ Append(all, request)[Len(all) + 1] = request
  OBVIOUS

\* Events and credentials of the requests there were still fit.
LEMMA OneMoreFits ==
  ASSUME NEW all \in Seq(Requested), NEW request \in Requested
  PROVE  /\ \A event \in Events : EventFits(event, all) => EventFits(event, Append(all, request))
         /\ \A credential \in Credentials : CredentialFits(credential, all) => CredentialFits(credential, Append(all, request))
  BY OneMore DEF EventFits, CredentialFits, Events, Credentials

\* A request is made while nobody exchanges anything more.
LEMMA RequestKeeps ==
  ASSUME RedirectsInv, NEW request \in Requested, requests' = Append(requests, request), request.challenge \in {Redirect!NoVerifier, Len(requests) + 1},
         pending' \in Events, pending' # Redirect!NoEvent => EventFits(pending', requests'), UNCHANGED <<arrived, pages, exchanged>>
  PROVE  RedirectsInv'
<1>1. /\ requests' \in Seq(Requested) /\ Len(requests') = Len(requests) + 1 /\ Len(requests) \in Nat
      /\ \A i \in 1 .. Len(requests) : requests'[i] = requests[i]
      /\ requests'[Len(requests) + 1] = request
  BY OneMore DEF RedirectsInv, Typed
<1>2. Typed'
  BY <1>1 DEF RedirectsInv, Typed
<1>3. EventsFit'
  <2>1. \A i \in 1 .. Len(requests') : requests'[i].challenge \in {Redirect!NoVerifier, i}
    BY <1>1 DEF RedirectsInv, EventsFit
  <2>2. \A p \in Pages : pages[p].pc # "idle" => EventFits(pages[p].event, requests')
    BY OneMoreFits DEF RedirectsInv, Typed, EventsFit
  <2> QED BY <2>1, <2>2 DEF EventsFit
<1>4. CredentialsFit'
  <2>1. \A a \in arrived : CredentialFits(a, requests') /\ a.verifier = Redirect!NoVerifier
    BY OneMoreFits DEF RedirectsInv, Typed, CredentialsFit
  <2>2. ASSUME NEW p \in Pages, Redirect!At(p, "exchanging") PROVE CredentialFits(pages[p].credential, requests')
    BY <2>2, OneMoreFits DEF RedirectsInv, Typed, CredentialsFit
  <2>3. \A a \in exchanged : a.request \in 1 .. Len(requests') /\ requests'[a.request] = requests[a.request]
    BY <1>1 DEF RedirectsInv, CredentialsFit
  <2> QED BY <2>1, <2>2, <2>3 DEF RedirectsInv, CredentialsFit, Redirect!At
<1>5. CredentialsAreOnce'
  BY DEF RedirectsInv, CredentialsAreOnce, Redirect!At
<1> QED BY <1>2, <1>3, <1>4, <1>5 DEF RedirectsInv

\* A request that is built has a challenge of its own, if any.
LEMMA BuiltRequest ==
  ASSUME requests \in Seq(Requested), NEW provider \in Providers, NEW pkce \in BOOLEAN
  PROVE  /\ Redirect!build_request(provider, pkce) \in Requested /\ Redirect!build_request(provider, pkce).provider = provider
         /\ Redirect!build_request(provider, pkce).challenge \in {Redirect!NoVerifier, Len(requests) + 1}
         /\ Redirect!build_request(provider, pkce).back = FALSE
<1> DEFINE challenge == IF pkce THEN Len(requests) + 1 ELSE Redirect!NoVerifier
<1>1. challenge \in Nat /\ challenge \in {Redirect!NoVerifier, Len(requests) + 1}
  BY DEF Redirect!NoVerifier
<1> HIDE DEF challenge
<1>2. Redirect!build_request(provider, pkce) = [provider |-> provider, challenge |-> challenge, operation |-> "none", back |-> FALSE]
  BY DEF Redirect!build_request, challenge
<1> QED BY <1>1, <1>2 DEF Requested

\* A page starts a redirect.
LEMMA StartRedirectKeeps ==
  ASSUME RedirectsInv, NEW provider \in Providers, NEW pkce \in BOOLEAN, NEW operation \in Redirect!Operations,
         Redirect!StartRedirect(provider, pkce, operation)
  PROVE  RedirectsInv'
<1> DEFINE request == [Redirect!build_request(provider, pkce) EXCEPT !.operation = operation]
<1>1. /\ requests' = Append(requests, request) /\ UNCHANGED <<arrived, pages, exchanged>>
      /\ pending' = Redirect!set_pending_redirect_event(Redirect!build_request(provider, pkce), operation)
  BY DEF Redirect!StartRedirect
<1>2. requests \in Seq(Requested) /\ Len(requests) \in Nat
  BY DEF RedirectsInv, Typed
<1>3. /\ request \in Requested /\ request.challenge \in {Redirect!NoVerifier, Len(requests) + 1} /\ request.operation = operation
      /\ Redirect!build_request(provider, pkce).challenge = request.challenge /\ Redirect!build_request(provider, pkce).provider = provider
  <2> DEFINE built == Redirect!build_request(provider, pkce)
  <2>1. /\ built \in Requested /\ built.provider = provider /\ built.challenge \in {Redirect!NoVerifier, Len(requests) + 1}
    BY <1>2, BuiltRequest
  <2> HIDE DEF built
  <2>2. [built EXCEPT !.operation = operation] \in Requested
    BY <2>1 DEF Requested
  <2> QED BY <2>1, <2>2 DEF Requested, built
<1>4. /\ pending' \in Events /\ pending'.request = Len(requests) + 1 /\ pending'.operation = operation
      /\ pending'.verifier \in {Redirect!NoVerifier, Len(requests) + 1}
  BY <1>1, <1>2, <1>3 DEF Redirect!set_pending_redirect_event, Redirect!verifier_of, Events, Redirect!NoVerifier
<1> HIDE DEF request
<1>5. EventFits(pending', requests')
  BY <1>1, <1>2, <1>3, <1>4, OneMore DEF EventFits
<1> QED BY <1>1, <1>3, <1>4, <1>5, RequestKeeps

\* The browser cannot be sent off.
LEMMA InitiateFailsKeeps ==
  ASSUME RedirectsInv, NEW provider \in Providers, NEW pkce \in BOOLEAN, NEW operation \in Redirect!Operations,
         Redirect!InitiateFails(provider, pkce, operation)
  PROVE  RedirectsInv'
<1> DEFINE request == Redirect!build_request(provider, pkce)
<1>1. requests' = Append(requests, request) /\ pending' = Redirect!NoEvent /\ UNCHANGED <<arrived, pages, exchanged>>
  BY DEF Redirect!InitiateFails
<1>2. requests \in Seq(Requested) /\ Len(requests) \in Nat
  BY DEF RedirectsInv, Typed
<1>3. request \in Requested /\ request.challenge \in {Redirect!NoVerifier, Len(requests) + 1}
  BY <1>2, BuiltRequest
<1>4. Redirect!NoEvent \in Events
  BY DEF Redirect!NoEvent, Events, Redirect!NoVerifier
<1> HIDE DEF request
<1> QED BY <1>1, <1>3, <1>4, RequestKeeps

\* A credential arrives for a request that was not back before.
LEMMA ReturnKeeps ==
  ASSUME RedirectsInv, NEW i \in DOMAIN requests, NEW kind \in {"code", "token"}, NEW account \in Accounts, Redirect!Return(i, kind, account)
  PROVE  RedirectsInv'
<1> DEFINE new == [provider |-> requests[i].provider, kind |-> kind, challenge |-> requests[i].challenge,
                   verifier |-> Redirect!NoVerifier, request |-> i, account |-> account]
<1>1. /\ requests[i].back # TRUE /\ requests' = [requests EXCEPT ![i].back = TRUE] /\ arrived' = arrived \cup {new}
      /\ UNCHANGED <<pending, pages, exchanged>>
  BY DEF Redirect!Return
<1>2. /\ requests \in Seq(Requested) /\ i \in 1 .. Len(requests) /\ Len(requests) \in Nat /\ requests[i] \in Requested
  BY DEF RedirectsInv, Typed
<1>3. /\ requests' \in Seq(Requested) /\ Len(requests') = Len(requests)
      /\ \A j \in 1 .. Len(requests) :
           /\ requests'[j].operation = requests[j].operation /\ requests'[j].challenge = requests[j].challenge
           /\ requests[j].back = TRUE \/ j = i => requests'[j].back = TRUE
  <2> DEFINE back == [requests[i] EXCEPT !.back = TRUE]
  <2>1. /\ back \in Requested /\ back.operation = requests[i].operation /\ back.challenge = requests[i].challenge
        /\ back.back = TRUE
    BY <1>2 DEF Requested
  <2>2. requests' = [requests EXCEPT ![i] = back]
    BY <1>1
  <2> HIDE DEF back
  <2> QED BY <1>2, <2>1, <2>2
<1>4. new \in Credentials /\ new.request = i /\ new.challenge = requests[i].challenge /\ new.verifier = Redirect!NoVerifier
  BY <1>2 DEF Credentials, Requested, Redirect!NoVerifier
<1>5. /\ \A event : EventFits(event, requests) => EventFits(event, requests')
      /\ \A credential : CredentialFits(credential, requests) => CredentialFits(credential, requests')
  BY <1>3 DEF EventFits, CredentialFits
<1> HIDE DEF new
<1>6. Typed'
  BY <1>1, <1>3, <1>4 DEF RedirectsInv, Typed
<1>7. EventsFit'
  BY <1>1, <1>3, <1>5 DEF RedirectsInv, EventsFit
<1>8. CredentialsFit'
  <2>1. CredentialFits(new, requests')
    BY <1>2, <1>3, <1>4 DEF CredentialFits
  <2>2. \A a \in exchanged : a.request \in 1 .. Len(requests) /\ requests[a.request].back = TRUE
    BY DEF RedirectsInv, CredentialsFit
  <2>3. \A a \in exchanged : /\ a.request \in 1 .. Len(requests') /\ requests'[a.request].back = TRUE
                           /\ requests'[a.request].challenge = requests[a.request].challenge
                           /\ requests'[a.request].operation = requests[a.request].operation
    BY <1>3, <2>2
  <2>4. \A a \in arrived' : CredentialFits(a, requests') /\ a.verifier = Redirect!NoVerifier
    BY <1>1, <1>4, <1>5, <2>1 DEF RedirectsInv, CredentialsFit
  <2> QED BY <1>1, <1>5, <2>3, <2>4 DEF RedirectsInv, CredentialsFit, Redirect!At
<1>9. CredentialsAreOnce'
  <2>1. /\ \A a \in arrived \cup exchanged : a.request # i
        /\ \A p \in Pages : Redirect!At(p, "exchanging") => pages[p].credential.request # i
    BY <1>1 DEF RedirectsInv, CredentialsFit, CredentialFits
  <2> QED BY <1>1, <1>4, <2>1 DEF RedirectsInv, CredentialsAreOnce, Redirect!At
<1> QED BY <1>6, <1>7, <1>8, <1>9 DEF RedirectsInv

\* A page goes on, without a credential to exchange.
LEMMA PageKeeps ==
  ASSUME RedirectsInv, NEW p \in Pages, NEW call, Redirect!goes(p, call), UNCHANGED <<requests, arrived, exchanged>>,
         call \in [pc : {"idle", "taking", "completing"}, event : Events, credential : Credentials],
         call.pc # "idle" => EventFits(call.event, requests),
         pending' \in {pending, Redirect!NoEvent}
  PROVE  RedirectsInv'
<1>1. \A q \in Pages : pages'[q] = IF q = p THEN call ELSE pages[q]
  BY DEF RedirectsInv, Typed, Redirect!goes
<1>2. Redirect!NoEvent \in Events
  BY DEF Redirect!NoEvent, Events, Redirect!NoVerifier
<1>3. Typed'
  BY <1>2 DEF RedirectsInv, Typed, Redirect!goes
<1>4. EventsFit'
  BY <1>1 DEF RedirectsInv, EventsFit
<1>5. CredentialsFit'
  BY <1>1 DEF RedirectsInv, CredentialsFit, Redirect!At
<1>6. CredentialsAreOnce'
  BY <1>1 DEF RedirectsInv, CredentialsAreOnce, Redirect!At
<1> QED BY <1>3, <1>4, <1>5, <1>6 DEF RedirectsInv

\* A page that does nothing is a page.
LEMMA IdleIsTyped ==
  /\ Redirect!NoEvent \in Events /\ Redirect!NoCredential \in Credentials
  /\ Redirect!Idle.pc = "idle" /\ Redirect!Idle.event = Redirect!NoEvent /\ Redirect!Idle.credential = Redirect!NoCredential
  /\ Redirect!Idle \in [pc : {"idle", "taking", "completing", "exchanging"}, event : Events, credential : Credentials]
  BY DEF Redirect!Idle, Redirect!NoEvent, Redirect!NoCredential, Events, Credentials, Redirect!NoVerifier, Redirect!Nobody

\* A page gets the result of its redirect, or none.
LEMMA ResultKeeps ==
  ASSUME RedirectsInv, NEW p \in Pages, Redirect!GetRedirectResult(p) \/ Redirect!Take(p) \/ Redirect!NothingToComplete(p)
  PROVE  RedirectsInv'
<1>1. pages[p] \in [pc : {"idle", "taking", "completing", "exchanging"}, event : Events, credential : Credentials]
  BY DEF RedirectsInv, Typed
<1>2. CASE Redirect!GetRedirectResult(p)
  <2> DEFINE call == [Redirect!Idle EXCEPT !.pc = "taking", !.event = pending]
  <2>1. Redirect!goes(p, call) /\ UNCHANGED <<requests, arrived, exchanged>> /\ pending' = pending /\ pending # Redirect!NoEvent
    BY <1>2 DEF Redirect!GetRedirectResult
  <2>2. call \in [pc : {"idle", "taking", "completing"}, event : Events, credential : Credentials] /\ call.event = pending
    BY IdleIsTyped DEF RedirectsInv, Typed
  <2>3. EventFits(pending, requests)
    BY <2>1 DEF RedirectsInv, EventsFit
  <2> HIDE DEF call
  <2> QED BY <2>1, <2>2, <2>3, PageKeeps
<1>3. CASE Redirect!Take(p)
  <2> DEFINE call == [pages[p] EXCEPT !.pc = "completing"]
  <2>1. Redirect!goes(p, call) /\ UNCHANGED <<requests, arrived, exchanged>> /\ pending' = Redirect!NoEvent /\ pages[p].pc = "taking"
    BY <1>3 DEF Redirect!Take, Redirect!At
  <2>2. call \in [pc : {"idle", "taking", "completing"}, event : Events, credential : Credentials] /\ call.event = pages[p].event
    BY <1>1
  <2>3. EventFits(pages[p].event, requests)
    BY <2>1 DEF RedirectsInv, EventsFit
  <2> HIDE DEF call
  <2> QED BY <2>1, <2>2, <2>3, PageKeeps
<1>4. CASE Redirect!NothingToComplete(p)
  <2>1. Redirect!goes(p, Redirect!Idle) /\ UNCHANGED <<requests, arrived, exchanged>> /\ pending' = pending
    BY <1>4 DEF Redirect!NothingToComplete
  <2>2. Redirect!Idle \in [pc : {"idle", "taking", "completing"}, event : Events, credential : Credentials]
    BY IdleIsTyped
  <2> QED BY <2>1, <2>2, IdleIsTyped, PageKeeps
<1> QED BY <1>2, <1>3, <1>4

\* A credential that arrived is taken by one page.
LEMMA CompleteKeeps ==
  ASSUME RedirectsInv, NEW p \in Pages, NEW credential \in arrived, Redirect!Complete(p, credential) PROVE RedirectsInv'
<1> DEFINE taken == Redirect!with_verifier(credential, pages[p].event.verifier)
           call == [pages[p] EXCEPT !.pc = "exchanging", !.credential = taken]
<1>1. /\ pages[p].pc = "completing" /\ arrived' = arrived \ {credential} /\ Redirect!goes(p, call)
      /\ UNCHANGED <<requests, pending, exchanged>>
  BY DEF Redirect!Complete, Redirect!At
<1>2. /\ pages[p] \in [pc : {"idle", "taking", "completing", "exchanging"}, event : Events, credential : Credentials]
      /\ credential \in Credentials /\ EventFits(pages[p].event, requests)
      /\ CredentialFits(credential, requests) /\ credential.verifier = Redirect!NoVerifier
  BY <1>1 DEF RedirectsInv, Typed, EventsFit, CredentialsFit
<1>3. /\ taken \in Credentials /\ taken.request = credential.request /\ taken.challenge = credential.challenge
      /\ taken.verifier \in {Redirect!NoVerifier, pages[p].event.request}
  BY <1>2 DEF Redirect!with_verifier, Credentials, Events, EventFits
<1> HIDE DEF taken
<1>4. /\ call \in [pc : {"idle", "taking", "completing", "exchanging"}, event : Events, credential : Credentials]
      /\ call.pc = "exchanging" /\ call.event = pages[p].event /\ call.credential = taken
  BY <1>2, <1>3
<1> HIDE DEF call
<1>5. \A q \in Pages : pages'[q] = IF q = p THEN call ELSE pages[q]
  BY <1>1 DEF RedirectsInv, Typed, Redirect!goes
<1>6. Typed'
  BY <1>1, <1>4 DEF RedirectsInv, Typed, Redirect!goes
<1>7. EventsFit'
  BY <1>1, <1>2, <1>4, <1>5 DEF RedirectsInv, EventsFit
<1>8. CredentialsFit'
  <2>1. CredentialFits(taken, requests)
    BY <1>2, <1>3 DEF CredentialFits
  <2> QED BY <1>1, <1>3, <1>4, <1>5, <2>1 DEF RedirectsInv, CredentialsFit, Redirect!At
<1>9. CredentialsAreOnce'
  <2>1. /\ \A a \in arrived' \cup exchanged : a.request # credential.request
        /\ \A q \in Pages : Redirect!At(q, "exchanging") => pages[q].credential.request # credential.request
    BY <1>1 DEF RedirectsInv, CredentialsAreOnce
  <2> QED BY <1>1, <1>3, <1>4, <1>5, <2>1 DEF RedirectsInv, CredentialsAreOnce, Redirect!At
<1> QED BY <1>6, <1>7, <1>8, <1>9 DEF RedirectsInv

\* A popup's credential belongs to the request made for it.
LEMMA OpenPopupKeeps ==
  ASSUME RedirectsInv, NEW p \in Pages, NEW provider \in Providers, NEW pkce \in BOOLEAN, NEW operation \in Redirect!Operations,
         NEW account \in Accounts, Redirect!OpenPopup(p, provider, pkce, operation, account)
  PROVE  RedirectsInv'
<1> DEFINE n == Len(requests) + 1
           built == Redirect!build_request(provider, pkce)
           request == [built EXCEPT !.operation = operation, !.back = TRUE]
           event == [Redirect!NoEvent EXCEPT !.operation = operation, !.request = n]
           credential == [provider |-> provider, kind |-> "code", challenge |-> built.challenge,
                          verifier |-> Redirect!verifier_of(built), request |-> n, account |-> account]
           call == [pc |-> "exchanging", event |-> event, credential |-> credential]
<1>1. /\ requests' = Append(requests, request) /\ Redirect!goes(p, call) /\ pages[p].pc = "idle"
      /\ UNCHANGED <<pending, arrived, exchanged>>
  BY DEF Redirect!OpenPopup, Redirect!At
<1>2. requests \in Seq(Requested) /\ Len(requests) \in Nat /\ n \in Nat
  BY DEF RedirectsInv, Typed
<1>3. built \in Requested /\ built.challenge \in {Redirect!NoVerifier, n} /\ built.challenge \in Nat
  BY <1>2, BuiltRequest DEF Requested
<1> HIDE DEF built
<1>4. /\ request \in Requested /\ request.challenge = built.challenge /\ request.operation = operation /\ request.back = TRUE
  BY <1>3 DEF Requested
<1>5. event \in Events /\ event.request = n /\ event.operation = operation /\ event.verifier = Redirect!NoVerifier
  BY <1>2 DEF Redirect!NoEvent, Events, Redirect!NoVerifier
<1>6. /\ credential \in Credentials /\ credential.request = n /\ credential.challenge = built.challenge
      /\ credential.verifier = built.challenge
  BY <1>2, <1>3 DEF Credentials, Redirect!verifier_of
<1> HIDE DEF request, event, credential
<1>7. /\ call \in [pc : {"idle", "taking", "completing", "exchanging"}, event : Events, credential : Credentials]
      /\ call.pc = "exchanging" /\ call.event = event /\ call.credential = credential
  BY <1>5, <1>6
<1> HIDE DEF call
<1>8. /\ requests' \in Seq(Requested) /\ Len(requests') = n
      /\ \A i \in 1 .. Len(requests) : requests'[i] = requests[i]
      /\ requests'[n] = request
  BY <1>1, <1>2, <1>4, OneMore
<1>9. \A q \in Pages : pages'[q] = IF q = p THEN call ELSE pages[q]
  BY <1>1 DEF RedirectsInv, Typed, Redirect!goes
<1>10. /\ \A e \in Events : EventFits(e, requests) => EventFits(e, requests')
       /\ \A c \in Credentials : CredentialFits(c, requests) => CredentialFits(c, requests')
  BY <1>1, <1>2, <1>4, OneMoreFits
<1>11. EventFits(event, requests') /\ CredentialFits(credential, requests')
  BY <1>2, <1>4, <1>5, <1>6, <1>8 DEF EventFits, CredentialFits
<1>12. Typed'
  BY <1>1, <1>7, <1>8 DEF RedirectsInv, Typed, Redirect!goes
<1>13. EventsFit'
  <2>1. \A i \in 1 .. Len(requests') : requests'[i].challenge \in {Redirect!NoVerifier, i}
    BY <1>2, <1>3, <1>4, <1>8 DEF RedirectsInv, EventsFit
  <2>2. \A q \in Pages : pages'[q].pc # "idle" => EventFits(pages'[q].event, requests')
    BY <1>7, <1>9, <1>10, <1>11 DEF RedirectsInv, Typed, EventsFit
  <2>3. pending # Redirect!NoEvent => EventFits(pending, requests')
    BY <1>10 DEF RedirectsInv, Typed, EventsFit
  <2> QED BY <1>1, <2>1, <2>2, <2>3 DEF EventsFit
<1>14. CredentialsFit'
  <2>1. \A a \in arrived : CredentialFits(a, requests') /\ a.verifier = Redirect!NoVerifier
    BY <1>10 DEF RedirectsInv, Typed, CredentialsFit
  <2>2. ASSUME NEW q \in Pages, Redirect!At(q, "exchanging")'
        PROVE  /\ CredentialFits(pages'[q].credential, requests')
               /\ pages'[q].credential.verifier \in {Redirect!NoVerifier, pages'[q].event.request}
    <3>1. CASE q = p
      BY <1>3, <1>5, <1>6, <1>7, <1>9, <1>11, <3>1
    <3>2. CASE q # p
      BY <1>9, <1>10, <2>2, <3>2 DEF RedirectsInv, Typed, CredentialsFit, Redirect!At
    <3> QED BY <3>1, <3>2
  <2>3. \A a \in exchanged : a.request \in 1 .. Len(requests') /\ requests'[a.request] = requests[a.request]
    BY <1>2, <1>8 DEF RedirectsInv, CredentialsFit
  <2> QED BY <1>1, <2>1, <2>2, <2>3 DEF RedirectsInv, CredentialsFit
<1>15. CredentialsAreOnce'
  <2>1. /\ \A a \in arrived \cup exchanged : a.request # n
        /\ \A q \in Pages : Redirect!At(q, "exchanging") => pages[q].credential.request # n
    BY <1>2 DEF RedirectsInv, CredentialsFit, CredentialFits
  <2> QED BY <1>1, <1>6, <1>7, <1>9, <2>1 DEF RedirectsInv, CredentialsAreOnce, Redirect!At
<1> QED BY <1>12, <1>13, <1>14, <1>15 DEF RedirectsInv

\* A code of a request made with PKCE is redeemed with that request's verifier,
\* which the event has only if it is that request's.
LEMMA ExchangeKeeps ==
  ASSUME RedirectsInv, NEW p \in Pages, Redirect!Exchange(p) PROVE RedirectsInv'
<1> DEFINE call == pages[p]
           new == [request |-> call.credential.request, operation |-> call.event.operation,
                   event |-> call.event.request, kind |-> call.credential.kind]
<1>1. /\ pages[p].pc = "exchanging" /\ Redirect!goes(p, Redirect!Idle) /\ UNCHANGED <<requests, pending, arrived>>
      /\ exchanged' = exchanged \/ (exchanged' = exchanged \cup {new} /\ Redirect!Redeemed(call.credential))
  BY DEF Redirect!Exchange, Redirect!At
<1>2. /\ call \in [pc : {"idle", "taking", "completing", "exchanging"}, event : Events, credential : Credentials]
      /\ EventFits(call.event, requests) /\ CredentialFits(call.credential, requests)
      /\ call.credential.verifier \in {Redirect!NoVerifier, call.event.request}
  BY <1>1 DEF RedirectsInv, Typed, EventsFit, CredentialsFit, Redirect!At
<1>3. \A q \in Pages : pages'[q] = IF q = p THEN Redirect!Idle ELSE pages[q]
  BY <1>1 DEF RedirectsInv, Typed, Redirect!goes
<1>4. new \in Applications
  BY <1>2 DEF Applications, Events, Credentials
<1>5. Typed'
  BY <1>1, <1>4, IdleIsTyped DEF RedirectsInv, Typed, Redirect!goes
<1>6. EventsFit'
  BY <1>1, <1>3, IdleIsTyped DEF RedirectsInv, EventsFit
<1>7. CredentialsFit'
  <2>1. ASSUME Redirect!Redeemed(call.credential), new.kind = "code", requests[new.request].challenge # Redirect!NoVerifier
        PROVE  new.event = new.request /\ new.operation = requests[new.request].operation
    <3>1. call.credential.verifier = call.credential.challenge /\ call.credential.challenge # Redirect!NoVerifier
      BY <1>2, <2>1 DEF Redirect!Redeemed, CredentialFits
    <3>2. call.credential.challenge = call.credential.request
      BY <1>2, <3>1 DEF RedirectsInv, EventsFit, CredentialFits
    <3>3. call.event.request = call.credential.request
      BY <1>2, <3>1, <3>2
    <3> QED BY <1>2, <3>3 DEF EventFits
  <2>2. new.request \in 1 .. Len(requests) /\ requests[new.request].back = TRUE
    BY <1>2 DEF CredentialFits
  <2> HIDE DEF new
  <2>3. \A a \in exchanged' :
          /\ a.request \in 1 .. Len(requests) /\ requests[a.request].back = TRUE
          /\ a.kind = "code" /\ requests[a.request].challenge # Redirect!NoVerifier =>
               a.event = a.request /\ a.operation = requests[a.request].operation
    BY <1>1, <2>1, <2>2 DEF RedirectsInv, CredentialsFit
  <2> QED BY <1>1, <1>3, <2>3, IdleIsTyped DEF RedirectsInv, CredentialsFit, Redirect!At
<1>8. CredentialsAreOnce'
  <2>1. new.request = call.credential.request
    OBVIOUS
  <2> HIDE DEF new
  <2>2. \A a \in arrived \cup exchanged : a.request # new.request
    BY <1>1, <2>1 DEF RedirectsInv, CredentialsAreOnce, Redirect!At
  <2>3. \A q \in Pages : Redirect!At(q, "exchanging")' => Redirect!At(q, "exchanging") /\ q # p /\ pages'[q] = pages[q] /\ pages[q].credential.request # new.request
    BY <1>1, <1>3, <2>1, IdleIsTyped DEF RedirectsInv, CredentialsAreOnce, Redirect!At
  <2> QED BY <1>1, <2>2, <2>3 DEF RedirectsInv, CredentialsAreOnce
<1> QED BY <1>5, <1>6, <1>7, <1>8 DEF RedirectsInv

\* However redirects overtake each other, a code of a request made with PKCE is
\* redeemed only for what that request was started for, and a request's credential is
\* applied once (sign_in_with_redirect, get_redirect_result, the popups).
THEOREM RedirectsFit == Redirect!Spec => []Redirect!RedirectsCompleteTheirRequest
<1>1. Redirect!Init => RedirectsInv
  <2> SUFFICES ASSUME Redirect!Init PROVE RedirectsInv
    OBVIOUS
  <2>1. /\ pending = Redirect!NoEvent /\ requests = <<>> /\ arrived = {} /\ pages = [p \in Pages |-> Redirect!Idle] /\ exchanged = {}
    BY DEF Redirect!Init
  <2> QED BY <2>1, IdleIsTyped DEF RedirectsInv, Typed, EventsFit, CredentialsFit, CredentialsAreOnce, Redirect!At
<1>2. RedirectsInv /\ [Redirect!Next]_Redirect!oauthVars => RedirectsInv'
  <2> SUFFICES ASSUME RedirectsInv, [Redirect!Next]_Redirect!oauthVars PROVE RedirectsInv'
    OBVIOUS
  <2>1. CASE UNCHANGED <<requests, pending, arrived, pages, exchanged>>
    BY <2>1 DEF RedirectsInv, Typed, EventsFit, CredentialsFit, CredentialsAreOnce, Redirect!At
  <2>2. Redirect!SignOut => UNCHANGED <<requests, pending, arrived, pages, exchanged>>
    BY DEF Redirect!SignOut
  <2> QED BY <2>1, <2>2, StartRedirectKeeps, InitiateFailsKeeps, OpenPopupKeeps, ReturnKeeps, ResultKeeps, CompleteKeeps,
             ExchangeKeeps DEF Redirect!Next, Redirect!oauthVars
<1>3. RedirectsInv => Redirect!RedirectsCompleteTheirRequest
  BY DEF RedirectsInv, CredentialsFit, CredentialsAreOnce, Redirect!RedirectsCompleteTheirRequest
<1> QED BY <1>1, <1>2, <1>3, PTL DEF Redirect!Spec

-----------------------------------------------------------------------------
(***************************************************************************)
(* One App Check instance, for any callers, lifetimes, waits and bounds.   *)
(* The invariant: a sleep after a success is shorter than the life of the  *)
(* token; what blocks the provider is the throttle's, and no exchange is   *)
(* then under way; and, unless a switch overlapped a start or another      *)
(* switch, one loop at most runs on a refresher, on the installed one or   *)
(* cancelled, and a start that has set `running` is alone on it.           *)
(***************************************************************************)
CONSTANTS Callers, Loops, Refreshers, Ttl, Offset, MinWait, MaxWait, OneDay, MaxCheckCalls
VARIABLES st, refs, jobs, throttle, checkCalls, checkPast

Check == INSTANCE AppCheck WITH MaxCalls <- MaxCheckCalls, calls <- checkCalls, past <- checkPast

\* What a task does, and the types of the state.
Stops == {"idle", "activating", "exchanging", "limited", "reading", "ensuring", "starting", "resetting", "clearing", "top", "sleeping"}
CheckJobs == [pc : Stops, ref : 0 .. Refreshers, cached : Check!Tokens, ok : BOOLEAN, own : 0 .. Refreshers, left : 0 .. (Ttl + MaxWait)]
CheckRefs == [made : BOOLEAN, running : BOOLEAN, cancel : BOOLEAN, wait : MinWait .. MaxWait]
CheckStates == [listed : BOOLEAN, activated : BOOLEAN, auto : BOOLEAN, token : Check!Tokens, refresher : 0 .. Refreshers]
CheckPasts == [raced : BOOLEAN, stale : BOOLEAN, blocked : 0 .. OneDay, ignored : BOOLEAN]

\* Loops only refresh, and callers do the rest.
Roles ==
  /\ \A l \in Loops : jobs[l].pc \notin {"activating", "limited", "clearing"}
  /\ st.auto => st.activated

\* A refusal that blocks is the throttle's, and no exchange is under way.
Blocking == checkPast.blocked <= throttle /\ (checkPast.blocked > 0 => Check!Exchanging = {})

\* A sleep that follows a success ends before a token stored meanwhile would expire.
Sleeping == \A l \in Loops : Check!At(l, "sleeping") /\ jobs[l].ok => jobs[l].left < Ttl

Busy(l) == jobs[l].pc # "idle"
\* What a refresher, a loop or a start refers to has been made.
AllMade ==
  /\ st.refresher # 0 => refs[st.refresher].made
  /\ \A l \in Loops : Busy(l) => jobs[l].own # 0 /\ refs[jobs[l].own].made
  /\ \A t \in Check!Threads : jobs[t].pc \in {"starting", "resetting"} => jobs[t].ref # 0 /\ refs[jobs[t].ref].made

\* One loop runs on a refresher; it is the one installed, or it has been cancelled.
OneOwner == \A l, m \in Loops : Busy(l) /\ Busy(m) /\ jobs[l].own = jobs[m].own => l = m
Current == \A l \in Loops : Busy(l) => \/ jobs[l].own = st.refresher /\ refs[jobs[l].own].running
                                       \/ jobs[l].own # st.refresher /\ refs[jobs[l].own].cancel

\* Starts concern the installed refresher, and one that has set `running` is alone.
Starts == \A t \in Check!Threads : jobs[t].pc \in {"starting", "resetting"} => jobs[t].ref = st.refresher /\ st.refresher # 0
Resets ==
  /\ \A t \in Check!Threads : Check!At(t, "resetting") => refs[st.refresher].running /\ \A l \in Loops : Busy(l) => jobs[l].own # st.refresher
  /\ \A t, u \in Check!Threads : Check!At(t, "resetting") /\ Check!At(u, "resetting") => t = u

\* Disabled, nothing starts, and the refresher is gone or about to be.
Disabled == ~st.auto => Check!Starting = {} /\ (st.refresher = 0 \/ \E t \in Callers : Check!At(t, "clearing"))
Clearing == \A t \in Callers : Check!At(t, "clearing") => ~st.auto /\ st.activated

Running == OneOwner /\ Current /\ Starts /\ Resets /\ Disabled /\ Clearing
\* The invariant: the types, and this beside them.
CheckSound ==
  /\ Roles /\ ~checkPast.stale /\ ~checkPast.ignored /\ Blocking /\ Sleeping /\ Check!RefreshPrecedesExpiry /\ AllMade
  /\ ~checkPast.raced => Running

CheckTyped ==
  /\ st \in CheckStates /\ refs \in [1 .. Refreshers -> CheckRefs] /\ jobs \in [Check!Threads -> CheckJobs]
  /\ throttle \in 0 .. OneDay /\ checkCalls \in 0 .. MaxCheckCalls /\ checkPast \in CheckPasts

\* TypeOK, component by component.
LEMMA TypesAre == Check!TypeOK <=> CheckTyped
BY DEF Check!TypeOK, CheckTyped, CheckStates, CheckRefs, CheckJobs, CheckPasts, Stops

\* What the bounds are.
LEMMA Constants ==
  ASSUME Check!ConstantsOK
  PROVE  /\ Refreshers \in Nat /\ MinWait \in Nat /\ MaxWait \in Nat /\ OneDay \in Nat /\ MaxCheckCalls \in Nat
         /\ Ttl \in Nat /\ Offset \in Nat /\ Ttl > 0 /\ Offset > 0 /\ OneDay > 0 /\ MinWait <= MaxWait /\ Check!NoToken = -1
         /\ \A x \in Callers : x \notin Loops
BY DEF Check!ConstantsOK, Check!NoToken

\* What a tick leaves of a duration.
LEMMA LessIs ==
  ASSUME NEW n \in Int
  PROVE  Check!Less(n) \in Int /\ Check!Less(n) <= n /\ (n > 0 => Check!Less(n) = n - 1) /\ (n <= 0 => Check!Less(n) = n)
BY DEF Check!Less

\* A task outside every call.
LEMMA IdleTaskIsTyped ==
  ASSUME Check!ConstantsOK
  PROVE  Check!Idle \in CheckJobs /\ Check!Idle.pc = "idle" /\ Check!Idle.own = 0 /\ Check!Idle.ref = 0
<1>1. Check!NoToken \in Check!Tokens /\ 0 \in 0 .. Refreshers /\ 0 \in 0 .. (Ttl + MaxWait) BY Constants DEF Check!Tokens
<1> QED BY <1>1 DEF Check!Idle, CheckJobs, Stops

\* What becomes of a task that returns.
LEMMA FinishIs ==
  ASSUME Check!ConstantsOK, CheckTyped, NEW t \in Check!Threads, NEW ok \in BOOLEAN, NEW j, j = Check!finish(t, ok)
  PROVE  /\ j \in CheckJobs /\ j.pc \in {"idle", "top"}
         /\ t \in Loops => j.pc = "top" /\ j.own = jobs[t].own
         /\ t \notin Loops => j.pc = "idle"
<1>1. jobs[t].own \in 0 .. Refreshers BY DEF CheckTyped, CheckJobs
<1>2. CASE t \in Loops
  <2>1. j = [Check!Idle EXCEPT !.pc = "top", !.own = jobs[t].own, !.ok = ok] BY <1>2 DEF Check!finish
  <2>2. j \in CheckJobs BY <2>1, <1>1, IdleTaskIsTyped DEF CheckJobs, Stops
  <2>3. j.pc = "top" /\ j.own = jobs[t].own BY <2>1, IdleTaskIsTyped DEF CheckJobs
  <2> QED BY <2>2, <2>3, <1>2
<1>3. CASE t \notin Loops BY <1>3, IdleTaskIsTyped DEF Check!finish
<1> QED BY <1>2, <1>3

\* compute_refresh_delay wakes before the token expires.
LEMMA DelayIs ==
  ASSUME Check!ConstantsOK, NEW token \in Check!Tokens
  PROVE  /\ Check!compute_refresh_delay(token) \in 0 .. Ttl
         /\ Check!compute_refresh_delay(token) < Ttl
         /\ token > 0 => Check!compute_refresh_delay(token) < token
<1>0. token \in Int /\ token <= Ttl BY Constants DEF Check!Tokens
<1>1. PICK mid \in Int : mid = Ttl \div 2 + Offset - (Ttl - token) BY Constants, <1>0
<1>2. PICK latest \in Int : latest = token - Offset BY Constants, <1>0
<1>3. PICK target \in Int : target = IF mid <= latest THEN mid ELSE latest BY <1>1, <1>2
<1>4. target <= latest BY <1>3
<1>5. Check!compute_refresh_delay(token) = IF token = Check!NoToken \/ target < 0 THEN 0 ELSE target
  BY <1>1, <1>2, <1>3 DEF Check!compute_refresh_delay
<1>6. PICK delay \in Int : delay = Check!compute_refresh_delay(token) BY <1>5
<1>7. CASE token = Check!NoToken \/ target < 0 BY <1>5, <1>7, <1>0, Constants
<1>8. CASE ~(token = Check!NoToken \/ target < 0) BY <1>5, <1>8, <1>2, <1>4, <1>0, Constants
<1> QED BY <1>7, <1>8

\* A tick keeps the types.
LEMMA LessOfTyped ==
  ASSUME Check!ConstantsOK
  PROVE  /\ \A x \in Check!Tokens : Check!Less(x) \in Check!Tokens
         /\ \A x \in 0 .. (Ttl + MaxWait) : Check!Less(x) \in 0 .. (Ttl + MaxWait)
         /\ \A x \in 0 .. OneDay : Check!Less(x) \in 0 .. OneDay
BY Constants DEF Check!Less, Check!Tokens

\* What the requests of the provider change.
LEMMA ExchangesIs ==
  ASSUME Check!ConstantsOK, CheckTyped, NEW t \in Check!Threads, NEW pc \in {"exchanging", "limited"}, Check!exchanges(t, pc)
  PROVE  /\ jobs' \in [Check!Threads -> CheckJobs] /\ checkPast' \in CheckPasts
         /\ jobs'[t].pc = pc /\ jobs'[t].own = jobs[t].own
         /\ \A u \in Check!Threads : u # t => jobs'[u] = jobs[u]
         /\ checkPast'.raced = checkPast.raced /\ checkPast'.stale = checkPast.stale /\ checkPast'.blocked = checkPast.blocked
         /\ checkPast.blocked = 0 /\ ~checkPast.ignored => ~checkPast'.ignored
<1>0. jobs \in [Check!Threads -> CheckJobs] /\ checkPast \in CheckPasts /\ st.token \in Check!Tokens BY DEF CheckTyped, CheckStates
<1>1. PICK c \in Check!Tokens : c = IF pc = "limited" THEN Check!NoToken ELSE st.token
  BY <1>0, Constants DEF Check!Tokens
<1>2. jobs' = [jobs EXCEPT ![t] = [jobs[t] EXCEPT !.pc = pc, !.cached = c]] BY <1>1 DEF Check!exchanges, Check!goes
<1>3. [jobs[t] EXCEPT !.pc = pc, !.cached = c] \in CheckJobs BY <1>0 DEF CheckJobs, Stops
<1>4. jobs'[t].pc = pc /\ jobs'[t].own = jobs[t].own BY <1>0, <1>2 DEF CheckJobs
<1>5. PICK b \in BOOLEAN : b = (checkPast.ignored \/ checkPast.blocked > 0) OBVIOUS
<1>6. checkPast' = [checkPast EXCEPT !.ignored = b] BY <1>0, <1>5 DEF Check!exchanges, CheckPasts
<1>7. checkPast' \in CheckPasts BY <1>0, <1>6 DEF CheckPasts
<1>8. checkPast'.raced = checkPast.raced /\ checkPast'.stale = checkPast.stale /\ checkPast'.blocked = checkPast.blocked /\ checkPast'.ignored = b
  BY <1>0, <1>6 DEF CheckPasts
<1>9. checkPast.blocked = 0 /\ ~checkPast.ignored => ~b
  <2>1. checkPast.blocked = 0 => ~(checkPast.blocked > 0) OBVIOUS
  <2> QED BY <1>5, <2>1, Zenon
<1> QED BY <1>0, <1>2, <1>3, <1>4, <1>7, <1>8, <1>9

\* What a refusal changes.
LEMMA BacksOffIs ==
  ASSUME Check!ConstantsOK, CheckTyped, NEW t \in Check!Threads, NEW stale \in BOOLEAN, Check!backsOff(t, stale), Check!Exchanging # {}, Blocking
  PROVE  /\ throttle' \in 0 .. OneDay /\ checkPast' \in CheckPasts
         /\ checkPast'.raced = checkPast.raced /\ checkPast'.ignored = checkPast.ignored
         /\ ~checkPast.stale /\ ~stale => ~checkPast'.stale
         /\ checkPast'.blocked <= throttle' /\ (checkPast'.blocked > 0 => Check!Exchanging = {t})
<1>0. checkPast \in CheckPasts /\ throttle \in 0 .. OneDay BY DEF CheckTyped
<1>1. PICK b \in BOOLEAN : b = (checkPast.stale \/ stale) OBVIOUS
<1>2. CASE UNCHANGED throttle /\ checkPast' = [checkPast EXCEPT !.stale = @ \/ stale]
  <2>1. checkPast' = [checkPast EXCEPT !.stale = b] BY <1>0, <1>1, <1>2 DEF CheckPasts
  <2>2. checkPast' \in CheckPasts BY <1>0, <2>1 DEF CheckPasts
  <2>3. checkPast'.raced = checkPast.raced /\ checkPast'.ignored = checkPast.ignored /\ checkPast'.blocked = checkPast.blocked /\ checkPast'.stale = b
    BY <1>0, <2>1 DEF CheckPasts
  <2>4. checkPast.blocked = 0 BY <1>0 DEF Blocking, CheckPasts
  <2>5. checkPast'.blocked <= throttle' /\ ~(checkPast'.blocked > 0) BY <1>0, <1>2, <2>3, <2>4, Constants
  <2>6. throttle' \in 0 .. OneDay BY <1>0, <1>2
  <2> QED BY <2>2, <2>3, <2>5, <2>6, <1>1
<1>3. ASSUME NEW forbidden \in BOOLEAN, throttle' \in Check!set_backoff(forbidden),
             checkPast' = [checkPast EXCEPT !.stale = @ \/ stale, !.blocked = IF forbidden /\ Check!Exchanging = {t} THEN OneDay ELSE 0]
      PROVE  /\ throttle' \in 0 .. OneDay /\ checkPast' \in CheckPasts
             /\ checkPast'.raced = checkPast.raced /\ checkPast'.ignored = checkPast.ignored
             /\ ~checkPast.stale /\ ~stale => ~checkPast'.stale
             /\ checkPast'.blocked <= throttle' /\ (checkPast'.blocked > 0 => Check!Exchanging = {t})
  <2>1. PICK n \in 0 .. OneDay : n = IF forbidden /\ Check!Exchanging = {t} THEN OneDay ELSE 0 BY Constants
  <2>2. checkPast' = [checkPast EXCEPT !.stale = b, !.blocked = n]
    <3>1. checkPast' = [checkPast EXCEPT !.stale = @ \/ stale, !.blocked = n] BY <1>3, <2>1
    <3> QED BY <3>1, <1>0, <1>1 DEF CheckPasts
  <2>3. checkPast' \in CheckPasts BY <1>0, <2>2 DEF CheckPasts
  <2>4. checkPast'.raced = checkPast.raced /\ checkPast'.ignored = checkPast.ignored /\ checkPast'.blocked = n /\ checkPast'.stale = b
    BY <1>0, <2>2 DEF CheckPasts
  <2>5. throttle' \in 0 .. OneDay BY <1>3, Constants DEF Check!set_backoff
  <2>6. n <= throttle'
    <3>1. CASE forbidden BY <3>1, <1>3, <2>1, Constants DEF Check!set_backoff
    <3>2. CASE ~forbidden BY <3>2, <2>1, <2>5, Constants
    <3> QED BY <3>1, <3>2
  <2>7. n > 0 => Check!Exchanging = {t} BY <2>1
  <2> QED BY <2>3, <2>4, <2>5, <2>6, <2>7, <1>1
<1> QED BY <1>2, <1>3 DEF Check!backsOff

\* A loop in progress runs on a refresher.
LEMMA OwnersAre ==
  ASSUME CheckTyped, AllMade, NEW l \in Loops, Busy(l)
  PROVE  jobs[l].own \in 1 .. Refreshers
BY DEF CheckTyped, CheckJobs, AllMade, Check!Threads

\* A step of one task that starts and stops no loop.
LEMMA TaskMoves ==
  ASSUME Check!ConstantsOK, CheckTyped, CheckSound, NEW t \in Check!Threads, NEW j \in CheckJobs, jobs' = [jobs EXCEPT ![t] = j],
         st' \in CheckStates, st'.refresher = st.refresher, st'.token \in {st.token, Ttl},
         st'.auto = st.auto \/ (st'.auto /\ ~st.activated), st.activated => st'.activated, st'.auto => st'.activated,
         refs' \in [1 .. Refreshers -> CheckRefs],
         \A r \in 1 .. Refreshers : refs'[r].made = refs[r].made /\ refs'[r].running = refs[r].running /\ refs'[r].cancel = refs[r].cancel,
         checkPast' \in CheckPasts, checkPast'.raced = checkPast.raced, ~checkPast'.stale, ~checkPast'.ignored, throttle' \in 0 .. OneDay, checkCalls' \in 0 .. MaxCheckCalls,
         checkPast'.blocked <= throttle',
         checkPast'.blocked > 0 => j.pc \notin {"exchanging", "limited"} /\ \A u \in Check!Threads : u # t => jobs[u].pc \notin {"exchanging", "limited"},
         t \in Loops => Busy(t) /\ j.own = jobs[t].own /\ j.pc \notin {"activating", "limited", "clearing"},
         j.pc = "sleeping" /\ j.ok => st'.token = st.token /\ j.left < Ttl /\ (st.token > 0 => j.left < st.token),
         j.pc \notin {"starting", "resetting", "clearing"}, jobs[t].pc # "clearing",
         j.pc = "ensuring" => st.auto
  PROVE  CheckTyped' /\ CheckSound'
<1>0. /\ jobs \in [Check!Threads -> CheckJobs] /\ refs \in [1 .. Refreshers -> CheckRefs] /\ st \in CheckStates /\ checkPast \in CheckPasts
  BY DEF CheckTyped
<1>1. jobs'[t] = j /\ \A u \in Check!Threads : u # t => jobs'[u] = jobs[u] BY <1>0
<1>2. CheckTyped' BY <1>0 DEF CheckTyped
<1>3. Roles /\ Blocking /\ Sleeping /\ Check!RefreshPrecedesExpiry /\ AllMade /\ (~checkPast.raced => Running) BY DEF CheckSound
<1>t. \A l \in Loops : l \in Check!Threads BY DEF Check!Threads
<1>4. \A l \in Loops : Busy(l)' => Busy(l) /\ jobs'[l].own = jobs[l].own BY <1>1, <1>t DEF Busy
<1>5. Roles' BY <1>1, <1>t, <1>3 DEF Roles
<1>6. Blocking'
  <2>1. checkPast'.blocked > 0 => \A u \in Check!Threads : jobs'[u].pc \notin {"exchanging", "limited"} BY <1>1
  <2> QED BY <2>1 DEF Blocking, Check!Exchanging
<1>7. Sleeping' /\ Check!RefreshPrecedesExpiry'
  <2> SUFFICES ASSUME NEW l \in Loops, jobs'[l].pc = "sleeping", jobs'[l].ok
               PROVE  jobs'[l].left < Ttl /\ (~Check!is_expired(st'.token) => jobs'[l].left < st'.token)
    BY DEF Sleeping, Check!RefreshPrecedesExpiry, Check!At, Check!is_expired
  <2>0. st.token \in Int /\ st'.token \in Int /\ Ttl \in Int BY <1>0, Constants DEF CheckStates, Check!Tokens
  <2>1. CASE l = t
    <3>1. j.pc = "sleeping" /\ j.ok /\ jobs'[l] = j BY <2>1, <1>1
    <3>2. st'.token = st.token /\ j.left < Ttl /\ (st.token > 0 => j.left < st.token) BY <3>1
    <3> QED BY <3>1, <3>2, <2>0 DEF Check!is_expired
  <2>2. CASE l # t
    <3>1. jobs'[l] = jobs[l] BY <2>2, <1>1, <1>t
    <3>2. jobs[l].left < Ttl /\ (~Check!is_expired(st.token) => jobs[l].left < st.token) BY <3>1, <1>3 DEF Sleeping, Check!RefreshPrecedesExpiry, Check!At
    <3> QED BY <3>1, <3>2, <2>0 DEF Check!is_expired
  <2> QED BY <2>1, <2>2
<1>8. AllMade'
  <2>1. st'.refresher # 0 => refs'[st'.refresher].made BY <1>0, <1>3 DEF AllMade, CheckStates
  <2>2. ASSUME NEW l \in Loops, Busy(l)' PROVE jobs'[l].own # 0 /\ refs'[jobs'[l].own].made
    <3>1. Busy(l) /\ jobs'[l].own = jobs[l].own BY <1>4, <2>2
    <3>2. jobs[l].own \in 1 .. Refreshers BY <3>1, <1>3, OwnersAre
    <3> QED BY <3>1, <3>2, <1>3 DEF AllMade
  <2>3. ASSUME NEW u \in Check!Threads, jobs'[u].pc \in {"starting", "resetting"} PROVE jobs'[u].ref # 0 /\ refs'[jobs'[u].ref].made
    <3>1. jobs'[u] = jobs[u] BY <1>1, <2>3
    <3>2. jobs[u].ref # 0 /\ refs[jobs[u].ref].made BY <3>1, <2>3, <1>3 DEF AllMade
    <3>3. jobs[u].ref \in 0 .. Refreshers BY <1>0 DEF CheckJobs
    <3>4. jobs[u].ref \in 1 .. Refreshers BY <3>2, <3>3, Constants
    <3> QED BY <3>1, <3>2, <3>4
  <2> QED BY <2>1, <2>2, <2>3 DEF AllMade
<1>9. ASSUME ~checkPast'.raced PROVE Running'
  <2>1. OneOwner /\ Current /\ Starts /\ Resets /\ Disabled /\ Clearing BY <1>9, <1>3 DEF Running
  <2>2. OneOwner' BY <1>4, <2>1 DEF OneOwner
  <2>3. Current'
    <3> SUFFICES ASSUME NEW l \in Loops, Busy(l)'
                 PROVE  \/ jobs'[l].own = st.refresher /\ refs'[jobs'[l].own].running
                        \/ jobs'[l].own # st.refresher /\ refs'[jobs'[l].own].cancel
      BY DEF Current
    <3>1. Busy(l) /\ jobs'[l].own = jobs[l].own BY <1>4
    <3>2. jobs[l].own \in 1 .. Refreshers BY <3>1, <1>3, OwnersAre
    <3> QED BY <3>1, <3>2, <2>1 DEF Current
  <2>4. \A u \in Check!Threads : jobs'[u].pc \in {"starting", "resetting"} => u # t /\ jobs'[u] = jobs[u] BY <1>1
  <2>5. Starts' BY <2>1, <2>4 DEF Starts
  <2>6. Resets'
    <3>1. ASSUME NEW u \in Check!Threads, Check!At(u, "resetting")'
          PROVE  refs'[st'.refresher].running /\ \A l \in Loops : Busy(l)' => jobs'[l].own # st'.refresher
      <4>1. jobs[u].pc = "resetting" BY <3>1, <2>4 DEF Check!At
      <4>2. st.refresher \in 1 .. Refreshers
        <5>1. st.refresher # 0 BY <4>1, <2>1 DEF Starts
        <5>2. st.refresher \in 0 .. Refreshers BY <1>0 DEF CheckStates
        <5> QED BY <5>1, <5>2, Constants
      <4>3. refs[st.refresher].running /\ \A l \in Loops : Busy(l) => jobs[l].own # st.refresher BY <4>1, <2>1 DEF Resets, Check!At
      <4> QED BY <4>2, <4>3, <1>4
    <3>2. \A u, v \in Check!Threads : Check!At(u, "resetting")' /\ Check!At(v, "resetting")' => u = v BY <2>1, <2>4 DEF Resets, Check!At
    <3> QED BY <3>1, <3>2 DEF Resets
  <2>7. Disabled'
    <3> SUFFICES ASSUME ~st'.auto PROVE Check!Starting' = {} /\ (st'.refresher = 0 \/ \E u \in Callers : Check!At(u, "clearing")') BY DEF Disabled
    <3>1. ~st.auto OBVIOUS
    <3>2. Check!Starting = {} /\ (st.refresher = 0 \/ \E u \in Callers : Check!At(u, "clearing")) BY <3>1, <2>1 DEF Disabled
    <3>3. \A u \in Check!Threads : jobs'[u].pc \notin {"ensuring", "starting", "resetting"} BY <3>1, <3>2, <1>1 DEF Check!Starting
    <3>4. \A u \in Callers : Check!At(u, "clearing") => Check!At(u, "clearing")' BY <1>1 DEF Check!At, Check!Threads
    <3> QED BY <3>2, <3>3, <3>4 DEF Check!Starting
  <2>8. Clearing'
    <3>1. \A u \in Callers : jobs'[u].pc = "clearing" => jobs[u].pc = "clearing" BY <1>1 DEF Check!Threads
    <3> QED BY <3>1, <2>1 DEF Clearing, Check!At
  <2> QED BY <2>2, <2>3, <2>5, <2>6, <2>7, <2>8 DEF Running
<1> QED BY <1>2, <1>5, <1>6, <1>7, <1>8, <1>9 DEF CheckSound

\* TaskMoves for steps that leave the token, the throttle and the history alone.
LEMMA TaskTurns ==
  ASSUME Check!ConstantsOK, CheckTyped, CheckSound, NEW t \in Check!Threads, NEW j \in CheckJobs, jobs' = [jobs EXCEPT ![t] = j],
         UNCHANGED <<st, refs, throttle, checkPast>>, checkCalls' \in 0 .. MaxCheckCalls,
         j.pc \notin {"exchanging", "limited", "sleeping", "starting", "resetting", "clearing"}, jobs[t].pc # "clearing",
         t \in Loops => Busy(t) /\ j.own = jobs[t].own /\ j.pc # "activating",
         j.pc = "ensuring" => st.auto
  PROVE  CheckTyped' /\ CheckSound'
<1>0. /\ refs \in [1 .. Refreshers -> CheckRefs] /\ st \in CheckStates /\ checkPast \in CheckPasts /\ throttle \in 0 .. OneDay
  BY DEF CheckTyped
<1>1. Roles /\ ~checkPast.stale /\ ~checkPast.ignored /\ Blocking BY DEF CheckSound
<1>2. checkPast.blocked <= throttle /\ (checkPast.blocked > 0 => \A u \in Check!Threads : jobs[u].pc \notin {"exchanging", "limited"})
  BY <1>1 DEF Blocking, Check!Exchanging
<1>3. st.auto => st.activated BY <1>1 DEF Roles
<1> QED BY <1>0, <1>1, <1>2, <1>3, TaskMoves

\* A call begins in a caller that is doing nothing.
LEMMA CallIs ==
  ASSUME Check!ConstantsOK, CheckTyped, NEW t, Check!call(t)
  PROVE  t \in Callers /\ t \in Check!Threads /\ t \notin Loops /\ jobs[t].pc = "idle" /\ checkCalls' \in 0 .. MaxCheckCalls
<1>1. checkCalls \in 0 .. MaxCheckCalls /\ checkCalls < MaxCheckCalls /\ checkCalls' = checkCalls + 1 BY DEF Check!call, CheckTyped
<1>2. checkCalls' \in 0 .. MaxCheckCalls BY <1>1, Constants
<1> QED BY <1>2, Constants DEF Check!call, Check!At, Check!Threads

\* initialize_app_check finds the entry of REGISTRY, or goes on to activate.
LEMMA InitializeLookKeeps ==
  ASSUME Check!ConstantsOK, CheckTyped, CheckSound, NEW t \in Check!Threads, NEW auto \in BOOLEAN, Check!InitializeLook(t, auto)
  PROVE  CheckTyped' /\ CheckSound'
<1>1. Check!call(t) /\ UNCHANGED <<st, refs, throttle, checkPast>> BY DEF Check!InitializeLook
<1>2. t \in Callers /\ t \notin Loops /\ jobs[t].pc = "idle" /\ checkCalls' \in 0 .. MaxCheckCalls BY <1>1, CallIs
<1>3. jobs \in [Check!Threads -> CheckJobs] BY DEF CheckTyped
<1>4. CASE st.listed
  <2>1. jobs' = jobs BY <1>4 DEF Check!InitializeLook
  <2>2. jobs' = [jobs EXCEPT ![t] = jobs[t]] /\ jobs[t] \in CheckJobs BY <2>1, <1>3
  <2> QED BY <2>2, <1>1, <1>2, TaskTurns
<1>5. CASE ~st.listed
  <2>1. jobs' = [jobs EXCEPT ![t] = [Check!Idle EXCEPT !.pc = "activating", !.ok = auto]] BY <1>5 DEF Check!InitializeLook, Check!goes
  <2>2. PICK j : j = [Check!Idle EXCEPT !.pc = "activating", !.ok = auto] OBVIOUS
  <2>3. j \in CheckJobs /\ j.pc = "activating" BY <2>2, IdleTaskIsTyped DEF CheckJobs, Stops
  <2> QED BY <2>1, <2>2, <2>3, <1>1, <1>2, TaskTurns
<1> QED BY <1>4, <1>5

\* ensure_activation accepts the first switch and refuses another.
LEMMA InitializeActivateKeeps ==
  ASSUME Check!ConstantsOK, CheckTyped, CheckSound, NEW t \in Check!Threads, Check!InitializeActivate(t)
  PROVE  CheckTyped' /\ CheckSound'
<1>0. /\ refs \in [1 .. Refreshers -> CheckRefs] /\ st \in CheckStates /\ checkPast \in CheckPasts /\ throttle \in 0 .. OneDay
      /\ jobs \in [Check!Threads -> CheckJobs] /\ checkCalls \in 0 .. MaxCheckCalls
  BY DEF CheckTyped
<1>1. jobs[t].pc = "activating" /\ UNCHANGED <<refs, throttle, checkCalls, checkPast>> BY DEF Check!InitializeActivate, Check!At
<1>2. t \notin Loops BY <1>1 DEF CheckSound, Roles
<1>3. CASE Check!goes(t, Check!Idle) /\ UNCHANGED st
  <2>1. jobs' = [jobs EXCEPT ![t] = Check!Idle] BY <1>3 DEF Check!goes
  <2> QED BY <2>1, <1>0, <1>1, <1>2, <1>3, IdleTaskIsTyped, TaskTurns
<1>4. CASE Check!ensure_activation(jobs[t].ok) /\ Check!goes(t, IF jobs[t].ok THEN [Check!Idle EXCEPT !.pc = "reading"] ELSE Check!Idle)
  <2>1. PICK auto \in BOOLEAN : auto = jobs[t].ok BY <1>0 DEF CheckJobs
  <2>2. st.activated => st.auto = auto BY <1>4, <2>1 DEF Check!ensure_activation
  <2>3. st' = [st EXCEPT !.listed = TRUE, !.activated = TRUE, !.auto = auto] BY <1>4, <2>1 DEF Check!ensure_activation
  <2>4. st' \in CheckStates BY <2>3, <1>0 DEF CheckStates
  <2>5. st'.refresher = st.refresher /\ st'.token = st.token /\ st'.auto = auto /\ st'.activated BY <2>3, <1>0 DEF CheckStates
  <2>6. PICK j : j = IF auto THEN [Check!Idle EXCEPT !.pc = "reading"] ELSE Check!Idle OBVIOUS
  <2>7. j \in CheckJobs /\ j.pc \in {"idle", "reading"} BY <2>6, IdleTaskIsTyped DEF CheckJobs, Stops
  <2>8. jobs' = [jobs EXCEPT ![t] = j] BY <1>4, <2>1, <2>6 DEF Check!goes
  <2>9. st.auto => st.activated BY DEF CheckSound, Roles
  <2>10. st'.auto = st.auto \/ (st'.auto /\ ~st.activated)
    <3>1. CASE st.activated BY <3>1, <2>2, <2>5
    <3>2. CASE ~st.activated /\ auto BY <3>2, <2>5
    <3>3. CASE ~st.activated /\ ~auto
      <4>1. st.auto \in BOOLEAN BY <1>0 DEF CheckStates
      <4> QED BY <3>3, <4>1, <2>5, <2>9, Zenon
    <3> QED BY <3>1, <3>2, <3>3
  <2>11. ~checkPast.stale /\ ~checkPast.ignored /\ checkPast.blocked <= throttle
         /\ (checkPast.blocked > 0 => \A u \in Check!Threads : jobs[u].pc \notin {"exchanging", "limited"})
    BY DEF CheckSound, Blocking, Check!Exchanging
  <2> HIDE DEF Check!goes
  <2> QED BY <2>4, <2>5, <2>7, <2>8, <2>10, <2>11, <1>0, <1>1, <1>2, TaskMoves
<1> QED BY <1>3, <1>4 DEF Check!InitializeActivate

\* A request may be sent when nothing throttles, and so when nothing blocks.
LEMMA ExchangesKeeps ==
  ASSUME Check!ConstantsOK, CheckTyped, CheckSound, NEW t \in Check!Threads, NEW pc \in {"exchanging", "limited"}, Check!exchanges(t, pc), ~Check!Throttled,
         UNCHANGED <<st, refs, throttle>>, checkCalls' \in 0 .. MaxCheckCalls, jobs[t].pc # "clearing", t \in Loops => Busy(t) /\ pc = "exchanging"
  PROVE  CheckTyped' /\ CheckSound'
<1>0. /\ refs \in [1 .. Refreshers -> CheckRefs] /\ st \in CheckStates /\ checkPast \in CheckPasts /\ throttle \in 0 .. OneDay
      /\ jobs \in [Check!Threads -> CheckJobs]
  BY DEF CheckTyped
<1>1. Roles /\ ~checkPast.stale /\ ~checkPast.ignored /\ checkPast.blocked <= throttle BY DEF CheckSound, Blocking
<1>2. checkPast.blocked = 0 /\ throttle = 0 BY <1>0, <1>1, Constants DEF Check!Throttled, CheckPasts
<1>3. /\ jobs' \in [Check!Threads -> CheckJobs] /\ checkPast' \in CheckPasts
      /\ jobs'[t].pc = pc /\ jobs'[t].own = jobs[t].own
      /\ \A u \in Check!Threads : u # t => jobs'[u] = jobs[u]
      /\ checkPast'.raced = checkPast.raced /\ checkPast'.stale = checkPast.stale /\ checkPast'.blocked = checkPast.blocked /\ ~checkPast'.ignored
  BY <1>1, <1>2, ExchangesIs
<1>4. PICK j \in CheckJobs : j = jobs'[t] BY <1>3
<1>5. jobs' = [jobs EXCEPT ![t] = j] BY <1>0, <1>3, <1>4
<1>6. checkPast'.blocked = 0 /\ ~(checkPast'.blocked > 0) /\ checkPast'.blocked <= throttle' BY <1>2, <1>3
<1>7. st.auto => st.activated BY <1>1 DEF Roles
<1> QED BY <1>0, <1>1, <1>3, <1>4, <1>5, <1>6, <1>7, TaskMoves

\* get_token hands out no expired token.
LEMMA NothingStale ==
  ASSUME Check!ConstantsOK, NEW t, NEW token \in Check!Tokens
  PROVE  Check!HandsOutStale(t, Check!usable_cached(token)) = FALSE
BY Constants DEF Check!HandsOutStale, Check!usable_cached, Check!is_expired, Check!Tokens

\* What get_token does before it awaits an exchange.
LEMMA GetTokenKeeps ==
  ASSUME Check!ConstantsOK, CheckTyped, CheckSound, NEW t \in Check!Threads, NEW force \in BOOLEAN, Check!get_token(t, force),
         UNCHANGED <<st, refs, throttle>>, checkCalls' \in 0 .. MaxCheckCalls, jobs[t].pc # "clearing", t \in Loops => Busy(t)
  PROVE  CheckTyped' /\ CheckSound'
<1>0. /\ checkPast \in CheckPasts /\ st.token \in Check!Tokens BY DEF CheckTyped, CheckStates
<1>1. CASE Check!goes(t, Check!finish(t, TRUE)) /\ UNCHANGED checkPast
  <2>1. PICK j : j = Check!finish(t, TRUE) OBVIOUS
  <2>2. /\ j \in CheckJobs /\ j.pc \in {"idle", "top"} /\ (t \in Loops => j.own = jobs[t].own) BY <2>1, FinishIs
  <2>3. jobs' = [jobs EXCEPT ![t] = j] BY <1>1, <2>1 DEF Check!goes
  <2> QED BY <2>2, <2>3, <1>1, TaskTurns
<1>2. CASE Check!goes(t, Check!finish(t, FALSE)) /\ checkPast' = [checkPast EXCEPT !.stale = @ \/ Check!HandsOutStale(t, Check!usable_cached(st.token))]
  <2>1. PICK j : j = Check!finish(t, FALSE) OBVIOUS
  <2>2. /\ j \in CheckJobs /\ j.pc \in {"idle", "top"} /\ (t \in Loops => j.own = jobs[t].own) BY <2>1, FinishIs
  <2>3. jobs' = [jobs EXCEPT ![t] = j] BY <1>2, <2>1 DEF Check!goes
  <2>4. PICK b : b = Check!HandsOutStale(t, Check!usable_cached(st.token)) OBVIOUS
  <2>5. b = FALSE BY <2>4, <1>0, NothingStale
  <2>6. checkPast.stale = FALSE BY <1>0 DEF CheckSound, CheckPasts
  <2>7. checkPast' = [checkPast EXCEPT !.stale = checkPast.stale \/ b] BY <1>2, <2>4
  <2>8. checkPast' = [checkPast EXCEPT !.stale = FALSE] BY <2>5, <2>6, <2>7
  <2>9. checkPast' = checkPast BY <2>6, <2>8, <1>0 DEF CheckPasts
  <2> QED BY <2>2, <2>3, <2>9, TaskTurns
<1>3. CASE ~Check!Throttled /\ Check!exchanges(t, "exchanging") BY <1>3, ExchangesKeeps
<1> QED BY <1>1, <1>2, <1>3 DEF Check!get_token

\* get_token is called.
LEMMA GetsKeeps ==
  ASSUME Check!ConstantsOK, CheckTyped, CheckSound, NEW t \in Check!Threads, NEW force \in BOOLEAN, Check!GetToken(t, force)
  PROVE  CheckTyped' /\ CheckSound'
BY CallIs, GetTokenKeeps DEF Check!GetToken

\* get_limited_use_token is called.
LEMMA LimitedKeeps ==
  ASSUME Check!ConstantsOK, CheckTyped, CheckSound, NEW t \in Check!Threads, Check!GetLimitedUseToken(t)
  PROVE  CheckTyped' /\ CheckSound'
<1>1. Check!call(t) /\ UNCHANGED <<st, refs, throttle>> BY DEF Check!GetLimitedUseToken
<1>2. t \in Callers /\ t \notin Loops /\ jobs[t].pc = "idle" /\ checkCalls' \in 0 .. MaxCheckCalls BY <1>1, CallIs
<1>3. CASE UNCHANGED <<jobs, checkPast>>
  <2>1. jobs \in [Check!Threads -> CheckJobs] BY DEF CheckTyped
  <2>2. jobs' = [jobs EXCEPT ![t] = jobs[t]] /\ jobs[t] \in CheckJobs BY <2>1, <1>3
  <2> QED BY <2>2, <1>1, <1>2, <1>3, TaskTurns
<1>4. CASE ~Check!Throttled /\ Check!exchanges(t, "limited") BY <1>1, <1>2, <1>4, ExchangesKeeps
<1> QED BY <1>3, <1>4 DEF Check!GetLimitedUseToken

\* add_token_listener is called.
LEMMA ListenerKeeps ==
  ASSUME Check!ConstantsOK, CheckTyped, CheckSound, NEW t \in Check!Threads, Check!AddTokenListener(t)
  PROVE  CheckTyped' /\ CheckSound'
<1>1. Check!call(t) /\ UNCHANGED <<st, refs, throttle, checkPast>> BY DEF Check!AddTokenListener
<1>2. t \in Callers /\ t \notin Loops /\ jobs[t].pc = "idle" /\ checkCalls' \in 0 .. MaxCheckCalls BY <1>1, CallIs
<1>3. PICK j : j = IF st.auto THEN [Check!Idle EXCEPT !.pc = "reading"] ELSE Check!Idle OBVIOUS
<1>4. j \in CheckJobs /\ j.pc \in {"idle", "reading"} BY <1>3, IdleTaskIsTyped DEF CheckJobs, Stops
<1>5. jobs' = [jobs EXCEPT ![t] = j] BY <1>3 DEF Check!AddTokenListener, Check!goes
<1> QED BY <1>1, <1>2, <1>4, <1>5, TaskTurns

\* maybe_start_refresher looks at the switch.
LEMMA SwitchIsReadKeeps ==
  ASSUME Check!ConstantsOK, CheckTyped, CheckSound, NEW t \in Check!Threads, Check!ReadSwitch(t)
  PROVE  CheckTyped' /\ CheckSound'
<1>0. jobs \in [Check!Threads -> CheckJobs] /\ checkCalls \in 0 .. MaxCheckCalls BY DEF CheckTyped
<1>1. jobs[t].pc = "reading" /\ UNCHANGED <<st, refs, throttle, checkCalls, checkPast>> BY DEF Check!ReadSwitch, Check!At
<1>2. Busy(t) BY <1>1 DEF Busy
<1>3. CASE st.auto
  <2>1. PICK j : j = [jobs[t] EXCEPT !.pc = "ensuring"] OBVIOUS
  <2>2. j \in CheckJobs /\ j.pc = "ensuring" /\ j.own = jobs[t].own BY <2>1, <1>0 DEF CheckJobs, Stops
  <2>3. jobs' = [jobs EXCEPT ![t] = j] BY <1>3, <2>1 DEF Check!ReadSwitch, Check!goes
  <2> QED BY <2>2, <2>3, <1>0, <1>1, <1>2, <1>3, TaskTurns
<1>4. CASE ~st.auto
  <2>1. PICK j : j = Check!finish(t, TRUE) OBVIOUS
  <2>2. /\ j \in CheckJobs /\ j.pc \in {"idle", "top"} /\ (t \in Loops => j.own = jobs[t].own) BY <2>1, FinishIs
  <2>3. jobs' = [jobs EXCEPT ![t] = j] BY <1>4, <2>1 DEF Check!ReadSwitch, Check!goes
  <2> QED BY <2>2, <2>3, <1>0, <1>1, <1>2, TaskTurns
<1> QED BY <1>3, <1>4

\* The throttle is cleared and the token replaced by one that outlives every sleep.
LEMMA ExchangeSucceedsKeeps ==
  ASSUME Check!ConstantsOK, CheckTyped, CheckSound, NEW t \in Check!Threads, Check!ExchangeSucceeds(t)
  PROVE  CheckTyped' /\ CheckSound'
<1>0. /\ refs \in [1 .. Refreshers -> CheckRefs] /\ st \in CheckStates /\ checkPast \in CheckPasts
      /\ jobs \in [Check!Threads -> CheckJobs] /\ checkCalls \in 0 .. MaxCheckCalls
  BY DEF CheckTyped
<1>1. jobs[t].pc = "exchanging" /\ UNCHANGED <<refs, checkCalls, checkPast>> /\ throttle' = 0 BY DEF Check!ExchangeSucceeds, Check!At
<1>2. checkPast.blocked = 0 /\ ~checkPast.stale /\ ~checkPast.ignored /\ (st.auto => st.activated)
  BY <1>0, <1>1 DEF CheckSound, Blocking, Check!Exchanging, CheckPasts, Roles
<1>3. st' = [st EXCEPT !.token = Ttl] BY DEF Check!ExchangeSucceeds, Check!store_token
<1>4. st' \in CheckStates BY <1>3, <1>0, Constants DEF CheckStates, Check!Tokens
<1>5. st'.refresher = st.refresher /\ st'.token = Ttl /\ st'.auto = st.auto /\ st'.activated = st.activated
  BY <1>3, <1>0 DEF CheckStates
<1>6. PICK j : j = [jobs[t] EXCEPT !.pc = "reading", !.cached = Check!NoToken] OBVIOUS
<1>n. Check!NoToken \in Check!Tokens BY Constants DEF Check!Tokens
<1>7. j \in CheckJobs BY <1>6, <1>0, <1>n DEF CheckJobs, Stops
<1>8. j.pc = "reading" /\ j.own = jobs[t].own BY <1>6, <1>0 DEF CheckJobs
<1>9. jobs' = [jobs EXCEPT ![t] = j] BY <1>6 DEF Check!ExchangeSucceeds, Check!goes
<1>10. checkPast.blocked <= throttle' /\ ~(checkPast.blocked > 0) /\ throttle' \in 0 .. OneDay BY <1>1, <1>2, Constants
<1>11. Busy(t) BY <1>1 DEF Busy
<1> QED BY <1>0, <1>1, <1>2, <1>4, <1>5, <1>7, <1>8, <1>9, <1>10, <1>11, TaskMoves

\* A task whose exchange failed returns with what a refusal changes.
LEMMA RefusalsKeep ==
  ASSUME Check!ConstantsOK, CheckTyped, CheckSound, NEW t \in Check!Threads, NEW stale \in BOOLEAN, ~stale, Check!backsOff(t, stale),
         jobs[t].pc \in {"exchanging", "limited"}, NEW j \in CheckJobs, jobs' = [jobs EXCEPT ![t] = j], j.pc \in {"idle", "top"},
         t \in Loops => j.own = jobs[t].own, UNCHANGED <<st, refs, checkCalls>>
  PROVE  CheckTyped' /\ CheckSound'
<1>0. /\ refs \in [1 .. Refreshers -> CheckRefs] /\ st \in CheckStates /\ checkCalls \in 0 .. MaxCheckCalls
  BY DEF CheckTyped
<1>1. Check!Exchanging # {} BY DEF Check!Exchanging
<1>2. Blocking /\ ~checkPast.stale /\ ~checkPast.ignored /\ (st.auto => st.activated) BY DEF CheckSound, Roles
<1>3. /\ throttle' \in 0 .. OneDay /\ checkPast' \in CheckPasts
      /\ checkPast'.raced = checkPast.raced /\ checkPast'.ignored = checkPast.ignored /\ ~checkPast'.stale
      /\ checkPast'.blocked <= throttle' /\ (checkPast'.blocked > 0 => Check!Exchanging = {t})
  BY <1>1, <1>2, BacksOffIs
<1>4. checkPast'.blocked > 0 => \A u \in Check!Threads : u # t => jobs[u].pc \notin {"exchanging", "limited"}
  BY <1>3 DEF Check!Exchanging
<1>5. Busy(t) BY DEF Busy
<1> QED BY <1>0, <1>2, <1>3, <1>4, <1>5, TaskMoves

\* get_token returns what is left of the token it read before the exchange.
LEMMA ExchangeFailsKeeps ==
  ASSUME Check!ConstantsOK, CheckTyped, CheckSound, NEW t \in Check!Threads, Check!ExchangeFails(t)
  PROVE  CheckTyped' /\ CheckSound'
<1>0. jobs[t].cached \in Check!Tokens BY DEF CheckTyped, CheckJobs
<1>1. jobs[t].pc = "exchanging" /\ UNCHANGED <<st, refs, checkCalls>> BY DEF Check!ExchangeFails, Check!At
<1>2. Check!backsOff(t, FALSE) BY <1>0, NothingStale DEF Check!ExchangeFails
<1>3. PICK j : j = Check!finish(t, FALSE) OBVIOUS
<1>4. /\ j \in CheckJobs /\ j.pc \in {"idle", "top"} /\ (t \in Loops => j.own = jobs[t].own) BY <1>3, FinishIs
<1>5. jobs' = [jobs EXCEPT ![t] = j] BY <1>3 DEF Check!ExchangeFails, Check!goes
<1> QED BY <1>1, <1>2, <1>4, <1>5, RefusalsKeep

\* get_limited_use_token returns, and clears or sets the throttle.
LEMMA LimitedReturnsKeeps ==
  ASSUME Check!ConstantsOK, CheckTyped, CheckSound, NEW t \in Check!Threads, Check!LimitedReturns(t)
  PROVE  CheckTyped' /\ CheckSound'
<1>0. /\ refs \in [1 .. Refreshers -> CheckRefs] /\ st \in CheckStates /\ checkPast \in CheckPasts
      /\ jobs \in [Check!Threads -> CheckJobs] /\ checkCalls \in 0 .. MaxCheckCalls
  BY DEF CheckTyped
<1>1. jobs[t].pc = "limited" /\ UNCHANGED <<st, refs, checkCalls>> BY DEF Check!LimitedReturns, Check!At
<1>2. t \notin Loops BY <1>1 DEF CheckSound, Roles
<1>3. jobs' = [jobs EXCEPT ![t] = Check!Idle] BY DEF Check!LimitedReturns, Check!goes
<1>4. CASE Check!backsOff(t, FALSE) BY <1>1, <1>2, <1>3, <1>4, IdleTaskIsTyped, RefusalsKeep
<1>5. CASE throttle' = 0 /\ UNCHANGED checkPast
  <2>1. checkPast.blocked = 0 /\ ~checkPast.stale /\ ~checkPast.ignored /\ (st.auto => st.activated)
    BY <1>0, <1>1 DEF CheckSound, Blocking, Check!Exchanging, CheckPasts, Roles
  <2>2. checkPast.blocked <= throttle' /\ ~(checkPast.blocked > 0) /\ throttle' \in 0 .. OneDay BY <1>5, <2>1, Constants
  <2> QED BY <1>0, <1>1, <1>2, <1>3, <1>5, <2>1, <2>2, IdleTaskIsTyped, TaskMoves
<1> QED BY <1>4, <1>5 DEF Check!LimitedReturns

\* A loop chooses its wait and goes to sleep.
LEMMA LoopSleepsKeeps ==
  ASSUME Check!ConstantsOK, CheckTyped, CheckSound, NEW l \in Loops, jobs[l].pc = "top", UNCHANGED <<st, throttle, checkCalls, checkPast>>,
         NEW r, r = jobs[l].own,
         refs' = [refs EXCEPT ![r].wait = Check!next_error_wait(r, jobs[l].ok)],
         Check!goes(l, [jobs[l] EXCEPT !.pc = "sleeping", !.left = Check!next_wait(r, jobs[l].ok)])
  PROVE  CheckTyped' /\ CheckSound'
<1>0. /\ refs \in [1 .. Refreshers -> CheckRefs] /\ st \in CheckStates /\ checkPast \in CheckPasts /\ throttle \in 0 .. OneDay
      /\ jobs \in [Check!Threads -> CheckJobs] /\ checkCalls \in 0 .. MaxCheckCalls /\ l \in Check!Threads
  BY DEF CheckTyped, Check!Threads
<1>1. Busy(l) BY DEF Busy
<1>2. r \in 1 .. Refreshers BY <1>1, OwnersAre DEF CheckSound
<1>3. refs[r].wait \in MinWait .. MaxWait /\ st.token \in Check!Tokens /\ jobs[l].ok \in BOOLEAN
  BY <1>0, <1>2 DEF CheckRefs, CheckStates, CheckJobs
<1>4. Check!next_error_wait(r, jobs[l].ok) \in MinWait .. MaxWait BY <1>3, Constants DEF Check!next_error_wait
<1>5. PICK w \in MinWait .. MaxWait : w = Check!next_error_wait(r, jobs[l].ok) BY <1>4
<1>6. refs' = [refs EXCEPT ![r] = [refs[r] EXCEPT !.wait = w]] BY <1>5, <1>0, <1>2
<1>7. [refs[r] EXCEPT !.wait = w] \in CheckRefs BY <1>0, <1>2 DEF CheckRefs
<1>8. refs' \in [1 .. Refreshers -> CheckRefs] BY <1>0, <1>6, <1>7
<1>9. \A q \in 1 .. Refreshers : refs'[q].made = refs[q].made /\ refs'[q].running = refs[q].running /\ refs'[q].cancel = refs[q].cancel
  BY <1>0, <1>6 DEF CheckRefs
<1>10. PICK d : d = Check!compute_refresh_delay(st.token) OBVIOUS
<1>11. d \in 0 .. Ttl /\ d < Ttl /\ (st.token > 0 => d < st.token) BY <1>3, <1>10, DelayIs
<1>12. PICK n : n = Check!next_wait(r, jobs[l].ok) OBVIOUS
<1>13. n = IF jobs[l].ok THEN d ELSE refs[r].wait BY <1>10, <1>12 DEF Check!next_wait
<1>14. n \in 0 .. (Ttl + MaxWait) BY <1>13, <1>11, <1>3, Constants
<1>15. PICK j : j = [jobs[l] EXCEPT !.pc = "sleeping", !.left = n] OBVIOUS
<1>16. j \in CheckJobs BY <1>15, <1>14, <1>0 DEF CheckJobs, Stops
<1>17. j.pc = "sleeping" /\ j.own = jobs[l].own /\ j.ok = jobs[l].ok /\ j.left = n BY <1>15, <1>0 DEF CheckJobs
<1>18. jobs' = [jobs EXCEPT ![l] = j] BY <1>12, <1>15 DEF Check!goes
<1>19. j.ok => j.left < Ttl /\ (st.token > 0 => j.left < st.token) BY <1>17, <1>13, <1>11
<1>20. /\ ~checkPast.stale /\ ~checkPast.ignored /\ checkPast.blocked <= throttle /\ (st.auto => st.activated)
       /\ (checkPast.blocked > 0 => \A u \in Check!Threads : jobs[u].pc \notin {"exchanging", "limited"})
  BY DEF CheckSound, Blocking, Check!Exchanging, Roles
<1> HIDE DEF Check!goes
<1> QED BY <1>0, <1>1, <1>8, <1>9, <1>16, <1>17, <1>18, <1>19, <1>20, TaskMoves

\* A step that sends and answers no request and lets no loop go to sleep.
LEMMA OthersMove ==
  ASSUME Check!ConstantsOK, CheckTyped, CheckSound,
         st' \in CheckStates, st'.token = st.token, st'.auto => st'.activated,
         refs' \in [1 .. Refreshers -> CheckRefs], jobs' \in [Check!Threads -> CheckJobs], checkPast' \in CheckPasts,
         checkPast'.stale = checkPast.stale, checkPast'.ignored = checkPast.ignored, checkPast'.blocked = checkPast.blocked, throttle' = throttle,
         checkCalls' \in 0 .. MaxCheckCalls,
         \A u \in Check!Threads : jobs'[u].pc \in {"exchanging", "limited", "sleeping"} => jobs'[u] = jobs[u],
         \A l \in Loops : jobs'[l].pc \notin {"activating", "limited", "clearing"},
         AllMade', ~checkPast'.raced => Running'
  PROVE  CheckTyped' /\ CheckSound'
<1>0. throttle \in 0 .. OneDay BY DEF CheckTyped
<1>1. CheckTyped' BY <1>0 DEF CheckTyped
<1>2. Roles' BY DEF Roles
<1>3. ~checkPast'.stale /\ ~checkPast'.ignored BY DEF CheckSound
<1>4. Blocking' BY DEF CheckSound, Blocking, Check!Exchanging
<1>5. Sleeping' /\ Check!RefreshPrecedesExpiry'
  <2> SUFFICES ASSUME NEW l \in Loops, jobs'[l].pc = "sleeping", jobs'[l].ok
               PROVE  jobs'[l].left < Ttl /\ (~Check!is_expired(st'.token) => jobs'[l].left < st'.token)
    BY DEF Sleeping, Check!RefreshPrecedesExpiry, Check!At, Check!is_expired
  <2>1. jobs'[l] = jobs[l] BY DEF Check!Threads
  <2>2. jobs[l].left < Ttl /\ (~Check!is_expired(st.token) => jobs[l].left < st.token)
    BY <2>1 DEF CheckSound, Sleeping, Check!RefreshPrecedesExpiry, Check!At
  <2> QED BY <2>1, <2>2 DEF Check!is_expired
<1> QED BY <1>1, <1>2, <1>3, <1>4, <1>5 DEF CheckSound

\* What the lemmas on starts and ends of loops need.
LEMMA SoundHas ==
  ASSUME CheckTyped, CheckSound
  PROVE  /\ st \in CheckStates /\ refs \in [1 .. Refreshers -> CheckRefs] /\ jobs \in [Check!Threads -> CheckJobs]
         /\ checkPast \in CheckPasts /\ checkCalls \in 0 .. MaxCheckCalls
         /\ st.auto => st.activated
         /\ \A l \in Loops : jobs[l].pc \notin {"activating", "limited", "clearing"}
         /\ AllMade /\ (~checkPast.raced => OneOwner /\ Current /\ Starts /\ Resets /\ Disabled /\ Clearing)
         /\ \A l \in Loops : l \in Check!Threads
BY DEF CheckTyped, CheckSound, Roles, Running, Check!Threads

\* The end of a loop clears the flags of its own refresher: nothing is starting
\* on it, and no other loop runs on it.
LEMMA EndsKeeps ==
  ASSUME Check!ConstantsOK, CheckTyped, CheckSound, NEW l \in Loops, Busy(l), Check!ends(l), UNCHANGED <<st, throttle, checkCalls, checkPast>>
  PROVE  CheckTyped' /\ CheckSound'
<1>0. /\ st \in CheckStates /\ refs \in [1 .. Refreshers -> CheckRefs] /\ jobs \in [Check!Threads -> CheckJobs]
      /\ checkPast \in CheckPasts /\ checkCalls \in 0 .. MaxCheckCalls /\ (st.auto => st.activated)
      /\ \A m \in Loops : jobs[m].pc \notin {"activating", "limited", "clearing"}
      /\ AllMade /\ (~checkPast.raced => OneOwner /\ Current /\ Starts /\ Resets /\ Disabled /\ Clearing)
      /\ \A m \in Loops : m \in Check!Threads
  BY SoundHas
<1>1. PICK r : r = jobs[l].own OBVIOUS
<1>2. r \in 1 .. Refreshers BY <1>1, OwnersAre DEF CheckSound
<1>3. refs' = [refs EXCEPT ![r] = [refs[r] EXCEPT !.running = FALSE, !.cancel = FALSE]]
  <2>1. refs' = [refs EXCEPT ![r].running = FALSE, ![r].cancel = FALSE] BY <1>1 DEF Check!ends
  <2> QED BY <2>1, <1>0, <1>2 DEF CheckRefs
<1>4. [refs[r] EXCEPT !.running = FALSE, !.cancel = FALSE] \in CheckRefs BY <1>0, <1>2 DEF CheckRefs
<1>5. refs' \in [1 .. Refreshers -> CheckRefs] /\ \A q \in 1 .. Refreshers : q # r => refs'[q] = refs[q] BY <1>0, <1>3, <1>4
<1>6. \A q \in 1 .. Refreshers : refs'[q].made = refs[q].made BY <1>0, <1>3 DEF CheckRefs
<1>7. jobs' = [jobs EXCEPT ![l] = Check!Idle] BY DEF Check!ends, Check!goes
<1>8. jobs' \in [Check!Threads -> CheckJobs] BY <1>0, <1>7, IdleTaskIsTyped
<1>9. jobs'[l] = Check!Idle /\ jobs'[l].pc = "idle" /\ \A u \in Check!Threads : u # l => jobs'[u] = jobs[u] BY <1>0, <1>7, IdleTaskIsTyped
<1>10. \A m \in Loops : Busy(m)' => m # l /\ Busy(m) /\ jobs'[m] = jobs[m] BY <1>9, <1>0 DEF Busy
<1>11. \A u \in Check!Threads : jobs'[u].pc # "idle" => u # l /\ jobs'[u] = jobs[u] BY <1>9
<1>12. AllMade'
  <2>1. st'.refresher # 0 => refs'[st'.refresher].made
    <3>1. st.refresher \in 0 .. Refreshers BY <1>0 DEF CheckStates
    <3>2. st.refresher # 0 => st.refresher \in 1 .. Refreshers BY <3>1, Constants
    <3> QED BY <3>2, <1>6, <1>0 DEF AllMade
  <2>2. ASSUME NEW m \in Loops, Busy(m)' PROVE jobs'[m].own # 0 /\ refs'[jobs'[m].own].made
    <3>1. Busy(m) /\ jobs'[m] = jobs[m] BY <1>10, <2>2
    <3>2. jobs[m].own \in 1 .. Refreshers BY <3>1, <1>0, OwnersAre
    <3> QED BY <3>1, <3>2, <1>6, <1>0 DEF AllMade
  <2>3. ASSUME NEW u \in Check!Threads, jobs'[u].pc \in {"starting", "resetting"} PROVE jobs'[u].ref # 0 /\ refs'[jobs'[u].ref].made
    <3>1. jobs'[u] = jobs[u] BY <1>11, <2>3
    <3>2. jobs[u].ref # 0 /\ refs[jobs[u].ref].made BY <3>1, <2>3, <1>0 DEF AllMade
    <3>3. jobs[u].ref \in 0 .. Refreshers BY <1>0 DEF CheckJobs
    <3>4. jobs[u].ref \in 1 .. Refreshers BY <3>2, <3>3, Constants
    <3> QED BY <3>1, <3>2, <3>4, <1>6
  <2> QED BY <2>1, <2>2, <2>3 DEF AllMade
<1>13. ASSUME ~checkPast'.raced PROVE Running'
  <2>1. OneOwner /\ Current /\ Starts /\ Resets /\ Disabled /\ Clearing BY <1>0, <1>13
  <2>2. OneOwner' BY <1>10, <2>1 DEF OneOwner
  <2>3. Current'
    <3> SUFFICES ASSUME NEW m \in Loops, Busy(m)'
                 PROVE  \/ jobs'[m].own = st.refresher /\ refs'[jobs'[m].own].running
                        \/ jobs'[m].own # st.refresher /\ refs'[jobs'[m].own].cancel
      BY DEF Current
    <3>1. Busy(m) /\ jobs'[m] = jobs[m] /\ m # l BY <1>10
    <3>2. jobs[m].own # r BY <3>1, <2>1, <1>1 DEF OneOwner
    <3>3. jobs[m].own \in 1 .. Refreshers BY <3>1, <1>0, OwnersAre
    <3>4. refs'[jobs[m].own] = refs[jobs[m].own] BY <3>2, <3>3, <1>5
    <3> QED BY <3>1, <3>4, <2>1 DEF Current
  <2>4. Starts' BY <1>11, <2>1 DEF Starts
  <2>5. Resets'
    <3>1. ASSUME NEW u \in Check!Threads, Check!At(u, "resetting")'
          PROVE  refs'[st'.refresher].running /\ \A m \in Loops : Busy(m)' => jobs'[m].own # st'.refresher
      <4>1. jobs[u].pc = "resetting" BY <3>1, <1>11 DEF Check!At
      <4>2. refs[st.refresher].running /\ \A m \in Loops : Busy(m) => jobs[m].own # st.refresher BY <4>1, <2>1 DEF Resets, Check!At
      <4>3. st.refresher # r BY <4>2, <1>1
      <4>4. st.refresher \in 1 .. Refreshers
        <5>1. st.refresher # 0 BY <4>1, <2>1 DEF Starts
        <5>2. st.refresher \in 0 .. Refreshers BY <1>0 DEF CheckStates
        <5> QED BY <5>1, <5>2, Constants
      <4> QED BY <4>2, <4>3, <4>4, <1>5, <1>10
    <3>2. \A u, v \in Check!Threads : Check!At(u, "resetting")' /\ Check!At(v, "resetting")' => u = v BY <2>1, <1>11 DEF Resets, Check!At
    <3> QED BY <3>1, <3>2 DEF Resets
  <2>6. Disabled'
    <3> SUFFICES ASSUME ~st'.auto PROVE Check!Starting' = {} /\ (st'.refresher = 0 \/ \E u \in Callers : Check!At(u, "clearing")') BY DEF Disabled
    <3>1. Check!Starting = {} /\ (st.refresher = 0 \/ \E u \in Callers : Check!At(u, "clearing")) BY <2>1 DEF Disabled
    <3>2. \A u \in Check!Threads : jobs'[u].pc \notin {"ensuring", "starting", "resetting"} BY <3>1, <1>11 DEF Check!Starting
    <3>3. \A u \in Callers : Check!At(u, "clearing") => Check!At(u, "clearing")' BY <1>9, Constants DEF Check!At, Check!Threads
    <3> QED BY <3>1, <3>2, <3>3 DEF Check!Starting
  <2>7. Clearing'
    <3>1. \A u \in Callers : jobs'[u].pc = "clearing" => jobs[u].pc = "clearing" BY <1>11 DEF Check!Threads
    <3> QED BY <3>1, <2>1 DEF Clearing, Check!At
  <2> QED BY <2>2, <2>3, <2>4, <2>5, <2>6, <2>7 DEF Running
<1>14. \A u \in Check!Threads : jobs'[u].pc \in {"exchanging", "limited", "sleeping"} => jobs'[u] = jobs[u] BY <1>11
<1>15. \A m \in Loops : jobs'[m].pc \notin {"activating", "limited", "clearing"} BY <1>0, <1>9
<1> QED BY <1>0, <1>5, <1>8, <1>12, <1>13, <1>14, <1>15, OthersMove

\* A loop at the top ends or sleeps.
LEMMA LoopTopKeeps ==
  ASSUME Check!ConstantsOK, CheckTyped, CheckSound, NEW l \in Loops, Check!LoopTop(l)
  PROVE  CheckTyped' /\ CheckSound'
<1>1. jobs[l].pc = "top" /\ UNCHANGED <<st, throttle, checkCalls, checkPast>> BY DEF Check!LoopTop, Check!At
<1>2. Busy(l) BY <1>1 DEF Busy
<1>3. CASE refs[jobs[l].own].cancel
  <2>1. Check!ends(l) BY <1>3 DEF Check!LoopTop
  <2> QED BY <2>1, <1>1, <1>2, EndsKeeps
<1>4. CASE ~refs[jobs[l].own].cancel
  <2>1. PICK r : r = jobs[l].own OBVIOUS
  <2>2. /\ refs' = [refs EXCEPT ![r].wait = Check!next_error_wait(r, jobs[l].ok)]
        /\ Check!goes(l, [jobs[l] EXCEPT !.pc = "sleeping", !.left = Check!next_wait(r, jobs[l].ok)])
    BY <1>4, <2>1 DEF Check!LoopTop
  <2> QED BY <2>1, <2>2, <1>1, LoopSleepsKeeps
<1> QED BY <1>3, <1>4

\* A loop that wakes ends or gets a token.
LEMMA LoopWakesKeeps ==
  ASSUME Check!ConstantsOK, CheckTyped, CheckSound, NEW l \in Loops, Check!LoopWakes(l)
  PROVE  CheckTyped' /\ CheckSound'
<1>1. jobs[l].pc = "sleeping" /\ UNCHANGED <<st, throttle, checkCalls>> BY DEF Check!LoopWakes, Check!At
<1>2. Busy(l) /\ l \in Check!Threads BY <1>1 DEF Busy, Check!Threads
<1>3. CASE Check!ends(l) /\ UNCHANGED checkPast BY <1>3, <1>1, <1>2, EndsKeeps
<1>4. CASE Check!get_token(l, st.token # Check!NoToken) /\ UNCHANGED refs
  <2>1. PICK force \in BOOLEAN : force = (st.token # Check!NoToken) OBVIOUS
  <2>2. Check!get_token(l, force) BY <1>4, <2>1
  <2>3. checkCalls' \in 0 .. MaxCheckCalls BY <1>1 DEF CheckTyped
  <2> QED BY <2>2, <2>3, <1>1, <1>2, <1>4, GetTokenKeeps
<1> QED BY <1>3, <1>4 DEF Check!LoopWakes

\* A task takes the refresher that is installed, or makes one and installs it.
LEMMA EnsureKeeps ==
  ASSUME Check!ConstantsOK, CheckTyped, CheckSound, NEW t \in Check!Threads, Check!EnsureRefresher(t)
  PROVE  CheckTyped' /\ CheckSound'
<1>0. /\ st \in CheckStates /\ refs \in [1 .. Refreshers -> CheckRefs] /\ jobs \in [Check!Threads -> CheckJobs]
      /\ checkPast \in CheckPasts /\ checkCalls \in 0 .. MaxCheckCalls /\ (st.auto => st.activated)
      /\ \A m \in Loops : jobs[m].pc \notin {"activating", "limited", "clearing"}
      /\ AllMade /\ (~checkPast.raced => OneOwner /\ Current /\ Starts /\ Resets /\ Disabled /\ Clearing)
      /\ \A m \in Loops : m \in Check!Threads
  BY SoundHas
<1>1. jobs[t].pc = "ensuring" /\ UNCHANGED <<throttle, checkCalls, checkPast>> BY DEF Check!EnsureRefresher, Check!At
<1>2. PICK new : new = st'.refresher OBVIOUS
<1>3. /\ new \in 1 .. Refreshers /\ st' \in CheckStates /\ st'.token = st.token /\ st'.auto = st.auto /\ st'.activated = st.activated
      /\ Check!goes(t, [jobs[t] EXCEPT !.pc = "starting", !.ref = new])
      /\ refs' \in [1 .. Refreshers -> CheckRefs] /\ refs'[new].made
      /\ \A q \in 1 .. Refreshers : refs[q].made => refs'[q] = refs[q]
      /\ new = st.refresher \/ (st.refresher = 0 /\ ~refs[new].made)
  <2>1. CASE /\ st.refresher # 0 /\ Check!goes(t, [jobs[t] EXCEPT !.pc = "starting", !.ref = st.refresher]) /\ UNCHANGED <<st, refs>>
    <3>1. st.refresher \in 0 .. Refreshers BY <1>0 DEF CheckStates
    <3>2. st.refresher \in 1 .. Refreshers BY <3>1, <2>1, Constants
    <3>3. refs[st.refresher].made BY <2>1, <1>0 DEF AllMade
    <3>4. new = st.refresher BY <2>1, <1>2
    <3> QED BY <3>2, <3>3, <3>4, <2>1, <1>0
  <2>2. CASE /\ st.refresher = 0 /\ \E r \in 1 .. Refreshers : ~refs[r].made
             /\ refs' = [refs EXCEPT ![Check!Fresh].made = TRUE] /\ st' = [st EXCEPT !.refresher = Check!Fresh]
             /\ Check!goes(t, [jobs[t] EXCEPT !.pc = "starting", !.ref = Check!Fresh])
    <3>1. PICK f : f = Check!Fresh OBVIOUS
    <3>2. f \in 1 .. Refreshers /\ ~refs[f].made BY <3>1, <2>2 DEF Check!Fresh
    <3>3. refs' = [refs EXCEPT ![f] = [refs[f] EXCEPT !.made = TRUE]] BY <3>1, <2>2, <3>2, <1>0
    <3>4. [refs[f] EXCEPT !.made = TRUE] \in CheckRefs /\ [refs[f] EXCEPT !.made = TRUE].made BY <3>2, <1>0 DEF CheckRefs
    <3>5. refs' \in [1 .. Refreshers -> CheckRefs] /\ refs'[f].made /\ \A q \in 1 .. Refreshers : q # f => refs'[q] = refs[q]
      BY <3>3, <3>4, <3>2, <1>0
    <3>6. st' = [st EXCEPT !.refresher = f] BY <3>1, <2>2
    <3>7. f \in 0 .. Refreshers BY <3>2, Constants
    <3>8. st' \in CheckStates /\ st'.refresher = f /\ st'.token = st.token /\ st'.auto = st.auto /\ st'.activated = st.activated
      BY <3>6, <3>7, <1>0 DEF CheckStates
    <3>9. new = f /\ Check!goes(t, [jobs[t] EXCEPT !.pc = "starting", !.ref = new]) BY <3>8, <3>1, <2>2, <1>2
    <3> HIDE DEF Check!goes
    <3> QED BY <3>2, <3>5, <3>8, <3>9, <2>2
  <2> QED BY <2>1, <2>2 DEF Check!EnsureRefresher
<1>4. PICK j : j = [jobs[t] EXCEPT !.pc = "starting", !.ref = new] OBVIOUS
<1>5. new \in 0 .. Refreshers /\ new # 0 BY <1>3, Constants
<1>6. j \in CheckJobs BY <1>4, <1>5, <1>0 DEF CheckJobs, Stops
<1>7. j.pc = "starting" /\ j.ref = new /\ j.own = jobs[t].own BY <1>4, <1>0 DEF CheckJobs
<1>8. jobs' = [jobs EXCEPT ![t] = j] BY <1>3, <1>4 DEF Check!goes
<1>9. jobs' \in [Check!Threads -> CheckJobs] /\ jobs'[t] = j /\ \A u \in Check!Threads : u # t => jobs'[u] = jobs[u] BY <1>8, <1>0, <1>6
<1>10. \A m \in Loops : Busy(m)' => Busy(m) /\ jobs'[m].own = jobs[m].own BY <1>9, <1>7, <1>1, <1>0 DEF Busy
<1>11. \A m \in Loops : Busy(m) => jobs[m].own # 0 /\ refs'[jobs[m].own] = refs[jobs[m].own]
  <2> SUFFICES ASSUME NEW m \in Loops, Busy(m) PROVE jobs[m].own # 0 /\ refs'[jobs[m].own] = refs[jobs[m].own] OBVIOUS
  <2>1. jobs[m].own \in 1 .. Refreshers /\ jobs[m].own # 0 /\ refs[jobs[m].own].made BY <1>0, OwnersAre DEF AllMade
  <2> QED BY <2>1, <1>3
<1>12. AllMade'
  <2>1. \A m \in Loops : Busy(m)' => jobs'[m].own # 0 /\ refs'[jobs'[m].own].made BY <1>10, <1>11, <1>0 DEF AllMade
  <2>2. ASSUME NEW u \in Check!Threads, jobs'[u].pc \in {"starting", "resetting"} PROVE jobs'[u].ref # 0 /\ refs'[jobs'[u].ref].made
    <3>1. CASE u = t BY <3>1, <1>9, <1>7, <1>5, <1>3
    <3>2. CASE u # t
      <4>1. jobs'[u] = jobs[u] BY <3>2, <1>9
      <4>2. jobs[u].ref # 0 /\ refs[jobs[u].ref].made BY <4>1, <2>2, <1>0 DEF AllMade
      <4>3. jobs[u].ref \in 0 .. Refreshers BY <1>0 DEF CheckJobs
      <4>4. jobs[u].ref \in 1 .. Refreshers BY <4>2, <4>3, Constants
      <4> QED BY <4>1, <4>2, <4>4, <1>3
    <3> QED BY <3>1, <3>2
  <2> QED BY <2>1, <2>2, <1>2, <1>3 DEF AllMade
<1>13. ASSUME ~checkPast'.raced PROVE Running'
  <2>1. OneOwner /\ Current /\ Starts /\ Resets /\ Disabled /\ Clearing BY <1>0, <1>1, <1>13
  <2>2. OneOwner' BY <1>10, <2>1 DEF OneOwner
  <2>3. Current'
    <3> SUFFICES ASSUME NEW m \in Loops, Busy(m)'
                 PROVE  \/ jobs'[m].own = new /\ refs'[jobs'[m].own].running
                        \/ jobs'[m].own # new /\ refs'[jobs'[m].own].cancel
      BY <1>2 DEF Current
    <3>1. Busy(m) /\ jobs'[m].own = jobs[m].own BY <1>10
    <3>2. jobs[m].own # 0 /\ refs'[jobs[m].own] = refs[jobs[m].own] /\ refs[jobs[m].own].made BY <3>1, <1>11, <1>0 DEF AllMade
    <3>3. CASE new = st.refresher BY <3>3, <3>1, <3>2, <2>1 DEF Current
    <3>4. CASE st.refresher = 0 /\ ~refs[new].made
      <4>1. jobs[m].own # new /\ jobs[m].own # st.refresher BY <3>2, <3>4
      <4>2. refs[jobs[m].own].cancel BY <4>1, <3>1, <2>1 DEF Current
      <4> QED BY <4>1, <4>2, <3>1, <3>2
    <3> QED BY <3>3, <3>4, <1>3
  <2>4. \A u \in Check!Threads : jobs[u].pc \in {"starting", "resetting"} => new = st.refresher BY <2>1, <1>3 DEF Starts
  <2>5. Starts'
    <3> SUFFICES ASSUME NEW u \in Check!Threads, jobs'[u].pc \in {"starting", "resetting"} PROVE jobs'[u].ref = new /\ new # 0
      BY <1>2 DEF Starts
    <3>1. CASE u = t BY <3>1, <1>9, <1>7, <1>5
    <3>2. CASE u # t
      <4>1. jobs'[u] = jobs[u] BY <3>2, <1>9
      <4> QED BY <4>1, <2>1, <2>4 DEF Starts
    <3> QED BY <3>1, <3>2
  <2>6. Resets'
    <3>1. \A u \in Check!Threads : Check!At(u, "resetting")' => Check!At(u, "resetting") BY <1>9, <1>7 DEF Check!At
    <3>2. ASSUME NEW u \in Check!Threads, Check!At(u, "resetting")'
          PROVE  refs'[new].running /\ \A m \in Loops : Busy(m)' => jobs'[m].own # new
      <4>1. Check!At(u, "resetting") BY <3>1, <3>2
      <4>2. new = st.refresher BY <4>1, <2>4 DEF Check!At
      <4>3. refs[new].running /\ \A m \in Loops : Busy(m) => jobs[m].own # new BY <4>1, <4>2, <2>1 DEF Resets
      <4>4. refs[new].made BY <4>2, <1>5, <1>0 DEF AllMade
      <4> QED BY <4>3, <4>4, <1>3, <1>10
    <3>3. \A u, v \in Check!Threads : Check!At(u, "resetting")' /\ Check!At(v, "resetting")' => u = v BY <3>1, <2>1 DEF Resets
    <3> QED BY <3>2, <3>3, <1>2 DEF Resets
  <2>7. Disabled'
    <3>1. t \in Check!Starting BY <1>1 DEF Check!Starting
    <3>2. st.auto BY <3>1, <2>1 DEF Disabled
    <3> QED BY <3>2, <1>3 DEF Disabled
  <2>8. Clearing'
    <3>1. \A u \in Callers : jobs'[u].pc = "clearing" => jobs[u].pc = "clearing" BY <1>9, <1>7 DEF Check!Threads
    <3> QED BY <3>1, <2>1, <1>3 DEF Clearing, Check!At
  <2> QED BY <2>2, <2>3, <2>5, <2>6, <2>7, <2>8 DEF Running
<1>14. \A u \in Check!Threads : jobs'[u].pc \in {"exchanging", "limited", "sleeping"} => jobs'[u] = jobs[u] BY <1>9, <1>7
<1>15. \A m \in Loops : jobs'[m].pc \notin {"activating", "limited", "clearing"} BY <1>0, <1>9, <1>7
<1> HIDE DEF Check!goes
<1> QED BY <1>0, <1>1, <1>3, <1>9, <1>12, <1>13, <1>14, <1>15, OthersMove

\* Of the tasks that start a refresher one sets `running`, when no loop runs on it.
LEMMA StartKeeps ==
  ASSUME Check!ConstantsOK, CheckTyped, CheckSound, NEW t \in Check!Threads, Check!StartRefresher(t)
  PROVE  CheckTyped' /\ CheckSound'
<1>0. /\ st \in CheckStates /\ refs \in [1 .. Refreshers -> CheckRefs] /\ jobs \in [Check!Threads -> CheckJobs]
      /\ checkPast \in CheckPasts /\ checkCalls \in 0 .. MaxCheckCalls /\ (st.auto => st.activated)
      /\ \A m \in Loops : jobs[m].pc \notin {"activating", "limited", "clearing"}
      /\ AllMade /\ (~checkPast.raced => OneOwner /\ Current /\ Starts /\ Resets /\ Disabled /\ Clearing)
      /\ \A m \in Loops : m \in Check!Threads
  BY SoundHas
<1>1. jobs[t].pc = "starting" /\ UNCHANGED <<st, throttle, checkCalls, checkPast>> BY DEF Check!StartRefresher, Check!At
<1>b. Busy(t) BY <1>1 DEF Busy
<1>2. CASE refs[jobs[t].ref].running
  <2>1. PICK j : j = Check!finish(t, TRUE) OBVIOUS
  <2>2. /\ j \in CheckJobs /\ j.pc \in {"idle", "top"} /\ (t \in Loops => j.own = jobs[t].own) BY <2>1, FinishIs
  <2>3. jobs' = [jobs EXCEPT ![t] = j] /\ UNCHANGED refs BY <1>2, <2>1 DEF Check!StartRefresher, Check!goes
  <2> QED BY <2>2, <2>3, <1>0, <1>1, <1>b, TaskTurns
<1>3. CASE ~refs[jobs[t].ref].running
  <2>1. PICK r : r = jobs[t].ref OBVIOUS
  <2>2. r \in 1 .. Refreshers
    <3>1. r # 0 BY <2>1, <1>1, <1>0 DEF AllMade
    <3>2. r \in 0 .. Refreshers BY <2>1, <1>0 DEF CheckJobs
    <3> QED BY <3>1, <3>2, Constants
  <2>3. refs' = [refs EXCEPT ![r] = [refs[r] EXCEPT !.running = TRUE]]
    <3>1. refs' = [refs EXCEPT ![r].running = TRUE] BY <1>3, <2>1 DEF Check!StartRefresher
    <3> QED BY <3>1, <1>0, <2>2
  <2>4. [refs[r] EXCEPT !.running = TRUE] \in CheckRefs BY <1>0, <2>2 DEF CheckRefs
  <2>5. refs' \in [1 .. Refreshers -> CheckRefs] /\ \A q \in 1 .. Refreshers : q # r => refs'[q] = refs[q] BY <1>0, <2>3, <2>4
  <2>6. refs'[r].running /\ \A q \in 1 .. Refreshers : refs'[q].made = refs[q].made BY <1>0, <2>2, <2>3 DEF CheckRefs
  <2>7. PICK j : j = [jobs[t] EXCEPT !.pc = "resetting"] OBVIOUS
  <2>8. j \in CheckJobs BY <2>7, <1>0 DEF CheckJobs, Stops
  <2>9. j.pc = "resetting" /\ j.ref = r /\ j.own = jobs[t].own BY <2>7, <2>1, <1>0 DEF CheckJobs
  <2>10. jobs' = [jobs EXCEPT ![t] = j] BY <2>7, <1>3 DEF Check!StartRefresher, Check!goes
  <2>11. jobs' \in [Check!Threads -> CheckJobs] /\ jobs'[t] = j /\ \A u \in Check!Threads : u # t => jobs'[u] = jobs[u] BY <2>10, <1>0, <2>8
  <2>12. \A m \in Loops : Busy(m)' => Busy(m) /\ jobs'[m].own = jobs[m].own BY <2>11, <2>9, <1>1, <1>0 DEF Busy
  <2>13. AllMade'
    <3>1. st'.refresher # 0 => refs'[st'.refresher].made
      <4>1. st.refresher \in 0 .. Refreshers BY <1>0 DEF CheckStates
      <4>2. st.refresher # 0 => st.refresher \in 1 .. Refreshers BY <4>1, Constants
      <4> QED BY <4>2, <2>6, <1>0, <1>1 DEF AllMade
    <3>2. ASSUME NEW m \in Loops, Busy(m)' PROVE jobs'[m].own # 0 /\ refs'[jobs'[m].own].made
      <4>1. Busy(m) /\ jobs'[m].own = jobs[m].own BY <2>12, <3>2
      <4>2. jobs[m].own \in 1 .. Refreshers BY <4>1, <1>0, OwnersAre
      <4> QED BY <4>1, <4>2, <2>6, <1>0 DEF AllMade
    <3>3. ASSUME NEW u \in Check!Threads, jobs'[u].pc \in {"starting", "resetting"} PROVE jobs'[u].ref # 0 /\ refs'[jobs'[u].ref].made
      <4>1. jobs'[u].ref = jobs[u].ref /\ jobs[u].pc \in {"starting", "resetting"} BY <2>11, <2>9, <2>1, <1>1, <3>3
      <4>2. jobs[u].ref # 0 /\ refs[jobs[u].ref].made BY <4>1, <1>0 DEF AllMade
      <4>3. jobs[u].ref \in 0 .. Refreshers BY <1>0 DEF CheckJobs
      <4>4. jobs[u].ref \in 1 .. Refreshers BY <4>2, <4>3, Constants
      <4> QED BY <4>1, <4>2, <4>4, <2>6
    <3> QED BY <3>1, <3>2, <3>3 DEF AllMade
  <2>14. ASSUME ~checkPast'.raced PROVE Running'
    <3>1. OneOwner /\ Current /\ Starts /\ Resets /\ Disabled /\ Clearing BY <1>0, <1>1, <2>14
    <3>2. r = st.refresher BY <3>1, <1>1, <2>1 DEF Starts
    <3>3. \A m \in Loops : Busy(m) => jobs[m].own # r /\ refs[jobs[m].own].cancel BY <3>1, <3>2, <1>3, <2>1 DEF Current
    <3>4. OneOwner' BY <2>12, <3>1 DEF OneOwner
    <3>5. Current'
      <4> SUFFICES ASSUME NEW m \in Loops, Busy(m)' PROVE jobs'[m].own # st.refresher /\ refs'[jobs'[m].own].cancel
        BY <1>1 DEF Current
      <4>1. Busy(m) /\ jobs'[m].own = jobs[m].own BY <2>12
      <4>2. jobs[m].own \in 1 .. Refreshers BY <4>1, <1>0, OwnersAre
      <4> QED BY <4>1, <4>2, <3>2, <3>3, <2>5
    <3>6. Starts' BY <2>11, <2>9, <3>1, <3>2, <1>1, <2>2 DEF Starts
    <3>7. \A u \in Check!Threads : jobs[u].pc # "resetting"
      <4>1. ~refs[st.refresher].running BY <1>3, <2>1, <3>2
      <4> QED BY <4>1, <3>1 DEF Resets, Check!At
    <3>8. Resets'
      <4>1. \A u \in Check!Threads : Check!At(u, "resetting")' => u = t BY <3>7, <2>11 DEF Check!At
      <4>2. refs'[st'.refresher].running /\ \A m \in Loops : Busy(m)' => jobs'[m].own # st'.refresher
        BY <1>1, <3>2, <3>3, <2>6, <2>12
      <4> QED BY <4>1, <4>2 DEF Resets
    <3>9. Disabled'
      <4>1. t \in Check!Starting BY <1>1 DEF Check!Starting
      <4>2. st.auto BY <4>1, <3>1 DEF Disabled
      <4> QED BY <4>2, <1>1 DEF Disabled
    <3>10. Clearing'
      <4>1. \A u \in Callers : jobs'[u].pc = "clearing" => jobs[u].pc = "clearing" BY <2>11, <2>9 DEF Check!Threads
      <4> QED BY <4>1, <3>1, <1>1 DEF Clearing, Check!At
    <3> QED BY <3>4, <3>5, <3>6, <3>8, <3>9, <3>10 DEF Running
  <2>15. \A u \in Check!Threads : jobs'[u].pc \in {"exchanging", "limited", "sleeping"} => jobs'[u] = jobs[u] BY <2>11, <2>9
  <2>16. \A m \in Loops : jobs'[m].pc \notin {"activating", "limited", "clearing"} BY <1>0, <2>11, <2>9
  <2> QED BY <1>0, <1>1, <2>5, <2>11, <2>13, <2>14, <2>15, <2>16, OthersMove
<1> QED BY <1>2, <1>3

\* The loop that is spawned is the only one on its refresher.
LEMMA SpawnKeeps ==
  ASSUME Check!ConstantsOK, CheckTyped, CheckSound, NEW t \in Check!Threads, Check!SpawnLoop(t)
  PROVE  CheckTyped' /\ CheckSound'
<1>0. /\ st \in CheckStates /\ refs \in [1 .. Refreshers -> CheckRefs] /\ jobs \in [Check!Threads -> CheckJobs]
      /\ checkPast \in CheckPasts /\ checkCalls \in 0 .. MaxCheckCalls /\ (st.auto => st.activated)
      /\ \A m \in Loops : jobs[m].pc \notin {"activating", "limited", "clearing"}
      /\ AllMade /\ (~checkPast.raced => OneOwner /\ Current /\ Starts /\ Resets /\ Disabled /\ Clearing)
      /\ \A m \in Loops : m \in Check!Threads
  BY SoundHas
<1>1. jobs[t].pc = "resetting" /\ UNCHANGED <<st, throttle, checkCalls, checkPast>> BY DEF Check!SpawnLoop, Check!At
<1>2. PICK r : r = jobs[t].ref OBVIOUS
<1>3. r # 0 /\ r \in 1 .. Refreshers /\ refs[r].made
  <2>1. r # 0 /\ refs[r].made BY <1>2, <1>1, <1>0 DEF AllMade
  <2>2. r \in 0 .. Refreshers BY <1>2, <1>0 DEF CheckJobs
  <2> QED BY <2>1, <2>2, Constants
<1>4. PICK l \in Loops :
        /\ jobs[l].pc = "idle"
        /\ refs' = [refs EXCEPT ![r].wait = MinWait, ![r].cancel = FALSE]
        /\ jobs' = [jobs EXCEPT ![t] = Check!finish(t, TRUE), ![l] = [Check!Idle EXCEPT !.pc = "top", !.own = r]]
  BY <1>2 DEF Check!SpawnLoop, Check!At
<1>5. l # t /\ l \in Check!Threads BY <1>4, <1>1, <1>0
<1>6. PICK a : a = Check!finish(t, TRUE) OBVIOUS
<1>7. a \in CheckJobs /\ a.pc \in {"idle", "top"} /\ (t \in Loops => a.own = jobs[t].own) BY <1>6, FinishIs
<1>8. PICK b : b = [Check!Idle EXCEPT !.pc = "top", !.own = r] OBVIOUS
<1>9. r \in 0 .. Refreshers BY <1>3, Constants
<1>10. b \in CheckJobs BY <1>8, <1>9, IdleTaskIsTyped DEF CheckJobs, Stops
<1>11. b.pc = "top" /\ b.own = r BY <1>8, IdleTaskIsTyped DEF CheckJobs
<1>12. jobs' = [jobs EXCEPT ![t] = a, ![l] = b] BY <1>4, <1>6, <1>8
<1>13. /\ jobs' \in [Check!Threads -> CheckJobs] /\ jobs'[t] = a /\ jobs'[l] = b
       /\ \A u \in Check!Threads : u # t /\ u # l => jobs'[u] = jobs[u]
  BY <1>12, <1>0, <1>5, <1>7, <1>10
<1>14. refs' = [refs EXCEPT ![r] = [refs[r] EXCEPT !.wait = MinWait, !.cancel = FALSE]] BY <1>4, <1>0, <1>3 DEF CheckRefs
<1>15. MinWait \in MinWait .. MaxWait BY Constants
<1>16. [refs[r] EXCEPT !.wait = MinWait, !.cancel = FALSE] \in CheckRefs BY <1>15, <1>0, <1>3 DEF CheckRefs
<1>17. refs' \in [1 .. Refreshers -> CheckRefs] /\ \A q \in 1 .. Refreshers : q # r => refs'[q] = refs[q] BY <1>0, <1>14, <1>16
<1>18. \A q \in 1 .. Refreshers : refs'[q].made = refs[q].made /\ refs'[q].running = refs[q].running BY <1>0, <1>14 DEF CheckRefs
<1>19. \A m \in Loops : Busy(m)' /\ m # l => Busy(m) /\ jobs'[m].own = jobs[m].own
  BY <1>13, <1>7, <1>1, <1>0 DEF Busy
<1>20. \A u \in Check!Threads : jobs'[u].pc \notin {"idle", "top"} => u # t /\ u # l /\ jobs'[u] = jobs[u] BY <1>13, <1>7, <1>11
<1>21. AllMade'
  <2>1. st'.refresher # 0 => refs'[st'.refresher].made
    <3>1. st.refresher \in 0 .. Refreshers BY <1>0 DEF CheckStates
    <3>2. st.refresher # 0 => st.refresher \in 1 .. Refreshers BY <3>1, Constants
    <3> QED BY <3>2, <1>18, <1>0, <1>1 DEF AllMade
  <2>2. ASSUME NEW m \in Loops, Busy(m)' PROVE jobs'[m].own # 0 /\ refs'[jobs'[m].own].made
    <3>1. CASE m = l BY <3>1, <1>13, <1>11, <1>3, <1>18
    <3>2. CASE m # l
      <4>1. Busy(m) /\ jobs'[m].own = jobs[m].own BY <1>19, <2>2, <3>2
      <4>2. jobs[m].own \in 1 .. Refreshers BY <4>1, <1>0, OwnersAre
      <4> QED BY <4>1, <4>2, <1>18, <1>0 DEF AllMade
    <3> QED BY <3>1, <3>2
  <2>3. ASSUME NEW u \in Check!Threads, jobs'[u].pc \in {"starting", "resetting"} PROVE jobs'[u].ref # 0 /\ refs'[jobs'[u].ref].made
    <3>1. jobs'[u] = jobs[u] BY <1>20, <2>3
    <3>2. jobs[u].ref # 0 /\ refs[jobs[u].ref].made BY <3>1, <2>3, <1>0 DEF AllMade
    <3>3. jobs[u].ref \in 0 .. Refreshers BY <1>0 DEF CheckJobs
    <3>4. jobs[u].ref \in 1 .. Refreshers BY <3>2, <3>3, Constants
    <3> QED BY <3>1, <3>2, <3>4, <1>18
  <2> QED BY <2>1, <2>2, <2>3 DEF AllMade
<1>22. ASSUME ~checkPast'.raced PROVE Running'
  <2>1. OneOwner /\ Current /\ Starts /\ Resets /\ Disabled /\ Clearing BY <1>0, <1>1, <1>22
  <2>2. r = st.refresher BY <2>1, <1>1, <1>2 DEF Starts
  <2>3. refs[r].running /\ \A m \in Loops : Busy(m) => jobs[m].own # r BY <2>1, <2>2, <1>1 DEF Resets, Check!At
  <2>4. OneOwner'
    <3> SUFFICES ASSUME NEW m \in Loops, NEW n \in Loops, Busy(m)', Busy(n)', jobs'[m].own = jobs'[n].own PROVE m = n
      BY DEF OneOwner
    <3>1. \A k \in Loops : Busy(k)' /\ k # l => jobs'[k].own # r BY <1>19, <2>3
    <3>2. jobs'[l].own = r BY <1>13, <1>11
    <3>3. CASE m = l \/ n = l BY <3>3, <3>1, <3>2
    <3>4. CASE m # l /\ n # l BY <3>4, <1>19, <2>1 DEF OneOwner
    <3> QED BY <3>3, <3>4
  <2>5. Current'
    <3> SUFFICES ASSUME NEW m \in Loops, Busy(m)'
                 PROVE  \/ jobs'[m].own = r /\ refs'[jobs'[m].own].running
                        \/ jobs'[m].own # r /\ refs'[jobs'[m].own].cancel
      BY <2>2, <1>1 DEF Current
    <3>1. CASE m = l BY <3>1, <1>13, <1>11, <1>18, <1>3, <2>3
    <3>2. CASE m # l
      <4>1. Busy(m) /\ jobs'[m].own = jobs[m].own BY <1>19, <3>2
      <4>2. jobs[m].own # r /\ refs[jobs[m].own].cancel BY <4>1, <2>3, <2>1, <2>2 DEF Current
      <4>3. jobs[m].own \in 1 .. Refreshers BY <4>1, <1>0, OwnersAre
      <4> QED BY <4>1, <4>2, <4>3, <1>17
    <3> QED BY <3>1, <3>2
  <2>6. Starts' BY <1>20, <2>1, <1>1 DEF Starts
  <2>7. \A u \in Check!Threads : jobs'[u].pc # "resetting"
    <3> SUFFICES ASSUME NEW u \in Check!Threads, jobs'[u].pc = "resetting" PROVE FALSE OBVIOUS
    <3>1. u # t /\ jobs[u].pc = "resetting" BY <1>20
    <3> QED BY <3>1, <1>1, <2>1 DEF Resets, Check!At
  <2>8. Resets' BY <2>7 DEF Resets, Check!At
  <2>9. Disabled'
    <3>1. t \in Check!Starting BY <1>1 DEF Check!Starting
    <3>2. st.auto BY <3>1, <2>1 DEF Disabled
    <3> QED BY <3>2, <1>1 DEF Disabled
  <2>10. Clearing'
    <3>1. \A u \in Callers : jobs'[u].pc = "clearing" => jobs[u].pc = "clearing" BY <1>20 DEF Check!Threads
    <3> QED BY <3>1, <2>1, <1>1 DEF Clearing, Check!At
  <2> QED BY <2>4, <2>5, <2>6, <2>8, <2>9, <2>10 DEF Running
<1>23. \A u \in Check!Threads : jobs'[u].pc \in {"exchanging", "limited", "sleeping"} => jobs'[u] = jobs[u] BY <1>20
<1>24. \A m \in Loops : jobs'[m].pc \notin {"activating", "limited", "clearing"} BY <1>0, <1>20
<1> QED BY <1>0, <1>1, <1>13, <1>17, <1>21, <1>22, <1>23, <1>24, OthersMove

\* A switch beside no start and no other switch leaves a refresher to be stopped.
LEMMA SwitchKeeps ==
  ASSUME Check!ConstantsOK, CheckTyped, CheckSound, NEW t \in Check!Threads, NEW enabled \in BOOLEAN, Check!SetAutoRefresh(t, enabled)
  PROVE  CheckTyped' /\ CheckSound'
<1>0. /\ st \in CheckStates /\ refs \in [1 .. Refreshers -> CheckRefs] /\ jobs \in [Check!Threads -> CheckJobs]
      /\ checkPast \in CheckPasts /\ checkCalls \in 0 .. MaxCheckCalls /\ (st.auto => st.activated)
      /\ \A m \in Loops : jobs[m].pc \notin {"activating", "limited", "clearing"}
      /\ AllMade /\ (~checkPast.raced => OneOwner /\ Current /\ Starts /\ Resets /\ Disabled /\ Clearing)
      /\ \A m \in Loops : m \in Check!Threads
  BY SoundHas
<1>1. Check!call(t) /\ st.activated /\ UNCHANGED <<refs, throttle>> BY DEF Check!SetAutoRefresh
<1>2. t \in Callers /\ t \notin Loops /\ jobs[t].pc = "idle" /\ checkCalls' \in 0 .. MaxCheckCalls BY <1>1, CallIs
<1>3. st' = [st EXCEPT !.auto = enabled] BY DEF Check!SetAutoRefresh
<1>4. st' \in CheckStates BY <1>3, <1>0 DEF CheckStates
<1>5. st'.refresher = st.refresher /\ st'.token = st.token /\ st'.auto = enabled /\ st'.activated BY <1>3, <1>0, <1>1 DEF CheckStates
<1>6. PICK j : j = [Check!Idle EXCEPT !.pc = IF enabled THEN "reading" ELSE "clearing"] OBVIOUS
<1>7. j \in CheckJobs BY <1>6, IdleTaskIsTyped DEF CheckJobs, Stops
<1>8. j.pc = IF enabled THEN "reading" ELSE "clearing" BY <1>6, IdleTaskIsTyped DEF CheckJobs
<1>9. jobs' = [jobs EXCEPT ![t] = j] BY <1>6 DEF Check!SetAutoRefresh, Check!goes
<1>10. jobs' \in [Check!Threads -> CheckJobs] /\ jobs'[t] = j /\ \A u \in Check!Threads : u # t => jobs'[u] = jobs[u] BY <1>9, <1>0, <1>7
<1>11. PICK b : b = (checkPast.raced \/ (~enabled /\ Check!Starting # {}) \/ \E u \in Check!Threads : Check!At(u, "clearing")) OBVIOUS
<1>12. b \in BOOLEAN BY <1>11, <1>0 DEF CheckPasts
<1>13. checkPast' = [checkPast EXCEPT !.raced = b] BY <1>11, <1>0 DEF Check!SetAutoRefresh, CheckPasts
<1>14. checkPast' \in CheckPasts BY <1>13, <1>12, <1>0 DEF CheckPasts
<1>15. checkPast'.stale = checkPast.stale /\ checkPast'.ignored = checkPast.ignored /\ checkPast'.blocked = checkPast.blocked /\ checkPast'.raced = b
  BY <1>13, <1>0 DEF CheckPasts
<1>16. \A m \in Loops : jobs'[m] = jobs[m] BY <1>10, <1>0, <1>2
<1>17. \A u \in Check!Threads : jobs'[u].pc \in {"exchanging", "limited", "sleeping", "ensuring", "starting", "resetting"} => jobs'[u] = jobs[u]
  BY <1>10, <1>8
<1>18. AllMade' BY <1>0, <1>1, <1>5, <1>16, <1>17 DEF AllMade, Busy
<1>19. ASSUME ~checkPast'.raced PROVE Running'
  <2>1. ~checkPast.raced /\ (enabled \/ Check!Starting = {}) /\ \A u \in Check!Threads : jobs[u].pc # "clearing" BY <1>19, <1>15, <1>11 DEF Check!At
  <2>2. OneOwner /\ Current /\ Starts /\ Resets /\ Disabled /\ Clearing BY <1>0, <2>1
  <2>3. OneOwner' /\ Current' BY <2>2, <1>16, <1>5, <1>1 DEF OneOwner, Current, Busy
  <2>4. Starts' BY <2>2, <1>17, <1>5 DEF Starts
  <2>5. Resets' BY <2>2, <1>16, <1>17, <1>5, <1>1 DEF Resets, Check!At, Busy
  <2>6. Disabled'
    <3> SUFFICES ASSUME ~enabled PROVE Check!Starting' = {} /\ \E u \in Callers : Check!At(u, "clearing")' BY <1>5 DEF Disabled
    <3>1. Check!At(t, "clearing")' BY <1>10, <1>8 DEF Check!At
    <3>2. Check!Starting' = {} BY <2>1, <1>17 DEF Check!Starting
    <3> QED BY <3>1, <3>2, <1>2
  <2>7. Clearing'
    <3> SUFFICES ASSUME NEW u \in Callers, jobs'[u].pc = "clearing" PROVE ~enabled BY <1>5 DEF Clearing, Check!At
    <3>1. u = t BY <2>1, <1>10 DEF Check!Threads
    <3> QED BY <3>1, <1>10, <1>8
  <2> QED BY <2>3, <2>4, <2>5, <2>6, <2>7 DEF Running
<1>20. \A u \in Check!Threads : jobs'[u].pc \in {"exchanging", "limited", "sleeping"} => jobs'[u] = jobs[u] BY <1>17
<1>21. \A m \in Loops : jobs'[m].pc \notin {"activating", "limited", "clearing"} BY <1>0, <1>16
<1> QED BY <1>0, <1>1, <1>2, <1>4, <1>5, <1>10, <1>14, <1>15, <1>18, <1>19, <1>20, <1>21, OthersMove

\* Every loop on the refresher that is taken away is cancelled.
LEMMA ClearKeeps ==
  ASSUME Check!ConstantsOK, CheckTyped, CheckSound, NEW t \in Check!Threads, Check!ClearRefresher(t)
  PROVE  CheckTyped' /\ CheckSound'
<1>0. /\ st \in CheckStates /\ refs \in [1 .. Refreshers -> CheckRefs] /\ jobs \in [Check!Threads -> CheckJobs]
      /\ checkPast \in CheckPasts /\ checkCalls \in 0 .. MaxCheckCalls /\ (st.auto => st.activated)
      /\ \A m \in Loops : jobs[m].pc \notin {"activating", "limited", "clearing"}
      /\ AllMade /\ (~checkPast.raced => OneOwner /\ Current /\ Starts /\ Resets /\ Disabled /\ Clearing)
      /\ \A m \in Loops : m \in Check!Threads
  BY SoundHas
<1>1. jobs[t].pc = "clearing" /\ UNCHANGED <<throttle, checkCalls, checkPast>> BY DEF Check!ClearRefresher, Check!At
<1>2. t \notin Loops /\ t \in Callers BY <1>1, <1>0 DEF Check!Threads
<1>3. st' = [st EXCEPT !.refresher = 0] BY DEF Check!ClearRefresher
<1>n. 0 \in 0 .. Refreshers BY Constants
<1>4. st' \in CheckStates BY <1>3, <1>n, <1>0 DEF CheckStates
<1>5. st'.refresher = 0 /\ st'.token = st.token /\ st'.auto = st.auto /\ st'.activated = st.activated BY <1>3, <1>0 DEF CheckStates
<1>6. jobs' = [jobs EXCEPT ![t] = Check!Idle] BY DEF Check!ClearRefresher, Check!goes
<1>7. jobs' \in [Check!Threads -> CheckJobs] /\ jobs'[t].pc = "idle" /\ \A u \in Check!Threads : u # t => jobs'[u] = jobs[u] BY <1>6, <1>0, IdleTaskIsTyped
<1>8. \A m \in Loops : jobs'[m] = jobs[m] BY <1>7, <1>0, <1>2
<1>9. \A u \in Check!Threads : jobs'[u].pc # "idle" => jobs'[u] = jobs[u] BY <1>7
<1>10. /\ refs' \in [1 .. Refreshers -> CheckRefs] /\ \A q \in 1 .. Refreshers : refs'[q].made = refs[q].made
       /\ \A q \in 1 .. Refreshers : q # st.refresher => refs'[q] = refs[q]
       /\ st.refresher # 0 => refs'[st.refresher].cancel
  <2>1. CASE st.refresher = 0 BY <2>1, <1>0 DEF Check!ClearRefresher
  <2>2. CASE st.refresher # 0
    <3>1. st.refresher \in 0 .. Refreshers BY <1>0 DEF CheckStates
    <3>2. PICK r \in 1 .. Refreshers : r = st.refresher BY <3>1, <2>2, Constants
    <3>3. refs' = [refs EXCEPT ![r].cancel = TRUE, ![r].running = FALSE] BY <2>2, <3>2 DEF Check!ClearRefresher
    <3>4. refs' = [refs EXCEPT ![r] = [refs[r] EXCEPT !.cancel = TRUE, !.running = FALSE]] BY <3>3, <3>2, <1>0 DEF CheckRefs
    <3>5. PICK new : new = [refs[r] EXCEPT !.cancel = TRUE, !.running = FALSE] OBVIOUS
    <3>6. new \in CheckRefs /\ new.cancel /\ new.made = refs[r].made BY <3>5, <3>2, <1>0 DEF CheckRefs
    <3>7. refs' = [refs EXCEPT ![r] = new] BY <3>4, <3>5
    <3> QED BY <3>2, <3>6, <3>7, <1>0
  <2> QED BY <2>1, <2>2
<1>11. AllMade'
  <2>1. ASSUME NEW m \in Loops, Busy(m)' PROVE jobs'[m].own # 0 /\ refs'[jobs'[m].own].made
    <3>1. Busy(m) /\ jobs'[m] = jobs[m] BY <1>8, <2>1 DEF Busy
    <3>2. jobs[m].own \in 1 .. Refreshers BY <3>1, <1>0, OwnersAre
    <3> QED BY <3>1, <3>2, <1>10, <1>0 DEF AllMade
  <2>2. ASSUME NEW u \in Check!Threads, jobs'[u].pc \in {"starting", "resetting"} PROVE jobs'[u].ref # 0 /\ refs'[jobs'[u].ref].made
    <3>1. jobs'[u] = jobs[u] BY <1>9, <2>2
    <3>2. jobs[u].ref # 0 /\ refs[jobs[u].ref].made BY <3>1, <2>2, <1>0 DEF AllMade
    <3>3. jobs[u].ref \in 0 .. Refreshers BY <1>0 DEF CheckJobs
    <3>4. jobs[u].ref \in 1 .. Refreshers BY <3>2, <3>3, Constants
    <3> QED BY <3>1, <3>2, <3>4, <1>10
  <2> QED BY <2>1, <2>2, <1>5 DEF AllMade
<1>12. ASSUME ~checkPast'.raced PROVE Running'
  <2>1. OneOwner /\ Current /\ Starts /\ Resets /\ Disabled /\ Clearing BY <1>0, <1>1, <1>12
  <2>2. ~st.auto /\ Check!Starting = {} BY <2>1, <1>1, <1>2 DEF Clearing, Disabled, Check!At
  <2>3. OneOwner' BY <2>1, <1>8 DEF OneOwner, Busy
  <2>4. Current'
    <3> SUFFICES ASSUME NEW m \in Loops, Busy(m)' PROVE jobs'[m].own # 0 /\ refs'[jobs'[m].own].cancel BY <1>5 DEF Current
    <3>1. Busy(m) /\ jobs'[m] = jobs[m] BY <1>8 DEF Busy
    <3>2. jobs[m].own \in 1 .. Refreshers /\ jobs[m].own # 0 BY <3>1, <1>0, OwnersAre DEF AllMade
    <3>3. jobs[m].own = st.refresher \/ (jobs[m].own # st.refresher /\ refs[jobs[m].own].cancel) BY <3>1, <2>1 DEF Current
    <3> QED BY <3>1, <3>2, <3>3, <1>10
  <2>5. \A u \in Check!Threads : jobs'[u].pc \notin {"ensuring", "starting", "resetting"} BY <2>2, <1>9 DEF Check!Starting
  <2>6. Starts' /\ Resets' /\ Check!Starting' = {} BY <2>5 DEF Starts, Resets, Check!Starting, Check!At
  <2>7. Disabled' BY <2>6, <1>5 DEF Disabled
  <2>8. Clearing'
    <3>1. \A u \in Callers : jobs'[u].pc = "clearing" => jobs[u].pc = "clearing" BY <1>9 DEF Check!Threads
    <3> QED BY <3>1, <2>1, <1>5 DEF Clearing, Check!At
  <2> QED BY <2>3, <2>4, <2>6, <2>7, <2>8 DEF Running
<1>13. \A u \in Check!Threads : jobs'[u].pc \in {"exchanging", "limited", "sleeping"} => jobs'[u] = jobs[u] BY <1>9
<1>14. \A m \in Loops : jobs'[m].pc \notin {"activating", "limited", "clearing"} BY <1>0, <1>8
<1> QED BY <1>0, <1>1, <1>4, <1>5, <1>7, <1>10, <1>11, <1>12, <1>13, <1>14, OthersMove

\* Time lowers what is left of every duration alike.
LEMMA TickKeeps ==
  ASSUME Check!ConstantsOK, CheckTyped, CheckSound, Check!Tick
  PROVE  CheckTyped' /\ CheckSound'
<1>0. /\ st \in CheckStates /\ refs \in [1 .. Refreshers -> CheckRefs] /\ jobs \in [Check!Threads -> CheckJobs]
      /\ checkPast \in CheckPasts /\ checkCalls \in 0 .. MaxCheckCalls /\ throttle \in 0 .. OneDay /\ UNCHANGED <<refs, checkCalls>>
      /\ \A l \in Loops : l \in Check!Threads
  BY DEF CheckTyped, Check!Tick, Check!Threads
<1>1. Roles /\ ~checkPast.stale /\ ~checkPast.ignored /\ Blocking /\ Sleeping /\ Check!RefreshPrecedesExpiry /\ AllMade /\ (~checkPast.raced => Running)
  BY DEF CheckSound
<1>2. st' \in CheckStates /\ st'.listed = st.listed /\ st'.activated = st.activated /\ st'.auto = st.auto
      /\ st'.refresher = st.refresher /\ st'.token = Check!Less(st.token)
  <2>1. PICK n \in Check!Tokens : n = Check!Less(st.token) BY <1>0, LessOfTyped DEF CheckStates
  <2>2. st' = [st EXCEPT !.token = n] BY <2>1 DEF Check!Tick
  <2> QED BY <2>1, <2>2, <1>0 DEF CheckStates
<1>3. throttle' = Check!Less(throttle) /\ throttle' \in 0 .. OneDay BY <1>0, LessOfTyped DEF Check!Tick
<1>4. checkPast' \in CheckPasts /\ checkPast'.raced = checkPast.raced /\ checkPast'.stale = checkPast.stale /\ checkPast'.ignored = checkPast.ignored
      /\ checkPast'.blocked = Check!Less(checkPast.blocked)
  <2>1. PICK n \in 0 .. OneDay : n = Check!Less(checkPast.blocked) BY <1>0, LessOfTyped DEF CheckPasts
  <2>2. checkPast' = [checkPast EXCEPT !.blocked = n] BY <2>1 DEF Check!Tick
  <2> QED BY <2>1, <2>2, <1>0 DEF CheckPasts
<1>5. ASSUME NEW t \in Check!Threads
      PROVE  /\ jobs'[t] \in CheckJobs /\ jobs'[t].pc = jobs[t].pc /\ jobs'[t].ref = jobs[t].ref /\ jobs'[t].ok = jobs[t].ok
             /\ jobs'[t].own = jobs[t].own /\ jobs'[t].left = Check!Less(jobs[t].left)
  <2>1. PICK c \in Check!Tokens : c = Check!Less(jobs[t].cached) BY <1>0, LessOfTyped DEF CheckJobs
  <2>2. PICK n \in 0 .. (Ttl + MaxWait) : n = Check!Less(jobs[t].left) BY <1>0, LessOfTyped DEF CheckJobs
  <2>3. jobs'[t] = [jobs[t] EXCEPT !.cached = Check!Less(@), !.left = Check!Less(@)] BY DEF Check!Tick
  <2>4. jobs'[t] = [jobs[t] EXCEPT !.cached = c, !.left = n] BY <2>3, <2>1, <2>2, <1>0 DEF CheckJobs
  <2>5. PICK i : i = jobs[t] OBVIOUS
  <2>6. i \in CheckJobs BY <2>5, <1>0
  <2>7. PICK k : k = [i EXCEPT !.cached = c, !.left = n] OBVIOUS
  <2>8. k \in CheckJobs BY <2>6, <2>7 DEF CheckJobs
  <2>9. k.pc = i.pc /\ k.ref = i.ref /\ k.ok = i.ok /\ k.own = i.own /\ k.left = n BY <2>6, <2>7 DEF CheckJobs
  <2>10. jobs'[t] = k BY <2>4, <2>5, <2>7
  <2> QED BY <2>2, <2>5, <2>8, <2>9, <2>10
<1>6. jobs' \in [Check!Threads -> CheckJobs]
  <2>1. jobs' = [t \in Check!Threads |-> jobs'[t]] BY DEF Check!Tick
  <2> QED BY <2>1, <1>5
<1>7. CheckTyped' BY <1>0, <1>2, <1>3, <1>4, <1>6 DEF CheckTyped
<1>8. Roles' BY <1>0, <1>1, <1>2, <1>5 DEF Roles
<1>9. Blocking'
  <2>1. checkPast.blocked \in Int /\ throttle \in Int BY <1>0, Constants DEF CheckPasts
  <2>2. checkPast'.blocked <= throttle' BY <2>1, <1>1, <1>3, <1>4 DEF Blocking, Check!Less
  <2>3. checkPast'.blocked > 0 => checkPast.blocked > 0 BY <2>1, <1>4 DEF Check!Less
  <2>4. checkPast.blocked > 0 => \A t \in Check!Threads : jobs'[t].pc \notin {"exchanging", "limited"} BY <1>1, <1>5 DEF Blocking, Check!Exchanging
  <2> QED BY <2>2, <2>3, <2>4 DEF Blocking, Check!Exchanging
<1>10. Sleeping' /\ Check!RefreshPrecedesExpiry'
  <2> SUFFICES ASSUME NEW l \in Loops, jobs'[l].pc = "sleeping", jobs'[l].ok
               PROVE  jobs'[l].left < Ttl /\ (~Check!is_expired(st'.token) => jobs'[l].left < st'.token)
    BY DEF Sleeping, Check!RefreshPrecedesExpiry, Check!At, Check!is_expired
  <2>1. jobs[l].pc = "sleeping" /\ jobs[l].ok /\ jobs'[l].left = Check!Less(jobs[l].left) BY <1>0, <1>5
  <2>2. PICK n \in 0 .. (Ttl + MaxWait) : n = jobs[l].left BY <1>0 DEF CheckJobs
  <2>3. n < Ttl /\ (~(st.token <= 0) => n < st.token) BY <2>1, <2>2, <1>1 DEF Sleeping, Check!RefreshPrecedesExpiry, Check!At, Check!is_expired
  <2>4. st.token \in Int BY <1>0, Constants DEF CheckStates, Check!Tokens
  <2>5. Check!Less(n) < Ttl /\ (~(Check!Less(st.token) <= 0) => Check!Less(n) < Check!Less(st.token)) BY <2>2, <2>3, <2>4, Constants DEF Check!Less
  <2> QED BY <2>1, <2>2, <2>5, <1>2 DEF Check!is_expired
<1>11. \A l \in Loops : Busy(l)' => Busy(l) /\ jobs'[l].own = jobs[l].own BY <1>0, <1>5 DEF Busy
<1>12. AllMade'
  <2>1. st'.refresher # 0 => refs'[st'.refresher].made BY <1>0, <1>1, <1>2 DEF AllMade
  <2>2. \A l \in Loops : Busy(l)' => jobs'[l].own # 0 /\ refs'[jobs'[l].own].made BY <1>0, <1>1, <1>11 DEF AllMade
  <2>3. \A t \in Check!Threads : jobs'[t].pc \in {"starting", "resetting"} => jobs'[t].ref # 0 /\ refs'[jobs'[t].ref].made
    BY <1>0, <1>1, <1>5 DEF AllMade
  <2> QED BY <2>1, <2>2, <2>3 DEF AllMade
<1>13. ASSUME ~checkPast'.raced PROVE Running'
  <2>1. OneOwner /\ Current /\ Starts /\ Resets /\ Disabled /\ Clearing BY <1>1, <1>4, <1>13 DEF Running
  <2>2. OneOwner' BY <1>11, <2>1 DEF OneOwner
  <2>3. Current' BY <1>11, <2>1, <1>0, <1>2 DEF Current
  <2>4. Starts' BY <1>5, <2>1, <1>2 DEF Starts
  <2>5. Resets' BY <1>5, <1>11, <2>1, <1>0, <1>2 DEF Resets, Check!At
  <2>6. Disabled'
    <3> SUFFICES ASSUME ~st'.auto PROVE Check!Starting' = {} /\ (st'.refresher = 0 \/ \E u \in Callers : Check!At(u, "clearing")') BY DEF Disabled
    <3>1. Check!Starting = {} /\ (st.refresher = 0 \/ \E u \in Callers : Check!At(u, "clearing")) BY <2>1, <1>2 DEF Disabled
    <3>2. \A u \in Check!Threads : jobs'[u].pc \notin {"ensuring", "starting", "resetting"} BY <3>1, <1>5 DEF Check!Starting
    <3>3. \A u \in Callers : Check!At(u, "clearing") => Check!At(u, "clearing")' BY <1>5 DEF Check!At, Check!Threads
    <3> QED BY <3>1, <3>2, <3>3, <1>2 DEF Check!Starting
  <2>7. Clearing' BY <1>5, <2>1, <1>2 DEF Clearing, Check!At, Check!Threads
  <2> QED BY <2>2, <2>3, <2>4, <2>5, <2>6, <2>7 DEF Running
<1> QED BY <1>1, <1>4, <1>7, <1>8, <1>9, <1>10, <1>12, <1>13 DEF CheckSound

\* Nothing is activated yet.
LEMMA InitiallySound ==
  ASSUME Check!ConstantsOK, Check!Init
  PROVE  CheckTyped /\ CheckSound
<1>1. 0 \in 0 .. Refreshers /\ 0 \in 0 .. OneDay /\ 0 \in 0 .. MaxCheckCalls /\ Check!NoToken \in Check!Tokens /\ MinWait \in MinWait .. MaxWait
  BY Constants DEF Check!Tokens
<1>2. st \in CheckStates /\ ~st.auto /\ st.refresher = 0 BY <1>1 DEF Check!Init, CheckStates
<1>3. refs \in [1 .. Refreshers -> CheckRefs] BY <1>1 DEF Check!Init, CheckRefs
<1>4. checkPast \in CheckPasts /\ ~checkPast.stale /\ ~checkPast.ignored /\ checkPast.blocked = 0 BY <1>1 DEF Check!Init, CheckPasts
<1>5. jobs \in [Check!Threads -> CheckJobs] /\ \A t \in Check!Threads : jobs[t].pc = "idle" BY IdleTaskIsTyped DEF Check!Init
<1>6. CheckTyped BY <1>1, <1>2, <1>3, <1>4, <1>5 DEF CheckTyped, Check!Init
<1>7. \A t \in Callers \cup Loops : jobs[t].pc = "idle" BY <1>5 DEF Check!Threads
<1>8. Roles /\ Sleeping /\ Check!RefreshPrecedesExpiry BY <1>2, <1>7 DEF Roles, Sleeping, Check!RefreshPrecedesExpiry, Check!At
<1>9. Check!Exchanging = {} /\ Check!Starting = {} BY <1>5 DEF Check!Exchanging, Check!Starting
<1>10. Blocking BY <1>4, <1>9 DEF Blocking, Check!Init
<1>11. AllMade BY <1>2, <1>5, <1>7 DEF AllMade, Busy
<1>12. OneOwner /\ Current /\ Clearing BY <1>7 DEF OneOwner, Current, Clearing, Busy, Check!At
<1>13. Starts /\ Resets BY <1>5 DEF Starts, Resets, Check!At
<1>14. Disabled BY <1>2, <1>9 DEF Disabled
<1> QED BY <1>4, <1>6, <1>8, <1>10, <1>11, <1>12, <1>13, <1>14 DEF CheckSound, Running

\* Every step keeps the invariant.
LEMMA SoundIsKept ==
  ASSUME Check!ConstantsOK, CheckTyped, CheckSound, [Check!Next]_(Check!acVars)
  PROVE  CheckTyped' /\ CheckSound'
<1>1. CASE UNCHANGED Check!acVars
  <2>1. st' = st /\ refs' = refs /\ jobs' = jobs /\ throttle' = throttle /\ checkCalls' = checkCalls /\ checkPast' = checkPast BY <1>1 DEF Check!acVars
  <2>2. CheckTyped' BY <2>1 DEF CheckTyped
  <2>3. Roles' /\ Blocking' /\ Sleeping' /\ Check!RefreshPrecedesExpiry' /\ AllMade' /\ ~checkPast'.stale /\ ~checkPast'.ignored
    BY <2>1 DEF CheckSound, Roles, Blocking, Sleeping, Check!RefreshPrecedesExpiry, AllMade, Check!Exchanging, Busy, Check!At
  <2>4. ~checkPast'.raced => Running'
    BY <2>1 DEF CheckSound, Running, OneOwner, Current, Starts, Resets, Disabled, Clearing, Busy, Check!At, Check!Starting
  <2> QED BY <2>2, <2>3, <2>4 DEF CheckSound
<1>2. CASE Check!Tick BY <1>2, TickKeeps
<1>3. ASSUME NEW t \in Check!Threads, Check!CallerBegins(t) PROVE CheckTyped' /\ CheckSound'
  <2>1. ASSUME NEW flag \in BOOLEAN, Check!InitializeLook(t, flag) PROVE CheckTyped' /\ CheckSound' BY <2>1, InitializeLookKeeps
  <2>2. ASSUME NEW flag \in BOOLEAN, Check!GetToken(t, flag) PROVE CheckTyped' /\ CheckSound' BY <2>2, GetsKeeps
  <2>3. ASSUME NEW flag \in BOOLEAN, Check!SetAutoRefresh(t, flag) PROVE CheckTyped' /\ CheckSound' BY <2>3, SwitchKeeps
  <2>4. CASE Check!GetLimitedUseToken(t) BY <2>4, LimitedKeeps
  <2>5. CASE Check!AddTokenListener(t) BY <2>5, ListenerKeeps
  <2> QED BY <1>3, <2>1, <2>2, <2>3, <2>4, <2>5 DEF Check!CallerBegins
<1>4. ASSUME NEW t \in Check!Threads, Check!TaskGoesOn(t) PROVE CheckTyped' /\ CheckSound'
  <2>1. CASE Check!InitializeActivate(t) BY <2>1, InitializeActivateKeeps
  <2>2. CASE Check!ExchangeSucceeds(t) BY <2>2, ExchangeSucceedsKeeps
  <2>3. CASE Check!ExchangeFails(t) BY <2>3, ExchangeFailsKeeps
  <2>4. CASE Check!LimitedReturns(t) BY <2>4, LimitedReturnsKeeps
  <2>5. CASE Check!ReadSwitch(t) BY <2>5, SwitchIsReadKeeps
  <2>6. CASE Check!EnsureRefresher(t) BY <2>6, EnsureKeeps
  <2>7. CASE Check!StartRefresher(t) BY <2>7, StartKeeps
  <2>8. CASE Check!SpawnLoop(t) BY <2>8, SpawnKeeps
  <2>9. CASE Check!ClearRefresher(t) BY <2>9, ClearKeeps
  <2>10. CASE Check!LoopTop(t) BY <2>10, LoopTopKeeps DEF Check!LoopTop
  <2>11. CASE Check!LoopWakes(t) BY <2>11, LoopWakesKeeps DEF Check!LoopWakes
  <2> QED BY <1>4, <2>1, <2>2, <2>3, <2>4, <2>5, <2>6, <2>7, <2>8, <2>9, <2>10, <2>11 DEF Check!TaskGoesOn
<1> QED BY <1>1, <1>2, <1>3, <1>4 DEF Check!Next

\* The loops that go on run on the installed refresher, so they are one at most,
\* and none when it is gone.
LEMMA LoopsFollow ==
  ASSUME Check!ConstantsOK, CheckTyped, CheckSound
  PROVE  Check!LoopsFollowTheSwitch
<1> SUFFICES ASSUME ~checkPast.raced
             PROVE  Cardinality(Check!Live) <= 1 /\ (st.auto \/ Check!Live = {} \/ \E t \in Callers : Check!At(t, "clearing"))
  BY DEF Check!LoopsFollowTheSwitch, Check!Cardinality, Cardinality
<1>1. OneOwner /\ Current /\ Disabled /\ AllMade BY SoundHas
<1>2. \A l \in Check!Live : l \in Loops /\ Busy(l) /\ jobs[l].own = st.refresher /\ jobs[l].own # 0
  <2> SUFFICES ASSUME NEW l \in Check!Live PROVE l \in Loops /\ Busy(l) /\ jobs[l].own = st.refresher /\ jobs[l].own # 0 OBVIOUS
  <2>1. l \in Loops /\ Busy(l) /\ ~refs[jobs[l].own].cancel BY DEF Check!Live, Busy, Check!At
  <2> QED BY <2>1, <1>1 DEF Current, AllMade
<1>3. \A l, m \in Check!Live : l = m BY <1>1, <1>2 DEF OneOwner
<1>4. Cardinality(Check!Live) <= 1
  <2>1. CASE Check!Live = {} BY <2>1, FS_EmptySet
  <2>2. ASSUME NEW l \in Check!Live PROVE Cardinality(Check!Live) <= 1
    <3>1. Check!Live = {l} BY <1>3, <2>2
    <3> QED BY <3>1, FS_Singleton
  <2> QED BY <2>1, <2>2
<1>5. ~st.auto /\ Check!Live # {} => \E t \in Callers : Check!At(t, "clearing")
  <2> SUFFICES ASSUME ~st.auto, NEW l \in Check!Live PROVE \E t \in Callers : Check!At(t, "clearing") OBVIOUS
  <2>1. st.refresher # 0 BY <1>2
  <2> QED BY <2>1, <1>1 DEF Disabled
<1> QED BY <1>4, <1>5

\* One App Check instance.  Unless a switch overlaps a start or another switch
\* one refresh loop at most goes on, none once refresh is disabled; no caller is
\* handed an expired token; after a 403 or 404 the provider sends nothing for a
\* day; and a loop that sleeps after a success wakes before the token expires.
THEOREM AppCheckLoops ==
  ASSUME Check!ConstantsOK
  PROVE  Check!Spec => [](Check!TypeOK /\ Check!LoopsFollowTheSwitch /\ Check!TokensHandedOutAreValid /\ Check!ForbiddenIsRespected /\ Check!RefreshPrecedesExpiry)
<1>1. Check!Init => CheckTyped /\ CheckSound BY InitiallySound
<1>2. CheckTyped /\ CheckSound /\ [Check!Next]_(Check!acVars) => (CheckTyped /\ CheckSound)' BY SoundIsKept
<1>3. CheckTyped /\ CheckSound
      => Check!TypeOK /\ Check!LoopsFollowTheSwitch /\ Check!TokensHandedOutAreValid /\ Check!ForbiddenIsRespected /\ Check!RefreshPrecedesExpiry
  BY LoopsFollow, TypesAre DEF CheckSound, Check!TokensHandedOutAreValid, Check!ForbiddenIsRespected
<1> QED BY <1>1, <1>2, <1>3, PTL DEF Check!Spec
=============================================================================
