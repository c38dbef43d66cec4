---------------------------- MODULE AuthMethods -----------------------------
(***************************************************************************)
(* The operations of Auth (api/core/mod.rs, account.rs, idp.rs, phone.rs,  *)
(* mfa.rs, types.rs): the sign-in methods, linking, reauthentication,      *)
(* second factors, profile and account updates, and moving the session to  *)
(* another store.  A request is answered and its answer applied in steps   *)
(* of their own; other tasks act in between.                               *)
(*                                                                         *)
(* A token is the uid of the account it was minted for.  Token expiry and  *)
(* the writes of the store are AuthSession's subject.                      *)
(***************************************************************************)
EXTENDS Naturals, Sequences, FiniteSets

CONSTANTS Tasks, Uids, Stores,
          MaxCalls, MaxErrors   \* bounds: calls, failed or lost answers

VARIABLES accounts,  \* the backend's accounts
          users,     \* the User objects made so far
          current,   \* Auth.current_user, an index of users or 0
          disk,      \* what each store holds
          where,     \* Auth.persistence
          cache,     \* Auth.persisted_state_cache
          tasks, past

authVars == <<accounts, users, current, disk, where, cache, tasks, past>>

NoUid == 0
SignInMethods == {"password", "signUp", "custom", "anonymous", "emailLink", "idp", "phone"}
LinkMethods == {"password", "idp", "phone"}
Factors == {"phone", "totp", "webauthn"}
Providers == {"password", "idp", "phone", "custom"}
Updates == {"profile", "email", "unlink"}

NoState == [uid |-> NoUid, token |-> NoUid, anonymous |-> FALSE, provider |-> "none"]
NoContext == [op |-> "none", uid |-> NoUid, provider |-> "none", anonymous |-> FALSE]
NoAnswer == [kind |-> "none", uid |-> NoUid, providers |-> {}, mfa |-> {}]
Failed == [NoAnswer EXCEPT !.kind = "error"]
Idle == [pc |-> "idle", op |-> "none", method |-> "none", user |-> 0, token |-> NoUid,
         session |-> "none", context |-> NoContext, answer |-> NoAnswer]
NoAccount == [exists |-> FALSE, gone |-> FALSE, providers |-> {}, mfa |-> {}]
Account(providers, mfa) == [exists |-> TRUE, gone |-> FALSE, providers |-> providers, mfa |-> mfa]

User(uid, token, anonymous, provider, factors) ==
  [uid |-> uid, token |-> token, anonymous |-> anonymous, provider |-> provider, factors |-> factors]

TypeOK ==
  /\ \A u \in Uids : accounts[u].providers \subseteq Providers /\ accounts[u].mfa \subseteq Factors
  /\ current \in 0 .. Len(users) /\ where \in Stores
  /\ \A t \in Tasks : tasks[t].user \in 0 .. Len(users) /\ tasks[t].token \in {NoUid} \cup Uids
  /\ past.calls <= MaxCalls /\ past.errors <= MaxErrors

\* One account has a password, a provider and a second factor, the others do
\* not exist yet.
Init ==
  /\ LET owner == CHOOSE u \in Uids : TRUE
     IN accounts = [u \in Uids |-> IF u = owner THEN Account({"password", "idp"}, {"totp"}) ELSE NoAccount]
  /\ users = <<>> /\ current = 0
  /\ disk = [s \in Stores |-> NoState] /\ where = (CHOOSE s \in Stores : TRUE) /\ cache = NoState
  /\ tasks = [t \in Tasks |-> Idle]
  /\ past = [calls |-> 0, errors |-> 0, switched |-> FALSE, overlapped |-> FALSE, lost |-> FALSE, sameStore |-> FALSE,
             mismatch |-> FALSE, abandoned |-> FALSE]

At(t, pc) == tasks[t].pc = pc
CurrentUid == IF current = 0 THEN NoUid ELSE users[current].uid
goes(t, job) == tasks' = [tasks EXCEPT ![t] = job]

\* The user object in place becomes `uid`'s: does that happen behind another
\* task's back?
noted(t, uid) ==
  LET others == \E o \in Tasks \ {t} : ~At(o, "idle")
  IN [past EXCEPT !.switched = @ \/ (others /\ uid # CurrentUid), !.overlapped = @ \/ others]

(***************************************************************************)
(* The session                                                             *)
(***************************************************************************)
StateOf(u) == [uid |-> u.uid, token |-> u.token, anonymous |-> u.anonymous, provider |-> u.provider]

\* save_persisted_state: nothing is written when the cached state is the same.
saves(state) ==
  /\ cache' = state
  /\ disk' = IF cache = state THEN disk ELSE [disk EXCEPT ![where] = state]

\* A new user object takes current_user's place and is saved.
becomes(t, user) ==
  /\ users' = Append(users, user) /\ current' = Len(users) + 1
  /\ saves(StateOf(user))
  /\ past' = noted(t, user.uid)

\* Every sign-in without a second factor, and every one with it; does a
\* reauthentication end up with another user?
finalizes(t, user, op) ==
  /\ users' = Append(users, user) /\ current' = Len(users) + 1
  /\ saves(StateOf(user))
  /\ past' = [noted(t, user.uid) EXCEPT !.mismatch =
                @ \/ (op = "reauth" /\ tasks[t].user # 0 /\ users[tasks[t].user].uid # user.uid)]

finalize_sign_in(t, provider, anonymous) ==
  finalizes(t, User(tasks[t].answer.uid, tasks[t].answer.uid, anonymous, provider, {}), tasks[t].op)

\* sign_out, clear_local_user_state: the object loses its tokens, too.
sign_out(t) ==
  /\ users' = IF current = 0 THEN users ELSE [users EXCEPT ![current].token = NoUid]
  /\ current' = 0
  /\ saves(NoState)
  /\ past' = noted(t, NoUid)

SignOut(t) ==
  /\ At(t, "idle") /\ current # 0
  /\ sign_out(t)
  /\ UNCHANGED <<accounts, where, tasks>>

\* set_persistence: the cached state goes to the new store, then the old store
\* is cleared, be it the same one or not.
SetPersistence(s) ==
  /\ past.calls < MaxCalls
  /\ disk' = [[disk EXCEPT ![s] = cache] EXCEPT ![where] = NoState]
  /\ where' = s
  /\ past' = [past EXCEPT !.calls = @ + 1, !.sameStore = @ \/ s = where]
  /\ UNCHANGED <<accounts, users, current, cache, tasks>>

\* A new process restores the session of its store (restore_from_persistence,
\* build_user_from_persisted_state).
Restart ==
  /\ past.calls < MaxCalls /\ current # 0
  /\ LET state == disk[where]
     IN /\ users' = IF state = NoState THEN <<>> ELSE <<User(state.uid, state.token, state.anonymous, state.provider, {})>>
        /\ current' = Len(users')
        /\ cache' = state
  /\ tasks' = [t \in Tasks |-> Idle]
  /\ past' = [past EXCEPT !.calls = @ + 1, !.lost = @ \/ \E t \in Tasks : ~At(t, "idle")]
  /\ UNCHANGED <<accounts, disk, where>>

(***************************************************************************)
(* Calls                                                                   *)
(***************************************************************************)
calls(t) == At(t, "idle") /\ past.calls < MaxCalls
counted == [past EXCEPT !.calls = @ + 1]
sends(t, job) == goes(t, [job EXCEPT !.pc = "sent"])

\* require_current_user, then get_id_token(false).
AsUser(op, method) == [Idle EXCEPT !.op = op, !.method = method, !.user = current, !.token = users[current].token]

\* The sign_in_with_ methods; sign_in_anonymously returns the anonymous user
\* that is signed in already.
SignIn(t, method) ==
  /\ calls(t)
  /\ ~(method = "anonymous" /\ current # 0 /\ users[current].anonymous)
  /\ sends(t, [Idle EXCEPT !.op = "signIn", !.method = method])
  /\ past' = [counted EXCEPT !.abandoned =
                @ \/ (method = "anonymous" /\ current # 0 /\ accounts[CurrentUid].exists /\ accounts[CurrentUid].providers = {})]
  /\ UNCHANGED <<accounts, users, current, disk, where, cache>>

\* link_with_ and reauthenticate_with_: a password is checked without a user,
\* an OAuth credential without the user's token.
Link(t, method) ==
  /\ calls(t) /\ current # 0
  /\ sends(t, AsUser("link", method))
  /\ past' = counted
  /\ UNCHANGED <<accounts, users, current, disk, where, cache>>

Reauthenticate(t, method) ==
  /\ calls(t)
  /\ method # "password" => current # 0
  /\ sends(t, IF method = "phone" THEN AsUser("reauth", method)
              ELSE [Idle EXCEPT !.op = "reauth", !.method = method, !.user = current])
  /\ past' = counted
  /\ UNCHANGED <<accounts, users, current, disk, where, cache>>

\* update_profile, update_email, update_password, unlink_providers,
\* delete_user, reload and enrolled_factors.
OnAccount(t, op, method) ==
  /\ calls(t) /\ current # 0
  /\ sends(t, AsUser(op, method))
  /\ past' = counted
  /\ UNCHANGED <<accounts, users, current, disk, where, cache>>

\* enroll_phone_number, and get_session followed by generate_totp_secret or
\* start_passkey_enrollment: the session holds the token it was made with.
Enroll(t, factor) ==
  /\ calls(t) /\ current # 0
  /\ sends(t, [AsUser("startEnroll", factor) EXCEPT !.session = "enrollment"])
  /\ past' = counted
  /\ UNCHANGED <<accounts, users, current, disk, where, cache>>

\* The fields a WebAuthn payload must have, here and from the authenticator.
ChallengeFields == {"challenge"}
AssertionFields == {"credentialId", "clientDataJSON"}
AttestationFields == AssertionFields \cup {"attestationObject"}

\* The confirmation of an enrollment: the code, the one-time password, or an
\* attestation that is complete.
Confirm(t, fields) ==
  /\ At(t, "enrolling")
  /\ tasks[t].method = "webauthn" => AttestationFields \subseteq fields
  /\ tasks[t].session = "enrollment"
  /\ sends(t, [tasks[t] EXCEPT !.op = "enroll"])
  /\ UNCHANGED <<accounts, users, current, disk, where, cache, past>>

\* resolve_sign_in, for a phone or a passkey after its challenge was started.
Resolve(t, factor, fields) ==
  /\ At(t, "resolving") /\ tasks[t].session = "signIn"
  /\ factor \in tasks[t].answer.mfa   \* one of the hints
  /\ factor = "webauthn" => AssertionFields \subseteq fields
  /\ sends(t, [tasks[t] EXCEPT !.op = "resolve", !.method = factor])
  /\ UNCHANGED <<accounts, users, current, disk, where, cache, past>>

\* The application does not go on with an enrollment or a second factor.
Abandon(t) ==
  /\ tasks[t].pc \in {"enrolling", "resolving"}
  /\ goes(t, Idle)
  /\ UNCHANGED <<accounts, users, current, disk, where, cache, past>>

(***************************************************************************)
(* The backend                                                             *)
(***************************************************************************)
ProviderOf(method) == IF method \in {"signUp", "emailLink"} THEN "password" ELSE method

\* A second factor needs a verified address.
Enrollable(account) == account.exists /\ "password" \in account.providers

Answered(kind, u, account) == [kind |-> kind, uid |-> u, providers |-> account.providers, mfa |-> account.mfa]
Granted(u, account) == Answered(IF account.mfa = {} THEN "tokens" ELSE "pending", u, account)

With(u, account, kind) ==
  [accounts |-> [accounts EXCEPT ![u] = account],
   answer |-> IF kind = "granted" THEN Granted(u, account) ELSE Answered(kind, u, account)]

\* The sign-in of an account, or its creation; a reauthentication creates none.
SignInOutcomes(op, method) ==
  LET p == ProviderOf(method)
      known == {u \in Uids : accounts[u].exists /\ p \in accounts[u].providers /\ method # "signUp"}
      new == IF op = "signIn" /\ method # "password" THEN {u \in Uids : ~accounts[u].exists /\ ~accounts[u].gone} ELSE {}
  IN {With(u, accounts[u], "granted") : u \in known}
     \cup {With(u, Account(IF method = "anonymous" THEN {} ELSE {p}, {}), "granted") : u \in new}

Outcomes(job) ==
  LET u == job.token
      mine == IF u = NoUid THEN NoAccount ELSE accounts[u]
      when(condition, outcome) == IF condition THEN {outcome} ELSE {}
  IN CASE job.op \in {"signIn", "reauth"} -> SignInOutcomes(job.op, job.method)
       [] job.op = "link" -> when(mine.exists /\ job.method \notin mine.providers,
                                  With(u, [mine EXCEPT !.providers = @ \cup {job.method}], "granted"))
       [] job.op = "resolve" -> when(accounts[job.answer.uid].exists,
                                     With(job.answer.uid, accounts[job.answer.uid], "tokens"))
       [] job.op \in {"reload", "profile"} -> when(mine.exists, With(u, mine, "account"))
       [] job.op = "update" ->
            {With(u, a, "account") : a \in
               IF ~mine.exists THEN {}
               ELSE CASE job.method = "profile" -> {mine}
                      [] job.method = "email" -> {[mine EXCEPT !.providers = @ \cup {"password"}]}
                      [] job.method = "unlink" -> {[mine EXCEPT !.providers = @ \ {p}] : p \in mine.providers}}
       [] job.op = "delete" -> when(mine.exists, With(u, [NoAccount EXCEPT !.gone = TRUE], "done"))
       [] job.op = "startEnroll" -> when(Enrollable(mine), With(u, mine, "challenge"))
       [] job.op = "enroll" -> when(Enrollable(mine), With(u, [mine EXCEPT !.mfa = @ \cup {job.method}], "tokens"))
       [] job.op = "withdraw" -> when(mine.exists /\ job.method \in mine.mfa,
                                      With(u, [mine EXCEPT !.mfa = @ \ {job.method}], "tokens"))

\* A request is answered, or its answer is lost; or nothing comes of it.
Serve(t) ==
  /\ At(t, "sent")
  /\ \E o \in Outcomes(tasks[t]), lost \in BOOLEAN :
       /\ lost => past.errors < MaxErrors
       /\ accounts' = o.accounts
       /\ goes(t, [tasks[t] EXCEPT !.pc = "answered", !.answer = IF lost THEN Failed ELSE o.answer])
       /\ past' = IF lost THEN [past EXCEPT !.errors = @ + 1, !.lost = TRUE] ELSE past
  /\ UNCHANGED <<users, current, disk, where, cache>>

\* execute_request, post_json: a refusal, no answer, or a body that does not
\* parse ends the call.
Refuse(t) ==
  /\ At(t, "sent") \/ (At(t, "answered") /\ tasks[t].answer = Failed)
  /\ LET fails == At(t, "sent") /\ Outcomes(tasks[t]) # {}
     IN /\ fails => past.errors < MaxErrors
        /\ past' = IF fails THEN [past EXCEPT !.errors = @ + 1] ELSE past
  /\ goes(t, Idle)
  /\ UNCHANGED <<accounts, users, current, disk, where, cache>>

(***************************************************************************)
(* Answers                                                                 *)
(***************************************************************************)
Ready(t, ops) == At(t, "answered") /\ tasks[t].op \in ops /\ tasks[t].answer # Failed
Tokens(t) == tasks[t].answer.kind = "tokens"

\* refresh_current_user_profile, get_account_info: the current user and token.
asksProfile(t) == goes(t, [Idle EXCEPT !.pc = "sent", !.op = "profile", !.user = current', !.token = users'[current'].token])


\* The context of a sign-in that needs a second factor: for linking and
\* reauthentication with a phone or OAuth the current user is still anonymous.
context(t) ==
  LET job == tasks[t]
  IN [op |-> job.op, uid |-> job.answer.uid, provider |-> ProviderOf(job.method),
      anonymous |-> job.op # "signIn" /\ job.method \in {"idp", "phone"} /\ current # 0 /\ users[current].anonymous]

\* build_multi_factor_error, get_multi_factor_resolver
NeedsSecondFactor(t) ==
  /\ Ready(t, {"signIn", "link", "reauth"}) /\ tasks[t].answer.kind = "pending"
  /\ goes(t, [tasks[t] EXCEPT !.pc = "resolving", !.session = "signIn", !.context = context(t)])
  /\ UNCHANGED <<accounts, users, current, disk, where, cache, past>>

\* sign_in_with_email_and_password, create_user_, _custom_token, anonymously
\* and _email_link.
SignedIn(t) ==
  /\ Ready(t, {"signIn"}) /\ Tokens(t) /\ tasks[t].method \notin {"idp", "phone"}
  /\ finalize_sign_in(t, ProviderOf(tasks[t].method), tasks[t].method = "anonymous")
  /\ goes(t, Idle)
  /\ UNCHANGED <<accounts, where>>

\* link_with_email_and_password
PasswordLinked(t) ==
  /\ Ready(t, {"link"}) /\ Tokens(t) /\ tasks[t].method = "password"
  /\ finalize_sign_in(t, "password", FALSE)
  /\ goes(t, Idle)
  /\ UNCHANGED <<accounts, where>>

\* exchange_oauth_credential, upsert_user_from_idp_response: the user is in
\* place before reauthenticate_with_oauth_credential compares the uids.
OAuthReturns(t) ==
  /\ Ready(t, {"signIn", "link", "reauth"}) /\ Tokens(t) /\ tasks[t].method = "idp"
  /\ finalize_sign_in(t, "idp", FALSE)
  /\ goes(t, Idle)
  /\ UNCHANGED <<accounts, where>>

\* handle_phone_response: then the profile is fetched.
PhoneReturns(t) ==
  /\ Ready(t, {"signIn", "link", "reauth"}) /\ Tokens(t) /\ tasks[t].method = "phone"
  /\ finalize_sign_in(t, "phone", FALSE)
  /\ asksProfile(t)
  /\ UNCHANGED <<accounts, where>>

\* apply_password_reauth: whoever the password belongs to is the user.
PasswordReauthReturns(t) ==
  /\ Ready(t, {"reauth"}) /\ Tokens(t) /\ tasks[t].method = "password"
  /\ finalize_sign_in(t, "password", FALSE)
  /\ goes(t, Idle)
  /\ UNCHANGED <<accounts, where>>

\* finalize_phone_, finalize_totp_ and finalize_passkey_multi_factor_sign_in
Resolved(t) ==
  /\ Ready(t, {"resolve"})
  /\ LET c == tasks[t].context
     IN finalizes(t, User(c.uid, tasks[t].answer.uid, c.anonymous, c.provider, {}), c.op)
  /\ goes(t, Idle)
  /\ UNCHANGED <<accounts, where>>

First(providers, otherwise) == IF providers = {} THEN {otherwise} ELSE providers

\* refresh_current_user_profile: the account must be the captured user's, who
\* then takes the current user's place.
ProfileReturns(t) ==
  /\ Ready(t, {"profile"})
  /\ LET old == users[tasks[t].user]
     IN IF tasks[t].answer.uid # old.uid THEN UNCHANGED <<users, current, disk, cache, past>>
        ELSE \E p \in First(tasks[t].answer.providers, old.provider) :
               becomes(t, User(old.uid, old.token, old.anonymous, p, tasks[t].answer.mfa))
  /\ goes(t, Idle)
  /\ UNCHANGED <<accounts, where>>

\* reload
ReloadReturns(t) ==
  /\ Ready(t, {"reload"})
  /\ LET old == users[tasks[t].user] IN \E p \in First(tasks[t].answer.providers, old.provider) :
       becomes(t, User(tasks[t].answer.uid, old.token, old.anonymous /\ tasks[t].answer.providers = {}, p, tasks[t].answer.mfa))
  /\ goes(t, Idle)
  /\ UNCHANGED <<accounts, where>>

\* apply_account_update: an anonymous user is not one any more.
UpdateReturns(t) ==
  /\ Ready(t, {"update"})
  /\ LET old == users[tasks[t].user] IN \E p \in First(tasks[t].answer.providers, old.provider) :
       becomes(t, User(tasks[t].answer.uid, IF tasks[t].method = "email" THEN tasks[t].answer.uid ELSE old.token,
                       FALSE, p, tasks[t].answer.mfa))
  /\ goes(t, Idle)
  /\ UNCHANGED <<accounts, where>>

\* delete_user: whoever is signed in now is signed out.
DeleteReturns(t) ==
  /\ Ready(t, {"delete"})
  /\ sign_out(t)
  /\ goes(t, Idle)
  /\ UNCHANGED <<accounts, where>>

\* The code was sent, the secret made, or the passkey challenge is there.
EnrollStarts(t, fields) ==
  /\ Ready(t, {"startEnroll"})
  /\ tasks[t].method = "webauthn" => ChallengeFields \subseteq fields
  /\ goes(t, [tasks[t] EXCEPT !.pc = "enrolling", !.answer = NoAnswer])
  /\ UNCHANGED <<accounts, users, current, disk, where, cache, past>>

\* complete_..._mfa_enrollment and withdraw_multi_factor: the new tokens go to
\* whoever is signed in now (update_current_user_tokens); then the profile.
FactorReturns(t) ==
  /\ Ready(t, {"enroll", "withdraw"})
  /\ IF current = 0 THEN goes(t, Idle) /\ UNCHANGED <<users, current, disk, cache, past>>
     ELSE /\ users' = [users EXCEPT ![current].token = tasks[t].answer.uid]
          /\ current' = current
          /\ saves(StateOf(users'[current]))
          /\ past' = noted(t, CurrentUid)
          /\ asksProfile(t)
  /\ UNCHANGED <<accounts, where>>

Begins(t) ==
  \/ \E m \in SignInMethods : SignIn(t, m)
  \/ \E m \in LinkMethods : Link(t, m) \/ Reauthenticate(t, m)
  \/ \E m \in Updates : OnAccount(t, "update", m)
  \/ \E op \in {"delete", "reload", "profile"} : OnAccount(t, op, "none")
  \/ \E f \in Factors : Enroll(t, f) \/ OnAccount(t, "withdraw", f)
  \/ \E fields \in {AttestationFields, AssertionFields} :
       Confirm(t, fields) \/ \E f \in Factors : Resolve(t, f, fields)
  \/ Abandon(t)

Returns(t) ==
  \/ NeedsSecondFactor(t) \/ SignedIn(t) \/ PasswordLinked(t) \/ OAuthReturns(t) \/ PhoneReturns(t)
  \/ PasswordReauthReturns(t) \/ Resolved(t) \/ ProfileReturns(t) \/ ReloadReturns(t) \/ UpdateReturns(t)
  \/ DeleteReturns(t) \/ FactorReturns(t) \/ EnrollStarts(t, ChallengeFields)

Next ==
  \/ \E s \in Stores : SetPersistence(s)
  \/ Restart
  \/ \E t \in Tasks : SignOut(t) \/ Begins(t) \/ Serve(t) \/ Refuse(t) \/ Returns(t)

Spec == Init /\ [][Next]_authVars
-----------------------------------------------------------------------------
Me == users[current]

\* The user signed in holds the tokens of that user, and so does the stored
\* session, as long as no task was at work for another user when the user
\* changed: a late answer then puts the tokens of one account on another's user.
TokensBelongToTheUser ==
  ~past.switched => (current # 0 => Me.token = Me.uid) /\ disk[where].token = disk[where].uid

\* A user who is shown as anonymous has an account without any provider,
\* whatever linked, updated or restored it, unless an answer was lost, two
\* calls overlapped, or a reauthentication ended with another user.
AnonymousHasNoProvider ==
  /\ ~past.overlapped /\ ~past.lost /\ ~past.mismatch
  /\ \A t \in Tasks : tasks[t].op \notin {"link", "update"}
  /\ current # 0 /\ Me.anonymous
  => accounts[Me.uid].providers = {}

\* The store in use has the session of the user signed in, and no other store
\* has one, unless the session was moved to the store it was in.
SessionIsInItsStore ==
  ~past.sameStore =>
    /\ disk[where] = IF current = 0 THEN NoState ELSE StateOf(Me)
    /\ \A s \in Stores \ {where} : disk[s] = NoState

\* What the documentation of reauthentication says and the code does not do:
\* the user who is signed in stays the user.
ReauthenticationKeepsTheUser == ~past.mismatch

\* sign_in_anonymously creates an account only if needed.
AnonymousAccountsAreReused == ~past.abandoned
=============================================================================
