---------------------------- MODULE AccountFlows ----------------------------
(***************************************************************************)
(* What happens to an account out of band (auth/api/core/account.rs): the   *)
(* codes sent by email, what check_action_code says of one and what         *)
(* applying it does; and restore_session, which asks the backend whether a  *)
(* stored session still stands and reads the answer out of error codes.     *)
(***************************************************************************)
EXTENDS Integers, Sequences, FiniteSets

CONSTANTS Emails,
          Callers,        \* tasks that restore the session
          MaxCodes,       \* bound: codes sent
          MaxEpoch,       \* bound: times the tokens of the account are revoked
          MaxFaults       \* bound: answers that are an error of the service

VARIABLES account,   \* the backend's account: email, status, epoch of its tokens
          session,   \* current_user, and the epoch of its refresh token
          codes,     \* oob codes sent
          told,      \* history: what was said of a code, and what applying it did
          calls, dropped, faults

accountVars == <<account, session, codes, told, calls, dropped, faults>>

\* The account's user, and one who signs in meanwhile, whose session stands.
Them == "u"
Other == "v"
Nobody == [user |-> "nobody", epoch |-> 0]
NoEmail == "none"
Ok == "OK"
Idle == [pc |-> "idle", asked |-> Nobody]

ActionCodeOperation == {"PASSWORD_RESET", "RECOVER_EMAIL", "EMAIL_SIGNIN", "VERIFY_AND_CHANGE_EMAIL", "VERIFY_EMAIL"}

Init ==
  /\ \E e \in Emails : account = [email |-> e, status |-> "active", epoch |-> 0]
  /\ session \in {Nobody, [user |-> Them, epoch |-> 0]}
  /\ codes = <<>> /\ told = {} /\ dropped = {} /\ faults = 0
  /\ calls = [c \in Callers |-> Idle]

TypeOK ==
  /\ account \in [email : Emails, status : {"active", "disabled", "deleted"}, epoch : 0 .. MaxEpoch]
  /\ session \in [user : {"nobody", Them, Other}, epoch : 0 .. MaxEpoch]
  /\ \A i \in DOMAIN codes : codes[i].operation \in ActionCodeOperation /\ codes[i].email \in Emails
  /\ faults \in 0 .. MaxFaults

(***************************************************************************)
(* Codes                                                                   *)
(***************************************************************************)
Send(operation, email, new_email) ==
  /\ Len(codes) < MaxCodes
  /\ codes' = Append(codes, [operation |-> operation, email |-> email, new_email |-> new_email, used |-> FALSE])

\* send_password_reset_email, send_sign_in_link_to_email: the address is all
\* that is needed; the link's settings must handle it in the app.
SendToAddress(operation) ==
  /\ operation \in {"PASSWORD_RESET", "EMAIL_SIGNIN"} /\ account.status = "active"
  /\ Send(operation, account.email, NoEmail)
  /\ UNCHANGED <<account, session, told, calls, dropped, faults>>

Valid(s) == s.user = Them => account.status = "active" /\ s.epoch = account.epoch

\* send_email_verification, verify_before_update_email: need a session.
SendToUser(operation, new_email) ==
  /\ session.user = Them /\ Valid(session)
  /\ \/ operation = "VERIFY_EMAIL" /\ new_email = NoEmail
     \/ operation = "VERIFY_AND_CHANGE_EMAIL" /\ new_email \in Emails \ {account.email}
  /\ Send(operation, account.email, new_email)
  /\ UNCHANGED <<account, session, told, calls, dropped, faults>>

\* The backend offers the former address to take a change back.
SendRecovery(former, current) == [operation |-> "RECOVER_EMAIL", email |-> former, new_email |-> current, used |-> FALSE]

Stands(code) ==
  /\ ~code.used /\ account.status = "active"
  /\ account.email = IF code.operation = "RECOVER_EMAIL" THEN code.new_email ELSE code.email

\* What accounts:resetPassword answers when asked without a password.
reset_password_info(code) == [request_type |-> code.operation, email |-> code.email, new_email |-> code.new_email]

action_code_info(response) ==
  LET change == response.request_type = "VERIFY_AND_CHANGE_EMAIL"
  IN [operation |-> response.request_type,
      email |-> IF change THEN response.new_email ELSE response.email,
      previous_email |-> IF change THEN response.email ELSE response.new_email]

\* check_action_code, verify_password_reset_code
check_action_code(i) ==
  /\ Stands(codes[i])
  /\ told' = told \cup {[code |-> i, info |-> action_code_info(reset_password_info(codes[i]))]}
  /\ UNCHANGED <<account, session, codes, calls, dropped, faults>>

\* The address the account has once the code is applied.
Applied(code) == IF code.operation = "VERIFY_AND_CHANGE_EMAIL" THEN code.new_email ELSE code.email

\* apply_action_code.  A changed address revokes the tokens issued before.
apply_action_code(i) ==
  /\ codes[i].operation \in {"VERIFY_EMAIL", "VERIFY_AND_CHANGE_EMAIL", "RECOVER_EMAIL"} /\ Stands(codes[i])
  /\ LET email == Applied(codes[i])
         used == [codes EXCEPT ![i].used = TRUE]
         changed == email # account.email
     IN /\ changed => account.epoch < MaxEpoch
        /\ account' = IF changed THEN [account EXCEPT !.email = email, !.epoch = @ + 1] ELSE account
        /\ codes' = IF codes[i].operation = "VERIFY_AND_CHANGE_EMAIL" /\ Len(codes) < MaxCodes
                    THEN Append(used, SendRecovery(account.email, email)) ELSE used
  /\ UNCHANGED <<session, told, calls, dropped, faults>>

\* confirm_password_reset revokes the tokens of the account.
confirm_password_reset(i) ==
  /\ codes[i].operation = "PASSWORD_RESET" /\ Stands(codes[i]) /\ account.epoch < MaxEpoch
  /\ codes' = [codes EXCEPT ![i].used = TRUE]
  /\ account' = [account EXCEPT !.epoch = @ + 1]
  /\ UNCHANGED <<session, told, calls, dropped, faults>>

\* resolve_action_link looks into `link` and `deep_link_id` this deep.
MaxDepth == 4

\* ActionCodeUrl::parse: a link wrapped `wraps` times.
ActionCodeUrl_parse(link) == IF link.wraps > MaxDepth + 1 THEN "invalid" ELSE link.operation

\* sign_in_with_email_link, for which the link must be one to sign in with.
SignInWithEmailLink(i, wraps) ==
  /\ ActionCodeUrl_parse([wraps |-> wraps, operation |-> codes[i].operation]) = "EMAIL_SIGNIN"
  /\ Stands(codes[i])
  /\ codes' = [codes EXCEPT ![i].used = TRUE]
  /\ session' = [user |-> Them, epoch |-> account.epoch]
  /\ UNCHANGED <<account, told, calls, dropped, faults>>

\* Another user signs in, or out.
SignIn(user) == session' = user /\ UNCHANGED <<account, codes, told, calls, dropped, faults>>

\* The administrator.
Ban(status) ==
  /\ account.status = "active" /\ account' = [account EXCEPT !.status = status]
  /\ UNCHANGED <<session, codes, told, calls, dropped, faults>>

(***************************************************************************)
(* restore_session                                                         *)
(***************************************************************************)
\* What the token endpoint and accounts:lookup answer for a token.
AnswerTo(s) ==
  IF Valid(s) THEN {Ok}
  ELSE CASE account.status = "disabled" -> {"USER_DISABLED"}
         [] account.status = "deleted" -> {"USER_NOT_FOUND"}
         [] OTHER -> {"TOKEN_EXPIRED", "INVALID_REFRESH_TOKEN", "INVALID_ID_TOKEN"}

\* A service that cannot answer.
Failure == {"TOO_MANY_ATTEMPTS_TRY_LATER", "INTERNAL_ERROR", "QUOTA_EXCEEDED", "NETWORK_REQUEST_FAILED"}

from_server_code(code) ==
  CASE code \in {"TOKEN_EXPIRED", "USER_NOT_FOUND"} -> "UserTokenExpired"
    [] code = "EMAIL_NOT_FOUND" -> "UserNotFound"
    [] code = "USER_DISABLED" -> "UserDisabled"
    [] code = "INVALID_ID_TOKEN" -> "InvalidUserToken"
    [] code = "INVALID_REFRESH_TOKEN" -> "InvalidRefreshToken"
    [] code = "MISSING_REFRESH_TOKEN" -> "MissingRefreshToken"
    [] code = "TOO_MANY_ATTEMPTS_TRY_LATER" -> "TooManyRequests"
    [] code = "NETWORK_REQUEST_FAILED" -> "NetworkRequestFailed"
    [] OTHER -> "Other"

is_dead_session_error(error) ==
  error \in {"UserTokenExpired", "UserNotFound", "UserDisabled", "InvalidUserToken", "InvalidRefreshToken", "MissingRefreshToken"}

goes(c, call) == calls' = [calls EXCEPT ![c] = call]

Restore(c) ==
  /\ calls[c].pc = "idle" /\ session # Nobody
  /\ goes(c, [pc |-> "refreshing", asked |-> session])
  /\ UNCHANGED <<account, session, codes, told, dropped, faults>>

\* sign_out, of whoever is signed in by now.
Drop(c, asked) ==
  /\ dropped' = dropped \cup {[asked |-> asked, dropped |-> session, dead |-> ~Valid(asked)]}
  /\ session' = Nobody /\ goes(c, Idle)

Answered(asked, code) ==
  \/ code \in AnswerTo(asked) /\ UNCHANGED faults
  \/ code \in Failure /\ faults < MaxFaults /\ faults' = faults + 1

\* An answer that is an error: of a session that is gone, or of another kind.
Refused(c, asked, code) ==
  /\ code # Ok
  /\ \/ is_dead_session_error(from_server_code(code)) /\ Drop(c, asked)
     \/ ~is_dead_session_error(from_server_code(code)) /\ goes(c, Idle) /\ UNCHANGED <<session, dropped>>

\* refresh_id_token_for_user puts the user it asked for back as the current one.
Refreshed(c, code) ==
  /\ calls[c].pc = "refreshing" /\ Answered(calls[c].asked, code)
  /\ \/ code = Ok /\ session' = calls[c].asked /\ goes(c, [calls[c] EXCEPT !.pc = "reloading"]) /\ UNCHANGED dropped
     \/ Refused(c, calls[c].asked, code)
  /\ UNCHANGED <<account, codes, told>>

\* reload asks about whoever is signed in by now; nobody is an error of its own.
Reloaded(c, code) ==
  /\ calls[c].pc = "reloading"
  /\ \/ session = Nobody /\ goes(c, Idle) /\ UNCHANGED <<session, dropped, faults>>
     \/ /\ session # Nobody /\ Answered(session, code)
        /\ \/ code = Ok /\ goes(c, Idle) /\ UNCHANGED <<session, dropped>>
           \/ Refused(c, session, code)
  /\ UNCHANGED <<account, codes, told>>

Next ==
  \/ \E operation \in ActionCodeOperation : SendToAddress(operation) \/ \E e \in Emails \cup {NoEmail} : SendToUser(operation, e)
  \/ \E i \in DOMAIN codes :
       check_action_code(i) \/ apply_action_code(i) \/ confirm_password_reset(i) \/ \E wraps \in {0, MaxDepth + 1, MaxDepth + 2} : SignInWithEmailLink(i, wraps)
  \/ SignIn([user |-> Other, epoch |-> 0]) \/ SignIn(Nobody)
  \/ \E status \in {"disabled", "deleted"} : Ban(status)
  \/ \E c \in Callers : Restore(c) \/ \E code \in AnswerTo(calls[c].asked) \cup AnswerTo(session) \cup Failure : Refreshed(c, code) \/ Reloaded(c, code)

Spec == Init /\ [][Next]_accountVars
-----------------------------------------------------------------------------
\* What check_action_code says of a code is what applying it does: the address
\* it names is the one the account then has, and the previous one the address
\* it has until then (mod.rs check_action_code).
CheckedCodesTellTheChange ==
  \A t \in told : LET code == codes[t.code] IN
    /\ t.info.email = Applied(code)
    /\ Stands(code) /\ t.info.previous_email # NoEmail => t.info.previous_email = account.email

\* However calls, sign-ins and revocations interleave, restore_session signs
\* out only after the backend refused the session it asked about, and never
\* because the backend could not answer (is_dead_session_error).
OnlyDeadSessionsAreDropped == \A d \in dropped : d.dead
=============================================================================
