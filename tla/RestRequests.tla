---------------------------- MODULE RestRequests ----------------------------
(***************************************************************************)
(* Requests to the backends: the credentials of an app, looked up for each *)
(* request (core/platform/credentials.rs, token.rs, the token providers of *)
(* Auth and App Check), the HTTP client and its retries (platform/http.rs),*)
(* the reading of errors (util/status.rs, rpc_error.rs), and Firestore's   *)
(* REST datastore with its own retries (remote/datastore/http.rs).         *)
(*                                                                         *)
(* A token is its number among those of its source.  Waiting between       *)
(* attempts is without effect here and left out.                           *)
(***************************************************************************)
EXTENDS Integers, Sequences, FiniteSets, SequencesExt

CONSTANTS Calls,
          Keys, Existing,  \* documents, and the ones there are
          Lists,           \* keys asked for together
          Refusals,        \* rejections: a status and the name in the envelope
          max_attempts,    \* RetrySettings
          MaxFaults        \* bound: refreshes failed, answers lost or refused; and tokens revoked

VARIABLES sources,  \* the credential sources and what the backend accepts
          calls, applied, faults

restVars == <<sources, calls, applied, faults>>

Sources == {"auth", "appCheck"}
Idempotent == {"get", "batchGet"}
Kinds == Idempotent \cup {"commit", "callable", "register"}

NoToken == 0
SingleUse == 1000   \* a token for one request
NoTokens == [s \in Sources |-> NoToken]
Answer(transport, status, wire) == [transport |-> transport, status |-> status, wire |-> wire, of |-> <<>>]
NoAnswer == Answer("none", 0, "none")
Succeeded == Answer("ok", 200, "none")
Pending == [ok |-> FALSE, code |-> "none", of |-> <<>>]

Idle == [pc |-> "idle", kind |-> "none", keys |-> <<>>, at |-> 1, attempt |-> 0, resent |-> 0,
         context |-> NoTokens, rejected |-> NoTokens, raced |-> FALSE, answer |-> NoAnswer, result |-> Pending]

TypeOK ==
  /\ \A s \in Sources : sources[s].minimum \in 0 .. sources[s].token + 1
  /\ \A c \in Calls : calls[c].attempt < max_attempts /\ calls[c].kind \in Kinds \cup {"none"}
  /\ faults.failed <= MaxFaults /\ faults.revoked <= MaxFaults

\* Auth is there when it is first used, App Check once it is initialized.
Init ==
  /\ sources = [s \in Sources |-> [exists |-> s = "auth", resolved |-> FALSE, invalidated |-> FALSE, force |-> FALSE,
                                   token |-> NoToken, minimum |-> 0]]
  /\ calls = [c \in Calls |-> Idle]
  /\ applied = [c \in Calls |-> 0]
  /\ faults = [failed |-> 0, revoked |-> 0]

At(c, pc) == calls[c].pc = pc
goes(c, call) == calls' = [calls EXCEPT ![c] = call]
faulty(what) == faults[what] < MaxFaults /\ faults' = [faults EXCEPT ![what] = @ + 1]
fault == faulty("failed")

(***************************************************************************)
(* Errors                                                                  *)
(***************************************************************************)
FirestoreCodes == {"INVALID_ARGUMENT", "FAILED_PRECONDITION", "ABORTED", "UNAUTHENTICATED", "PERMISSION_DENIED",
                   "NOT_FOUND", "ALREADY_EXISTS", "RESOURCE_EXHAUSTED", "UNAVAILABLE", "DEADLINE_EXCEEDED"}
WireNames == FirestoreCodes \cup {"OK", "CANCELLED", "UNKNOWN", "OUT_OF_RANGE", "UNIMPLEMENTED", "INTERNAL", "DATA_LOSS"}

from_http_status(status) ==
  CASE status \in {400, 415} -> "INVALID_ARGUMENT"
    [] status = 401 -> "UNAUTHENTICATED"
    [] status = 403 -> "PERMISSION_DENIED"
    [] status = 404 -> "NOT_FOUND"
    [] status \in {408, 504} -> "DEADLINE_EXCEEDED"
    [] status = 409 -> "ABORTED"
    [] status = 412 -> "FAILED_PRECONDITION"
    [] status = 413 -> "OUT_OF_RANGE"
    [] status = 429 -> "RESOURCE_EXHAUSTED"
    [] status = 499 -> "CANCELLED"
    [] status = 500 -> "INTERNAL"
    [] status = 501 -> "UNIMPLEMENTED"
    [] status \in {502, 503} -> "UNAVAILABLE"
    [] OTHER -> "UNKNOWN"

\* GoogleApiError::from_parts: the envelope's name goes before the status.
api_status(answer) == IF answer.wire \in WireNames THEN answer.wire ELSE from_http_status(answer.status)

map_http_error(answer) ==
  LET status == api_status(answer)
  IN CASE status = "OUT_OF_RANGE" -> "INVALID_ARGUMENT"
       [] status \in FirestoreCodes -> status
       [] status = "UNKNOWN" /\ answer.wire = "none" /\ answer.status \in 400 .. 499 -> "INVALID_ARGUMENT"
       [] OTHER -> "INTERNAL"

\* The errors that leave open whether the work was done.
Uncertain == {"INTERNAL", "UNAVAILABLE", "DEADLINE_EXCEEDED"}

\* A refusal says no with its status; one with a status the backend may answer
\* after the work reads as an error that leaves it open.
ConstantsOK ==
  \A r \in Refusals :
    /\ r.status \in 400 .. 599
    /\ r.status >= 500 => map_http_error(Answer("ok", r.status, r.wire)) \notin FirestoreCodes \ Uncertain

IsSuccess(answer) == answer.transport = "ok" /\ answer.status \in 200 .. 299

\* invoke_json and invoke_json_optional: for a get, 404 is no error.
Error(call) ==
  IF call.answer.transport # "ok" THEN "INTERNAL"
  ELSE IF IsSuccess(call.answer) \/ (call.kind = "get" /\ call.answer.status = 404) THEN "none"
  ELSE map_http_error(call.answer)

(***************************************************************************)
(* Credentials                                                             *)
(***************************************************************************)
\* The order they are asked for in: build_request_context, headers_for.
Order(kind) ==
  CASE kind \in Idempotent \cup {"commit"} -> <<"auth", "appCheck">>
    [] kind = "callable" -> <<"appCheck", "auth">>
    [] kind = "register" -> <<>>

\* LazyComponentTokenProvider.resolved: an earlier invalidation reaches the
\* service when it is first found.
resolved(s) ==
  LET source == sources[s]
  IN IF source.exists /\ ~source.resolved
     THEN [source EXCEPT !.resolved = TRUE, !.force = @ \/ source.invalidated, !.invalidated = FALSE]
     ELSE source

\* LazyComponentTokenProvider.invalidate_token, and the provider's
invalidate_token(s) ==
  LET source == resolved(s) IN IF source.exists THEN [source EXCEPT !.force = TRUE] ELSE [source EXCEPT !.invalidated = TRUE]

Asked(c) == Order(calls[c].kind)[calls[c].at]
\* The request is sent with the last of them.
has(c, token) ==
  [calls[c] EXCEPT !.pc = IF calls[c].at < Len(Order(calls[c].kind)) THEN "asking" ELSE "sent", !.at = @ + 1, !.context[Asked(c)] = token]
ended(call, result) == [Idle EXCEPT !.pc = "done", !.kind = call.kind, !.keys = call.keys, !.result = result]

Begin(c, kind, keys) ==
  /\ At(c, "idle")
  /\ CASE kind = "get" -> Len(keys) = 1 [] kind = "batchGet" -> Len(keys) > 1 [] OTHER -> keys = <<>>
  /\ goes(c, [Idle EXCEPT !.pc = IF Order(kind) = <<>> THEN "sent" ELSE "asking", !.kind = kind, !.keys = keys])
  /\ UNCHANGED <<sources, applied, faults>>

\* A callable may ask for a token of its own.
LimitedUse(c) == calls[c].kind = "callable" /\ Asked(c) = "appCheck"

\* get_token: none without the service; the cached token, unless it is to be
\* refreshed.
GetToken(c) ==
  /\ At(c, "asking")
  /\ LET s == Asked(c)
         source == resolved(s)
         found == IF ~source.exists THEN has(c, NoToken)
                  ELSE IF source.force \/ source.token = NoToken \/ LimitedUse(c) THEN [calls[c] EXCEPT !.pc = "refreshing"]
                  ELSE has(c, source.token)
         takes == s = "auth" /\ source.force   \* which another call may count on
     IN /\ sources' = [sources EXCEPT ![s] = IF source.exists /\ ~LimitedUse(c) THEN [source EXCEPT !.force = FALSE] ELSE source]
        /\ calls' = [o \in Calls |-> IF o = c THEN found ELSE [calls[o] EXCEPT !.raced = @ \/ (takes /\ At(o, "asking"))]]
  /\ UNCHANGED <<applied, faults>>

Refreshed(c) ==
  /\ At(c, "refreshing")
  /\ IF LimitedUse(c) THEN goes(c, has(c, SingleUse)) /\ UNCHANGED sources
     ELSE LET new == sources[Asked(c)].token + 1
          IN goes(c, has(c, new)) /\ sources' = [sources EXCEPT ![Asked(c)].token = new]
  /\ UNCHANGED <<applied, faults>>

\* App Check falls back on the cached token; headers_or_empty goes on without
\* a token, the others end with the error.
RefreshFails(c) ==
  /\ At(c, "refreshing") /\ fault
  /\ LET cached == sources[Asked(c)].token
     IN goes(c, IF Asked(c) = "appCheck" /\ cached # NoToken /\ ~LimitedUse(c) THEN has(c, cached)
                ELSE IF calls[c].kind = "callable" THEN has(c, NoToken)
                ELSE ended(calls[c], [Pending EXCEPT !.code = "UNAUTHENTICATED"]))
  /\ UNCHANGED <<sources, applied>>

\* initialize_app_check, after the client was made.
Install(s) ==
  /\ ~sources[s].exists
  /\ sources' = [sources EXCEPT ![s].exists = TRUE]
  /\ UNCHANGED <<calls, applied, faults>>

\* The backend does not accept a token any more.
Revoke(s) ==
  /\ sources[s].token >= sources[s].minimum /\ sources[s].token # NoToken /\ faulty("revoked")
  /\ sources' = [sources EXCEPT ![s].minimum = sources[s].token + 1]
  /\ UNCHANGED <<calls, applied>>

(***************************************************************************)
(* HTTP                                                                    *)
(***************************************************************************)
\* RetryPolicy: none, save that Installations retries once.
max_retries(kind) == IF kind = "register" THEN 1 ELSE 0

Accepted(context) == \A s \in Sources : context[s] # NoToken => context[s] >= sources[s].minimum

Found(call) == IF call.kind = "get" /\ call.keys[1] \notin Existing THEN Answer("ok", 404, "NOT_FOUND") ELSE Succeeded
effect(c, happens) == applied' = IF happens /\ calls[c].kind = "commit" THEN [applied EXCEPT ![c] = @ + 1] ELSE applied
received(c, answer) == goes(c, [calls[c] EXCEPT !.pc = "received", !.answer = answer])

\* batchGet answers each name once, in any order.
Serve(c) ==
  /\ At(c, "sent")
  /\ IF Accepted(calls[c].context)
     THEN \E of \in SetToSeqs(ToSet(calls[c].keys)) : received(c, [Found(calls[c]) EXCEPT !.of = of]) /\ effect(c, TRUE)
     ELSE received(c, Answer("ok", 401, "UNAUTHENTICATED")) /\ effect(c, FALSE)
  /\ UNCHANGED <<sources, faults>>

\* The server refuses; with a 5xx it may have done the work.
ServeRefuses(c) ==
  /\ At(c, "sent") /\ fault
  /\ \E r \in Refusals, happens \in BOOLEAN :
       /\ happens => r.status >= 500
       /\ received(c, Answer("ok", r.status, r.wire)) /\ effect(c, happens)
  /\ UNCHANGED sources

\* Timeout, Network, Decode: the request or its answer is lost.
Lose(c) ==
  /\ At(c, "sent") /\ fault
  /\ \E happens \in BOOLEAN : received(c, Answer("lost", 0, "none")) /\ effect(c, happens)
  /\ UNCHANGED sources

\* HttpClient.send: another attempt after transport trouble or a 5xx.
Resends(call) ==
  call.resent < max_retries(call.kind) /\ (call.answer.transport # "ok" \/ call.answer.status \in 500 .. 599)

Resend(c) ==
  /\ At(c, "received") /\ Resends(calls[c])
  /\ goes(c, [calls[c] EXCEPT !.pc = "sent", !.resent = @ + 1])
  /\ UNCHANGED <<sources, applied, faults>>

Answered(c) == At(c, "received") /\ ~Resends(calls[c])

(***************************************************************************)
(* The REST datastore                                                      *)
(***************************************************************************)
should_retry(call, code) ==
  /\ call.attempt + 1 < max_attempts
  /\ code \in {"INTERNAL", "UNAVAILABLE", "DEADLINE_EXCEEDED", "RESOURCE_EXHAUSTED", "UNAUTHENTICATED"}

should_retry_non_idempotent(call, code) == call.attempt + 1 < max_attempts /\ code = "UNAUTHENTICATED"

\* Mutant of retryable: a commit is retried like a read.
retryable_Any(call, code) == call.kind \in Idempotent \cup {"commit"} /\ should_retry(call, code)

\* The policy of execute_with_retry and execute_non_idempotent; the other
\* products do not retry.
retryable(call, code) ==
  CASE call.kind \in Idempotent -> should_retry(call, code)
    [] call.kind = "commit" -> should_retry_non_idempotent(call, code)
    [] OTHER -> FALSE

\* A rejected credential: both tokens are to be refreshed.
invalidated(code) == IF code = "UNAUTHENTICATED" THEN [s \in Sources |-> invalidate_token(s)] ELSE sources

Retry(c) ==
  /\ Answered(c)
  /\ LET code == Error(calls[c])
     IN /\ code # "none" /\ retryable(calls[c], code)
        /\ sources' = invalidated(code)
        /\ goes(c, [calls[c] EXCEPT !.pc = "asking", !.at = 1, !.attempt = @ + 1, !.resent = 0, !.answer = NoAnswer, !.context = NoTokens, !.raced = FALSE,
                                    !.rejected = IF code = "UNAUTHENTICATED" THEN calls[c].context ELSE NoTokens])
  /\ UNCHANGED <<applied, faults>>

\* batch_get_documents: what was found, by name, then in the order asked for;
\* each name is handed out once.
decoded(call) ==
  LET first(i) == \A j \in 1 .. i - 1 : call.keys[j] # call.keys[i]
  IN [i \in DOMAIN call.keys |-> first(i) /\ call.keys[i] \in ToSet(call.answer.of) /\ call.keys[i] \in Existing]

End(c) ==
  /\ Answered(c)
  /\ LET code == Error(calls[c])
     IN /\ ~(code # "none" /\ retryable(calls[c], code))
        /\ goes(c, ended(calls[c], [ok |-> code = "none", code |-> code, of |-> IF code = "none" THEN decoded(calls[c]) ELSE <<>>]))
  /\ UNCHANGED <<sources, applied, faults>>

Next ==
  \/ \E s \in Sources : Install(s) \/ Revoke(s)
  \/ \E c \in Calls :
       \/ \E kind \in Kinds, keys \in Lists : Begin(c, kind, keys)
       \/ GetToken(c) \/ Refreshed(c) \/ RefreshFails(c)
       \/ Serve(c) \/ ServeRefuses(c) \/ Lose(c) \/ Resend(c) \/ Retry(c) \/ End(c)

Spec == Init /\ [][Next]_restVars
-----------------------------------------------------------------------------
\* However answers are lost, refused or retried, a commit takes effect at most
\* once, once if it succeeds, and not at all if its error says so.
CommitsAreNotReplayed ==
  \A c \in Calls : calls[c].kind = "commit" =>
    /\ applied[c] <= 1
    /\ At(c, "done") /\ calls[c].result.ok => applied[c] = 1
    /\ At(c, "done") /\ calls[c].result.code \in FirestoreCodes \ Uncertain => applied[c] = 0

\* A request sent again after a rejected credential does not carry the user's
\* rejected token, unless another call undertook to replace it.
RetriesCarryAFreshToken ==
  \A c \in Calls : At(c, "sent") /\ ~calls[c].raced /\ calls[c].rejected["auth"] # NoToken =>
    calls[c].context["auth"] # calls[c].rejected["auth"]

\* Documents read together are returned in the order asked for, each as it is.
BatchAnswersItsKeys ==
  \A c \in Calls : At(c, "done") /\ calls[c].kind = "batchGet" /\ calls[c].result.ok =>
    calls[c].result.of = [i \in DOMAIN calls[c].keys |-> calls[c].keys[i] \in Existing]
=============================================================================
