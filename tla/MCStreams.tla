------------------------------ MODULE MCStreams ------------------------------
(***************************************************************************)
(* What reaches a program over time, for TLC: the snapshots of a Firestore *)
(* listener, the messages of a callable function's stream and the answers  *)
(* of the AI service.  `part` says which one a behaviour exercises; the    *)
(* others stay in their initial state.                                     *)
(***************************************************************************)
EXTENDS FirestoreListener

CONSTANT Callers  \* tasks that use the AI service

VARIABLES part,
          endpoint, credentials, call, body, stream, delivered, split, reads,
          apps, current, registered, attached, providers, services, cache, handed, aiTasks, aiCalls, flags, asked, aiOverlapped

\* Lines of a stream, and the JSON of an answer.
Lines == {[kind |-> k, wide |-> FALSE] : k \in {"message", "result", "undecodable", "error", "invalid", "comment"}}
         \cup {[kind |-> "message", wide |-> TRUE]}
Json(json, data, error) == [json |-> json, data |-> data, error |-> error]

Functions == INSTANCE CallableFunctions WITH
  Bodies <- [lines : UNION {[1 .. n -> Lines] : n \in 0 .. 2}, terminated : BOOLEAN],
  Responses <- [status : {200, 204, 404, 503},
                body : {Json(TRUE, "some", "none"), Json(TRUE, "some", "aborted"), Json(TRUE, "none", "unnamed"),
                        Json(TRUE, "none", "unknown-name"), Json(TRUE, "some", "ok"), Json(FALSE, "none", "none")}],
  Endpoints <- {"region", "domain"}, MaxCalls <- 3, calls <- reads

\* Candidates of an answer of the model: a blank part, then a text; and none.
Candidate(parts) == [parts |-> parts, output |-> <<>>]

Ai == INSTANCE GenerativeAi WITH
  Tasks <- Callers, Locations <- {<<"eu", "x">>},
  Requests <- {[call |-> "GenerativeModel", model |-> <<"gemini">>, base |-> "default"],
               [call |-> "generate_text", model |-> <<>>, base |-> "default"],
               [call |-> "prepare", model |-> <<"", "models", "gemini">>, base |-> "invalid"]},
  Answers <- {[candidates |-> <<Candidate(<<<<" ">>>>), Candidate(<<<<"">>, <<"text">>>>)>>, output |-> <<>>],
              [candidates |-> <<>>, output |-> <<>>]},
  Options <- {[api_key |-> TRUE, project_id |-> TRUE, app_id |-> "some", automatic |-> TRUE]}, MaxApps <- 2, MaxCalls <- 3,
  tasks <- aiTasks, calls <- aiCalls, during <- flags, overlapped <- aiOverlapped

\* What the theorems about the AI service assume of its constants holds in this instance.
ASSUME AiConstants == Ai!ConstantsOK

fnVars == <<endpoint, credentials, call, body, stream, delivered, split, reads>>
aiVars == <<apps, current, registered, attached, providers, services, cache, handed, aiTasks, aiCalls, flags, asked,
            aiOverlapped>>
streamVars == <<part, vars, fnVars, aiVars>>

\* Documents, and tasks, are interchangeable in the safety properties.
Symmetry == Permutations(Docs) \cup Permutations(Callers)

\* One initial state of the parts that are not exercised.
StreamsInit ==
  /\ part \in {"listener", "functions", "ai"}
  /\ Init /\ Functions!Init /\ Ai!Init
  /\ part # "listener" => hist[1] = Nothing
  /\ part # "functions" => endpoint.made = "region" /\ credentials["auth"] = "some" /\ body.lines = <<>> /\ body.rest = <<>>

StreamsNext ==
  \/ part = "listener" /\ Next /\ UNCHANGED <<part, fnVars, aiVars>>
  \/ part = "functions" /\ Functions!Next /\ UNCHANGED <<part, vars, aiVars>>
  \/ part = "ai" /\ Ai!Next /\ UNCHANGED <<part, vars, fnVars>>

StreamsSpec == StreamsInit /\ [][StreamsNext]_streamVars
-----------------------------------------------------------------------------
\* However the body is cut into chunks, a stream hands over its messages in order
\* and its result, and an answer that names an error is never taken for data
\* (CallableFunctions).
StreamsDeliverTheBody == part = "functions" => Functions!TypeOK /\ Functions!StreamsDeliverTheBody /\ Functions!ErrorsAreNotData

\* get_ai hands out services of the backend and, until an app is deleted, of the app
\* asked for, with the options asked for last; a request carries credentials of a kind
\* its service was set to use during the call, and a visible text in an answer is
\* found (GenerativeAi).
AiServicesAreTheirs ==
  part = "ai" => /\ Ai!TypeOK /\ Ai!ServicesAreTheirApps /\ Ai!CacheFollowsItsCalls /\ Ai!RequestsCarryTheirSettings
                 /\ Ai!VisibleTextIsFound /\ Ai!NamesAreNormalizedOnce

\* A message arrives as the function sent it, wherever the network cut the body
\* (CallableFunctions).
MessagesArriveAsSent == part = "functions" => Functions!MessagesArriveAsSent
=============================================================================
