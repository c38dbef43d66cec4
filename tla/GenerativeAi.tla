---------------------------- MODULE GenerativeAi ----------------------------
(***************************************************************************)
(* firebase-ai: get_ai with its cache of services by app name and backend, *)
(* beside the provider of each app's container (api.rs), and the requests  *)
(* of a service: settings, credentials, URL, headers, answer and text      *)
(* (requests.rs, models/generative_model.rs).  Apps here share one name: a *)
(* new one is made when the last was deleted, and handles of deleted apps  *)
(* stay.                                                                   *)
(*                                                                         *)
(* Names with slashes are sequences of their segments.                     *)
(***************************************************************************)
EXTENDS Naturals, Sequences, SequencesExt

CONSTANTS Tasks,      \* tasks of the program
          Locations,  \* locations given to Backend::vertex_ai
          Requests,   \* requests: the call that makes it, the model named and the base URL
          Answers,    \* answers of the backend
          Options,    \* apps: api_key and project_id given or not, app_id none, empty or some, automatic
                      \* data collection as last set
          MaxApps,    \* bound: apps made
          MaxCalls    \* bound: calls begun

VARIABLES apps,       \* options of the apps made, in order
          current,    \* the registered app, 0 for none
          registered, \* the component is registered
          attached,   \* apps whose container has it
          providers,  \* provider of each app: identifier -> service
          services,   \* AiInner of the services made
          cache,      \* AI_OVERRIDES
          handed,     \* services the program has been handed
          tasks,      \* the call each task is in
          calls,
          during,     \* history: use_limited_use flags the service had during the call
          asked,      \* history: the flag the last get_ai of each identifier asked for
          overlapped  \* history: get_ai calls have overlapped

aiVars == <<apps, current, registered, attached, providers, services, cache, handed, tasks, calls, during, asked, overlapped>>

None == <<>>
Default == <<"us-central1">>

\* VertexAiBackend::new: an empty location is the default one.
vertex_ai(location) == [type |-> "VERTEX_AI", location |-> IF location \in {None, <<"">>} THEN Default ELSE location]
google_ai == [type |-> "GOOGLE_AI", location |-> None]
Backends == {google_ai} \cup {vertex_ai(l) : l \in Locations}

encode_instance_identifier(backend) ==
  IF backend = google_ai THEN <<"AI", "googleai">> ELSE <<"AI", "vertexai">> \o backend.location

\* The parts of the identifier between its slashes; a location is one part.
decode_instance_identifier(identifier) ==
  IF identifier[2] = "googleai" THEN google_ai ELSE vertex_ai(<<identifier[3]>>)

Identifiers == {encode_instance_identifier(b) : b \in Backends}

Idle == [op |-> "idle", pc |-> "", app |-> 0, backend |-> google_ai, limited |-> FALSE, service |-> 0, hit |-> FALSE,
         model |-> None, base |-> "default", settings |-> {}, url |-> None, result |-> "none"]

Preparing == {"generate_text", "prepare", "GenerativeModel"}

\* What the constants are: names and locations are sequences of strings.  (The strings of
\* the code are written out for the prover, which does not know that they are strings.)
Segments == STRING \cup {"", "AI", "vertexai", "googleai", "us-central1", "models", "publishers", "google", "text-bison-001",
                         "v1beta", "projects", "project", "locations"}
ConstantsOK ==
  /\ MaxApps \in Nat /\ Locations \subseteq Seq(Segments)
  /\ \A request \in Requests : request.call \in Preparing /\ request.model \in Seq(Segments)

Init ==
  /\ apps = <<>> /\ current = 0 /\ registered = FALSE /\ attached = {}
  /\ providers = [a \in 1 .. MaxApps |-> [i \in Identifiers |-> 0]]
  /\ services = <<>> /\ cache = [i \in Identifiers |-> 0]
  /\ handed = {} /\ tasks = [t \in Tasks |-> Idle] /\ calls = 0
  /\ during = [t \in Tasks |-> {}] /\ asked = [i \in Identifiers |-> FALSE] /\ overlapped = FALSE

TypeOK ==
  /\ current \in 0 .. Len(apps) /\ Len(apps) <= MaxApps /\ attached \subseteq 1 .. Len(apps)
  /\ \A a \in 1 .. MaxApps, i \in Identifiers : providers[a][i] \in 0 .. Len(services)
  /\ \A i \in Identifiers : cache[i] \in 0 .. Len(services)
  /\ \A s \in 1 .. Len(services) : /\ services[s].app \in 1 .. Len(apps) /\ services[s].limited \in BOOLEAN
                                   /\ services[s].backend.type \in {"GOOGLE_AI", "VERTEX_AI"}
  /\ handed \subseteq 1 .. Len(services) /\ calls \in 0 .. MaxCalls /\ overlapped \in BOOLEAN

At(t, pc) == tasks[t].pc = pc
Begins(t, call) ==
  /\ tasks[t].op = "idle" /\ calls < MaxCalls
  /\ calls' = calls + 1
  /\ tasks' = [tasks EXCEPT ![t] = call]

-----------------------------------------------------------------------------
\* The registry of apps: a registered component reaches the apps made later.
InitializeApp == \E options \in Options :
  /\ current = 0 /\ Len(apps) < MaxApps
  /\ apps' = Append(apps, options)
  /\ current' = Len(apps) + 1
  /\ attached' = IF registered THEN attached \cup {current'} ELSE attached
  /\ UNCHANGED <<registered, providers, services, cache, handed, tasks, calls, during, asked, overlapped>>

\* delete_app takes the app of that name from the registry, whichever handle it is given,
\* and clears the instances of the handle's providers, and not the cache.
DeleteApp == \E app \in 1 .. Len(apps) :
  /\ current # 0
  /\ providers' = [providers EXCEPT ![app] = [i \in Identifiers |-> 0]]
  /\ current' = 0
  /\ UNCHANGED <<apps, registered, attached, services, cache, handed, tasks, calls, during, asked, overlapped>>

\* Registers the component, once, with the apps of the registry.
ensure_registered ==
  /\ registered' = TRUE
  /\ attached' = IF registered THEN attached ELSE attached \cup ({current} \ {0})

\* get_ai: without an app it takes the registered one.
GetAi(t) == \E app \in 1 .. Len(apps), backend \in Backends, limited \in BOOLEAN :
  /\ Begins(t, [Idle EXCEPT !.op = "get_ai", !.pc = "cache", !.app = app, !.backend = backend, !.limited = limited])
  /\ ensure_registered
  /\ asked' = [asked EXCEPT ![encode_instance_identifier(backend)] = limited]
  /\ overlapped' = (overlapped \/ \E u \in Tasks : tasks[u].op = "get_ai")
  /\ UNCHANGED <<apps, current, providers, services, cache, handed, during>>

\* get_ai(None) when no app is registered: the component is, and the call fails.
NoApp(t) ==
  /\ current = 0
  /\ Begins(t, [Idle EXCEPT !.op = "get_ai", !.pc = "returned", !.result = "internal"])
  /\ ensure_registered
  /\ overlapped' = (overlapped \/ \E u \in Tasks : tasks[u].op = "get_ai")
  /\ UNCHANGED <<apps, current, providers, services, cache, handed, during, asked>>

Id(t) == encode_instance_identifier(tasks[t].backend)

CacheGet(t) ==
  /\ At(t, "cache")
  /\ tasks' = [tasks EXCEPT ![t].service = cache[Id(t)], ![t].hit = cache[Id(t)] # 0,
                            ![t].pc = IF cache[Id(t)] # 0 THEN "options" ELSE "try_get"]
  /\ UNCHANGED <<apps, current, registered, attached, providers, services, cache, handed, calls, during, asked, overlapped>>

\* try_get finds an instance or goes on to make one; without the component it finds
\* nothing, initialize reports InstanceUnavailable, and so does the second try_get.
TryGet(t) ==
  /\ At(t, "try_get")
  /\ LET found == providers[tasks[t].app][Id(t)] IN
     tasks' = [tasks EXCEPT ![t].service = found,
                            ![t].pc = IF found # 0 THEN "options" ELSE IF tasks[t].app \in attached THEN "create" ELSE "fallback"]
  /\ UNCHANGED <<apps, current, registered, attached, providers, services, cache, handed, calls, during, asked, overlapped>>

\* ai_factory, under the identifier, and the insert into the provider's instances.
Create(t) ==
  /\ At(t, "create")
  /\ services' = Append(services, [app |-> tasks[t].app, backend |-> decode_instance_identifier(Id(t)), limited |-> FALSE])
  /\ providers' = [providers EXCEPT ![tasks[t].app][Id(t)] = Len(services) + 1]
  /\ tasks' = [tasks EXCEPT ![t].service = Len(services) + 1, ![t].pc = "options"]
  /\ UNCHANGED <<apps, current, registered, attached, cache, handed, calls, during, asked, overlapped>>

\* The fallback service is known to the cache alone.
Fallback(t) ==
  /\ At(t, "fallback")
  /\ services' = Append(services, [app |-> tasks[t].app, backend |-> tasks[t].backend, limited |-> tasks[t].limited])
  /\ tasks' = [tasks EXCEPT ![t].service = Len(services) + 1, ![t].pc = "insert"]
  /\ UNCHANGED <<apps, current, registered, attached, providers, cache, handed, calls, during, asked, overlapped>>

\* Mutant of set_options: an instance that was found keeps its options.
set_options_OfNew(t) == IF tasks[t].hit THEN services ELSE [services EXCEPT ![tasks[t].service].limited = tasks[t].limited]

\* set_options: callers share the instance and its options.
set_options(t) == [services EXCEPT ![tasks[t].service].limited = tasks[t].limited]

SetsOptions(t) ==
  /\ At(t, "options")
  /\ services' = set_options(t)
  /\ during' = [u \in Tasks |-> IF tasks[u].op \in Preparing /\ tasks[u].service = tasks[t].service
                                THEN during[u] \cup {services'[tasks[t].service].limited} ELSE during[u]]
  /\ tasks' = [tasks EXCEPT ![t].pc = IF tasks[t].hit THEN "returned" ELSE "insert"]
  /\ UNCHANGED <<apps, current, registered, attached, providers, cache, handed, calls, asked, overlapped>>

CacheInsert(t) ==
  /\ At(t, "insert")
  /\ cache' = [cache EXCEPT ![Id(t)] = tasks[t].service]
  /\ tasks' = [tasks EXCEPT ![t].pc = "returned"]
  /\ UNCHANGED <<apps, current, registered, attached, providers, services, handed, calls, during, asked, overlapped>>

\* A call returns.
Returns(t) ==
  /\ tasks[t].pc = "returned"
  /\ tasks' = [tasks EXCEPT ![t] = Idle]
  /\ during' = [during EXCEPT ![t] = {}]
  /\ handed' = IF tasks[t].op = "get_ai" THEN handed \cup ({tasks[t].service} \ {0}) ELSE handed
  /\ UNCHANGED <<apps, current, registered, attached, providers, services, cache, calls, asked, overlapped>>

-----------------------------------------------------------------------------
normalize_google_ai_model(model) == IF Len(model) > 1 /\ model[1] = "models" THEN model ELSE <<"models">> \o model
normalize_vertex_ai_model(model) ==
  IF Len(model) = 1 THEN <<"publishers", "google", "models">> \o model
  ELSE IF model[1] = "models" THEN <<"publishers", "google">> \o model ELSE model
normalize_model_name(model, type) ==
  IF type = "GOOGLE_AI" THEN normalize_google_ai_model(model) ELSE normalize_vertex_ai_model(model)

\* trim_start_matches('/').
trimmed(model) ==
  LET n == SelectInSeq(model, LAMBDA segment : segment # "") IN
  IF n = 0 THEN <<"">> ELSE SubSeq(model, n, Len(model))

\* construct_request: the path, the operation left out; a project is named "project".
construct_request(backend, model) ==
  LET project == <<"v1beta", "projects", "project">> IN
  IF backend.type = "GOOGLE_AI" THEN project \o trimmed(model)
  ELSE project \o <<"locations">> \o backend.location \o trimmed(model)

\* build_headers: three that every request has, then one for each setting that is there.
build_headers(settings) ==
  {"Content-Type", "x-goog-api-client", "x-goog-api-key"}
  \cup (IF "app_id" \in settings THEN {"X-Firebase-AppId"} ELSE {})
  \cup (IF {"shared", "limited"} \cap settings # {} THEN {"X-Firebase-AppCheck"} ELSE {})
  \cup (IF "heartbeat" \in settings THEN {"X-Firebase-Client"} ELSE {})
  \cup (IF "auth" \in settings THEN {"Authorization"} ELSE {})

\* GenerativeModel::new normalises the name it is given; generate_text without one takes
\* text-bison-001, for get_ai makes services without a default.
model_of(request, type) ==
  IF request.call = "GenerativeModel" THEN normalize_model_name(request.model, type)
  ELSE IF request.model = None THEN <<"text-bison-001">> ELSE request.model

\* generate_text, prepare_generate_content_request or a GenerativeModel's begins.
Generate(t) == \E s \in handed, request \in Requests :
  /\ Begins(t, [Idle EXCEPT !.op = request.call, !.pc = "settings", !.service = s, !.base = request.base,
                  !.model = model_of(request, services[s].backend.type)])
  /\ during' = [during EXCEPT ![t] = {services[s].limited}]
  /\ UNCHANGED <<apps, current, registered, attached, providers, services, cache, handed, asked, overlapped>>

\* generate_text refuses a blank prompt before anything is read.
EmptyPrompt(t) ==
  /\ handed # {}
  /\ Begins(t, [Idle EXCEPT !.op = "generate_text", !.pc = "returned", !.result = "invalid-argument"])
  /\ UNCHANGED <<apps, current, registered, attached, providers, services, cache, handed, during, asked, overlapped>>

\* The call is over, and its request with it.
Ends(t, result) == tasks' = [tasks EXCEPT ![t] = [Idle EXCEPT !.op = tasks[t].op, !.pc = "returned", !.result = result]]

\* The first of the options that is missing.
missing(options) ==
  IF ~options.api_key THEN "no-api-key" ELSE IF ~options.project_id THEN "no-project-id"
  ELSE IF options.app_id = "none" THEN "no-app-id" ELSE "none"

\* api_settings: the app's options, then the flag, then whether the app collects data, all
\* before anything is awaited.
ReadsSettings(t) ==
  LET options == apps[services[tasks[t].service].app] IN
  /\ At(t, "settings")
  /\ IF missing(options) # "none" THEN Ends(t, missing(options))
     ELSE tasks' = [tasks EXCEPT ![t].pc = "check", ![t].limited = services[tasks[t].service].limited,
                                 ![t].settings = IF options.automatic /\ options.app_id = "some" THEN {"app_id"} ELSE {}]
  /\ UNCHANGED <<apps, current, registered, attached, providers, services, cache, handed, calls, during, asked, overlapped>>

\* fetch_app_check_credentials: a token of the kind asked for, with a heartbeat or not,
\* or neither, or an error.
FetchesAppCheck(t) ==
  /\ At(t, "check")
  /\ \/ \E found \in {{}, {"token"}, {"token", "heartbeat"}} :
          tasks' = [tasks EXCEPT ![t].pc = "auth",
                                 ![t].settings = @ \cup (found \ {"token"})
                                   \cup (IF "token" \notin found THEN {} ELSE IF tasks[t].limited THEN {"limited"} ELSE {"shared"})]
     \/ Ends(t, "internal")
  /\ UNCHANGED <<apps, current, registered, attached, providers, services, cache, handed, calls, during, asked, overlapped>>

\* fetch_auth_token, with a token or none, and the URL: a base that does not parse is
\* an error.  generate_text sends the request, the other calls return it.
FetchesAuth(t) ==
  /\ At(t, "auth")
  /\ \/ Ends(t, "internal")
     \/ tasks[t].base = "invalid" /\ Ends(t, "invalid-argument")
     \/ \E found \in {{}, {"auth"}} :
          /\ tasks[t].base # "invalid"
          /\ tasks' = [tasks EXCEPT ![t].pc = IF tasks[t].op = "generate_text" THEN "send" ELSE "returned",
                                    ![t].settings = @ \cup found,
                                    ![t].url = construct_request(services[tasks[t].service].backend, tasks[t].model)]
  /\ UNCHANGED <<apps, current, registered, attached, providers, services, cache, handed, calls, during, asked, overlapped>>

\* A text is None, <<"">>, <<" ">> or visible.
Blank == {<<"">>, <<" ">>}

\* extract_text_from_candidate: the first part with a text, or the output.
extract_text_from_candidate(candidate) ==
  LET texts == SelectSeq(candidate.parts, LAMBDA p : p \notin {None, <<"">>}) IN
  IF texts # <<>> THEN texts[1] ELSE candidate.output

\* The first candidate whose text is not blank, or the output of the answer.
extract_text_from_response(answer) ==
  LET found == SelectSeq([n \in DOMAIN answer.candidates |-> extract_text_from_candidate(answer.candidates[n])],
                         LAMBDA text : text # None /\ text \notin Blank) IN
  IF found # <<>> THEN found[1] ELSE answer.output

\* ReqwestTransport::send, one request: a header that cannot be encoded is internal, lost
\* or refused is fetch-error, a body that is not JSON parse-failed, and for generate_text
\* an answer without text is response-error.
Sends(t) ==
  /\ At(t, "send")
  /\ \/ Ends(t, "internal") \/ Ends(t, "fetch-error") \/ Ends(t, "parse-failed")
     \/ \E answer \in Answers : Ends(t, IF extract_text_from_response(answer) = None THEN "response-error" ELSE "ok")
  /\ UNCHANGED <<apps, current, registered, attached, providers, services, cache, handed, calls, during, asked, overlapped>>

Next ==
  \/ InitializeApp \/ DeleteApp
  \/ \E t \in Tasks :
       \/ GetAi(t) \/ NoApp(t) \/ CacheGet(t) \/ TryGet(t) \/ Create(t) \/ Fallback(t) \/ SetsOptions(t) \/ CacheInsert(t) \/ Returns(t)
       \/ Generate(t) \/ EmptyPrompt(t) \/ ReadsSettings(t) \/ FetchesAppCheck(t) \/ FetchesAuth(t) \/ Sends(t)

Spec == Init /\ [][Next]_aiVars

-----------------------------------------------------------------------------
Whole(backend) == Len(backend.location) <= 1

\* get_ai hands out a service of the backend it was asked for, if its location is one
\* segment, and of the app it was asked for as long as no app of that name was deleted;
\* after one was, the cache may still hold the deleted app's service.
ServicesAreTheirApps ==
  \A t \in Tasks : tasks[t].op = "get_ai" /\ tasks[t].pc = "returned" /\ tasks[t].result = "none" =>
    LET made == services[tasks[t].service] IN
    /\ Whole(tasks[t].backend) => made.backend = tasks[t].backend
    /\ made.app = tasks[t].app \/ Len(apps) > 1

\* Once calls to get_ai that did not overlap have returned, the cached service of a
\* backend has the options asked for last, and it is the provider's as long as no app
\* was deleted.
CacheFollowsItsCalls ==
  (\A t \in Tasks : tasks[t].op # "get_ai") /\ ~overlapped =>
    \A i \in Identifiers : cache[i] # 0 =>
      /\ services[cache[i]].limited = asked[i]
      /\ Len(apps) = 1 /\ current = 1 => providers[1][i] = cache[i]

\* A request carries App Check credentials of a kind its service was set to use during
\* the call, a heartbeat only beside them, and goes to the service's own location.
RequestsCarryTheirSettings ==
  \A t \in Tasks : tasks[t].url # None =>
    LET backend == services[tasks[t].service].backend
        headers == build_headers(tasks[t].settings)
    IN /\ "X-Firebase-AppCheck" \in headers => ("limited" \in tasks[t].settings) \in during[t]
       /\ "X-Firebase-Client" \in headers => "X-Firebase-AppCheck" \in headers
       /\ backend.type = "VERTEX_AI" =>
            IsPrefix(<<"v1beta", "projects", "project", "locations">> \o backend.location, tasks[t].url)

\* A visible text of some candidate is found, whatever blank ones precede it.
VisibleTextIsFound ==
  \A answer \in Answers : (\E n \in DOMAIN answer.candidates : \E p \in DOMAIN answer.candidates[n].parts :
                             answer.candidates[n].parts[p] \notin Blank \cup {None} /\ \A q \in 1 .. p - 1 : answer.candidates[n].parts[q] \in {None, <<"">>}) =>
    extract_text_from_response(answer) \notin Blank \cup {None}

\* A normalised model name is its own normal form.
NamesAreNormalizedOnce ==
  \A model \in {r.model : r \in Requests} \ {None}, type \in {"GOOGLE_AI", "VERTEX_AI"} :
    LET once == normalize_model_name(model, type) IN normalize_model_name(once, type) = once
=============================================================================
