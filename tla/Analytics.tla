------------------------------ MODULE Analytics ------------------------------
(***************************************************************************)
(* firebase-analytics: the instance of each app (api.rs), the dispatcher   *)
(* of the Measurement Protocol (transport.rs), the measurement id from the *)
(* options or from the server (config.rs), and the one gtag registry that  *)
(* all apps share (gtag.rs).  Every field has a lock of its own, so a call *)
(* reads and writes them at different moments.                             *)
(*                                                                         *)
(* A map of parameters has one key: its value, or None.  Ids of events are *)
(* the numbers of the calls that logged them.  The program reaches the     *)
(* registry through the instances, and may reset it.                       *)
(***************************************************************************)
EXTENDS Naturals, Sequences, FiniteSets

CONSTANTS Apps,       \* apps with an Analytics instance
          Tasks,      \* tasks that call it
          Options,    \* measurement_id of each app's FirebaseOptions, or None
          Ids,        \* measurement ids; the empty one is ""
          Clients,    \* client ids the program sets
          Maps,       \* parameter maps, consent entries and config maps it sets
          Endpoints,  \* endpoints of the dispatcher; "invalid" does not parse
          MaxCalls,   \* bound: calls begun
          MaxFaults   \* bound: requests lost or refused

VARIABLES instances,   \* AnalyticsInner of each app
          gtag,        \* GtagState
          tasks,       \* the call each task is in
          during,      \* history: the values each field had during the call
          received,    \* events the collection endpoint has received
          calls, faults,
          setter,      \* history: the app that last began to set each field of gtag
          overlapped   \* history: fields of gtag set by calls that overlapped

analyticsVars == <<instances, gtag, tasks, during, received, calls, faults, setter, overlapped>>

None == "none"
NoTransport == [id |-> "", endpoint |-> None]

\* The fields of an instance a call may find changed under it, and gtag's.
Fields == {"client_id", "transport", "defaults", "enabled"}
Shared == {"defaults", "consent", "settings", "measurement_id"}

\* AnalyticsSettings.
NoSettings == [config |-> None, send_page_view |-> None]

Idle == [op |-> "idle", app |-> None, pc |-> "", id |-> 0, arg |-> None, params |-> None, transport |-> NoTransport,
         client |-> None, sent |-> FALSE, result |-> None]

\* Analytics::new; the client id is random.
NewInstance ==
  [events |-> <<>>, client_id |-> "generated", transport |-> NoTransport, config |-> None, defaults |-> None,
   consent |-> None, settings |-> NoSettings, enabled |-> TRUE, guard |-> None]

\* GtagState; the name of its data layer is the same for all.
NewGtag == [defaults |-> None, consent |-> None, settings |-> NoSettings, measurement_id |-> None]

Init ==
  /\ instances = [a \in Apps |-> NewInstance]
  /\ gtag = NewGtag
  /\ tasks = [t \in Tasks |-> Idle]
  /\ during = [t \in Tasks |-> [f \in Fields |-> {}]]
  /\ received = {} /\ calls = 0 /\ faults = 0
  /\ setter = [f \in Shared |-> None] /\ overlapped = {}

Local == {Options[a] : a \in Apps} \ {None}

TypeOK ==
  /\ \A a \in Apps : /\ instances[a].transport \in [id : Ids \cup Local, endpoint : Endpoints] \cup {NoTransport}
                     /\ instances[a].config \in Ids \cup Local \cup {None} /\ instances[a].enabled \in BOOLEAN
                     /\ instances[a].guard \in Tasks \cup {None}
  /\ \A f \in Shared : setter[f] \in Apps \cup {None}
  /\ gtag.measurement_id \in Ids \cup Local \cup {None} /\ gtag.settings.config \in Maps \cup {None}
  /\ overlapped \subseteq Shared /\ calls \in 0 .. MaxCalls /\ faults \in 0 .. MaxFaults

At(t, op, pc) == tasks[t].op = op /\ tasks[t].pc = pc

Begins(t, a, call) ==
  /\ tasks[t].op = "idle" /\ calls < MaxCalls
  /\ calls' = calls + 1
  /\ tasks' = [tasks EXCEPT ![t] = [call EXCEPT !.app = a, !.id = calls + 1]]

Returns(t) == tasks' = [tasks EXCEPT ![t] = Idle]

\* A field of an instance is set; calls that log on it see the new value, if at all,
\* during the call.
Sets(a, field, value) ==
  /\ instances' = [instances EXCEPT ![a][field] = value]
  /\ during' = [t \in Tasks |-> IF tasks[t].op = "log_event" /\ tasks[t].app = a /\ field \in Fields
                                THEN [during[t] EXCEPT ![field] = @ \cup {value}] ELSE during[t]]

-----------------------------------------------------------------------------
\* Defaults fill in what the event leaves out.
merge_default_event_params(params, defaults) == IF params = None THEN defaults ELSE params

\* log_event: an empty name is refused; the defaults are merged in.
LogEvent(t, a) == \E params \in {"given", None} :
  /\ Begins(t, a, [Idle EXCEPT !.op = "log_event", !.pc = "push", !.arg = params,
                               !.params = merge_default_event_params(params, instances[a].defaults)])
  /\ during' = [during EXCEPT ![t] = [f \in Fields |-> {instances[a][f]}]]
  /\ UNCHANGED <<instances, gtag, received, faults, setter, overlapped>>

\* The event is recorded whether or not it will be sent.
RecordsEvent(t) ==
  /\ At(t, "log_event", "push")
  /\ instances' = [instances EXCEPT ![tasks[t].app].events = Append(@, [id |-> tasks[t].id, params |-> tasks[t].params])]
  /\ tasks' = [tasks EXCEPT ![t].pc = "transport"]
  /\ UNCHANGED <<gtag, during, received, calls, faults, setter, overlapped>>

ReadsTransport(t) ==
  /\ At(t, "log_event", "transport")
  /\ tasks' = [tasks EXCEPT ![t].pc = "enabled", ![t].transport = instances[tasks[t].app].transport]
  /\ UNCHANGED <<instances, gtag, during, received, calls, faults, setter, overlapped>>

may_dispatch(enabled, transport) == enabled /\ transport # NoTransport

\* dispatch_event: not enabled, or no transport, is Ok without a request.
ReadsEnabled(t) ==
  /\ At(t, "log_event", "enabled")
  /\ tasks' = [tasks EXCEPT ![t] =
       IF may_dispatch(instances[@.app].enabled, @.transport) THEN [@ EXCEPT !.pc = "client"]
       ELSE [@ EXCEPT !.pc = "end", !.result = "ok"]]
  /\ UNCHANGED <<instances, gtag, during, received, calls, faults, setter, overlapped>>

ReadsClient(t) ==
  /\ At(t, "log_event", "client")
  /\ tasks' = [tasks EXCEPT ![t].pc = "send", ![t].client = instances[tasks[t].app].client_id]
  /\ UNCHANGED <<instances, gtag, during, received, calls, faults, setter, overlapped>>

delivered(t) == [id |-> tasks[t].id, client |-> tasks[t].client, transport |-> tasks[t].transport, params |-> tasks[t].params]

\* send_event: one request and no retry; an endpoint that does not parse is an error,
\* so is a request or an answer that is lost, and any status but success; a caller
\* that drops the call with its request under way learns no more than that.
SendsEvent(t) ==
  LET delivers == received \cup {delivered(t)}
      ends(sent, result) == tasks' = [tasks EXCEPT ![t].pc = "end", ![t].sent = sent, ![t].result = result] IN
  /\ At(t, "log_event", "send")
  /\ \/ tasks[t].transport.endpoint = "invalid" /\ ends(FALSE, "internal") /\ UNCHANGED <<received, faults>>
     \/ tasks[t].transport.endpoint # "invalid" /\ ends(TRUE, "ok") /\ received' = delivers /\ UNCHANGED faults
     \/ /\ tasks[t].transport.endpoint # "invalid" /\ faults < MaxFaults
        /\ faults' = faults + 1
        /\ \/ ends(TRUE, "network") /\ received' = delivers
           \/ ends(FALSE, "network") /\ UNCHANGED received
  /\ UNCHANGED <<instances, gtag, during, calls, setter, overlapped>>

LogReturns(t) ==
  /\ At(t, "log_event", "end") /\ Returns(t)
  /\ during' = [during EXCEPT ![t] = [f \in Fields |-> {}]]
  /\ UNCHANGED <<instances, gtag, received, calls, faults, setter, overlapped>>

-----------------------------------------------------------------------------
\* set_client_id, set_collection_enabled.
SetClientId(t, a) == \E client \in Clients :
  /\ tasks[t].op = "idle" /\ calls < MaxCalls /\ calls' = calls + 1
  /\ Sets(a, "client_id", client)
  /\ UNCHANGED <<gtag, tasks, received, faults, setter, overlapped>>

SetCollectionEnabled(t, a) == \E enabled \in BOOLEAN :
  /\ tasks[t].op = "idle" /\ calls < MaxCalls /\ calls' = calls + 1
  /\ Sets(a, "enabled", enabled)
  /\ UNCHANGED <<gtag, tasks, received, faults, setter, overlapped>>

\* MeasurementProtocolDispatcher::new refuses an empty id or secret.
dispatcher(id, secret, endpoint) == IF id = "" \/ ~secret THEN NoTransport ELSE [id |-> id, endpoint |-> endpoint]

Configures(a, made) == IF made = NoTransport THEN UNCHANGED <<instances, during>> ELSE Sets(a, "transport", made)

\* configure_measurement_protocol.
Configure(t, a) == \E id \in Ids \cup {""}, secret \in BOOLEAN, endpoint \in Endpoints :
  /\ id = "" \/ ~secret => endpoint = "collect"
  /\ tasks[t].op = "idle" /\ calls < MaxCalls
  /\ calls' = IF dispatcher(id, secret, endpoint) = NoTransport THEN calls ELSE calls + 1
  /\ Configures(a, dispatcher(id, secret, endpoint))
  /\ UNCHANGED <<gtag, tasks, received, faults, setter, overlapped>>

\* A call begins to set a field of gtag: alone, it puts it right.
SharedBy(a, field) ==
  /\ setter' = [setter EXCEPT ![field] = a]
  /\ overlapped' = IF \E t \in Tasks : tasks[t].op = field THEN overlapped \cup {field} ELSE overlapped \ {field}

\* set_default_event_parameters, set_consent_defaults: the instance first.
SetParameters(t, a) == \E field \in {"defaults", "consent"}, value \in Maps :
  /\ Begins(t, a, [Idle EXCEPT !.op = field, !.pc = "gtag", !.arg = value])
  /\ Sets(a, field, value) /\ SharedBy(a, field)
  /\ UNCHANGED <<gtag, received, faults>>

\* Then the registry.
SharesParameters(t) ==
  /\ tasks[t].op \in {"defaults", "consent"}
  /\ gtag' = [gtag EXCEPT ![tasks[t].op] = tasks[t].arg]
  /\ Returns(t)
  /\ UNCHANGED <<instances, during, received, calls, faults, setter, overlapped>>

\* apply_settings merges under the guard of the instance's settings, and copies them
\* to gtag under it, the page-view flag in a second step.
ApplySettings(t, a) == \E config \in Maps \cup {None}, page_view \in {"given", None} :
  /\ instances[a].guard = None
  /\ Begins(t, a, [Idle EXCEPT !.op = "settings", !.pc = "config"])
  /\ instances' = [instances EXCEPT ![a].settings = [config |-> IF config = None THEN @.config ELSE config,
                                                     send_page_view |-> IF page_view = None THEN @.send_page_view ELSE page_view],
                                    ![a].guard = t]
  /\ SharedBy(a, "settings")
  /\ UNCHANGED <<gtag, during, received, faults>>

SharesConfig(t) ==
  /\ At(t, "settings", "config")
  /\ gtag' = [gtag EXCEPT !.settings.config = instances[tasks[t].app].settings.config]
  /\ tasks' = [tasks EXCEPT ![t].pc = "page_view"]
  /\ UNCHANGED <<instances, during, received, calls, faults, setter, overlapped>>

SharesPageView(t) ==
  /\ At(t, "settings", "page_view")
  /\ gtag' = [gtag EXCEPT !.settings.send_page_view = instances[tasks[t].app].settings.send_page_view]
  /\ instances' = [instances EXCEPT ![tasks[t].app].guard = None]
  /\ Returns(t)
  /\ UNCHANGED <<during, received, calls, faults, setter, overlapped>>

\* GtagRegistry::reset.
Reset(t) ==
  /\ tasks[t].op = "idle" /\ calls < MaxCalls /\ calls' = calls + 1
  /\ gtag' = NewGtag /\ setter' = [f \in Shared |-> None]
  /\ UNCHANGED <<instances, tasks, during, received, faults, overlapped>>

-----------------------------------------------------------------------------
\* measurement_config, and configure_measurement_protocol_with_secret that goes on to
\* configure: a cached config is returned.
EnsureConfig(t, a) == \E secret \in {"given", "empty", None}, endpoint \in Endpoints :
  /\ secret # "given" => endpoint = "collect"
  /\ Begins(t, a, [Idle EXCEPT !.op = "measurement_id", !.arg = secret, !.params = instances[a].config,
                               !.transport = [id |-> "", endpoint |-> endpoint],
                               !.pc = IF instances[a].config = None THEN "resolve" ELSE "configure"])
  /\ UNCHANGED <<instances, gtag, during, received, faults, setter, overlapped>>

\* The config mutex is held while gtag is told.
StoresConfig(t, id) ==
  /\ instances' = [instances EXCEPT ![tasks[t].app].config = id]
  /\ gtag' = [gtag EXCEPT !.measurement_id = id]
  /\ setter' = [setter EXCEPT !["measurement_id"] = tasks[t].app]
  /\ tasks' = [tasks EXCEPT ![t].params = id, ![t].pc = "configure"]

\* from_app_options, or else fetch_dynamic_config: options without app_id or api_key,
\* a lost or refused request and an answer without an id are errors.
ResolvesConfig(t) ==
  LET local == Options[tasks[t].app] IN
  /\ At(t, "measurement_id", "resolve")
  /\ \/ local # None /\ StoresConfig(t, local)
     \/ local = None /\ \E id \in Ids : StoresConfig(t, id)
     \/ local = None /\ Returns(t) /\ UNCHANGED <<instances, gtag, setter>>
  /\ UNCHANGED <<during, received, calls, faults, overlapped>>

ConfiguresWithSecret(t) ==
  /\ At(t, "measurement_id", "configure")
  /\ IF tasks[t].arg = None THEN UNCHANGED <<instances, during>>
     ELSE Configures(tasks[t].app, dispatcher(tasks[t].params, tasks[t].arg = "given", tasks[t].transport.endpoint))
  /\ Returns(t)
  /\ UNCHANGED <<gtag, received, calls, faults, setter, overlapped>>

Next ==
  \E t \in Tasks :
    \/ RecordsEvent(t) \/ ReadsTransport(t) \/ ReadsEnabled(t) \/ ReadsClient(t) \/ SendsEvent(t) \/ LogReturns(t)
    \/ SharesParameters(t) \/ SharesConfig(t) \/ SharesPageView(t) \/ ResolvesConfig(t) \/ ConfiguresWithSecret(t)
    \/ Reset(t)
    \/ \E a \in Apps : \/ LogEvent(t, a) \/ SetClientId(t, a) \/ SetCollectionEnabled(t, a) \/ Configure(t, a)
                       \/ SetParameters(t, a) \/ ApplySettings(t, a) \/ EnsureConfig(t, a)

Spec == Init /\ [][Next]_analyticsVars

-----------------------------------------------------------------------------
\* An event reaches the collection endpoint once at most, whatever log_event returned,
\* only if collection was enabled at a moment of the call, and with a client id, a
\* dispatcher and defaults the instance had during the call; it is what the instance
\* has recorded; and a call that returned Ok while collection was enabled and a
\* dispatcher set throughout has sent it.
EventsAreSentAsConfigured ==
  /\ \A e, f \in received : e.id = f.id => e = f
  /\ \A e \in received : \E a \in Apps : [id |-> e.id, params |-> e.params] \in {instances[a].events[n] : n \in DOMAIN instances[a].events}
  /\ \A t \in Tasks : tasks[t].op = "log_event" =>
       LET had(field) == during[t][field]
           mine == {e \in received : e.id = tasks[t].id} IN
       /\ \A e \in mine : /\ TRUE \in had("enabled") /\ e.client \in had("client_id") /\ e.transport \in had("transport")
                          /\ IF tasks[t].arg = None THEN e.params \in had("defaults") ELSE e.params = tasks[t].arg
       /\ tasks[t].result = "ok" /\ FALSE \notin had("enabled") /\ NoTransport \notin had("transport") => mine # {}
       /\ tasks[t].pc \notin {"", "push"} =>
            Cardinality({n \in DOMAIN instances[tasks[t].app].events : instances[tasks[t].app].events[n].id = tasks[t].id}) = 1

\* Between calls that set it, and unless such calls overlapped, each field of the
\* registry all apps share is what the app that set it last keeps itself.
RegistryFollowsItsSetter ==
  \A field \in Shared : setter[field] # None /\ field \notin overlapped /\ (\A t \in Tasks : tasks[t].op # field) =>
    CASE field = "measurement_id" -> gtag.measurement_id = instances[setter[field]].config
      [] OTHER -> gtag[field] = instances[setter[field]][field]
=============================================================================
