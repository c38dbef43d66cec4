----------------------------- MODULE AppRegistry -----------------------------
(***************************************************************************)
(* The app registry of firebase-core and the component container of each   *)
(* app.  Threads initialise, delete and look up apps, register components  *)
(* and resolve services; the locks are taken in the order the code takes   *)
(* them: the global app lock, the component map, the app map, the server   *)
(* app map.  A provider, and each field of it, has a mutex of its own that *)
(* is held for one step only.                                              *)
(***************************************************************************)
EXTENDS Naturals, FiniteSets, FiniteSetsExt

CONSTANTS Threads,
          Worker,       \* the one of Threads that runs detached tasks, and makes no calls
          Names,        \* names of apps
          ServerNames,  \* names (hashes) of server apps
          Services,     \* components the products register, all lazy
          Version,      \* the eager component of register_version
          MaxApps,      \* bound: apps and server apps created
          MaxOps,       \* bound: calls a thread makes
          DeleteOnce    \* no caller deletes an app it has deleted before

\* Server apps have their own names; the eager component is none of the products'.
NamesAssumption == Names \cap ServerNames = {}
VersionAssumption == Version \notin Services
WorkerAssumption == Worker \in Threads

VARIABLES registered,  \* global component map
          apps,        \* APPS
          servers,     \* SERVER_APPS
          app,         \* the apps created, by id
          providers,   \* container of each app: component -> provider
          created,     \* ids in use
          locks,       \* holder of each lock
          job,         \* the call each thread is in
          ops,         \* calls made by each thread
          held,        \* references to server apps each thread was given and not given back
          handles,     \* FirebaseServerApps each thread has not dropped
          releases,    \* tasks spawned by a Drop, each to delete an app once
          robbed       \* history: a Drop was to take a reference its handle did not have

vars == <<registered, apps, servers, app, providers, created, locks, job, ops, held, handles, releases, robbed>>
serverVars == <<held, handles, releases, robbed>>

Free == "free"
NoApp == 0
Ids == 1 .. MaxApps
Components == Services \cup {Version}
Locks == {"global", "components", "apps", "servers"}

ConstantsOK == NamesAssumption /\ VersionAssumption /\ WorkerAssumption /\ MaxApps \in Nat /\ Free \notin Threads

Idle == [step |-> "idle", id |-> NoApp, name |-> "none", comp |-> Version, todo |-> {}, then |-> "return"]

\* Provider::new: no component, no instance.  `absent`: not in the container.
NoProvider == [present |-> FALSE, component |-> FALSE, instance |-> FALSE]
NewProvider == [present |-> TRUE, component |-> FALSE, instance |-> FALSE]
EmptyContainer == [c \in Components |-> NoProvider]

\* The part of an app its clones share.  ready: handed to a caller.  asked:
\* some caller has asked for its deletion.  armed: release_on_drop.
NewApp(name) == [name |-> name, refs |-> 1, ready |-> FALSE, deleted |-> FALSE, asked |-> FALSE, armed |-> FALSE]
Unused == [NewApp("none") EXCEPT !.refs = 0]

Steps == {"idle", "initLock", "initPublish", "initAttach", "serverBuild", "serverPublish", "serverArm",
          "regLock", "regApps", "regAdd", "regServers", "attach", "get", "create", "teardown", "found", "missing"}

TypeOK ==
  /\ registered \subseteq Components
  /\ apps \in [Names -> 0 .. MaxApps] /\ servers \in [ServerNames -> 0 .. MaxApps]
  /\ created \in 0 .. MaxApps
  /\ app \in [Ids -> [name : Names \cup ServerNames \cup {"none"}, refs : Nat,
                      ready : BOOLEAN, deleted : BOOLEAN, asked : BOOLEAN, armed : BOOLEAN]]
  /\ providers \in [Ids -> [Components -> [present : BOOLEAN, component : BOOLEAN, instance : BOOLEAN]]]
  /\ locks \in [Locks -> Threads \cup {Free}]
  /\ job \in [Threads -> [step : Steps, id : 0 .. MaxApps, name : Names \cup ServerNames \cup {"none"},
                          comp : Components, todo : SUBSET (Ids \cup Components), then : {"return", "attach"}]]
  /\ ops \in [Threads -> 0 .. MaxOps]
  /\ held \in [Threads -> [Ids -> Nat]] /\ handles \in [Threads -> [Ids -> Nat]]
  /\ releases \in [Ids -> Nat] /\ robbed \in BOOLEAN

Init ==
  /\ registered = {}
  /\ apps = [n \in Names |-> NoApp] /\ servers = [n \in ServerNames |-> NoApp]
  /\ created = 0
  /\ app = [x \in Ids |-> Unused]
  /\ providers = [x \in Ids |-> EmptyContainer]
  /\ locks = [l \in Locks |-> Free]
  /\ job = [t \in Threads |-> Idle]
  /\ ops = [t \in Threads |-> 0]
  /\ held = [t \in Threads |-> [x \in Ids |-> 0]] /\ handles = held
  /\ releases = [x \in Ids |-> 0] /\ robbed = FALSE

(***************************************************************************)
(* The container.                                                          *)
(***************************************************************************)
\* get_provider: found or created under one lock.
get_provider(container, c) ==
  IF container[c].present THEN container ELSE [container EXCEPT ![c] = NewProvider]

\* add_component: the first component set stays; an eager one is built.
add_component(container, c) ==
  LET found == get_provider(container, c)
  IN IF found[c].component THEN found
     ELSE [found EXCEPT ![c].component = TRUE, ![c].instance = @ \/ c = Version]

Live(table) == {table[n] : n \in DOMAIN table} \ {NoApp}

(***************************************************************************)
(* Calls.                                                                  *)
(***************************************************************************)
starts(t, j) == job[t] = Idle /\ job' = [job EXCEPT ![t] = j]

\* The thread makes a call.
calls(t) ==
  /\ t # Worker /\ ops[t] < MaxOps
  /\ ops' = [ops EXCEPT ![t] = @ + 1]

begin(t, j) == starts(t, j) /\ calls(t)

at(t, step) == job[t].step = step
goto(t, step) == job' = [job EXCEPT ![t].step = step]
returns(t) == job' = [job EXCEPT ![t] = Idle]

acquire(t, l) == locks[l] = Free /\ locks' = [locks EXCEPT ![l] = t]
release(t) == [l \in Locks |-> IF locks[l] = t THEN Free ELSE locks[l]]

(***************************************************************************)
(* initialize_app                                                          *)
(***************************************************************************)
initialize_app(t, n) ==
  /\ created < MaxApps
  /\ acquire(t, "global")
  /\ created' = created + 1
  /\ app' = [app EXCEPT ![created + 1] = NewApp(n)]
  /\ begin(t, [Idle EXCEPT !.step = "initLock", !.id = created + 1, !.name = n])
  /\ UNCHANGED <<registered, apps, servers, providers, serverVars>>

\* Mutant of InitLock: the app map is locked before the component map.
InitLock_AppsFirst(t) ==
  /\ at(t, "initLock")
  /\ acquire(t, "apps")
  /\ goto(t, "initPublish")
  /\ UNCHANGED <<registered, apps, servers, app, providers, created, ops, serverVars>>

InitLock(t) ==
  /\ at(t, "initLock")
  /\ acquire(t, "components")
  /\ goto(t, "initPublish")
  /\ UNCHANGED <<registered, apps, servers, app, providers, created, ops, serverVars>>

\* The existing app or, its options differing, DuplicateApp; else the new app published together with the
\* snapshot of the components.
InitPublish(t) ==
  /\ at(t, "initPublish")
  /\ locks["components"] \in {Free, t} /\ locks["apps"] \in {Free, t}
  /\ IF apps[job[t].name] # NoApp
     THEN /\ returns(t)
          /\ locks' = release(t)
          /\ UNCHANGED apps
     ELSE /\ apps' = [apps EXCEPT ![job[t].name] = job[t].id]
          /\ job' = [job EXCEPT ![t].step = "initAttach", ![t].todo = registered]
          /\ locks' = [release(t) EXCEPT !["global"] = t]
  /\ UNCHANGED <<registered, servers, app, providers, created, ops, serverVars>>

InitAttach(t) ==
  /\ at(t, "initAttach")
  /\ \/ \E c \in job[t].todo :
          /\ providers' = [providers EXCEPT ![job[t].id] = add_component(@, c)]
          /\ job' = [job EXCEPT ![t].todo = @ \ {c}]
          /\ UNCHANGED <<app, locks>>
     \/ /\ job[t].todo = {}
        /\ app' = [app EXCEPT ![job[t].id].ready = TRUE]
        /\ locks' = release(t)
        /\ returns(t)
        /\ UNCHANGED providers
  /\ UNCHANGED <<registered, apps, servers, created, ops, serverVars>>

(***************************************************************************)
(* initialize_server_app                                                   *)
(***************************************************************************)
\* The existing app is handed out once more.
reuse(t, x) ==
  /\ held' = [held EXCEPT ![t][x] = @ + 1]
  /\ handles' = [handles EXCEPT ![t][x] = @ + 1]

\* The first look under the global lock.  FirebaseServerApp::new arms an app that is to
\* be released on its drop.
initialize_server_app(t, n, release_on_deref) ==
  /\ locks["global"] = Free
  /\ IF servers[n] # NoApp
     THEN /\ begin(t, Idle) /\ reuse(t, servers[n])
          /\ app' = [app EXCEPT ![servers[n]].refs = @ + 1, ![servers[n]].armed = @ \/ release_on_deref]
          /\ UNCHANGED created
     ELSE /\ created < MaxApps
          /\ created' = created + 1
          /\ app' = [app EXCEPT ![created + 1] = [NewApp(n) EXCEPT !.armed = release_on_deref]]
          /\ begin(t, [Idle EXCEPT !.step = "serverBuild", !.id = created + 1, !.name = n])
          /\ UNCHANGED <<held, handles>>
  /\ UNCHANGED <<registered, apps, servers, providers, locks, releases, robbed>>

\* The container is filled from the component map, not yet published.
ServerBuild(t) ==
  /\ at(t, "serverBuild")
  /\ locks["components"] = Free
  /\ providers' = [providers EXCEPT ![job[t].id] =
                     [c \in Components |-> IF c \in registered THEN add_component(@, c)[c] ELSE @[c]]]
  /\ goto(t, "serverPublish")
  /\ UNCHANGED <<registered, apps, servers, app, created, locks, ops, serverVars>>

\* The second look and the insert; then register_version of "serverapp".  Who comes
\* second drops the app it built, whose Drop, if armed, spawns the deletion of its name.
ServerPublish(t) ==
  /\ at(t, "serverPublish")
  /\ locks["global"] = Free /\ locks["servers"] = Free
  /\ LET found == servers[job[t].name]
         built == job[t].id
         release_on_deref == app[built].armed
     IN IF found # NoApp
        THEN /\ reuse(t, found)
             /\ app' = [app EXCEPT ![found].refs = @ + 1, ![found].armed = @ \/ release_on_deref,
                                   ![built].armed = FALSE]
             /\ releases' = IF release_on_deref THEN [releases EXCEPT ![built] = @ + 1] ELSE releases
             /\ robbed' = (robbed \/ release_on_deref)
             /\ returns(t)
             /\ UNCHANGED servers
        ELSE /\ servers' = [servers EXCEPT ![job[t].name] = built]
             /\ reuse(t, built)
             /\ app' = [app EXCEPT ![built].ready = TRUE]
             /\ job' = [job EXCEPT ![t].step = IF release_on_deref THEN "serverArm" ELSE "regLock",
                                   ![t].comp = Version]
             /\ UNCHANGED <<releases, robbed>>
  /\ UNCHANGED <<registered, apps, providers, created, locks, ops>>

\* set_release_on_drop once more, no longer under the lock.
ServerArm(t) ==
  /\ at(t, "serverArm")
  /\ app' = [app EXCEPT ![job[t].id].armed = TRUE]
  /\ goto(t, "regLock")
  /\ UNCHANGED <<registered, apps, servers, providers, created, locks, ops, serverVars>>

\* Drop for FirebaseServerApp (of an app that is not armed it does nothing): the first
\* handle dropped spawns the deletion, which takes back the reference that came with the
\* handle, if it is still there.
DropHandle(t, x) ==
  /\ job[t] = Idle /\ handles[t][x] > 0
  /\ app[x].armed /\ ~app[x].deleted
  /\ handles' = [handles EXCEPT ![t][x] = @ - 1]
  /\ app' = [app EXCEPT ![x].armed = FALSE]
  /\ releases' = [releases EXCEPT ![x] = @ + 1]
  /\ held' = IF held[t][x] > 0 THEN [held EXCEPT ![t][x] = @ - 1] ELSE held
  /\ robbed' = (robbed \/ held[t][x] = 0)
  /\ UNCHANGED <<registered, apps, servers, providers, created, locks, job, ops>>

(***************************************************************************)
(* register_component, register_version, and what a product's accessor     *)
(* does: register, attach to the app, resolve.                             *)
(***************************************************************************)
register_version(t) ==
  /\ begin(t, [Idle EXCEPT !.step = "regLock", !.comp = Version])
  /\ UNCHANGED <<registered, apps, servers, app, providers, created, locks, serverVars>>

\* On an app the caller holds, or finds with get_app.
get_service(t, x, c) ==
  /\ app[x].ready \/ (x \in Live(apps) /\ locks["global"] = Free)
  /\ begin(t, [Idle EXCEPT !.step = "regLock", !.id = x, !.comp = c, !.then = "attach"])
  /\ UNCHANGED <<registered, apps, servers, app, providers, created, locks, serverVars>>

\* register_version holds the global lock, register_service does not.
RegLock(t) ==
  /\ at(t, "regLock")
  /\ locks["components"] = Free
  /\ job[t].comp = Version => locks["global"] = Free
  /\ locks' = [l \in Locks |-> IF l = "components" \/ (l = "global" /\ job[t].comp = Version) THEN t ELSE locks[l]]
  /\ registered' = registered \cup {job[t].comp}
  /\ goto(t, "regApps")
  /\ UNCHANGED <<apps, servers, app, providers, created, ops, serverVars>>

\* Mutant of RegApps: apps that are still being initialised are left out.
RegApps_SkipsUnfinished(t) ==
  /\ at(t, "regApps")
  /\ acquire(t, "apps")
  /\ job' = [job EXCEPT ![t].step = "regAdd", ![t].todo = {x \in Live(apps) : app[x].ready}]
  /\ UNCHANGED <<registered, apps, servers, app, providers, created, ops, serverVars>>

RegApps(t) ==
  /\ at(t, "regApps")
  /\ acquire(t, "apps")
  /\ job' = [job EXCEPT ![t].step = "regAdd", ![t].todo = Live(apps)]
  /\ UNCHANGED <<registered, apps, servers, app, providers, created, ops, serverVars>>

\* add_component for each app of the map that is locked.
RegAdd(t) ==
  /\ at(t, "regAdd")
  /\ \E x \in job[t].todo :
       /\ providers' = [providers EXCEPT ![x] = add_component(@, job[t].comp)]
       /\ job' = [job EXCEPT ![t].todo = @ \ {x}]
  /\ UNCHANGED <<registered, apps, servers, app, created, locks, ops, serverVars>>

RegServers(t) ==
  /\ at(t, "regAdd") /\ job[t].todo = {} /\ locks["apps"] = t
  /\ locks["servers"] = Free
  /\ locks' = [locks EXCEPT !["apps"] = Free, !["servers"] = t]
  /\ job' = [job EXCEPT ![t].todo = Live(servers)]
  /\ UNCHANGED <<registered, apps, servers, app, providers, created, ops, serverVars>>

RegEnds(t) ==
  /\ at(t, "regAdd") /\ job[t].todo = {} /\ locks["servers"] = t
  /\ locks' = release(t)
  /\ IF job[t].then = "attach" THEN goto(t, "attach") ELSE returns(t)
  /\ UNCHANGED <<registered, apps, servers, app, providers, created, ops, serverVars>>

\* attach_service
Attach(t) ==
  /\ at(t, "attach")
  /\ locks["components"] = Free
  /\ job[t].comp \in registered
  /\ providers' = [providers EXCEPT ![job[t].id] = add_component(@, job[t].comp)]
  /\ goto(t, "get")
  /\ UNCHANGED <<registered, apps, servers, app, created, locks, ops, serverVars>>

\* service_provider(..).get(): get_provider, then the cached instance, or the
\* component's factory, or None.
Get(t) ==
  /\ at(t, "get")
  /\ LET container == get_provider(providers[job[t].id], job[t].comp)
     IN /\ providers' = [providers EXCEPT ![job[t].id] = container]
        /\ goto(t, IF container[job[t].comp].instance THEN "found"
                   ELSE IF container[job[t].comp].component THEN "create" ELSE "missing")
  /\ UNCHANGED <<registered, apps, servers, app, created, locks, ops, serverVars>>

\* The factory returned: its instance is stored and handed out.
Create(t) ==
  /\ at(t, "create")
  /\ providers' = [providers EXCEPT ![job[t].id][job[t].comp].instance = TRUE]
  /\ goto(t, "found")
  /\ UNCHANGED <<registered, apps, servers, app, created, locks, ops, serverVars>>

Resolved(t) ==
  /\ at(t, "found") \/ at(t, "missing")
  /\ returns(t)
  /\ UNCHANGED <<registered, apps, servers, app, providers, created, locks, ops, serverVars>>

(***************************************************************************)
(* delete_app: by name from APPS, else one reference of the server app     *)
(* that has the name now.                                                  *)
(***************************************************************************)
teardown(t, x, cleanup) ==
  IF cleanup
  THEN /\ starts(t, [Idle EXCEPT !.step = "teardown", !.id = x,
                                 !.todo = {c \in Components : providers[x][c].present}])
       /\ locks' = [locks EXCEPT !["global"] = t]
  ELSE starts(t, Idle) /\ UNCHANGED locks

deletes_app(t, x) ==
  /\ apps' = [apps EXCEPT ![app[x].name] = NoApp]
  /\ app' = [app EXCEPT ![x].asked = TRUE]
  /\ teardown(t, x, apps[app[x].name] # NoApp)
  /\ UNCHANGED servers

\* The last reference takes the app out of the registry and disarms it; it is the app
\* that was passed whose services are torn down.
deletes_server_app(t, x) ==
  /\ locks["servers"] = Free
  /\ LET found == servers[app[x].name]
         last == found # NoApp /\ app[found].refs = 1
     IN /\ app' = IF found = NoApp THEN app
                  ELSE [app EXCEPT ![found].refs = @ - 1, ![found].armed = @ /\ ~last]
        /\ servers' = IF last THEN [servers EXCEPT ![app[x].name] = NoApp] ELSE servers
        /\ teardown(t, x, last)
  /\ UNCHANGED apps

delete_app(t, x) ==
  /\ app[x].ready
  /\ locks["global"] = Free /\ locks["apps"] = Free
  /\ calls(t)
  /\ IF app[x].name \in Names
     THEN (DeleteOnce => ~app[x].asked) /\ deletes_app(t, x) /\ UNCHANGED held
     ELSE /\ held[t][x] > 0
          /\ held' = [held EXCEPT ![t][x] = @ - 1]
          /\ deletes_server_app(t, x)
  /\ UNCHANGED <<registered, providers, created, handles, releases, robbed>>

\* The task a Drop has spawned.
Release(t, x) ==
  /\ t = Worker /\ releases[x] > 0
  /\ locks["global"] = Free /\ locks["apps"] = Free
  /\ releases' = [releases EXCEPT ![x] = @ - 1]
  /\ deletes_server_app(t, x)
  /\ UNCHANGED <<registered, providers, created, ops, held, handles, robbed>>

\* Provider::delete for each provider, then set_is_deleted.
Teardown(t) ==
  /\ at(t, "teardown")
  /\ \/ \E c \in job[t].todo :
          /\ providers' = [providers EXCEPT ![job[t].id][c].instance = FALSE]
          /\ job' = [job EXCEPT ![t].todo = @ \ {c}]
          /\ UNCHANGED <<app, locks>>
     \/ /\ job[t].todo = {}
        /\ app' = [app EXCEPT ![job[t].id].deleted = TRUE]
        /\ locks' = release(t)
        /\ returns(t)
        /\ UNCHANGED providers
  /\ UNCHANGED <<registered, apps, servers, created, ops, serverVars>>

Begins(t) ==
  \/ \E n \in Names : initialize_app(t, n)
  \/ \E n \in ServerNames, release_on_deref \in BOOLEAN : initialize_server_app(t, n, release_on_deref)
  \/ \E x \in Ids : \E c \in Services : get_service(t, x, c)
  \/ \E x \in Ids : delete_app(t, x) \/ DropHandle(t, x)
  \/ register_version(t)

Continues(t) ==
  \/ InitLock(t) \/ InitPublish(t) \/ InitAttach(t) \/ ServerBuild(t) \/ ServerPublish(t)
  \/ ServerArm(t) \/ (\E x \in Ids : Release(t, x))
  \/ RegLock(t) \/ RegApps(t) \/ RegAdd(t) \/ RegServers(t) \/ RegEnds(t)
  \/ Attach(t) \/ Get(t) \/ Create(t) \/ Resolved(t) \/ Teardown(t)

Next == \E t \in Threads : Begins(t) \/ Continues(t)

\* A thread inside a call keeps running; callers need not call.
Spec == Init /\ [][Next]_vars /\ \A t \in Threads : WF_vars(Continues(t))
-----------------------------------------------------------------------------
(***************************************************************************)
(* Properties.                                                             *)
(***************************************************************************)
Initialising(x) == \E t \in Threads : job[t].id = x /\ at(t, "initAttach")

\* A component registered while an app is being initialised is never lost:
\* outside both calls, every registered component is set on every app of the
\* registry (register_component and initialize_app share their locks).
RegisteredReachesApps ==
  locks["components"] = Free =>
    \A x \in Live(apps) : ~Initialising(x) => \A c \in registered : providers[x][c].component

\* A product's accessor never finds its own service missing, on an app or a
\* server app, whoever else registers, initialises or looks it up.
AccessorFindsService == \A t \in Threads : ~at(t, "missing")

\* The reference count of a server app is the number of references given out and not
\* yet taken back, by delete_app or by the task of a Drop, and while there is one the
\* registry knows the app: two racing initialize_server_app calls share it.  `robbed`
\* excepts what a Drop takes that is not its handle's: the reference of the app that was
\* published, for the one that came second, and another's, after the handle's own was deleted.
ReferencesAreCounted ==
  \A x \in Ids : app[x].name \in ServerNames /\ app[x].ready /\ ~robbed =>
    /\ app[x].refs = MapThenSumSet(LAMBDA t : held[t][x], Threads) + releases[x]
    /\ app[x].refs > 0 => servers[app[x].name] = x

\* An app disappears from the registry only by its own deletion: one that was
\* handed out is registered, or a caller has asked for its deletion
\* (delete_app: "Deletes the provided FirebaseApp").
OnlyDeletedAppsAreGone ==
  \A x \in Ids : app[x].name \in Names /\ app[x].ready => apps[app[x].name] = x \/ app[x].asked

\* A thread is in a call, or the worker has a task to run.
Busy(t) == job[t] # Idle \/ (t = Worker /\ \E x \in Ids : releases[x] > 0)
=============================================================================
