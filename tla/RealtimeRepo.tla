---------------------------- MODULE RealtimeRepo ----------------------------
(***************************************************************************)
(* The listeners of one Database (api.rs), the Repo that counts them and   *)
(* the native websocket transport (realtime/mod.rs).  A call is what one   *)
(* task of the application does with one listener; detaching a listener    *)
(* spawns two more tasks, and each connection has a reader task.  A step   *)
(* is what a task does between two awaits or locks.                        *)
(*                                                                         *)
(* The server (external) holds the listens it was sent on a connection; it *)
(* may refuse one, revoke a credential, or drop the connection.            *)
(***************************************************************************)
EXTENDS Naturals, Sequences, FiniteSets

CONSTANTS MaxIds,    \* bound: listener ids, and other calls, ever made
          Specs,     \* ListenSpec: the paths listened to
          MaxConns,  \* bound: connections ever made
          MaxFaults  \* bound: what goes wrong at the server, the network or the socket

VARIABLES table,     \* DatabaseInner.listeners: id -> spec, or none
          repo,      \* RepoState and active_listens
          link,      \* NativeState: sink, reader, pending, pending_error
          conns,     \* each connection: at the server, and its reader
          jobs,      \* what each task is doing
          past       \* history for the properties

rtVars == <<table, repo, link, conns, jobs, past>>

None == "none"
Ids == 1 .. MaxIds
Conns == 1 .. MaxConns
Tasks == (Ids \X {"call", "unlisten", "offline"}) \cup (Conns \X {"reader"})
Commands == [op : {"listen", "unlisten", "onDisconnect"}, spec : Specs]

\* A job: where it is, what it came for, the command in its hand.
Idle == [pc |-> "idle", goal |-> None, first |-> FALSE, spec |-> None, conn |-> 0, hand |-> <<>>, lost |-> FALSE]

TypeOK ==
  /\ table \in [Ids -> Specs \cup {None}]
  /\ repo \in [online : BOOLEAN, counts : [Specs -> 0 .. Cardinality(Ids)]]
  /\ link.sink \in 0 .. MaxConns /\ link.reader \in 0 .. MaxConns
  /\ link.pending \in Seq(Commands) /\ link.error \in BOOLEAN
  /\ conns \in [Conns -> [made : BOOLEAN, up : BOOLEAN, listens : SUBSET Specs]]
  /\ \A t \in Tasks : /\ jobs[t].spec \in Specs \cup {None} /\ jobs[t].conn \in 0 .. MaxConns
                      /\ Len(jobs[t].hand) <= 1
  /\ past \in [faults : 0 .. MaxFaults, troubled : BOOLEAN, mute : BOOLEAN, begun : 0 .. MaxIds, held : SUBSET Ids]

Init ==
  /\ table = [i \in Ids |-> None]
  /\ repo = [online |-> FALSE, counts |-> [s \in Specs |-> 0]]
  /\ link = [sink |-> 0, reader |-> 0, pending |-> <<>>, error |-> FALSE]
  /\ conns = [c \in Conns |-> [made |-> FALSE, up |-> FALSE, listens |-> {}]]
  /\ jobs = [t \in Tasks |-> Idle]
  /\ past = [faults |-> 0, troubled |-> FALSE, mute |-> FALSE, begun |-> 0, held |-> {}]

At(t, pc) == jobs[t].pc = pc
goes(t, pc) == jobs' = [jobs EXCEPT ![t].pc = pc]
aims(t, pc, goal) == jobs' = [jobs EXCEPT ![t].pc = pc, ![t].goal = goal]
ends(t) == jobs' = [jobs EXCEPT ![t] = Idle]
SinkWorks == IF link.sink = 0 THEN FALSE ELSE conns[link.sink].up
Attached == {i \in Ids : table[i] # None}
Call(i) == <<i, "call">>
Reader(c) == <<c, "reader">>

\* Something this model's positive property does not speak about happened.
trouble == past' = [past EXCEPT !.troubled = TRUE]

\* The registrations under way when a connection is lost or closed.
losing(js) == [t \in Tasks |-> IF js[t].goal = "register" THEN [js[t] EXCEPT !.lost = TRUE] ELSE js[t]]

\* One of the faults of the environment, which are bounded.
fault == past.faults < MaxFaults /\ past' = [past EXCEPT !.faults = @ + 1, !.troubled = TRUE]

\* Another task has counted this path and not queued its command yet.
Unqueued(t) == \E u \in Tasks : At(u, "queue") /\ jobs[u].spec = jobs[t].spec

(***************************************************************************)
(* register_listener                                                       *)
(***************************************************************************)
Begin(i) == i = past.begun + 1 /\ past' = [past EXCEPT !.begun = i]

\* The id is inserted; the first listener takes the database online.
RegisterListener(i, spec) ==
  /\ Begin(i)
  /\ table' = [table EXCEPT ![i] = spec]
  /\ jobs' = [jobs EXCEPT ![Call(i)] =
       [Idle EXCEPT !.pc = IF Attached = {} THEN "goOnline" ELSE "count",
                    !.goal = "register", !.first = (Attached = {}), !.spec = spec]]
  /\ UNCHANGED <<repo, link, conns>>

\* Repo::go_online looks at the state and connects ...
GoOnline(t) ==
  /\ At(t, "goOnline")
  /\ IF repo.online
     THEN goes(t, IF jobs[t].goal = "register" THEN "count" ELSE "after")
     ELSE goes(t, "ensureToConnect")
  /\ UNCHANGED <<table, repo, link, conns, past>>

\* ... then sets it.
SetOnline(t) ==
  /\ At(t, "setOnline")
  /\ repo' = [repo EXCEPT !.online = TRUE]
  /\ goes(t, IF jobs[t].goal = "register" THEN "count" ELSE "after")
  /\ UNCHANGED <<table, link, conns, past>>

\* Mutant of Listen: every listener but the second of its path is sent.
Listen_OffByOne(t) ==
  /\ At(t, "count")
  /\ repo' = [repo EXCEPT !.counts[jobs[t].spec] = @ + 1]
  /\ goes(t, IF repo.counts[jobs[t].spec] = 1 THEN "queue" ELSE "seed")
  /\ past' = [past EXCEPT !.troubled = @ \/ Unqueued(t)]
  /\ UNCHANGED <<table, link, conns>>

\* Repo::listen counts; only the first of a path is sent.
Listen(t) ==
  /\ At(t, "count")
  /\ repo' = [repo EXCEPT !.counts[jobs[t].spec] = @ + 1]
  /\ goes(t, IF repo.counts[jobs[t].spec] = 0 THEN "queue" ELSE "seed")
  /\ past' = [past EXCEPT !.troubled = @ \/ Unqueued(t)]
  /\ UNCHANGED <<table, link, conns>>

\* The transport queues the command before it looks at the connection.  An
\* unlisten does not connect.
Queue(t) ==
  /\ At(t, "queue")
  /\ link' = [link EXCEPT !.pending = Append(@, [op |-> CASE jobs[t].goal = "register" -> "listen"
                                                          [] jobs[t].goal = "disconnectWrite" -> "onDisconnect"
                                                          [] OTHER -> "unlisten",
                                                 spec |-> jobs[t].spec])]
  /\ goes(t, IF jobs[t].goal \in {"register", "disconnectWrite"} THEN "ensureToSend" ELSE "flush")
  /\ UNCHANGED <<table, repo, conns, past>>

\* What follows once the connection is there.
connected(t) == IF At(t, "ensureToConnect") THEN "setOnline" ELSE "flush"

\* What register_listener does with an error: the count is given back, the id
\* removed, and the first listener takes the database offline again.
refused(t) ==
  /\ LET counted == ~At(t, "ensureToConnect") /\ jobs[t].pc \notin {"connectToConnect", "tokensToConnect"}
     IN IF jobs[t].goal = "register"
        THEN /\ table' = [table EXCEPT ![t[1]] = None]
             /\ repo' = IF counted THEN [repo EXCEPT !.counts[jobs[t].spec] = IF @ = 0 THEN 0 ELSE @ - 1] ELSE repo
             /\ IF counted /\ jobs[t].first THEN aims(t, "goOffline", None) ELSE ends(t)
        ELSE ends(t) /\ UNCHANGED <<table, repo>>

(***************************************************************************)
(* ensure_connection and connect_and_listen                                *)
(***************************************************************************)
EnsureConnection(t) ==
  /\ jobs[t].pc \in {"ensureToConnect", "ensureToSend"}
  /\ goes(t, IF link.sink # 0 THEN connected(t)
             ELSE IF At(t, "ensureToConnect") THEN "connectToConnect" ELSE "connectToSend")
  /\ UNCHANGED <<table, repo, link, conns, past>>

Unmade == {c \in Conns : ~conns[c].made}
\* A connect that overlaps another one.
Overlaps(t) == \E u \in Tasks \ {t} : jobs[u].pc \in {"connectToConnect", "connectToSend", "readerToConnect", "readerToSend",
                                                      "tokensToConnect", "tokensToSend"}

\* connect_async succeeds: the sink is stored and the reader task starts.
Connect(t) ==
  /\ jobs[t].pc \in {"connectToConnect", "connectToSend"} /\ Unmade # {}
  /\ LET c == CHOOSE c \in Unmade : \A d \in Unmade : c <= d
     IN /\ conns' = [conns EXCEPT ![c] = [made |-> TRUE, up |-> TRUE, listens |-> {}]]
        /\ link' = [link EXCEPT !.sink = c]
        /\ jobs' = [jobs EXCEPT ![t].pc = IF @ = "connectToConnect" THEN "readerToConnect" ELSE "readerToSend",
                                ![t].conn = c, ![Reader(c)] = [Idle EXCEPT !.pc = "reading"]]
  /\ past' = [past EXCEPT !.troubled = @ \/ Overlaps(t)]
  /\ UNCHANGED <<table, repo>>

ConnectFails(t) ==
  /\ jobs[t].pc \in {"connectToConnect", "connectToSend"}
  /\ refused(t) /\ fault
  /\ UNCHANGED <<link, conns>>

\* The reader's handle replaces an older one, which is aborted.
SetReader(t) ==
  /\ jobs[t].pc \in {"readerToConnect", "readerToSend"}
  /\ link' = [link EXCEPT !.reader = jobs[t].conn]
  /\ jobs' = [u \in Tasks |-> IF u = t THEN [jobs[t] EXCEPT !.pc = IF @ = "readerToConnect" THEN "tokensToConnect" ELSE "tokensToSend"]
                              ELSE IF u = Reader(link.reader) THEN Idle ELSE jobs[u]]
  /\ UNCHANGED <<table, repo, conns, past>>

\* send_initial_tokens, then what is pending is flushed, its error ignored.
SendTokens(t) ==
  /\ jobs[t].pc \in {"tokensToConnect", "tokensToSend"}
  /\ \/ /\ SinkWorks
        /\ goes(t, IF At(t, "tokensToConnect") THEN "flushToConnect" ELSE "flushToSend")
        /\ UNCHANGED <<table, repo, past>>
     \/ SinkWorks /\ refused(t) /\ fault   \* no token to be had
     \/ ~SinkWorks /\ refused(t) /\ trouble
  /\ UNCHANGED <<link, conns>>

(***************************************************************************)
(* flush_pending_state                                                     *)
(***************************************************************************)
\* After a flush: a listener goes on to its seed, other tasks end.
flushed(t) ==
  jobs' = [jobs EXCEPT ![t] = CASE At(t, "flushToConnect") -> [@ EXCEPT !.pc = "setOnline", !.hand = <<>>]
                                [] At(t, "flushToSend") -> [@ EXCEPT !.pc = "flush", !.hand = <<>>]
                                [] jobs[t].goal = "register" -> [@ EXCEPT !.pc = "seed", !.hand = <<>>]
                                [] jobs[t].goal = "revoke" -> [@ EXCEPT !.pc = "revoking", !.hand = <<>>]
                                [] OTHER -> Idle]

\* Pop a command; another task may hold one already.
Pop(t) ==
  /\ jobs[t].pc \in {"flush", "flushToConnect", "flushToSend"} /\ jobs[t].hand = <<>>
  /\ IF link.pending = <<>>
     THEN flushed(t) /\ UNCHANGED <<link, past>>
     ELSE /\ link' = [link EXCEPT !.pending = Tail(@)]
          /\ jobs' = [jobs EXCEPT ![t].hand = <<Head(link.pending)>>]
          /\ past' = [past EXCEPT !.troubled = @ \/ \E u \in Tasks : jobs[u].hand # <<>>]
  /\ UNCHANGED <<table, repo, conns>>

\* The server's view after a command.
received(listens, command) ==
  CASE command.op = "listen" -> listens \cup {command.spec}
    [] command.op = "unlisten" -> listens \ {command.spec}
    [] OTHER -> listens

\* Send it, or put it back in front when there is no sink or the send fails.
Send(t) ==
  /\ jobs[t].hand # <<>>
  /\ LET command == Head(jobs[t].hand)
         back == [link EXCEPT !.pending = <<command>> \o @]
     IN \/ /\ SinkWorks
           /\ conns' = [conns EXCEPT ![link.sink].listens = received(@, command)]
           /\ jobs' = [jobs EXCEPT ![t].hand = <<>>]
           /\ UNCHANGED <<table, repo, link, past>>
        \/ /\ link.sink = 0
           /\ link' = back
           /\ flushed(t)
           /\ trouble /\ UNCHANGED <<table, repo, conns>>
        \/ /\ link.sink # 0 /\ ~SinkWorks
           /\ link' = back
           /\ IF jobs[t].pc \in {"flushToConnect", "flushToSend"} \/ jobs[t].goal = "revoke"   \* the error is ignored or logged
              THEN /\ flushed(t)
                   /\ trouble /\ UNCHANGED <<table, repo>>
              ELSE refused(t) /\ trouble
           /\ UNCHANGED conns

(***************************************************************************)
(* The end of register_listener, and remove_listener                       *)
(***************************************************************************)
\* The removal itself; `unlisten` if the id was there, `go_offline` if it
\* leaves no listener, each in a task of its own.
removes(i) ==
  /\ table' = [table EXCEPT ![i] = None]
  /\ jobs' = [t \in Tasks |->
       CASE t = <<i, "unlisten">> /\ table[i] # None -> [Idle EXCEPT !.pc = "uncount", !.goal = "remove", !.spec = table[i]]
         [] t = <<i, "offline">> /\ Attached \subseteq {i} -> [Idle EXCEPT !.pc = "goOffline"]
         [] t = Call(i) -> Idle
         [] OTHER -> jobs[t]]

\* The path is read over REST; the registration is returned, or undone -- or, when it is
\* the first snapshot of a query that fails, given up with the listener left in the table,
\* where no handle removes it.
Seed(i) ==
  /\ At(Call(i), "seed")
  /\ \/ /\ past' = [past EXCEPT !.held = @ \cup {i}, !.mute = @ \/ (link.sink = 0 /\ ~jobs[Call(i)].lost)]
        /\ ends(Call(i)) /\ UNCHANGED table
     \/ removes(i) /\ UNCHANGED past
     \/ ends(Call(i)) /\ UNCHANGED <<table, past>>
  /\ UNCHANGED <<repo, link, conns>>

\* The registration is dropped or detached.
RemoveListener(i) ==
  /\ i \in past.held
  /\ past' = [past EXCEPT !.held = @ \ {i}]
  /\ removes(i)
  /\ UNCHANGED <<repo, link, conns>>

\* Repo::unlisten
Unlisten(t) ==
  /\ At(t, "uncount")
  /\ LET n == repo.counts[jobs[t].spec]
     IN /\ repo' = [repo EXCEPT !.counts[jobs[t].spec] = IF n = 0 THEN 0 ELSE n - 1]
        /\ IF n = 1 THEN goes(t, "queue") ELSE flushed(t)
  /\ past' = [past EXCEPT !.troubled = @ \/ Unqueued(t)]
  /\ UNCHANGED <<table, link, conns>>

(***************************************************************************)
(* Repo::go_offline and the transport's disconnect                         *)
(***************************************************************************)
\* Closing under a listener or beside another task.
offlineOverlaps(t) ==
  past' = [past EXCEPT !.troubled = @ \/ Attached # {} \/ \E u \in Tasks \ {t} : jobs[u].pc \notin {"idle", "reading"}]

GoOffline(t) ==
  /\ At(t, "goOffline")
  /\ IF repo.online THEN goes(t, "abortReader") ELSE ends(t)
  /\ UNCHANGED <<table, repo, link, conns, past>>

\* The reader is aborted.  A reader that aborts itself goes on until it yields.
AbortReader(t) ==
  /\ At(t, "abortReader")
  /\ link' = [link EXCEPT !.reader = 0]
  /\ jobs' = [u \in Tasks |-> IF u = t THEN [jobs[t] EXCEPT !.pc = "closeSink"]
                              ELSE IF u = Reader(link.reader) THEN Idle ELSE jobs[u]]
  /\ offlineOverlaps(t)
  /\ UNCHANGED <<table, repo, conns>>

\* The sink is taken and closed; the close may fail, or be the yield at which
\* an aborted reader stops: then the state stays Online.
CloseSink(t) ==
  /\ At(t, "closeSink")
  /\ link' = [link EXCEPT !.sink = 0]
  /\ conns' = IF link.sink = 0 THEN conns ELSE [conns EXCEPT ![link.sink].up = FALSE, ![link.sink].listens = {}]
  /\ \/ jobs' = losing([jobs EXCEPT ![t].pc = "setOffline"]) /\ offlineOverlaps(t)
     \/ link.sink # 0 /\ jobs' = losing([jobs EXCEPT ![t] = Idle]) /\ fault
  /\ UNCHANGED <<table, repo>>

SetOffline(t) ==
  /\ At(t, "setOffline")
  /\ repo' = [repo EXCEPT !.online = FALSE]
  /\ ends(t)
  /\ offlineOverlaps(t)
  /\ UNCHANGED <<table, link, conns>>

(***************************************************************************)
(* The application's other calls                                           *)
(***************************************************************************)
OtherCall(i, goal) ==
  /\ Begin(i)
  /\ jobs' = [jobs EXCEPT ![Call(i)] = [Idle EXCEPT !.pc = IF goal = "offline" THEN "goOffline" ELSE "goOnline",
                                                    !.goal = goal, !.spec = CHOOSE spec \in Specs : TRUE]]
  /\ UNCHANGED <<table, repo, link, conns>>

\* OnDisconnect's set, update, remove and cancel.
OnDisconnect(i) == OtherCall(i, "disconnectWrite")

\* on_disconnect_put, _merge and _cancel send a command once online.
AfterOnline(t) ==
  /\ At(t, "after")
  /\ IF jobs[t].goal = "disconnectWrite" THEN goes(t, "queue") ELSE ends(t)
  /\ UNCHANGED <<table, repo, link, conns, past>>

(***************************************************************************)
(* The reader task                                                         *)
(***************************************************************************)
Reading(c) == At(Reader(c), "reading") /\ conns[c].up

\* handle_data_message: a refused listen, or action "c", revokes the listeners
\* of its path.
ServerRefuses(c, spec) ==
  /\ Reading(c) /\ spec \in conns[c].listens /\ past.faults < MaxFaults
  /\ conns' = [conns EXCEPT ![c].listens = @ \ {spec}]
  /\ table' = [i \in Ids |-> IF table[i] = spec THEN None ELSE table[i]]
  /\ LET removed == {i \in Ids : table[i] = spec}
     IN IF removed = {} THEN UNCHANGED jobs
        ELSE jobs' = [jobs EXCEPT ![Reader(c)] = [Idle EXCEPT !.pc = "revoking", !.goal = "revoke", !.spec = spec, !.conn = Cardinality(removed),
                                                      !.first = (\A i \in Ids : table'[i] = None)]]
  /\ past' = [past EXCEPT !.faults = @ + 1, !.held = {i \in @ : table[i] # spec}, !.troubled = TRUE]
  /\ UNCHANGED <<repo, link>>

\* Each revoked listener is unlistened, then go_offline if none is left.
Revoke(c) ==
  /\ At(Reader(c), "revoking")
  /\ jobs' = [jobs EXCEPT ![Reader(c)] =
       IF jobs[Reader(c)].conn > 0 THEN [jobs[Reader(c)] EXCEPT !.pc = "uncount", !.conn = @ - 1]
       ELSE IF jobs[Reader(c)].first THEN [Idle EXCEPT !.pc = "goOffline"] ELSE [Idle EXCEPT !.pc = "reading"]]
  /\ UNCHANGED <<table, repo, link, conns, past>>

\* fail_listeners clears the table and leaves the Repo's counts alone.
fails(n) ==
  /\ table' = [i \in Ids |-> None]
  /\ past' = [past EXCEPT !.held = {}, !.troubled = TRUE, !.faults = @ + n]

\* "ac", "apc": a credential is revoked.
CredentialRevoked(c) ==
  /\ Reading(c) /\ past.faults < MaxFaults
  /\ fails(1)
  /\ UNCHANGED <<repo, link, conns, jobs>>

\* A data action whose handler fails leaves an error for the end.
ActionFails(c) ==
  /\ Reading(c) /\ conns[c].listens # {} /\ ~link.error
  /\ link' = [link EXCEPT !.error = TRUE]
  /\ fault
  /\ UNCHANGED <<table, repo, conns, jobs>>

\* The server or the network ends the connection.
Drop(c) ==
  /\ conns[c].up 
  /\ conns' = [conns EXCEPT ![c].up = FALSE, ![c].listens = {}]
  /\ jobs' = losing(jobs)
  /\ fault
  /\ UNCHANGED <<table, repo, link>>

\* The loop ends: the sink and the handle are cleared, whoever's they are ...
ReaderCloses(c) ==
  /\ At(Reader(c), "reading") /\ ~conns[c].up
  /\ link' = [link EXCEPT !.sink = 0, !.reader = 0]
  /\ jobs' = losing([jobs EXCEPT ![Reader(c)].pc = "reporting"])
  /\ UNCHANGED <<table, repo, conns, past>>

\* ... and a pending error fails the listeners.
ReaderReports(c) ==
  /\ At(Reader(c), "reporting")
  /\ link' = [link EXCEPT !.error = FALSE]
  /\ IF link.error THEN fails(0) ELSE UNCHANGED <<table, past>>
  /\ ends(Reader(c))
  /\ UNCHANGED <<repo, conns>>

CallBegins(i) ==
  \/ \E spec \in Specs : RegisterListener(i, spec)
  \/ OnDisconnect(i) \/ \E goal \in {"online", "offline"} : OtherCall(i, goal)
  \/ Seed(i) \/ RemoveListener(i)

TaskGoesOn(t) ==
  \/ GoOnline(t) \/ SetOnline(t) \/ Listen(t) \/ Queue(t) \/ EnsureConnection(t) \/ Connect(t)
  \/ ConnectFails(t) \/ SetReader(t) \/ SendTokens(t) \/ Pop(t) \/ Send(t)
  \/ Unlisten(t) \/ GoOffline(t) \/ AbortReader(t) \/ CloseSink(t) \/ SetOffline(t) \/ AfterOnline(t)

ReaderSteps(c) ==
  \/ \E spec \in Specs : ServerRefuses(c, spec)
  \/ Revoke(c) \/ CredentialRevoked(c) \/ ActionFails(c) \/ Drop(c) \/ ReaderCloses(c) \/ ReaderReports(c)

Next == \/ \E i \in Ids : CallBegins(i)
        \/ \E t \in Tasks : TaskGoesOn(t)
        \/ \E c \in Conns : ReaderSteps(c)

Spec == Init /\ [][Next]_rtVars
-----------------------------------------------------------------------------
Quiet == \A t \in Tasks : jobs[t].pc \in {"idle", "reading"}
Served == IF link.sink = 0 THEN {} ELSE conns[link.sink].listens

\* Once every task has returned, the server holds exactly the listens of the
\* attached listeners, on the connection that is being read -- unless a call
\* failed, a connection ended, or a connect, a flush or a go_offline overlapped
\* another task.
AttachedListenersAreServed ==
  Quiet /\ ~past.troubled =>
    /\ Served = {table[i] : i \in Attached}
    /\ link.reader = link.sink
    /\ \A s \in Specs : repo.counts[s] = Cardinality({i \in Ids : table[i] = s})

\* The comment in the reader task: "Connection closed; clear sink so future
\* listens can reconnect."  A registration that no connection loss overlaps
\* returns with a connection.
FutureListensReconnect == ~past.mute
=============================================================================
