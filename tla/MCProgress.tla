----------------------------- MODULE MCProgress -----------------------------
(***************************************************************************)
(* What must come to an end, for TLC: the calls on the app registry and on *)
(* the installation of an app, whose callers wait for each other on locks  *)
(* and on a flag, and Firestore over a lossy network: a transaction whose  *)
(* requests and answers are lost or late, a snapshot listener whose        *)
(* streams drop.  `part` says which one a behaviour exercises; the others  *)
(* stay in their initial state.                                            *)
(***************************************************************************)
EXTENDS Installations, FiniteSetsExt

CONSTANTS Service, Version,
          Worker,        \* of the runtime, for detached tasks
          MaxRegistry    \* bound: calls on the registry made by all tasks together

VARIABLES part,
          registered, apps, servers, app, providers, created, locks, job, ops, held, handles, releases, robbed,
          store, clock, inflight, applied, phase, attempt, reads, reading, written, writes,
          hist, backend, channel, drops, listening, token, agg, view, snap, strayed

Apps == INSTANCE AppRegistry WITH
  Threads <- Tasks \cup {Worker}, Names <- {"app"}, ServerNames <- {"server"}, Services <- {Service},
  MaxApps <- 2, MaxOps <- 2, DeleteOnce <- TRUE

Tx == INSTANCE FirestoreTransaction WITH
  Clients <- {"client"}, Docs <- {"doc"}, MaxAttempts <- 3, MaxStaged <- 1, MaxInterference <- 2,
  ReliableBackend <- FALSE, SequentialClosure <- TRUE

Listener == INSTANCE FirestoreListener WITH
  Docs <- {"doc"}, MaxTime <- 3, MaxDrops <- 2, MaxQueued <- 2, ServerMay <- {},
  server <- backend, phase <- listening, past <- strayed

ASSUME Apps!ConstantsOK

appVars == <<registered, apps, servers, app, providers, created, locks, job, ops, held, handles, releases, robbed>>
txVars == <<store, clock, inflight, applied, phase, attempt, reads, reading, written, writes>>
listenerVars == <<hist, backend, channel, drops, listening, token, agg, view, snap, strayed>>
progressVars == <<part, vars, appVars, txVars, listenerVars>>

\* One initial state of the parts that are not exercised.
ProgressInit ==
  /\ part \in {"apps", "installation", "transaction", "listener"}
  /\ Init /\ Apps!Init /\ Tx!Init /\ Listener!Init
  /\ part # "installation" => disk = None
  /\ part # "transaction" => store["doc"] = 1
  /\ part # "listener" => hist[1]["doc"] = 1

InInstalls(A) == part = "installation" /\ A /\ UNCHANGED <<part, appVars, txVars, listenerVars>>
InApps(A) == part = "apps" /\ A /\ UNCHANGED <<part, vars, txVars, listenerVars>>
InTx(A) == part = "transaction" /\ A /\ UNCHANGED <<part, vars, appVars, listenerVars>>
InListener(A) == part = "listener" /\ A /\ UNCHANGED <<part, vars, appVars, txVars>>

ProgressNext ==
  \/ InInstalls(Next)
  \/ InApps(Apps!Next) /\ MapThenSumSet(LAMBDA t : ops'[t], Tasks) <= MaxRegistry
  \/ InTx(Tx!Next)
  \/ InListener(Listener!Next)

\* The fairness of the components' own modules; a behaviour is of one part.
Continues(t) == InApps(Apps!Continues(t)) \/ (t \in Tasks /\ InInstalls(Step(t)))

Answered(c) == \/ Tx!CommitTimesOut(c)
               \/ \E r \in inflight : r.client = c /\ (Tx!CommitApplied(r) \/ Tx!CommitRejected(r))

Fairness ==
  /\ \A t \in Tasks \cup {Worker} : WF_progressVars(Continues(t))
  /\ \A c \in {"client"} : /\ WF_progressVars(InTx(Tx!GetReturns(c))) /\ SF_progressVars(InTx(Tx!ClosureEnds(c)))
                           /\ WF_progressVars(InTx(Tx!Retry(c))) /\ WF_progressVars(InTx(Answered(c)))
  /\ WF_progressVars(InListener(Listener!Open)) /\ WF_progressVars(InListener(Listener!OnMessage))
  /\ WF_progressVars(InListener(Listener!ServerStep))

ProgressSpec == ProgressInit /\ [][ProgressNext]_progressVars /\ Fairness
-----------------------------------------------------------------------------
\* Registered components reach every app, accessors find their service, server
\* apps are counted, and only deleted apps disappear (AppRegistry).
AppsKeepTheirServices ==
  part = "apps" => /\ Apps!TypeOK /\ Apps!RegisteredReachesApps /\ Apps!AccessorFindsService
                   /\ Apps!ReferencesAreCounted /\ Apps!OnlyDeletedAppsAreGone

\* Every call on the registry and on the installation returns, and every task a
\* dropped server app spawned is run: no thread keeps a lock another waits for, and
\* none leaves `initializing` set behind.
Busy(t) == IF part = "apps" THEN Apps!Busy(t) ELSE t \in Tasks /\ ~At(t, "idle")
PlatformCallsReturn == \A t \in Tasks \cup {Worker} : Busy(t) ~> ~Busy(t)

\* run_transaction returns Ok only if the commit of its last attempt was applied
\* (FirestoreTransaction).
OkMeansApplied == part = "transaction" => Tx!OkMeansApplied

\* run_transaction returns (FirestoreTransaction).
TransactionEnds == part = "transaction" => Tx!Terminates

\* Once writes and drops cease the listener reports the final result set and
\* stays with it (FirestoreListener).
Converges == part = "listener" => Listener!Converges
=============================================================================
