----------------------------- MODULE MCDatabase -----------------------------
(***************************************************************************)
(* The Realtime Database's parts, and the queries of Firestore, for TLC.   *)
(* `part` says which part a behaviour exercises; the others stay in their  *)
(* initial state, so that the states explored are the sum of the parts',   *)
(* not their product.                                                      *)
(***************************************************************************)
EXTENDS DatabaseTransaction, Integers, Sequences

CONSTANTS MaxIds, Specs, MaxConns, MaxFaults,
          a, b, MaxListeners,
          MaxNumber, MaxOps,
          Bounds, Limits, MaxConstraints,
          Pushers, Digits, Base, MaxTime

VARIABLES part,
          repoTable, repo, link, conns, repoJobs, repoPast,
          server, wire, mirror, table, jobs, seen, past,
          data, treeMirror, ops, erased,
          params, given, refused,
          clock, push, taken, late, disordered,
          docs, query, pages, steps

Repo == INSTANCE RealtimeRepo WITH table <- repoTable, jobs <- repoJobs, past <- repoPast

Mirror == INSTANCE DatabaseMirror WITH
  Keys <- {a, b},
  Targets <- <<{[kind |-> "query", path |-> {a}], [kind |-> "added", path |-> {a, b}]},
               {[kind |-> "value", path |-> {a, b}]}>>,
  WritePaths <- {{a, b}},
  MaxIds <- MaxListeners,
  MaxRegistering <- 1,
  Writers <- {<<1, "writer">>}

Tree == INSTANCE DatabaseTree WITH
  mirror <- treeMirror, Key <- a, Paths <- {<<>>, <<a>>, <<b>>, <<a, a>>, <<a, a, a>>}

Query == INSTANCE DatabaseQuery
Push == INSTANCE PushId

\* Values for queries of Firestore.
Number(n, repr) == [type |-> 2, rank |-> n, repr |-> repr, of |-> <<>>]
I(n) == Number(n, "integer")
Marker(type) == [type |-> type, rank |-> 0, repr |-> "none", of |-> <<>>]
Doc(x, y) == [a |-> x, b |-> y]

Queries == INSTANCE FirestoreQuery WITH
  Names <- 1 .. 4, Canonical <- <<"a", "b">>, Groups <- <<"cities", "cities", "cities", "other">>,
  Contents <- {<<Doc(I(2), I(1)), Doc(I(1), I(2)), Doc(I(1), I(1)), Doc(I(1), I(1))>>,
               <<Doc(I(2), Number(1, "double")), Doc(I(1), Marker(-1)), Doc(Marker(0), Number(-1, "double")), Doc(I(1), I(1))>>},
  Cursors <- {I(1), I(2)},
  Leaves <- {[field |-> "a", op |-> ">", value |-> I(1)], [field |-> "b", op |-> "!=", value |-> I(1)],
             [field |-> "a", op |-> "in", value |-> [Marker(8) EXCEPT !.of = <<I(1)>>]]},
  MaxDisjunctive <- 2, MaxSteps <- 3

ASSUME ConstantsOK /\ Push!ConstantsOK

repoVars == <<repoTable, repo, link, conns, repoJobs, repoPast>>
mirrorVars == <<server, wire, mirror, table, jobs, seen, past>>
treeVars == <<data, treeMirror, ops, erased>>
queryVars == <<params, given, refused>>
pushVars == <<clock, push, taken, late, disordered>>
docVars == <<docs, query, pages, steps>>

Parts == {"repo", "mirror", "transaction", "tree", "query", "push", "documents"}

DatabaseInit ==
  /\ part \in Parts
  /\ Init /\ Repo!Init /\ Mirror!Init /\ Tree!Init /\ Query!Init /\ Push!Init
  /\ IF part = "documents" THEN Queries!Init /\ query.group = "cities"
     ELSE docs = <<>> /\ query = Queries!NewQuery("cities") /\ pages = <<>> /\ steps = 0

DatabaseNext ==
  \/ part = "repo" /\ Repo!Next /\ UNCHANGED <<part, mirrorVars, txVars, treeVars, queryVars, pushVars, docVars>>
  \/ part = "mirror" /\ ~past.raced /\ Mirror!Next   \* ViewsAreExact says nothing of what follows
     /\ UNCHANGED <<part, repoVars, txVars, treeVars, queryVars, pushVars, docVars>>
  \/ part = "transaction" /\ Next /\ UNCHANGED <<part, repoVars, mirrorVars, treeVars, queryVars, pushVars, docVars>>
  \/ part = "tree" /\ Tree!Next /\ UNCHANGED <<part, repoVars, mirrorVars, txVars, queryVars, pushVars, docVars>>
  \/ part = "query" /\ Query!Next /\ UNCHANGED <<part, repoVars, mirrorVars, txVars, treeVars, pushVars, docVars>>
  \/ part = "push" /\ Push!Next /\ UNCHANGED <<part, repoVars, mirrorVars, txVars, treeVars, queryVars, docVars>>
  \/ part = "documents" /\ Queries!Next
     /\ UNCHANGED <<part, repoVars, mirrorVars, txVars, treeVars, queryVars, pushVars>>

vars == <<part, repoVars, mirrorVars, txVars, treeVars, queryVars, pushVars, docVars>>
DatabaseSpec == DatabaseInit /\ [][DatabaseNext]_vars
-----------------------------------------------------------------------------
\* Once the tasks of register_listener, remove_listener and the reader have
\* returned undisturbed, the server holds exactly the listens of the listeners
\* of the table (RealtimeRepo).
AttachedListenersAreServed == part = "repo" => Repo!TypeOK /\ Repo!AttachedListenersAreServed

\* A listener no update raced with, and which no failed read of a query kept from being
\* called, has been told exactly what the server holds below its path (DatabaseMirror).
ViewsAreExact == part = "mirror" => Mirror!TypeOK /\ Mirror!ViewsAreExact

\* The in-memory backend and the mirror keep the same data (DatabaseTree).
MirrorMatchesBackend == part = "tree" => Tree!TypeOK /\ Tree!MirrorMatchesBackend

\* A query is refused exactly when its constraints clash, and sent as all of
\* them otherwise (DatabaseQuery).
QueryIsItsConstraints == part = "query" => Query!TypeOK /\ Query!QueryIsItsConstraints

\* The request encoded for a query, and its answer turned round for the last
\* documents, are the query's meaning; paging with a document as the cursor
\* neither repeats nor skips one; and with integers and no document as a cursor
\* the in-memory store answers as the backend does (FirestoreQuery).
QueriesMeanTheirResult ==
  part = "documents" => /\ Queries!TypeOK /\ Queries!RequestMeansTheQuery
                        /\ Queries!PagesCoverTheResult /\ Queries!InMemoryAgrees

\* Keys made one after the other sort in that order, until the clock goes back, the
\* digits run over or a thread that read the clock earlier comes second (PushId).
PushIdsIncrease == part = "push" => Push!TypeOK /\ Push!PushIdsIncrease
=============================================================================
