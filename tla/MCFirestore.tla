---------------------------- MODULE MCFirestore ----------------------------
(***************************************************************************)
(* Firestore's transactions, and the writes of its in-memory store, for    *)
(* TLC.  `part` says which of them a behaviour exercises; the other stays  *)
(* in its initial state.                                                   *)
(***************************************************************************)
EXTENDS FirestoreTransaction, TLC

CONSTANTS Parts,           \* a subset of {"transaction", "writes"}
          Writers,         \* tasks that write to the in-memory store
          MaxTransactions  \* bound: of them in a transaction at once, the other commits are of batches

VARIABLES part,
          documents, versions, tasks, past

\* Data for writes: a number in the place of a map beside a deletion, and an
\* increment within the map beside a union.
V(kind, n, of) == [kind |-> kind, n |-> n, of |-> of]
Whole(n) == V("integer", n, <<>>)

Writes == INSTANCE FirestoreWrites WITH
  Tasks <- Writers, Keys <- {"k"}, MAX_BATCH_WRITES <- 2, MaxWrites <- 3,
  Payloads <- {<<"a">> :> Whole(1) @@ <<"c">> :> V("delete", 0, <<>>),
               <<"a", "b">> :> V("increment", 1, <<Whole(1)>>) @@ <<"c">> :> V("union", 0, <<Whole(1)>>)}

writeVars == <<documents, versions, tasks, past>>
allVars == <<part, vars, writeVars>>

\* One initial state of the part that is not exercised.
FirestoreInit ==
  /\ part \in Parts
  /\ Init /\ Writes!Init
  /\ part # "transaction" => \A d \in Docs : store[d] = 1

FirestoreNext ==
  \/ part = "transaction" /\ Next /\ UNCHANGED <<part, writeVars>>
  \/ /\ part = "writes" /\ Writes!Next /\ UNCHANGED <<part, vars>>
     /\ Cardinality({t \in Writers : tasks'[t].conditional}) <= MaxTransactions

FirestoreSpec == FirestoreInit /\ [][FirestoreNext]_allVars

\* Clients, documents and writers are interchangeable in the safety properties.
Symmetry == Permutations(Clients) \cup Permutations(Docs) \cup Permutations(Writers)
-----------------------------------------------------------------------------
\* An update or a merge does to the stored document what its data says, field
\* by field, and as long as commits to the in-memory store do not overlap a
\* document exists exactly when it has a version (FirestoreWrites).
WritesMeanTheirData ==
  part = "writes" => Writes!TypeOK /\ Writes!WritesMeanTheirData /\ Writes!VersionsTrackDocuments

\* A transaction starts to apply its writes to the versions it read, whatever
\* other commits to the in-memory store do meanwhile (FirestoreWrites).
AppliesToWhatWasRead == part = "writes" => Writes!AppliesToWhatWasRead
=============================================================================
