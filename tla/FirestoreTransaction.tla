------------------------ MODULE FirestoreTransaction ------------------------
(***************************************************************************)
(* Optimistic read-write transactions of the Firestore client              *)
(* (api/transaction.rs) against a backend that commits atomically.         *)
(*                                                                         *)
(* Every element of Clients is one call of run_transaction: it runs the    *)
(* update closure on a fresh Transaction, seals it, sends one conditional  *)
(* commit and, on a retryable error, starts over.  A document is abstracted*)
(* to its updateTime: Missing, or the number of the commit that last wrote *)
(* it.                                                                     *)
(***************************************************************************)
EXTENDS Integers, Sequences, FiniteSets

CONSTANTS Clients,           \* concurrent calls of run_transaction
          Docs,              \* document keys
          MaxAttempts,       \* TransactionOptions::max_attempts
          MaxStaged,         \* bound: writes staged by one run of a closure
          MaxInterference,   \* bound: versions up to which other writers write
          ReliableBackend,   \* no request or answer is lost or late
          SequentialClosure  \* the closure awaits a read before its next call

ASSUME AttemptsAssumption == MaxAttempts \in Nat
ASSUME BoundsAssumption == MaxStaged \in Nat /\ MaxInterference \in Nat
ASSUME ModesAssumption == ReliableBackend \in BOOLEAN /\ SequentialClosure \in BOOLEAN

VARIABLES store,     \* backend: updateTime of each document
          clock,     \* backend: last commit version handed out
          inflight,  \* commit requests on their way to the backend
          applied,   \* <<client, attempt>> of every commit that was applied
          phase,     \* where run_transaction is
          attempt,   \* run_transaction's count of failed attempts
          reads,     \* Transaction.read_versions
          reading,   \* documents asked for by a get that is being awaited
          written,   \* Transaction.written
          writes     \* Transaction.writes

backendVars == <<store, clock, inflight, applied>>
txnVars == <<reads, reading, written, writes>>
vars == <<backendVars, phase, attempt, txnVars>>

Missing == 0
Unread == -1
Versions == Nat

\* "noop": returned Ok with nothing to commit.
Phases == {"running", "committing", "backoff", "ok", "noop", "err"}
Returned == {"ok", "noop", "err"}

(***************************************************************************)
(* Preconditions and conditional writes (remote/datastore/mod.rs).         *)
(***************************************************************************)
NoPrecondition == [kind |-> "none", version |-> Missing]
Exists(b) == [kind |-> IF b THEN "exists" ELSE "absent", version |-> Missing]
UpdateTime(v) == [kind |-> "updateTime", version |-> v]

Preconditions ==
  [kind : {"none", "exists", "absent", "updateTime"}, version : Versions]

Operations == {"set", "update", "delete"}
WriteOperation == [op : Operations, doc : Docs, pre : Preconditions]
Verification == [doc : Docs, pre : Preconditions]

CommitRequest ==
  [client : Clients, attempt : Nat, writes : Seq(WriteOperation),
   verifies : SUBSET Verification, reads : [Docs -> Versions \cup {Unread}]]

\* check_precondition: does `pre` hold of a document at version `current`?
Holds(pre, current) ==
  CASE pre.kind = "none"       -> TRUE
    [] pre.kind = "exists"     -> current # Missing
    [] pre.kind = "absent"     -> current = Missing
    [] pre.kind = "updateTime" -> current = pre.version

\* The precondition that pins a document to the version that was read.
PinTo(version) == IF version = Missing THEN Exists(FALSE) ELSE UpdateTime(version)

TypeOK ==
  /\ clock \in Nat
  /\ store \in [Docs -> 0 .. clock]
  /\ inflight \subseteq CommitRequest
  /\ applied \subseteq Clients \X Nat
  /\ phase \in [Clients -> Phases]
  /\ attempt \in [Clients -> Nat]
  /\ reads \in [Clients -> [Docs -> Versions \cup {Unread}]]
  /\ reading \in [Clients -> SUBSET Docs]
  /\ written \in [Clients -> SUBSET Docs]
  /\ writes \in [Clients -> Seq(WriteOperation)]

Init ==
  /\ clock = 1
  /\ store \in [Docs -> {Missing, 1}]
  /\ inflight = {}
  /\ applied = {}
  /\ phase = [c \in Clients |-> "running"]
  /\ attempt = [c \in Clients |-> 0]
  /\ reads = [c \in Clients |-> [d \in Docs |-> Unread]]
  /\ reading = [c \in Clients |-> {}]
  /\ written = [c \in Clients |-> {}]
  /\ writes = [c \in Clients |-> <<>>]

(***************************************************************************)
(* Calls the update closure makes on its Transaction.                      *)
(***************************************************************************)
ensure_not_finished(c) == phase[c] = "running"
ensure_reads_allowed(c) == ensure_not_finished(c) /\ writes[c] = <<>>

\* get, get_all: the checks precede the await of batch_get_documents.
Get(c, ds) ==
  /\ ensure_reads_allowed(c)
  /\ reading[c] = {}
  /\ reading' = [reading EXCEPT ![c] = ds]
  /\ UNCHANGED <<backendVars, phase, attempt, reads, written, writes>>

\* record_version over the answered snapshots: the first version read of a
\* document stays, a different one is an error the closure may swallow and
\* that stops the loop, so that documents after it are not recorded.
record_version(c, recorded) ==
  reads' = [reads EXCEPT ![c] =
              [d \in Docs |-> IF d \in recorded /\ reads[c][d] = Unread
                              THEN store[d] ELSE reads[c][d]]]

GetReturns(c) ==
  /\ ensure_not_finished(c)
  /\ reading[c] # {}
  /\ LET changed == {d \in reading[c] : reads[c][d] \notin {Unread, store[d]}}
     IN \E recorded \in SUBSET reading[c] :
          /\ changed = {} => recorded = reading[c]
          /\ record_version(c, recorded \ changed)
  /\ reading' = [reading EXCEPT ![c] = {}]
  /\ UNCHANGED <<backendVars, phase, attempt, written, writes>>

\* precondition_for and precondition_for_update; {} when the call is refused.
precondition_for(c, d) ==
  IF d \in written[c] \/ reads[c][d] = Unread THEN NoPrecondition ELSE PinTo(reads[c][d])

precondition_for_update(c, d) ==
  IF d \in written[c] \/ reads[c][d] = Unread THEN Exists(TRUE) ELSE PinTo(reads[c][d])

stage(c, op, d, pre) ==
  /\ ensure_not_finished(c)
  /\ SequentialClosure => reading[c] = {}
  /\ Len(writes[c]) < MaxStaged
  /\ writes' = [writes EXCEPT ![c] = Append(@, [op |-> op, doc |-> d, pre |-> pre])]
  /\ written' = [written EXCEPT ![c] = @ \cup {d}]
  /\ UNCHANGED <<backendVars, phase, attempt, reads, reading>>

SetDoc(c, d) == stage(c, "set", d, precondition_for(c, d))
DeleteDoc(c, d) == stage(c, "delete", d, precondition_for(c, d))

UpdateDoc(c, d) ==
  /\ d \in written[c] \/ reads[c][d] # Missing
  /\ stage(c, "update", d, precondition_for_update(c, d))

(***************************************************************************)
(* run_transaction after the closure returned.                             *)
(***************************************************************************)
\* The Transaction is sealed and dropped; the next turn makes a fresh one.
fresh_transaction(c) ==
  /\ reads' = [reads EXCEPT ![c] = [d \in Docs |-> Unread]]
  /\ reading' = [reading EXCEPT ![c] = {}]
  /\ written' = [written EXCEPT ![c] = {}]
  /\ writes' = [writes EXCEPT ![c] = <<>>]

\* Mutant of fails: a retryable error does not count as an attempt.
fails_Uncounted(c, code) ==
  /\ attempt' = [attempt EXCEPT ![c] = IF code = "permanent" THEN @ + 1 ELSE @]
  /\ phase' = [phase EXCEPT ![c] = IF code = "permanent" THEN "err" ELSE "backoff"]

\* The error path of the loop: give up, or back off and start over.
fails(c, code) ==
  /\ attempt' = [attempt EXCEPT ![c] = @ + 1]
  /\ phase' = [phase EXCEPT ![c] =
                IF attempt[c] + 1 >= MaxAttempts \/ code = "permanent"
                THEN "err" ELSE "backoff"]

closure_done(c) ==
  /\ phase[c] = "running"
  /\ SequentialClosure => reading[c] = {}

ClosureFails(c, code) ==
  /\ closure_done(c)
  /\ fails(c, code)
  /\ fresh_transaction(c)
  /\ UNCHANGED backendVars

\* Mutant of finish: documents that were only read are not verified.
finish_WithoutVerify(c) ==
  [client |-> c, attempt |-> attempt[c], writes |-> writes[c], verifies |-> {},
   reads |-> reads[c]]

\* finish: staged writes, then a verify entry for each document only read.
finish(c) ==
  [client |-> c, attempt |-> attempt[c], writes |-> writes[c],
   verifies |-> {[doc |-> d, pre |-> PinTo(reads[c][d])] :
                   d \in {e \in Docs : reads[c][e] # Unread /\ e \notin written[c]}},
   reads |-> reads[c]]

\* Mutant of ClosureReturns: a read-only transaction is not committed.
ClosureReturns_SkipsReadOnly(c) ==
  /\ closure_done(c)
  /\ IF finish(c).writes = <<>>
     THEN /\ phase' = [phase EXCEPT ![c] = "ok"]
          /\ UNCHANGED inflight
     ELSE /\ phase' = [phase EXCEPT ![c] = "committing"]
          /\ inflight' = inflight \cup {finish(c)}
  /\ fresh_transaction(c)
  /\ UNCHANGED <<store, clock, applied, attempt>>

ClosureReturns(c) ==
  /\ closure_done(c)
  /\ IF finish(c).writes = <<>> /\ finish(c).verifies = {}
     THEN /\ phase' = [phase EXCEPT ![c] = "noop"]
          /\ UNCHANGED inflight
     ELSE /\ phase' = [phase EXCEPT ![c] = "committing"]
          /\ inflight' = inflight \cup {finish(c)}
  /\ fresh_transaction(c)
  /\ UNCHANGED <<store, clock, applied, attempt>>

\* The next turn of the loop, after the backoff sleep.
Retry(c) ==
  /\ phase[c] = "backoff"
  /\ phase' = [phase EXCEPT ![c] = "running"]
  /\ UNCHANGED <<backendVars, attempt, txnVars>>

(***************************************************************************)
(* The backend.                                                            *)
(***************************************************************************)
\* Mutant of PreconditionsHold: verify entries are not checked.
PreconditionsHold_IgnoresVerify(r) ==
  \A i \in DOMAIN r.writes : Holds(r.writes[i].pre, store[r.writes[i].doc])

PreconditionsHold(r) ==
  /\ \A i \in DOMAIN r.writes : Holds(r.writes[i].pre, store[r.writes[i].doc])
  /\ \A v \in r.verifies : Holds(v.pre, store[v.doc])

WritesOf(r, d) == {i \in DOMAIN r.writes : r.writes[i].doc = d}
LastOf(S) == CHOOSE i \in S : \A j \in S : j <= i
FirstOf(S) == CHOOSE i \in S : \A j \in S : i <= j

\* An update finds its document: the write before it on the same document is
\* no delete, or the document is there already.
UpdatesFindDocs(r) ==
  \A i \in DOMAIN r.writes : r.writes[i].op = "update" =>
    LET earlier == {j \in WritesOf(r, r.writes[i].doc) : j < i}
    IN IF earlier = {} THEN store[r.writes[i].doc] # Missing
       ELSE r.writes[LastOf(earlier)].op # "delete"

\* Mutant of StoreAfter: each write takes a version the clock has not reached.
StoreAfter_AheadOfClock(r, version) ==
  [d \in Docs |-> IF WritesOf(r, d) = {} THEN store[d] ELSE version + 1]

\* apply_write for each entry in order, all at version `version`.
StoreAfter(r, version) ==
  [d \in Docs |-> IF WritesOf(r, d) = {} THEN store[d]
                  ELSE IF r.writes[LastOf(WritesOf(r, d))].op = "delete" THEN Missing
                  ELSE version]

\* Code of the first entry that fails: not-found is permanent, the others
\* (failed-precondition, already-exists) are retryable.
RejectionCode(r) ==
  LET failing == {i \in DOMAIN r.writes : ~Holds(r.writes[i].pre, store[r.writes[i].doc])}
  IN IF PreconditionsHold(r) \/ (failing # {} /\ r.writes[FirstOf(failing)].pre.kind = "exists")
     THEN "permanent" ELSE "retryable"

Awaited(r) == phase[r.client] = "committing" /\ attempt[r.client] = r.attempt

Accepts(r) == PreconditionsHold(r) /\ UpdatesFindDocs(r)

\* Mutant of CommitApplied: undecodable answer metadata becomes an error.
CommitApplied_DecodeError(r) ==
  /\ Accepts(r)
  /\ Awaited(r)
  /\ clock' = clock + 1
  /\ store' = StoreAfter(r, clock + 1)
  /\ applied' = applied \cup {<<r.client, r.attempt>>}
  /\ inflight' = inflight \ {r}
  /\ fails(r.client, "retryable")
  /\ UNCHANGED txnVars

\* The backend applies the whole request and its answer reaches the client.
CommitApplied(r) ==
  /\ Accepts(r)
  /\ clock' = clock + 1
  /\ store' = StoreAfter(r, clock + 1)
  /\ applied' = applied \cup {<<r.client, r.attempt>>}
  /\ inflight' = inflight \ {r}
  /\ \/ /\ Awaited(r)
        /\ phase' = [phase EXCEPT ![r.client] = "ok"]
     \/ /\ ~ReliableBackend
        /\ UNCHANGED phase
  /\ UNCHANGED <<attempt, txnVars>>

CommitRejected(r) ==
  /\ ~Accepts(r)
  /\ inflight' = inflight \ {r}
  /\ \/ /\ Awaited(r)
        /\ fails(r.client, RejectionCode(r))
     \/ /\ ~ReliableBackend
        /\ UNCHANGED <<phase, attempt>>
  /\ UNCHANGED <<store, clock, applied, txnVars>>

\* No answer within request_timeout, or a transport error: the client cannot
\* tell whether its request was, or will still be, applied.  From a reliable
\* backend it is an aborted or refused request, which has no effect.
CommitTimesOut(c) ==
  /\ phase[c] = "committing"
  /\ fails(c, "retryable")
  /\ inflight' = IF ReliableBackend THEN {r \in inflight : r.client # c} ELSE inflight
  /\ UNCHANGED <<store, clock, applied, txnVars>>

\* Another writer outside any transaction (set_doc, delete_doc).
Interfere(d) ==
  /\ \/ /\ clock < MaxInterference
        /\ clock' = clock + 1
        /\ store' = [store EXCEPT ![d] = clock + 1]
     \/ /\ store[d] # Missing
        /\ store' = [store EXCEPT ![d] = Missing]
        /\ UNCHANGED clock
  /\ UNCHANGED <<inflight, applied, phase, attempt, txnVars>>

ClosureStep(c) ==
  \/ \E ds \in SUBSET Docs \ {{}} : Get(c, ds)
  \/ \E d \in Docs : SetDoc(c, d) \/ UpdateDoc(c, d) \/ DeleteDoc(c, d)

ClosureEnds(c) == ClosureReturns(c) \/ \E code \in {"permanent", "retryable"} : ClosureFails(c, code)

Next ==
  \/ \E c \in Clients : ClosureStep(c) \/ GetReturns(c) \/ ClosureEnds(c) \/ Retry(c) \/ CommitTimesOut(c)
  \/ \E r \in inflight : CommitApplied(r) \/ CommitRejected(r)
  \/ \E d \in Docs : Interfere(d)

\* The closure's future completes (SF: a pending read disables its return),
\* the runtime polls awaited calls and timers, and an awaited commit is
\* answered or times out.
Fairness ==
  \A c \in Clients :
    /\ WF_vars(GetReturns(c)) /\ SF_vars(ClosureEnds(c)) /\ WF_vars(Retry(c))
    /\ WF_vars(CommitTimesOut(c)
               \/ \E r \in inflight : r.client = c /\ (CommitApplied(r) \/ CommitRejected(r)))

Spec == Init /\ [][Next]_vars
FairSpec == Spec /\ Fairness
-----------------------------------------------------------------------------
(***************************************************************************)
(* Properties.                                                             *)
(***************************************************************************)
\* Each document the closure read is pinned to the version it read by an
\* entry of the commit: the whole read set reaches the backend (precondition
\* derivation in stage and finish).
Pinned(rs, ws, d) == \E i \in DOMAIN ws : ws[i].doc = d /\ ws[i].pre = PinTo(rs[d])

ReadSetIsSent ==
  \A r \in inflight : \A d \in Docs :
    r.reads[d] # Unread => \/ Pinned(r.reads, r.writes, d)
                           \/ [doc |-> d, pre |-> PinTo(r.reads[d])] \in r.verifies

\* While the closure runs, a document it read and then staged a write for is
\* pinned by one of the staged writes, and a read is only awaited, or
\* recorded, before the first write (stage, ensure_reads_allowed).
StagedReadsArePinned ==
  \A c \in Clients : \A d \in written[c] :
    reads[c][d] # Unread => Pinned(reads[c], writes[c], d)

ReadsPrecedeWrites ==
  \A c \in Clients :
    /\ reading[c] # {} => writes[c] = <<>>
    /\ writes[c] = <<>> => written[c] = {}

\* Requests in flight are those of distinct attempts, and a client whose
\* closure is running has none of its current attempt in flight.
RequestsAreDistinct ==
  /\ \A r, q \in inflight : r.client = q.client /\ r.attempt = q.attempt => r = q
  /\ \A r \in inflight :
       /\ r.attempt <= attempt[r.client]
       /\ phase[r.client] \in {"running", "backoff"} => r.attempt < attempt[r.client]

\* The inductive invariant behind CommitValidatesReads.
ReadSetInv ==
  TypeOK /\ ReadsPrecedeWrites /\ StagedReadsArePinned /\ ReadSetIsSent

\* A commit is applied only if every document its closure read is still at
\* the version it read, so committed transactions are serialisable in commit
\* order and no update is lost (transaction.rs, module documentation).
CommitValidatesReads ==
  [][\A r \in inflight : <<r.client, r.attempt>> \in applied' \ applied =>
       \A d \in Docs : r.reads[d] # Unread => store[d] = r.reads[d]]_vars

\* With a reliable backend a request in flight is the one its client awaits, and
\* what has been applied was the last attempt of a call that returned Ok.
EffectsAreAwaited ==
  /\ \A r \in inflight : Awaited(r)
  /\ \A c \in Clients : \A a \in Nat : <<c, a>> \in applied => phase[c] = "ok" /\ a = attempt[c]

\* One call of run_transaction has its writes applied at most once
\* (should_retry_non_idempotent: commits are not safe to replay).
AppliedAtMostOnce ==
  \A c \in Clients : \A a, b \in 0 .. attempt[c] :
    <<c, a>> \in applied /\ <<c, b>> \in applied => a = b

\* A call of run_transaction that returned an error changed nothing.
ErrorMeansNoEffect ==
  \A c \in Clients : phase[c] = "err" => \A a \in 0 .. attempt[c] : <<c, a>> \notin applied

\* run_transaction returns Ok only when the commit of its last attempt, and
\* with it every staged write, was applied.
OkMeansApplied ==
  \A c \in Clients : phase[c] = "ok" => <<c, attempt[c]>> \in applied

\* Every call of run_transaction returns.
Terminates == \A c \in Clients : <>(phase[c] \in Returned)
=============================================================================
