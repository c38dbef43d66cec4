--------------------- MODULE FirestoreTransactionProofs ---------------------
(***************************************************************************)
(* What holds of FirestoreTransaction for any set of clients and documents *)
(* and any number of attempts, lost and late answers included: type        *)
(* correctness; for closures that await their reads, that a commit is      *)
(* applied only over the versions its closure read; and that a transaction *)
(* that returned Ok was applied.  That it was applied once, and not at all *)
(* when it returned an error, needs a backend that answers each commit.    *)
(*                                                                         *)
(* The last part is about RestRequests, the transport under it: commits    *)
(* are not replayed and retries carry a fresh token.                       *)
(***************************************************************************)
EXTENDS FirestoreTransaction, TLAPS

\* The requests that carry reads and commits to the backend, with the credentials
\* of an app; a commit has taken effect `effects` times.
CONSTANTS Calls, Keys, Existing, Lists, Refusals, max_attempts, MaxFaults
VARIABLES sources, calls, effects, faults
Rest == INSTANCE RestRequests WITH applied <- effects
-----------------------------------------------------------------------------
\* A pin holds of exactly the version it was made from (PinTo, Holds).
LEMMA PinIsExact ==
  ASSUME NEW v \in Versions, NEW current \in Versions
  PROVE  Holds(PinTo(v), current) <=> current = v
  BY DEF Holds, PinTo, Exists, UpdateTime, Missing, Versions

\* The preconditions staging derives are preconditions.
LEMMA PreconditionTypes ==
  ASSUME TypeOK, NEW c \in Clients, NEW d \in Docs
  PROVE  /\ precondition_for(c, d) \in Preconditions
         /\ precondition_for_update(c, d) \in Preconditions
         /\ reads[c][d] # Unread => PinTo(reads[c][d]) \in Preconditions
  BY DEF TypeOK, precondition_for, precondition_for_update, NoPrecondition,
         Exists, UpdateTime, PinTo, Preconditions, Versions, Missing, Unread

\* finish builds a commit request.
LEMMA FinishType ==
  ASSUME TypeOK, NEW c \in Clients
  PROVE  finish(c) \in CommitRequest
<1>1. {[doc |-> d, pre |-> PinTo(reads[c][d])] :
         d \in {e \in Docs : reads[c][e] # Unread /\ e \notin written[c]}} \in SUBSET Verification
  BY PreconditionTypes DEF Verification
<1> QED
  BY <1>1 DEF finish, CommitRequest, TypeOK

\* Applying a request gives every document a version the clock has reached.
LEMMA StoreAfterType ==
  ASSUME TypeOK, NEW r \in CommitRequest
  PROVE  StoreAfter(r, clock + 1) \in [Docs -> 0 .. clock + 1]
  BY DEF TypeOK, StoreAfter, Missing

\* The next attempt's Transaction is well typed.
LEMMA FreshTransactionType ==
  ASSUME TypeOK, NEW c \in Clients, fresh_transaction(c)
  PROVE  /\ reads' \in [Clients -> [Docs -> Versions \cup {Unread}]]
         /\ reading' \in [Clients -> SUBSET Docs]
         /\ written' \in [Clients -> SUBSET Docs]
         /\ writes' \in [Clients -> Seq(WriteOperation)]
  BY DEF TypeOK, fresh_transaction

\* The error path of run_transaction keeps phase and attempt well typed.
LEMMA FailsType ==
  ASSUME TypeOK, NEW c \in Clients, NEW code, fails(c, code)
  PROVE  phase' \in [Clients -> Phases] /\ attempt' \in [Clients -> Nat]
  BY DEF TypeOK, fails, Phases

\* Staging a write keeps the transaction well typed.
LEMMA StageType ==
  ASSUME TypeOK, NEW c \in Clients, NEW d \in Docs, NEW op \in Operations,
         NEW pre \in Preconditions, stage(c, op, d, pre)
  PROVE  TypeOK'
<1>1. [op |-> op, doc |-> d, pre |-> pre] \in WriteOperation
  BY DEF WriteOperation
<1> QED
  BY <1>1 DEF TypeOK, stage, backendVars

\* Every step of the specification keeps the type invariant.
LEMMA TypeStep ==
  ASSUME TypeOK, [Next]_vars
  PROVE  TypeOK'
<1>1. ASSUME NEW c \in Clients, NEW ds \in SUBSET Docs, Get(c, ds) PROVE TypeOK'
  BY <1>1 DEF TypeOK, Get, backendVars
<1>2. ASSUME NEW c \in Clients, GetReturns(c) PROVE TypeOK'
  <2>1. reads' \in [Clients -> [Docs -> Versions \cup {Unread}]]
    BY <1>2 DEF TypeOK, GetReturns, record_version, Versions
  <2>2. reading' \in [Clients -> SUBSET Docs]
    BY <1>2 DEF TypeOK, GetReturns
  <2> QED BY <1>2, <2>1, <2>2 DEF TypeOK, GetReturns, backendVars
<1>3. ASSUME NEW c \in Clients, NEW d \in Docs, SetDoc(c, d) \/ UpdateDoc(c, d) \/ DeleteDoc(c, d)
      PROVE  TypeOK'
  BY <1>3, StageType, PreconditionTypes DEF SetDoc, UpdateDoc, DeleteDoc, Operations
<1>4. ASSUME NEW c \in Clients, NEW code, ClosureFails(c, code) PROVE TypeOK'
  BY <1>4, FailsType, FreshTransactionType DEF TypeOK, ClosureFails, backendVars
<1>5. ASSUME NEW c \in Clients, ClosureReturns(c) PROVE TypeOK'
  <2>1. phase' \in [Clients -> Phases]
    <3>1. \/ phase' = [phase EXCEPT ![c] = "noop"]
          \/ phase' = [phase EXCEPT ![c] = "committing"]
      BY <1>5 DEF ClosureReturns
    <3> QED BY <3>1 DEF TypeOK, Phases
  <2>2. inflight' \subseteq CommitRequest
    BY <1>5, FinishType DEF TypeOK, ClosureReturns
  <2> QED
    BY <1>5, <2>1, <2>2, FreshTransactionType DEF TypeOK, ClosureReturns
<1>6. ASSUME NEW c \in Clients, Retry(c) PROVE TypeOK'
  BY <1>6 DEF TypeOK, Retry, Phases, backendVars, txnVars
<1>7. ASSUME NEW c \in Clients, CommitTimesOut(c) PROVE TypeOK'
  BY <1>7, FailsType DEF TypeOK, CommitTimesOut, backendVars, txnVars
<1>8. ASSUME NEW r \in inflight, CommitApplied(r) PROVE TypeOK'
  <2>1. r \in CommitRequest /\ r.client \in Clients /\ r.attempt \in Nat
    BY DEF TypeOK, CommitRequest
  <2>2. store' \in [Docs -> 0 .. clock'] /\ clock' \in Nat
    BY <1>8, <2>1, StoreAfterType DEF TypeOK, CommitApplied
  <2>3. applied' \subseteq Clients \X Nat /\ inflight' \subseteq CommitRequest
    BY <1>8, <2>1 DEF TypeOK, CommitApplied
  <2>4. phase' \in [Clients -> Phases]
    <3>1. phase' = [phase EXCEPT ![r.client] = "ok"] \/ phase' = phase
      BY <1>8 DEF CommitApplied
    <3> QED BY <2>1, <3>1 DEF TypeOK, Phases
  <2> QED
    BY <1>8, <2>2, <2>3, <2>4 DEF TypeOK, CommitApplied, txnVars
<1>9. ASSUME NEW r \in inflight, CommitRejected(r) PROVE TypeOK'
  <2>1. r.client \in Clients
    BY DEF TypeOK, CommitRequest
  <2>2. phase' \in [Clients -> Phases] /\ attempt' \in [Clients -> Nat]
    <3>1. fails(r.client, RejectionCode(r)) \/ UNCHANGED <<phase, attempt>>
      BY <1>9 DEF CommitRejected
    <3>2. CASE UNCHANGED <<phase, attempt>>
      BY <3>2 DEF TypeOK
    <3> QED BY <2>1, <3>1, <3>2, FailsType
  <2> QED
    BY <1>9, <2>2 DEF TypeOK, CommitRejected, txnVars
<1>10. ASSUME NEW d \in Docs, Interfere(d) PROVE TypeOK'
  <2>1. store' \in [Docs -> 0 .. clock'] /\ clock' \in Nat
    <3>1. \/ clock' = clock + 1 /\ store' = [store EXCEPT ![d] = clock + 1]
          \/ clock' = clock /\ store' = [store EXCEPT ![d] = 0]
      BY <1>10 DEF Interfere, Missing
    <3>2. CASE clock' = clock + 1 /\ store' = [store EXCEPT ![d] = clock + 1]
      <4>1. clock \in Nat /\ store \in [Docs -> 0 .. clock]
        BY DEF TypeOK
      <4>2. 0 .. clock \subseteq 0 .. clock + 1 /\ clock + 1 \in 0 .. clock + 1
        BY <4>1
      <4> QED BY <3>2, <4>1, <4>2
    <3>3. CASE clock' = clock /\ store' = [store EXCEPT ![d] = 0]
      BY <3>3 DEF TypeOK
    <3> QED BY <3>1, <3>2, <3>3
  <2> QED
    BY <1>10, <2>1 DEF TypeOK, Interfere, txnVars
<1>11. CASE UNCHANGED vars
  BY <1>11 DEF TypeOK, vars, backendVars, txnVars
<1> QED
  BY <1>1, <1>2, <1>3, <1>4, <1>5, <1>6, <1>7, <1>8, <1>9, <1>10, <1>11
     DEF Next, ClosureStep, ClosureEnds

\* Init satisfies the type invariant.
LEMMA TypeInit == Init => TypeOK
  BY DEF Init, TypeOK, Missing, Unread, Phases

\* Type correctness of run_transaction, Transaction and the backend.
THEOREM TypeCorrect == Spec => []TypeOK
<1>1. TypeOK /\ [Next]_vars => TypeOK'
  BY TypeStep
<1> QED
  BY TypeInit, <1>1, PTL DEF Spec
-----------------------------------------------------------------------------
\* Staging a write pins the document to what was read, unless an earlier
\* staged write already does.
LEMMA StagePins ==
  ASSUME ReadSetInv, NEW c \in Clients, NEW d \in Docs, NEW op \in Operations,
         NEW pre \in Preconditions, stage(c, op, d, pre),
         d \notin written[c] /\ reads[c][d] # Unread => pre = PinTo(reads[c][d]),
         reading[c] = {}
  PROVE  ReadsPrecedeWrites' /\ StagedReadsArePinned' /\ ReadSetIsSent'
<1> DEFINE w == [op |-> op, doc |-> d, pre |-> pre]
<1>1. writes' = [writes EXCEPT ![c] = Append(@, w)] /\ written' = [written EXCEPT ![c] = @ \cup {d}]
      /\ UNCHANGED <<reads, reading, inflight>> /\ w \in WriteOperation
  BY DEF stage, backendVars, WriteOperation
<1>2. writes[c] \in Seq(WriteOperation) /\ writes'[c] = Append(writes[c], w)
  BY <1>1 DEF ReadSetInv, TypeOK
<1>3. /\ writes'[c] # <<>>
      /\ DOMAIN writes[c] \subseteq DOMAIN writes'[c]
      /\ \A i \in DOMAIN writes[c] : writes'[c][i] = writes[c][i]
      /\ Len(writes[c]) + 1 \in DOMAIN writes'[c]
      /\ writes'[c][Len(writes[c]) + 1] = w
  BY <1>1, <1>2
<1>4. ReadsPrecedeWrites'
  BY <1>1, <1>3 DEF ReadsPrecedeWrites, ReadSetInv, TypeOK
<1>5. ASSUME NEW b \in Clients, NEW e \in written'[b], reads'[b][e] # Unread
      PROVE  Pinned(reads'[b], writes'[b], e)
  <2>1. CASE b # c
    BY <1>1, <1>5, <2>1 DEF ReadSetInv, TypeOK, StagedReadsArePinned
  <2>2. CASE b = c /\ e \in written[c]
    <3>1. Pinned(reads[c], writes[c], e)
      BY <1>1, <1>5, <2>2 DEF ReadSetInv, StagedReadsArePinned
    <3> QED BY <1>1, <1>3, <2>2, <3>1 DEF Pinned
  <2>3. CASE b = c /\ e \notin written[c]
    <3>1. e = d /\ pre = PinTo(reads[c][d])
      BY <1>1, <1>5, <2>3 DEF ReadSetInv, TypeOK
    <3> QED BY <1>1, <1>3, <2>3, <3>1 DEF Pinned
  <2> QED BY <2>1, <2>2, <2>3
<1>6. StagedReadsArePinned'
  BY <1>5 DEF StagedReadsArePinned
<1>7. ReadSetIsSent'
  BY <1>1 DEF ReadSetInv, ReadSetIsSent
<1> QED BY <1>4, <1>6, <1>7

\* A fresh Transaction has read and written nothing.
LEMMA FreshPins ==
  ASSUME ReadSetInv, NEW c \in Clients, fresh_transaction(c)
  PROVE  ReadsPrecedeWrites' /\ StagedReadsArePinned'
<1>1. \A b \in Clients : b # c => /\ reads'[b] = reads[b] /\ reading'[b] = reading[b]
                                  /\ written'[b] = written[b] /\ writes'[b] = writes[b]
  BY DEF ReadSetInv, TypeOK, fresh_transaction
<1>2. reading'[c] = {} /\ written'[c] = {} /\ writes'[c] = <<>>
  BY DEF ReadSetInv, TypeOK, fresh_transaction
<1> QED
  BY <1>1, <1>2 DEF ReadSetInv, ReadsPrecedeWrites, StagedReadsArePinned, Pinned

\* The request finish builds pins the whole read set.
LEMMA FinishSendsReadSet ==
  ASSUME ReadSetInv, NEW c \in Clients, NEW d \in Docs, reads[c][d] # Unread
  PROVE  \/ Pinned(finish(c).reads, finish(c).writes, d)
         \/ [doc |-> d, pre |-> PinTo(finish(c).reads[d])] \in finish(c).verifies
<1>1. CASE d \in written[c]
  BY <1>1 DEF ReadSetInv, StagedReadsArePinned, finish
<1>2. CASE d \notin written[c]
  BY <1>2 DEF finish
<1> QED BY <1>1, <1>2

\* With a closure that awaits its reads, every step keeps ReadSetInv.
LEMMA ReadSetStep ==
  ASSUME SequentialClosure, ReadSetInv, [Next]_vars
  PROVE  ReadSetInv'
<1>0. TypeOK /\ TypeOK'
  BY TypeStep DEF ReadSetInv
<1>1. ASSUME NEW c \in Clients, NEW ds \in SUBSET Docs, Get(c, ds) PROVE ReadSetInv'
  <2>1. ReadsPrecedeWrites'
    BY <1>0, <1>1 DEF Get, ensure_reads_allowed, ReadSetInv, ReadsPrecedeWrites, TypeOK
  <2> QED
    BY <1>0, <1>1, <2>1 DEF Get, backendVars, ReadSetInv, StagedReadsArePinned, ReadSetIsSent
<1>2. ASSUME NEW c \in Clients, GetReturns(c) PROVE ReadSetInv'
  <2>1. written[c] = {}
    BY <1>2 DEF GetReturns, ReadSetInv, ReadsPrecedeWrites
  <2>2. \A b \in Clients : b # c => reads'[b] = reads[b] /\ reading'[b] = reading[b]
    BY <1>0, <1>2 DEF GetReturns, record_version, TypeOK
  <2>3. reading'[c] = {} /\ UNCHANGED <<written, writes, inflight>>
    BY <1>0, <1>2 DEF GetReturns, TypeOK, backendVars
  <2>4. ReadsPrecedeWrites'
    BY <2>2, <2>3 DEF ReadSetInv, ReadsPrecedeWrites
  <2>5. StagedReadsArePinned'
    BY <2>1, <2>2, <2>3 DEF ReadSetInv, StagedReadsArePinned
  <2> QED
    BY <1>0, <2>3, <2>4, <2>5 DEF ReadSetInv, ReadSetIsSent
<1>3. ASSUME NEW c \in Clients, NEW d \in Docs, SetDoc(c, d) \/ DeleteDoc(c, d) PROVE ReadSetInv'
  <2>1. PICK op \in Operations : stage(c, op, d, precondition_for(c, d))
    BY <1>3 DEF SetDoc, DeleteDoc, Operations
  <2>2. reading[c] = {}
    BY <2>1 DEF stage
  <2>3. d \notin written[c] /\ reads[c][d] # Unread => precondition_for(c, d) = PinTo(reads[c][d])
    BY DEF precondition_for
  <2> QED BY <1>0, <2>1, <2>2, <2>3, StagePins, PreconditionTypes DEF ReadSetInv
<1>4. ASSUME NEW c \in Clients, NEW d \in Docs, UpdateDoc(c, d) PROVE ReadSetInv'
  <2>1. stage(c, "update", d, precondition_for_update(c, d)) /\ "update" \in Operations
    BY <1>4 DEF UpdateDoc, Operations
  <2>2. reading[c] = {}
    BY <2>1 DEF stage
  <2>3. d \notin written[c] /\ reads[c][d] # Unread => precondition_for_update(c, d) = PinTo(reads[c][d])
    BY DEF precondition_for_update
  <2> QED BY <1>0, <2>1, <2>2, <2>3, StagePins, PreconditionTypes DEF ReadSetInv
<1>5. ASSUME NEW c \in Clients, NEW code, ClosureFails(c, code) PROVE ReadSetInv'
  BY <1>0, <1>5, FreshPins DEF ClosureFails, backendVars, ReadSetInv, ReadSetIsSent
<1>6. ASSUME NEW c \in Clients, ClosureReturns(c) PROVE ReadSetInv'
  <2>1. inflight' \subseteq inflight \cup {finish(c)}
    BY <1>6 DEF ClosureReturns
  <2>2. finish(c).reads = reads[c]
    BY DEF finish
  <2>3. ReadSetIsSent'
    BY <2>1, <2>2, FinishSendsReadSet DEF ReadSetInv, ReadSetIsSent
  <2> QED BY <1>0, <1>6, <2>3, FreshPins DEF ClosureReturns, ReadSetInv
<1>7. ASSUME UNCHANGED txnVars, inflight' \subseteq inflight PROVE ReadSetInv'
  BY <1>0, <1>7 DEF txnVars, ReadSetInv, ReadsPrecedeWrites, StagedReadsArePinned, ReadSetIsSent
<1>8. ASSUME NEW c \in Clients, Retry(c) \/ CommitTimesOut(c) PROVE ReadSetInv'
  BY <1>7, <1>8 DEF Retry, CommitTimesOut, backendVars
<1>9. ASSUME NEW r \in inflight, CommitApplied(r) \/ CommitRejected(r) PROVE ReadSetInv'
  BY <1>7, <1>9 DEF CommitApplied, CommitRejected
<1>10. ASSUME NEW d \in Docs, Interfere(d) PROVE ReadSetInv'
  BY <1>7, <1>10 DEF Interfere
<1>11. CASE UNCHANGED vars
  BY <1>7, <1>11 DEF vars, backendVars
<1> QED
  BY <1>1, <1>2, <1>3, <1>4, <1>5, <1>6, <1>8, <1>9, <1>10, <1>11
     DEF Next, ClosureStep, ClosureEnds

\* Init satisfies ReadSetInv.
LEMMA ReadSetInit == Init => ReadSetInv
  BY TypeInit DEF Init, ReadSetInv, ReadsPrecedeWrites, StagedReadsArePinned, ReadSetIsSent

\* A request the backend accepts finds every document its closure read at
\* the version it read.
LEMMA AcceptedReadsAreCurrent ==
  ASSUME ReadSetInv, NEW r \in inflight, Accepts(r), NEW d \in Docs, r.reads[d] # Unread
  PROVE  store[d] = r.reads[d]
<1>1. r.reads[d] \in Versions /\ store[d] \in Versions
  BY DEF ReadSetInv, TypeOK, CommitRequest, Versions, Unread
<1>2. Holds(PinTo(r.reads[d]), store[d])
  <2>1. CASE Pinned(r.reads, r.writes, d)
    BY <2>1 DEF Pinned, Accepts, PreconditionsHold
  <2>2. CASE [doc |-> d, pre |-> PinTo(r.reads[d])] \in r.verifies
    BY <2>2 DEF Accepts, PreconditionsHold
  <2> QED BY <2>1, <2>2 DEF ReadSetInv, ReadSetIsSent
<1> QED BY <1>1, <1>2, PinIsExact

\* The whole read set of every closure reaches the backend.
THEOREM ReadSetSent ==
  ASSUME SequentialClosure
  PROVE  Spec => []ReadSetIsSent
<1>1. ReadSetInv /\ [Next]_vars => ReadSetInv'
  BY ReadSetStep
<1>2. ReadSetInv => ReadSetIsSent
  BY DEF ReadSetInv
<1> QED BY ReadSetInit, <1>1, <1>2, PTL DEF Spec

\* The error path counts an attempt.
LEMMA FailsCounts ==
  ASSUME TypeOK, NEW c \in Clients, NEW code, fails(c, code)
  PROVE  /\ attempt' = [attempt EXCEPT ![c] = attempt[c] + 1]
         /\ \A b \in Clients : b # c => phase'[b] = phase[b] /\ attempt'[b] = attempt[b]
         /\ attempt'[c] = attempt[c] + 1
  BY DEF TypeOK, fails

\* Every step keeps the requests in flight distinct.
LEMMA DistinctStep ==
  ASSUME TypeOK, RequestsAreDistinct, [Next]_vars
  PROVE  RequestsAreDistinct'
<1>0. /\ \A r \in inflight : r.client \in Clients /\ r.attempt \in Nat
      /\ \A c \in Clients : attempt[c] \in Nat
  BY DEF TypeOK, CommitRequest
<1>1. ASSUME inflight' \subseteq inflight, UNCHANGED <<phase, attempt>>
      PROVE  RequestsAreDistinct'
  BY <1>1 DEF RequestsAreDistinct
<1>2. ASSUME NEW c \in Clients, NEW code, fails(c, code), inflight' \subseteq inflight
      PROVE  RequestsAreDistinct'
  BY <1>0, <1>2, FailsCounts DEF RequestsAreDistinct
<1>3. ASSUME NEW c \in Clients, ClosureReturns(c) PROVE RequestsAreDistinct'
  <2>1. /\ inflight' \subseteq inflight \cup {finish(c)}
        /\ UNCHANGED attempt
        /\ phase[c] = "running"
        /\ phase'[c] \in {"noop", "committing"}
        /\ \A b \in Clients : b # c => phase'[b] = phase[b]
    BY <1>3 DEF ClosureReturns, closure_done, TypeOK
  <2>2. finish(c).client = c /\ finish(c).attempt = attempt[c]
    BY DEF finish
  <2>3. \A r \in inflight : r.client = c => r.attempt < attempt[c]
    BY <2>1 DEF RequestsAreDistinct
  <2>4. \A r, q \in inflight' : r.client = q.client /\ r.attempt = q.attempt => r = q
    BY <1>0, <2>1, <2>2, <2>3 DEF RequestsAreDistinct
  <2>5. ASSUME NEW r \in inflight'
        PROVE /\ r.attempt <= attempt'[r.client]
              /\ phase'[r.client] \in {"running", "backoff"} => r.attempt < attempt'[r.client]
    <3>1. CASE r = finish(c)
      BY <1>0, <2>1, <2>2, <3>1
    <3>2. CASE r \in inflight
      BY <1>0, <2>1, <3>2 DEF RequestsAreDistinct
    <3> QED BY <2>1, <3>1, <3>2
  <2> QED BY <2>4, <2>5 DEF RequestsAreDistinct
<1>4. ASSUME NEW c \in Clients, Retry(c) PROVE RequestsAreDistinct'
  BY <1>0, <1>4 DEF Retry, RequestsAreDistinct, TypeOK, backendVars
<1>5. ASSUME NEW r \in inflight, CommitApplied(r) PROVE RequestsAreDistinct'
  <2>1. inflight' \subseteq inflight /\ UNCHANGED attempt
    BY <1>5 DEF CommitApplied
  <2>2. phase' = phase \/ phase' = [phase EXCEPT ![r.client] = "ok"]
    BY <1>5 DEF CommitApplied
  <2> QED BY <1>0, <2>1, <2>2 DEF RequestsAreDistinct, TypeOK
<1>6. ASSUME NEW r \in inflight, CommitRejected(r) PROVE RequestsAreDistinct'
  <2>1. inflight' \subseteq inflight /\ (fails(r.client, RejectionCode(r)) \/ UNCHANGED <<phase, attempt>>)
    BY <1>6 DEF CommitRejected
  <2> QED BY <1>0, <1>1, <1>2, <2>1
<1>7. ASSUME NEW c \in Clients, CommitTimesOut(c) PROVE RequestsAreDistinct'
  BY <1>2, <1>7 DEF CommitTimesOut, backendVars
<1>8. ASSUME NEW c \in Clients, NEW code, ClosureFails(c, code) PROVE RequestsAreDistinct'
  BY <1>2, <1>8 DEF ClosureFails, backendVars
<1>9. ASSUME NEW c \in Clients, ClosureStep(c) \/ GetReturns(c) PROVE RequestsAreDistinct'
  BY <1>1, <1>9 DEF ClosureStep, Get, GetReturns, SetDoc, UpdateDoc, DeleteDoc, stage, backendVars
<1>10. ASSUME NEW d \in Docs, Interfere(d) PROVE RequestsAreDistinct'
  BY <1>1, <1>10 DEF Interfere
<1>11. CASE UNCHANGED vars
  BY <1>1, <1>11 DEF vars, backendVars
<1> QED
  BY <1>3, <1>4, <1>5, <1>6, <1>7, <1>8, <1>9, <1>10, <1>11 DEF Next, ClosureEnds

\* Init has no request in flight.
LEMMA DistinctInit == Init => RequestsAreDistinct
  BY DEF Init, RequestsAreDistinct

\* The step of CommitValidatesReads: what takes effect was validated.
LEMMA ValidatingStep ==
  ASSUME ReadSetInv, RequestsAreDistinct, [Next]_vars, NEW r \in inflight,
         <<r.client, r.attempt>> \in applied' \ applied,
         NEW d \in Docs, r.reads[d] # Unread
  PROVE  store[d] = r.reads[d]
<1>1. ASSUME NEW q \in inflight, CommitApplied(q) PROVE store[d] = r.reads[d]
  <2>1. <<r.client, r.attempt>> = <<q.client, q.attempt>>
    BY <1>1 DEF CommitApplied
  <2>2. r = q
    BY <2>1 DEF RequestsAreDistinct
  <2> QED BY <1>1, <2>2, AcceptedReadsAreCurrent DEF CommitApplied
<1>2. ASSUME applied' = applied PROVE FALSE
  BY <1>2
<1> QED
  BY <1>1, <1>2
     DEF Next, ClosureStep, ClosureEnds, Get, GetReturns, SetDoc, UpdateDoc, DeleteDoc, stage,
         ClosureFails, ClosureReturns, Retry, CommitTimesOut, CommitRejected, Interfere, vars, backendVars

\* Serialisability: a commit is applied only over the versions its closure
\* read, however clients, other writers, retries and lost answers interleave.
THEOREM CommitsValidateReads ==
  ASSUME SequentialClosure
  PROVE  Spec => CommitValidatesReads
<1>1. ReadSetInv /\ [Next]_vars => ReadSetInv'
  BY ReadSetStep
<1>2. ReadSetInv /\ RequestsAreDistinct /\ [Next]_vars => RequestsAreDistinct'
  BY DistinctStep DEF ReadSetInv
<1>3. ReadSetInv /\ RequestsAreDistinct /\ [Next]_vars =>
        [\A r \in inflight : <<r.client, r.attempt>> \in applied' \ applied =>
           \A d \in Docs : r.reads[d] # Unread => store[d] = r.reads[d]]_vars
  BY ValidatingStep
<1> QED BY ReadSetInit, DistinctInit, <1>1, <1>2, <1>3, PTL DEF Spec, CommitValidatesReads
-----------------------------------------------------------------------------
\* run_transaction has returned Ok only for a call whose last commit was applied.
LEMMA OkStep ==
  ASSUME TypeOK, OkMeansApplied, [Next]_vars
  PROVE  OkMeansApplied'
<1>0. \A r \in inflight : r.client \in Clients /\ r.attempt \in Nat
  BY DEF TypeOK, CommitRequest
<1>1. ASSUME UNCHANGED <<phase, attempt, applied>> PROVE OkMeansApplied'
  BY <1>1 DEF OkMeansApplied
<1>2. ASSUME NEW c \in Clients, NEW code, fails(c, code), UNCHANGED applied PROVE OkMeansApplied'
  <2>1. phase'[c] # "ok"
    BY <1>2 DEF fails, TypeOK
  <2> QED BY <1>2, <2>1, FailsCounts DEF OkMeansApplied
<1>3. ASSUME NEW c \in Clients, ClosureReturns(c) PROVE OkMeansApplied'
  <2>1. phase'[c] # "ok" /\ (\A b \in Clients : b # c => phase'[b] = phase[b])
    BY <1>3 DEF ClosureReturns, TypeOK
  <2> QED BY <1>3, <2>1 DEF ClosureReturns, OkMeansApplied
<1>4. ASSUME NEW c \in Clients, Retry(c) PROVE OkMeansApplied'
  BY <1>4 DEF Retry, OkMeansApplied, TypeOK, backendVars
<1>5. ASSUME NEW r \in inflight, CommitApplied(r) PROVE OkMeansApplied'
  <2>1. applied \subseteq applied' /\ <<r.client, r.attempt>> \in applied' /\ UNCHANGED attempt
    BY <1>5 DEF CommitApplied
  <2>2. CASE Awaited(r) /\ phase' = [phase EXCEPT ![r.client] = "ok"]
    BY <1>0, <2>1, <2>2 DEF OkMeansApplied, Awaited, TypeOK
  <2>3. CASE UNCHANGED phase
    BY <2>1, <2>3 DEF OkMeansApplied
  <2> QED BY <1>5, <2>2, <2>3 DEF CommitApplied
<1>6. ASSUME NEW r \in inflight, CommitRejected(r) PROVE OkMeansApplied'
  BY <1>0, <1>1, <1>2, <1>6 DEF CommitRejected
<1>7. ASSUME NEW c \in Clients, CommitTimesOut(c) PROVE OkMeansApplied'
  BY <1>2, <1>7 DEF CommitTimesOut
<1>8. ASSUME NEW c \in Clients, NEW code, ClosureFails(c, code) PROVE OkMeansApplied'
  BY <1>2, <1>8 DEF ClosureFails, backendVars
<1>9. ASSUME NEW c \in Clients, ClosureStep(c) \/ GetReturns(c) PROVE OkMeansApplied'
  BY <1>1, <1>9 DEF ClosureStep, Get, GetReturns, SetDoc, UpdateDoc, DeleteDoc, stage, backendVars
<1>10. ASSUME NEW d \in Docs, Interfere(d) PROVE OkMeansApplied'
  BY <1>1, <1>10 DEF Interfere
<1>11. CASE UNCHANGED vars
  BY <1>1, <1>11 DEF vars, backendVars
<1> QED
  BY <1>3, <1>4, <1>5, <1>6, <1>7, <1>8, <1>9, <1>10, <1>11 DEF Next, ClosureEnds

\* Also when requests and answers are lost or late, a call of run_transaction that
\* returned Ok had the commit of its last attempt applied.
THEOREM OkIsApplied == Spec => []OkMeansApplied
<1>1. Init => OkMeansApplied
  BY DEF Init, OkMeansApplied
<1>2. TypeOK /\ OkMeansApplied /\ [Next]_vars => OkMeansApplied'
  BY OkStep
<1> QED BY <1>1, <1>2, TypeCorrect, PTL DEF Spec

\* With a reliable backend every step keeps requests awaited and effects those of
\* calls that returned Ok.
LEMMA EffectStep ==
  ASSUME ReliableBackend, TypeOK, RequestsAreDistinct, EffectsAreAwaited, [Next]_vars
  PROVE  EffectsAreAwaited'
<1>0. /\ \A r \in inflight : r.client \in Clients /\ r.attempt \in Nat
      /\ \A c \in Clients : attempt[c] \in Nat
  BY DEF TypeOK, CommitRequest
<1>1. ASSUME inflight' \subseteq inflight, UNCHANGED <<phase, attempt, applied>> PROVE EffectsAreAwaited'
  BY <1>1 DEF EffectsAreAwaited, Awaited
<1>2. ASSUME NEW c \in Clients, NEW code, fails(c, code), phase[c] # "ok", UNCHANGED applied,
             inflight' \subseteq inflight, \A r \in inflight' : r.client # c
      PROVE  EffectsAreAwaited'
  <2>1. \A b \in Clients : b # c => phase'[b] = phase[b] /\ attempt'[b] = attempt[b]
    BY <1>2, FailsCounts
  <2>2. \A r \in inflight' : Awaited(r)'
    BY <1>0, <1>2, <2>1 DEF EffectsAreAwaited, Awaited
  <2>3. \A a \in Nat : <<c, a>> \notin applied
    BY <1>2 DEF EffectsAreAwaited
  <2> QED BY <1>2, <2>1, <2>2, <2>3 DEF EffectsAreAwaited
<1>3. ASSUME NEW c \in Clients, ClosureReturns(c) PROVE EffectsAreAwaited'
  <2>1. /\ phase[c] = "running" /\ UNCHANGED <<attempt, applied>>
        /\ \A b \in Clients : b # c => phase'[b] = phase[b]
        /\ \/ inflight' = inflight
           \/ inflight' = inflight \cup {finish(c)} /\ phase'[c] = "committing"
    BY <1>3 DEF ClosureReturns, closure_done, TypeOK
  <2>2. \A r \in inflight : r.client # c
    BY <2>1 DEF EffectsAreAwaited, Awaited
  <2>3. finish(c).client = c /\ finish(c).attempt = attempt[c]
    BY DEF finish
  <2>4. \A r \in inflight' : Awaited(r)'
    BY <1>0, <2>1, <2>2, <2>3 DEF EffectsAreAwaited, Awaited
  <2>5. \A a \in Nat : <<c, a>> \notin applied
    BY <2>1 DEF EffectsAreAwaited
  <2> QED BY <2>1, <2>4, <2>5 DEF EffectsAreAwaited
<1>4. ASSUME NEW c \in Clients, Retry(c) PROVE EffectsAreAwaited'
  <2>1. /\ phase[c] = "backoff" /\ UNCHANGED <<attempt, applied, inflight>>
        /\ \A b \in Clients : b # c => phase'[b] = phase[b]
    BY <1>4 DEF Retry, TypeOK, backendVars
  <2>2. \A r \in inflight : r.client # c
    BY <2>1 DEF EffectsAreAwaited, Awaited
  <2>3. \A a \in Nat : <<c, a>> \notin applied
    BY <2>1 DEF EffectsAreAwaited
  <2> QED BY <1>0, <2>1, <2>2, <2>3 DEF EffectsAreAwaited, Awaited
<1>5. ASSUME NEW r \in inflight, CommitApplied(r) PROVE EffectsAreAwaited'
  <2>1. /\ Awaited(r) /\ phase' = [phase EXCEPT ![r.client] = "ok"] /\ UNCHANGED attempt
        /\ applied' = applied \cup {<<r.client, r.attempt>>} /\ inflight' = inflight \ {r}
    BY <1>5 DEF CommitApplied
  <2>2. phase'[r.client] = "ok" /\ (\A b \in Clients : b # r.client => phase'[b] = phase[b])
    BY <1>0, <2>1 DEF TypeOK
  <2>3. \A q \in inflight' : q \in inflight /\ q.client # r.client
    BY <2>1 DEF EffectsAreAwaited, Awaited, RequestsAreDistinct
  <2>4. \A q \in inflight' : Awaited(q)'
    BY <1>0, <2>1, <2>2, <2>3 DEF EffectsAreAwaited, Awaited
  <2>5. ASSUME NEW c \in Clients, NEW a \in Nat, <<c, a>> \in applied' PROVE phase'[c] = "ok" /\ a = attempt'[c]
    <3>1. CASE <<c, a>> \in applied
      BY <2>1, <2>2, <3>1 DEF EffectsAreAwaited
    <3>2. CASE <<c, a>> = <<r.client, r.attempt>>
      BY <2>1, <2>2, <3>2 DEF Awaited
    <3> QED BY <2>1, <2>5, <3>1, <3>2
  <2> QED BY <2>4, <2>5 DEF EffectsAreAwaited
<1>6. ASSUME NEW r \in inflight, CommitRejected(r) PROVE EffectsAreAwaited'
  <2>1. Awaited(r) /\ fails(r.client, RejectionCode(r)) /\ UNCHANGED applied /\ inflight' = inflight \ {r}
    BY <1>6 DEF CommitRejected
  <2>2. \A q \in inflight' : q.client # r.client
    BY <2>1 DEF EffectsAreAwaited, Awaited, RequestsAreDistinct
  <2> QED BY <1>0, <1>2, <2>1, <2>2 DEF Awaited
<1>7. ASSUME NEW c \in Clients, CommitTimesOut(c) PROVE EffectsAreAwaited'
  BY <1>2, <1>7 DEF CommitTimesOut
<1>8. ASSUME NEW c \in Clients, NEW code, ClosureFails(c, code) PROVE EffectsAreAwaited'
  <2>1. phase[c] = "running" /\ fails(c, code) /\ UNCHANGED <<inflight, applied>>
    BY <1>8 DEF ClosureFails, closure_done, backendVars
  <2>2. \A r \in inflight : r.client # c
    BY <2>1 DEF EffectsAreAwaited, Awaited
  <2> QED BY <1>2, <2>1, <2>2
<1>9. ASSUME NEW c \in Clients, ClosureStep(c) \/ GetReturns(c) PROVE EffectsAreAwaited'
  BY <1>1, <1>9 DEF ClosureStep, Get, GetReturns, SetDoc, UpdateDoc, DeleteDoc, stage, backendVars
<1>10. ASSUME NEW d \in Docs, Interfere(d) PROVE EffectsAreAwaited'
  BY <1>1, <1>10 DEF Interfere
<1>11. CASE UNCHANGED vars
  BY <1>1, <1>11 DEF vars, backendVars
<1> QED
  BY <1>3, <1>4, <1>5, <1>6, <1>7, <1>8, <1>9, <1>10, <1>11 DEF Next, ClosureEnds

\* EffectsAreAwaited is invariant under a reliable backend.
LEMMA EffectInvariant ==
  ASSUME ReliableBackend
  PROVE  Spec => [](TypeOK /\ EffectsAreAwaited)
<1>1. Init => EffectsAreAwaited
  BY DEF Init, EffectsAreAwaited
<1>2. TypeOK /\ RequestsAreDistinct /\ [Next]_vars => RequestsAreDistinct'
  BY DistinctStep
<1>3. TypeOK /\ RequestsAreDistinct /\ EffectsAreAwaited /\ [Next]_vars => EffectsAreAwaited'
  BY EffectStep
<1> QED BY <1>1, <1>2, <1>3, DistinctInit, TypeCorrect, PTL DEF Spec

\* With a reliable backend the writes of one call of run_transaction are applied at
\* most once, however often the call retries.
THEOREM AppliedOnce ==
  ASSUME ReliableBackend
  PROVE  Spec => []AppliedAtMostOnce
<1>1. TypeOK /\ EffectsAreAwaited => AppliedAtMostOnce
  BY DEF TypeOK, EffectsAreAwaited, AppliedAtMostOnce
<1> QED BY <1>1, EffectInvariant, PTL

\* With a reliable backend a call of run_transaction that returned an error has had no
\* effect.
THEOREM ErrorsHaveNoEffect ==
  ASSUME ReliableBackend
  PROVE  Spec => []ErrorMeansNoEffect
<1>1. TypeOK /\ EffectsAreAwaited => ErrorMeansNoEffect
  BY DEF TypeOK, EffectsAreAwaited, ErrorMeansNoEffect
<1> QED BY <1>1, EffectInvariant, PTL
-----------------------------------------------------------------------------
(***************************************************************************)
(* Requests, for any number of calls, attempts and faults.  First: what a  *)
(* commit's error says of its effect.                                      *)
(***************************************************************************)
\* The errors that say nothing was done.
Certain == Rest!FirestoreCodes \ Rest!Uncertain

Fields == {"pc", "kind", "keys", "at", "attempt", "resent", "context", "rejected", "raced", "answer", "result"}
IsCall(call) == call = [f \in Fields |-> call[f]]

Shaped ==
  /\ calls = [c \in Calls |-> calls[c]] /\ \A c \in Calls : IsCall(calls[c])
  /\ effects \in [Calls -> Nat]

\* What is known of a commit, and of what the backend made of it.
CommitIs(call, times) ==
  /\ call.kind # "commit" => times = 0
  /\ call.kind = "commit" =>
       /\ call.pc \in {"asking", "refreshing", "sent"} => times = 0 /\ call.resent = 0
       /\ call.pc = "received" =>
            /\ call.resent = 0 /\ times <= 1
            /\ Rest!Error(call) = "none" => times = 1
            /\ Rest!Error(call) \in Certain => times = 0
       /\ call.pc = "done" =>
            /\ times <= 1
            /\ call.result.ok => times = 1
            /\ call.result.code \in Certain => times = 0
       /\ call.pc \in {"asking", "refreshing", "sent", "received", "done"}

CommitsFit == Shaped /\ \A c \in Calls : CommitIs(calls[c], effects[c])

\* Every status has a code, and none of them is success.
LEMMA ErrorsAreNamed ==
  ASSUME NEW answer PROVE Rest!map_http_error(answer) \in Rest!FirestoreCodes \cup {"INTERNAL"}
  BY DEF Rest!map_http_error, Rest!FirestoreCodes

\* A request rejected for its credentials ends in a certain error.
LEMMA RejectedIsCertain ==
  ASSUME NEW call, call.answer = Rest!Answer("ok", 401, "UNAUTHENTICATED")
  PROVE  Rest!Error(call) = "UNAUTHENTICATED"
  BY DEF Rest!Error, Rest!Answer, Rest!IsSuccess, Rest!map_http_error, Rest!api_status, Rest!WireNames, Rest!FirestoreCodes

\* One call changes, and how often it was applied.
LEMMA OneMoves ==
  ASSUME CommitsFit, NEW c \in Calls, NEW call, NEW times \in Nat,
         IsCall(call), CommitIs(call, times), Rest!goes(c, call), effects' = [effects EXCEPT ![c] = times]
  PROVE  CommitsFit'
<1>1. \A o \in Calls : calls'[o] = (IF o = c THEN call ELSE calls[o]) /\ effects'[o] = (IF o = c THEN times ELSE effects[o])
  BY DEF CommitsFit, Shaped, Rest!goes
<1>2. Shaped'
  BY <1>1 DEF CommitsFit, Shaped, Rest!goes
<1>3. \A o \in Calls : CommitIs(calls'[o], effects'[o])
  BY <1>1 DEF CommitsFit
<1> QED BY <1>2, <1>3 DEF CommitsFit

\* The same, when it was not applied again.
LEMMA OneGoesOn ==
  ASSUME CommitsFit, NEW c \in Calls, NEW call, IsCall(call), CommitIs(call, effects[c]), Rest!goes(c, call), effects' = effects
  PROVE  CommitsFit'
<1>1. effects[c] \in Nat /\ effects' = [effects EXCEPT ![c] = effects[c]]
  BY DEF CommitsFit, Shaped
<1> QED BY <1>1, OneMoves

\* A call begins, and nothing was applied yet.
LEMMA BeginKeeps ==
  ASSUME CommitsFit, NEW c \in Calls, NEW kind \in Rest!Kinds, NEW keys \in Lists, Rest!Begin(c, kind, keys) PROVE CommitsFit'
<1> DEFINE call == [Rest!Idle EXCEPT !.pc = IF Rest!Order(kind) = <<>> THEN "sent" ELSE "asking", !.kind = kind, !.keys = keys]
<1>1. Rest!goes(c, call) /\ effects' = effects /\ calls[c].pc = "idle"
  BY DEF Rest!Begin, Rest!At
<1>2. effects[c] = 0
  BY <1>1 DEF CommitsFit, CommitIs
<1>3. IsCall(call) /\ call.pc \in {"sent", "asking"} /\ call.resent = 0
  BY DEF IsCall, Fields, Rest!Idle
<1>4. CommitIs(call, effects[c])
  BY <1>2, <1>3 DEF CommitIs
<1> HIDE DEF call
<1> QED BY <1>1, <1>3, <1>4, OneGoesOn

\* A call that got its token goes on asking, or is sent.
LEMMA HasToken ==
  ASSUME NEW c \in Calls, NEW token, IsCall(calls[c]), CommitIs(calls[c], effects[c]), calls[c].pc \in {"asking", "refreshing"}
  PROVE  IsCall(Rest!has(c, token)) /\ CommitIs(Rest!has(c, token), effects[c])
<1>1. /\ IsCall(Rest!has(c, token)) /\ Rest!has(c, token).pc \in {"asking", "sent"}
      /\ Rest!has(c, token).kind = calls[c].kind /\ Rest!has(c, token).resent = calls[c].resent
  BY DEF IsCall, Fields, Rest!has
<1> QED BY <1>1 DEF CommitIs

\* Another call only learns that somebody replaces the token.
LEMMA OthersOnlyRace ==
  ASSUME NEW call, NEW raced, NEW times, IsCall(call), CommitIs(call, times)
  PROVE  IsCall([call EXCEPT !.raced = raced]) /\ CommitIs([call EXCEPT !.raced = raced], times)
<1> DEFINE new == [call EXCEPT !.raced = raced]
<1>1. /\ IsCall(new) /\ new.pc = call.pc /\ new.kind = call.kind /\ new.resent = call.resent
      /\ new.keys = call.keys /\ new.answer = call.answer /\ new.result = call.result
  BY DEF IsCall, Fields
<1>2. Rest!Error(new) = Rest!Error(call)
  BY <1>1 DEF Rest!Error
<1> HIDE DEF new
<1>3. CommitIs(new, times)
  BY <1>1, <1>2 DEF CommitIs
<1> QED BY <1>1, <1>3 DEF new

\* It gets the token of a source, or has it refreshed; nothing is sent by that.
LEMMA GetTokenKeeps ==
  ASSUME CommitsFit, NEW c \in Calls, Rest!GetToken(c) PROVE CommitsFit'
<1>1. /\ calls[c].pc = "asking" /\ effects' = effects
      /\ \A o \in Calls : IsCall(calls[o]) /\ CommitIs(calls[o], effects[o])
  BY DEF Rest!GetToken, Rest!At, CommitsFit, Shaped
<1>2. /\ calls' = [o \in Calls |-> calls'[o]]
      /\ calls'[c] = [calls[c] EXCEPT !.pc = "refreshing"] \/ \E token : calls'[c] = Rest!has(c, token)
      /\ \A o \in Calls : o # c => \E raced : calls'[o] = [calls[o] EXCEPT !.raced = raced]
  BY DEF Rest!GetToken
<1>3. IsCall(calls'[c]) /\ CommitIs(calls'[c], effects[c])
  <2>1. CASE calls'[c] = [calls[c] EXCEPT !.pc = "refreshing"]
    BY <1>1, <2>1 DEF IsCall, Fields, CommitIs
  <2> QED BY <1>1, <1>2, <2>1, HasToken
<1>4. ASSUME NEW o \in Calls, o # c PROVE IsCall(calls'[o]) /\ CommitIs(calls'[o], effects[o])
  <2>1. PICK raced : calls'[o] = [calls[o] EXCEPT !.raced = raced]
    BY <1>2, <1>4
  <2>2. IsCall(calls[o]) /\ CommitIs(calls[o], effects[o])
    BY <1>1
  <2>3. \A new : IsCall([calls[o] EXCEPT !.raced = new]) /\ CommitIs([calls[o] EXCEPT !.raced = new], effects[o])
    BY <2>2, OthersOnlyRace
  <2> QED BY <2>1, <2>3
<1> QED BY <1>1, <1>2, <1>3, <1>4 DEF CommitsFit, Shaped

\* The refresh gave a token.
LEMMA RefreshedKeeps ==
  ASSUME CommitsFit, NEW c \in Calls, Rest!Refreshed(c) PROVE CommitsFit'
<1>1. /\ calls[c].pc = "refreshing" /\ effects' = effects /\ IsCall(calls[c]) /\ CommitIs(calls[c], effects[c])
      /\ \E token : Rest!goes(c, Rest!has(c, token))
  BY DEF Rest!Refreshed, Rest!At, CommitsFit, Shaped
<1>2. PICK token : Rest!goes(c, Rest!has(c, token))
  BY <1>1
<1> QED BY <1>1, <1>2, HasToken, OneGoesOn

\* A call ends, with what is known of it.
LEMMA Ended ==
  ASSUME NEW call, NEW result
  PROVE  /\ IsCall(Rest!ended(call, result))
         /\ Rest!ended(call, result).pc = "done" /\ Rest!ended(call, result).kind = call.kind
         /\ Rest!ended(call, result).result = result
  BY DEF IsCall, Fields, Rest!ended, Rest!Idle

\* It failed, which ends the call or sends it off without a token.
LEMMA RefreshFailsKeeps ==
  ASSUME CommitsFit, NEW c \in Calls, Rest!RefreshFails(c) PROVE CommitsFit'
<1> DEFINE failed == [Rest!Pending EXCEPT !.code = "UNAUTHENTICATED"]
<1>1. /\ calls[c].pc = "refreshing" /\ effects' = effects /\ IsCall(calls[c]) /\ CommitIs(calls[c], effects[c])
      /\ Rest!goes(c, Rest!ended(calls[c], failed)) \/ \E token : Rest!goes(c, Rest!has(c, token))
  BY DEF Rest!RefreshFails, Rest!At, CommitsFit, Shaped
<1>2. CASE Rest!goes(c, Rest!ended(calls[c], failed))
  <2>1. ~failed.ok
    BY DEF Rest!Pending
  <2>2. CommitIs(Rest!ended(calls[c], failed), effects[c])
    <3> DEFINE call == Rest!ended(calls[c], failed)
    <3> HIDE DEF failed
    <3>1. call.pc = "done" /\ call.kind = calls[c].kind /\ ~call.result.ok
      BY <2>1, Ended
    <3>2. calls[c].kind = "commit" => effects[c] = 0
      BY <1>1 DEF CommitIs
    <3> HIDE DEF call
    <3>3. CommitIs(call, effects[c])
      BY <1>1, <3>1, <3>2 DEF CommitIs
    <3> QED BY <3>3 DEF call
  <2> QED BY <1>1, <1>2, <2>2, Ended, OneGoesOn
<1>3. ASSUME NEW token, Rest!goes(c, Rest!has(c, token)) PROVE CommitsFit'
  BY <1>1, <1>3, HasToken, OneGoesOn
<1> QED BY <1>1, <1>2, <1>3

\* An answer arrives, and the backend did the work or not.
LEMMA ReceivedKeeps ==
  ASSUME CommitsFit, NEW c \in Calls, NEW answer, NEW happens \in BOOLEAN,
         Rest!At(c, "sent"), Rest!received(c, answer), Rest!effect(c, happens),
         calls[c].kind = "commit" =>
            LET call == [calls[c] EXCEPT !.pc = "received", !.answer = answer]
            IN (Rest!Error(call) = "none" => happens) /\ (Rest!Error(call) \in Certain => ~happens)
  PROVE  CommitsFit'
<1> DEFINE call == [calls[c] EXCEPT !.pc = "received", !.answer = answer]
           times == IF happens /\ calls[c].kind = "commit" THEN effects[c] + 1 ELSE effects[c]
<1>1. /\ calls[c].pc = "sent" /\ IsCall(calls[c]) /\ CommitIs(calls[c], effects[c])
      /\ effects[c] \in Nat /\ effects = [effects EXCEPT ![c] = effects[c]] /\ Rest!goes(c, call)
  BY DEF Rest!At, CommitsFit, Shaped, Rest!received
<1>2. times \in Nat /\ effects' = [effects EXCEPT ![c] = times]
  <2>1. CASE happens /\ calls[c].kind = "commit"
    BY <1>1, <2>1 DEF Rest!effect
  <2>2. CASE ~(happens /\ calls[c].kind = "commit")
    BY <1>1, <2>2 DEF Rest!effect
  <2> QED BY <2>1, <2>2
<1>3. IsCall(call) /\ call.pc = "received" /\ call.kind = calls[c].kind /\ call.resent = calls[c].resent
  BY <1>1 DEF IsCall, Fields
<1>4. calls[c].kind = "commit" => (Rest!Error(call) = "none" => happens) /\ (Rest!Error(call) \in Certain => ~happens)
  OBVIOUS
<1> HIDE DEF call
<1>5. CommitIs(call, times)
  BY <1>1, <1>3, <1>4 DEF CommitIs
<1> HIDE DEF times
<1> QED BY <1>1, <1>2, <1>3, <1>5, OneMoves

\* The backend serves a request.
LEMMA ServeKeeps ==
  ASSUME CommitsFit, NEW c \in Calls, Rest!Serve(c) PROVE CommitsFit'
<1>1. CASE Rest!Accepted(calls[c].context)
  <2>1. PICK of : Rest!received(c, [Rest!Found(calls[c]) EXCEPT !.of = of])
    BY <1>1 DEF Rest!Serve
  <2> DEFINE answer == [Rest!Found(calls[c]) EXCEPT !.of = of]
             call == [calls[c] EXCEPT !.pc = "received", !.answer = answer]
  <2>2. Rest!At(c, "sent") /\ Rest!effect(c, TRUE)
    BY <1>1 DEF Rest!Serve
  <2>3. ASSUME calls[c].kind = "commit" PROVE Rest!Error(call) = "none"
    <3>1. answer.transport = "ok" /\ answer.status = 200
      BY <2>3 DEF Rest!Found, Rest!Succeeded, Rest!Answer
    <3>2. call.answer = answer
      BY DEF CommitsFit, Shaped, IsCall, Fields
    <3> HIDE DEF answer, call
    <3> QED BY <3>1, <3>2 DEF Rest!Error, Rest!IsSuccess
  <2>4. Rest!Error(call) = "none" => Rest!Error(call) \notin Certain
    BY DEF Certain, Rest!FirestoreCodes
  <2> QED BY <2>1, <2>2, <2>3, <2>4, ReceivedKeeps
<1>2. CASE ~Rest!Accepted(calls[c].context)
  <2> DEFINE answer == Rest!Answer("ok", 401, "UNAUTHENTICATED")
             call == [calls[c] EXCEPT !.pc = "received", !.answer = answer]
  <2>1. Rest!At(c, "sent") /\ Rest!effect(c, FALSE) /\ Rest!received(c, answer)
    BY <1>2 DEF Rest!Serve
  <2>2. call.answer = answer
    BY DEF CommitsFit, Shaped, IsCall, Fields
  <2>3. Rest!Error(call) = "UNAUTHENTICATED"
    BY <2>2, RejectedIsCertain
  <2> HIDE DEF answer
  <2> QED BY <2>1, <2>3, ReceivedKeeps
<1> QED BY <1>1, <1>2

\* A refusal is an error; one that may come after the work says so.
LEMMA ServeRefusesKeeps ==
  ASSUME Rest!ConstantsOK, CommitsFit, NEW c \in Calls, Rest!ServeRefuses(c) PROVE CommitsFit'
<1>1. PICK r \in Refusals, happens \in BOOLEAN :
        /\ happens => r.status >= 500
        /\ Rest!received(c, Rest!Answer("ok", r.status, r.wire)) /\ Rest!effect(c, happens)
  BY DEF Rest!ServeRefuses
<1> DEFINE answer == Rest!Answer("ok", r.status, r.wire)
           call == [calls[c] EXCEPT !.pc = "received", !.answer = answer]
<1>2. call.answer = answer /\ call.kind = calls[c].kind
  BY DEF CommitsFit, Shaped, IsCall, Fields
<1>3. answer.transport = "ok" /\ answer.status = r.status
  BY DEF Rest!Answer
<1>4. ~Rest!IsSuccess(answer)
  <2>1. r.status \in Int /\ r.status >= 400
    BY DEF Rest!ConstantsOK
  <2> HIDE DEF answer
  <2> QED BY <1>3, <2>1 DEF Rest!IsSuccess
<1>5. calls[c].kind = "commit" => Rest!Error(call) = Rest!map_http_error(answer)
  BY <1>2, <1>3, <1>4 DEF Rest!Error
<1>6. Rest!map_http_error(answer) # "none" /\ (happens => Rest!map_http_error(answer) \notin Certain)
  <2>1. Rest!map_http_error(answer) # "none"
    BY ErrorsAreNamed DEF Rest!FirestoreCodes
  <2> QED BY <1>1, <2>1 DEF Rest!ConstantsOK, Certain
<1>7. Rest!At(c, "sent")
  BY DEF Rest!ServeRefuses
<1> HIDE DEF answer
<1> QED BY <1>1, <1>5, <1>6, <1>7, ReceivedKeeps DEF answer

\* The request, or its answer, is lost.
LEMMA LoseKeeps ==
  ASSUME CommitsFit, NEW c \in Calls, Rest!Lose(c) PROVE CommitsFit'
<1> DEFINE answer == Rest!Answer("lost", 0, "none")
           call == [calls[c] EXCEPT !.pc = "received", !.answer = answer]
<1>1. PICK happens \in BOOLEAN : Rest!received(c, answer) /\ Rest!effect(c, happens)
  BY DEF Rest!Lose
<1>2. call.answer = answer /\ answer.transport = "lost"
  BY DEF CommitsFit, Shaped, IsCall, Fields, Rest!Answer
<1>3. Rest!Error(call) = "INTERNAL" /\ "INTERNAL" \notin Certain
  BY <1>2 DEF Rest!Error, Certain, Rest!Uncertain
<1>4. Rest!At(c, "sent")
  BY DEF Rest!Lose
<1> HIDE DEF answer
<1> QED BY <1>1, <1>3, <1>4, ReceivedKeeps

\* The client does not resend a commit.
LEMMA ResendKeeps ==
  ASSUME CommitsFit, NEW c \in Calls, Rest!Resend(c) PROVE CommitsFit'
<1> DEFINE call == [calls[c] EXCEPT !.pc = "sent", !.resent = @ + 1]
<1>1. /\ calls[c].pc = "received" /\ effects' = effects /\ IsCall(calls[c]) /\ CommitIs(calls[c], effects[c])
      /\ Rest!goes(c, call) /\ calls[c].resent < Rest!max_retries(calls[c].kind)
  BY DEF Rest!Resend, Rest!Resends, Rest!At, CommitsFit, Shaped
<1>2. calls[c].kind # "commit"
  BY <1>1 DEF CommitIs, Rest!max_retries
<1>3. IsCall(call) /\ call.kind = calls[c].kind
  BY <1>1 DEF IsCall, Fields
<1> HIDE DEF call
<1>4. CommitIs(call, effects[c])
  BY <1>1, <1>2, <1>3 DEF CommitIs
<1> QED BY <1>1, <1>3, <1>4, OneGoesOn

\* A commit is tried again when its credentials were rejected: it was not applied.
LEMMA RetryKeeps ==
  ASSUME CommitsFit, NEW c \in Calls, Rest!Retry(c) PROVE CommitsFit'
<1> DEFINE code == Rest!Error(calls[c])
           call == [calls[c] EXCEPT !.pc = "asking", !.at = 1, !.attempt = @ + 1, !.resent = 0, !.answer = Rest!NoAnswer,
                                    !.context = Rest!NoTokens, !.raced = FALSE,
                                    !.rejected = IF code = "UNAUTHENTICATED" THEN calls[c].context ELSE Rest!NoTokens]
<1>1. /\ calls[c].pc = "received" /\ effects' = effects /\ IsCall(calls[c]) /\ CommitIs(calls[c], effects[c])
      /\ Rest!retryable(calls[c], code) /\ Rest!goes(c, call)
  BY DEF Rest!Retry, Rest!Answered, Rest!At, CommitsFit, Shaped
<1>2. ASSUME calls[c].kind = "commit" PROVE effects[c] = 0
  <2>1. code = "UNAUTHENTICATED"
    BY <1>1, <1>2 DEF Rest!retryable, Rest!should_retry_non_idempotent, Rest!Idempotent
  <2>2. code \in Certain
    BY <2>1 DEF Certain, Rest!Uncertain, Rest!FirestoreCodes
  <2> QED BY <1>1, <1>2, <2>2 DEF CommitIs
<1>3. IsCall(call) /\ call.kind = calls[c].kind /\ call.pc = "asking" /\ call.resent = 0
  BY <1>1 DEF IsCall, Fields
<1> HIDE DEF call
<1>4. CommitIs(call, effects[c])
  BY <1>1, <1>2, <1>3 DEF CommitIs
<1> QED BY <1>1, <1>3, <1>4, OneGoesOn

\* The call ends with what it was answered.
LEMMA EndKeeps ==
  ASSUME CommitsFit, NEW c \in Calls, Rest!End(c) PROVE CommitsFit'
<1> DEFINE code == Rest!Error(calls[c])
           result == [ok |-> code = "none", code |-> code, of |-> IF code = "none" THEN Rest!decoded(calls[c]) ELSE <<>>]
           call == Rest!ended(calls[c], result)
<1>1. /\ calls[c].pc = "received" /\ effects' = effects /\ CommitIs(calls[c], effects[c]) /\ Rest!goes(c, call)
  BY DEF Rest!End, Rest!Answered, Rest!At, CommitsFit, Shaped
<1>2. IsCall(call) /\ call.pc = "done" /\ call.kind = calls[c].kind /\ call.result = result
  BY Ended
<1>3. call.result.ok = (code = "none") /\ call.result.code = code
  BY <1>2
<1> HIDE DEF call, result
<1>4. CommitIs(call, effects[c])
  BY <1>1, <1>2, <1>3 DEF CommitIs
<1> QED BY <1>1, <1>2, <1>4, OneGoesOn

\* No call was made at first.
LEMMA InitFits == Rest!Init => CommitsFit
<1> SUFFICES ASSUME Rest!Init PROVE CommitsFit
  OBVIOUS
<1>1. calls = [c \in Calls |-> Rest!Idle] /\ effects = [c \in Calls |-> 0]
  BY DEF Rest!Init
<1>2. IsCall(Rest!Idle) /\ Rest!Idle.kind = "none"
  BY DEF IsCall, Fields, Rest!Idle
<1>3. CommitIs(Rest!Idle, 0)
  BY <1>2 DEF CommitIs
<1> QED BY <1>1, <1>2, <1>3 DEF CommitsFit, Shaped

\* However answers are lost, refused or retried, and however credentials are
\* rejected meanwhile, a commit takes effect at most once, once if it succeeds, and
\* not at all if its error says so (execute_non_idempotent, HttpClient::send).
THEOREM CommitsHappenOnce == Rest!ConstantsOK => (Rest!Spec => []Rest!CommitsAreNotReplayed)
<1> SUFFICES ASSUME Rest!ConstantsOK PROVE Rest!Spec => []Rest!CommitsAreNotReplayed
  OBVIOUS
<1>1. CommitsFit /\ [Rest!Next]_Rest!restVars => CommitsFit'
  <2> SUFFICES ASSUME CommitsFit, [Rest!Next]_Rest!restVars PROVE CommitsFit'
    OBVIOUS
  <2>1. CASE UNCHANGED <<calls, effects>>
    BY <2>1 DEF CommitsFit, Shaped, CommitIs, IsCall
  <2>2. ASSUME NEW s \in Rest!Sources, Rest!Install(s) \/ Rest!Revoke(s) PROVE UNCHANGED <<calls, effects>>
    BY <2>2 DEF Rest!Install, Rest!Revoke
  <2>3. ASSUME NEW c \in Calls,
               \/ \E kind \in Rest!Kinds, keys \in Lists : Rest!Begin(c, kind, keys)
               \/ Rest!GetToken(c) \/ Rest!Refreshed(c) \/ Rest!RefreshFails(c)
               \/ Rest!Serve(c) \/ Rest!ServeRefuses(c) \/ Rest!Lose(c) \/ Rest!Resend(c) \/ Rest!Retry(c) \/ Rest!End(c)
        PROVE  CommitsFit'
    BY <2>3, BeginKeeps, GetTokenKeeps, RefreshedKeeps, RefreshFailsKeeps, ServeKeeps, ServeRefusesKeeps, LoseKeeps,
       ResendKeeps, RetryKeeps, EndKeeps
  <2> QED BY <2>1, <2>2, <2>3 DEF Rest!Next, Rest!restVars
<1>2. CommitsFit => Rest!CommitsAreNotReplayed
  BY DEF CommitsFit, CommitIs, Rest!CommitsAreNotReplayed, Rest!At, Certain
<1> QED BY InitFits, <1>1, <1>2, PTL DEF Rest!Spec
-----------------------------------------------------------------------------
(***************************************************************************)
(* Then: which token of the user a request carries.                        *)
(***************************************************************************)
Retried == Rest!Idempotent \cup {"commit"}
SourceFields == {"exists", "resolved", "invalidated", "force", "token", "minimum"}
IsSource(source) == source = [f \in SourceFields |-> source[f]]

Sourced ==
  /\ sources = [s \in Rest!Sources |-> sources[s]] /\ \A s \in Rest!Sources : IsSource(sources[s])
  /\ sources["auth"].exists = TRUE /\ sources["auth"].token \in Nat

\* What is known of a call's tokens, given the state of Auth's.
Fresh(call, auth) ==
  /\ IsCall(call) /\ call.context = [s \in Rest!Sources |-> call.context[s]] /\ call.raced \in BOOLEAN
  /\ call.context["auth"] \in 0 .. auth.token /\ call.rejected["auth"] \in 0 .. auth.token
  /\ call.pc \in {"asking", "refreshing"} => call.kind \in Retried \cup {"callable"} /\ call.at \in {1, 2}
  /\ call.rejected["auth"] # Rest!NoToken => call.kind \in Retried
  /\ call.rejected["auth"] # Rest!NoToken /\ ~call.raced =>
       /\ call.pc = "asking" /\ call.at = 1 => auth.force
       /\ call.pc \in {"sent", "received"} \/ call.at = 2 => call.context["auth"] # call.rejected["auth"]

Tokens ==
  /\ calls = [c \in Calls |-> calls[c]]
  /\ Sourced /\ \A c \in Calls : Fresh(calls[c], sources["auth"])

\* The tokens a call asks for.
LEMMA AsksForBoth ==
  ASSUME NEW c \in Calls, NEW auth, Fresh(calls[c], auth), calls[c].pc \in {"asking", "refreshing"}
  PROVE  /\ Rest!Asked(c) \in Rest!Sources /\ calls[c].at \in {1, 2} /\ Len(Rest!Order(calls[c].kind)) = 2
         /\ calls[c].kind \in Retried => Rest!Asked(c) = IF calls[c].at = 1 THEN "auth" ELSE "appCheck"
<1>1. calls[c].kind \in Retried \cup {"callable"} /\ calls[c].at \in {1, 2}
  BY DEF Fresh
<1>2. CASE calls[c].kind \in Retried
  <2>1. Rest!Order(calls[c].kind) = <<"auth", "appCheck">>
    BY <1>2 DEF Rest!Order, Retried, Rest!Idempotent
  <2> QED BY <1>1, <2>1 DEF Rest!Asked, Rest!Sources
<1>3. CASE calls[c].kind = "callable"
  <2>1. Rest!Order(calls[c].kind) = <<"appCheck", "auth">>
    BY <1>3 DEF Rest!Order, Rest!Idempotent
  <2>2. calls[c].kind \notin Retried
    BY <1>3 DEF Retried, Rest!Idempotent
  <2> QED BY <1>1, <2>1, <2>2 DEF Rest!Asked, Rest!Sources
<1> QED BY <1>1, <1>2, <1>3

\* A call that was rejected goes on with another token of the user.
LEMMA GoesOnFresh ==
  ASSUME NEW c \in Calls, NEW token, NEW auth, NEW later, Fresh(calls[c], auth), calls[c].pc \in {"asking", "refreshing"},
         auth.token \in Nat, later.token \in Nat, auth.token <= later.token,
         Rest!Asked(c) = "auth" =>
           /\ token \in 0 .. later.token
           /\ calls[c].rejected["auth"] # Rest!NoToken /\ ~calls[c].raced => token # calls[c].rejected["auth"]
  PROVE  Fresh(Rest!has(c, token), later)
<1> DEFINE call == Rest!has(c, token)
<1>1. Rest!Asked(c) \in Rest!Sources /\ calls[c].at \in {1, 2} /\ Len(Rest!Order(calls[c].kind)) = 2
  BY AsksForBoth
<1>2. /\ IsCall(call) /\ call.kind = calls[c].kind /\ call.raced = calls[c].raced /\ call.rejected = calls[c].rejected
      /\ call.at = calls[c].at + 1 /\ call.context = [calls[c].context EXCEPT ![Rest!Asked(c)] = token]
      /\ call.pc = IF calls[c].at < 2 THEN "asking" ELSE "sent"
  BY <1>1 DEF Rest!has, Fresh, IsCall, Fields
<1>3. /\ call.context = [s \in Rest!Sources |-> call.context[s]]
      /\ call.context["auth"] = IF Rest!Asked(c) = "auth" THEN token ELSE calls[c].context["auth"]
  BY <1>1, <1>2 DEF Fresh, Rest!Sources
<1>4. /\ call.context["auth"] \in 0 .. later.token /\ call.rejected["auth"] \in 0 .. later.token
      /\ call.raced \in BOOLEAN
  BY <1>2, <1>3 DEF Fresh
<1>5. ASSUME calls[c].rejected["auth"] # Rest!NoToken, ~calls[c].raced PROVE call.context["auth"] # calls[c].rejected["auth"]
  <2>1. Rest!Asked(c) = IF calls[c].at = 1 THEN "auth" ELSE "appCheck"
    BY <1>5, AsksForBoth DEF Fresh
  <2>2. CASE calls[c].at = 1
    BY <1>3, <1>5, <2>1, <2>2
  <2>3. CASE calls[c].at = 2
    BY <1>3, <1>5, <2>1, <2>3 DEF Fresh
  <2> QED BY <1>1, <2>2, <2>3
<1> HIDE DEF call
<1>6. /\ call.pc \in {"asking", "refreshing"} => call.kind \in Retried \cup {"callable"} /\ call.at \in {1, 2}
      /\ call.rejected["auth"] # Rest!NoToken => call.kind \in Retried
      /\ call.pc = "asking" => call.at # 1
  BY <1>1, <1>2 DEF Fresh
<1>7. Fresh(call, later)
  BY <1>2, <1>3, <1>4, <1>5, <1>6 DEF Fresh
<1> QED BY <1>7 DEF call

\* A new token of the user leaves what is known of the other calls.
LEMMA StaysFresh ==
  ASSUME NEW call, NEW auth, NEW later, Fresh(call, auth), auth.token \in Nat, later.token \in Nat,
         auth.token <= later.token, auth.force => later.force
  PROVE  Fresh(call, later)
  BY DEF Fresh

\* One call goes on, while the sources keep or replace their tokens.
LEMMA OneStaysFresh ==
  ASSUME Tokens, NEW c \in Calls, NEW call, Rest!goes(c, call), Sourced', Fresh(call, sources'["auth"]),
         sources["auth"].token <= sources'["auth"].token, sources["auth"].force => sources'["auth"].force
  PROVE  Tokens'
<1>1. \A o \in Calls : calls'[o] = IF o = c THEN call ELSE calls[o]
  BY DEF Tokens, Rest!goes
<1>2. calls' = [o \in Calls |-> calls'[o]]
  BY DEF Tokens, Rest!goes
<1>3. sources["auth"].token \in Nat /\ sources'["auth"].token \in Nat
  BY DEF Tokens, Sourced
<1>4. \A o \in Calls : Fresh(calls[o], sources'["auth"])
  BY <1>3, StaysFresh DEF Tokens
<1>5. \A o \in Calls : Fresh(calls'[o], sources'["auth"])
  BY <1>1, <1>4
<1> QED BY <1>2, <1>5 DEF Tokens

\* What finding a service, or being told to refresh, does to its source.
LEMMA SourceResolved ==
  ASSUME Sourced, NEW s \in Rest!Sources
  PROVE  /\ IsSource(Rest!resolved(s)) /\ Rest!resolved(s).token = sources[s].token /\ Rest!resolved(s).exists = sources[s].exists
         /\ sources[s].force => Rest!resolved(s).force
  BY DEF Sourced, IsSource, SourceFields, Rest!resolved

\* Telling a source to refresh.
LEMMA SourceInvalidated ==
  ASSUME Sourced, NEW s \in Rest!Sources
  PROVE  /\ IsSource(Rest!invalidate_token(s)) /\ Rest!invalidate_token(s).token = sources[s].token
         /\ Rest!invalidate_token(s).exists = sources[s].exists
         /\ sources[s].exists \/ sources[s].force => Rest!invalidate_token(s).force
  BY SourceResolved DEF IsSource, SourceFields, Rest!invalidate_token

\* A call begins without tokens.
LEMMA BeginIsFresh ==
  ASSUME Tokens, NEW c \in Calls, NEW kind \in Rest!Kinds, NEW keys \in Lists, Rest!Begin(c, kind, keys) PROVE Tokens'
<1> DEFINE call == [Rest!Idle EXCEPT !.pc = IF Rest!Order(kind) = <<>> THEN "sent" ELSE "asking", !.kind = kind, !.keys = keys]
<1>1. Rest!goes(c, call) /\ sources' = sources
  BY DEF Rest!Begin
<1>2. /\ IsCall(call) /\ call.pc \in {"sent", "asking"} /\ (Rest!Order(kind) # <<>> \/ call.pc = "sent") /\ call.kind = kind
      /\ call.at = 1 /\ call.raced = FALSE /\ call.context = Rest!NoTokens /\ call.rejected = Rest!NoTokens
  BY DEF IsCall, Fields, Rest!Idle
<1>3. Rest!Order(kind) # <<>> => kind \in Retried \cup {"callable"}
  BY DEF Rest!Kinds, Retried, Rest!Order, Rest!Idempotent
<1>4. /\ Rest!NoTokens = [s \in Rest!Sources |-> Rest!NoTokens[s]] /\ Rest!NoTokens["auth"] = Rest!NoToken
      /\ sources["auth"].token \in Nat /\ Rest!NoToken \in 0 .. sources["auth"].token
  BY DEF Rest!NoTokens, Rest!NoToken, Rest!Sources, Tokens, Sourced
<1> HIDE DEF call
<1>5. Fresh(call, sources["auth"])
  BY <1>2, <1>3, <1>4 DEF Fresh
<1>6. Sourced'
  BY <1>1 DEF Tokens, Sourced, IsSource
<1> QED BY <1>1, <1>4, <1>5, <1>6, OneStaysFresh

\* Whoever takes the order to refresh is seen by the calls that wait for a token.
LEMMA GetTokenIsFresh ==
  ASSUME Tokens, NEW c \in Calls, Rest!GetToken(c) PROVE Tokens'
<1> DEFINE s == Rest!Asked(c)
           source == Rest!resolved(s)
           found == IF ~source.exists THEN Rest!has(c, Rest!NoToken)
                    ELSE IF source.force \/ source.token = Rest!NoToken \/ Rest!LimitedUse(c) THEN [calls[c] EXCEPT !.pc = "refreshing"]
                    ELSE Rest!has(c, source.token)
           takes == s = "auth" /\ source.force
           left == IF source.exists /\ ~Rest!LimitedUse(c) THEN [source EXCEPT !.force = FALSE] ELSE source
<1>1. /\ calls[c].pc = "asking" /\ sources' = [sources EXCEPT ![s] = left]
      /\ calls' = [o \in Calls |-> IF o = c THEN found ELSE [calls[o] EXCEPT !.raced = @ \/ (takes /\ Rest!At(o, "asking"))]]
  BY DEF Rest!GetToken, Rest!At
<1>2. Sourced /\ \A o \in Calls : Fresh(calls[o], sources["auth"])
  BY DEF Tokens
<1>3. s \in Rest!Sources /\ (calls[c].kind \in Retried => s = IF calls[c].at = 1 THEN "auth" ELSE "appCheck")
  BY <1>1, <1>2, AsksForBoth
<1>4. /\ IsSource(source) /\ source.token = sources[s].token /\ source.exists = sources[s].exists
      /\ sources[s].force => source.force
  BY <1>2, <1>3, SourceResolved
<1> HIDE DEF s, source
<1>5. IsSource(left) /\ left.token = sources[s].token /\ left.exists = sources[s].exists
  BY <1>4 DEF IsSource, SourceFields
<1> HIDE DEF left
<1>6. Sourced' /\ sources'["auth"].token = sources["auth"].token /\ sources["auth"].token \in Nat
  BY <1>1, <1>2, <1>3, <1>5 DEF Sourced, Rest!Sources
<1>7. Fresh(calls'[c], sources'["auth"])
  <2>1. calls'[c] = found
    BY <1>1
  <2>2. CASE found = [calls[c] EXCEPT !.pc = "refreshing"]
    <3>1. /\ IsCall(found) /\ found.pc = "refreshing" /\ found.kind = calls[c].kind /\ found.at = calls[c].at
          /\ found.raced = calls[c].raced /\ found.context = calls[c].context /\ found.rejected = calls[c].rejected
      BY <1>2, <2>2 DEF Fresh, IsCall, Fields
    <3> HIDE DEF found
    <3>2. Fresh(calls[c], sources["auth"])
      BY <1>2
    <3>3. Fresh(found, sources'["auth"])
      BY <1>1, <1>6, <3>1, <3>2 DEF Fresh
    <3> QED BY <2>1, <3>3
  <2>3. CASE \E token : /\ found = Rest!has(c, token)
                        /\ s = "auth" => source.exists /\ ~source.force /\ token = source.token
    <3>1. PICK token : found = Rest!has(c, token) /\ (s = "auth" => source.exists /\ ~source.force /\ token = source.token)
      BY <2>3
    <3>2. ASSUME s = "auth" PROVE /\ token \in 0 .. sources'["auth"].token
                                  /\ calls[c].rejected["auth"] # Rest!NoToken /\ ~calls[c].raced => token # calls[c].rejected["auth"]
      <4>1. token \in 0 .. sources'["auth"].token
        BY <1>4, <1>6, <3>1, <3>2
      <4>2. ~(calls[c].rejected["auth"] # Rest!NoToken /\ ~calls[c].raced)
        <5>1. SUFFICES ASSUME calls[c].rejected["auth"] # Rest!NoToken, ~calls[c].raced PROVE FALSE
          OBVIOUS
        <5>2. calls[c].at = 1
          BY <1>2, <1>3, <3>2, <5>1 DEF Fresh
        <5>3. sources["auth"].force
          BY <1>1, <1>2, <5>1, <5>2 DEF Fresh
        <5> QED BY <1>4, <3>1, <3>2, <5>3
      <4> QED BY <4>1, <4>2
    <3> HIDE DEF found
    <3>3. Fresh(Rest!has(c, token), sources'["auth"])
      BY <1>1, <1>2, <1>6, <3>2, GoesOnFresh DEF s
    <3> QED BY <2>1, <3>1, <3>3
  <2>4. s = "auth" => source.exists
    BY <1>2, <1>4 DEF Sourced
  <2> QED BY <2>2, <2>3, <2>4
<1>8. ASSUME NEW o \in Calls, o # c PROVE Fresh(calls'[o], sources'["auth"])
  <2> DEFINE new == [calls[o] EXCEPT !.raced = @ \/ (takes /\ Rest!At(o, "asking"))]
  <2>1. calls'[o] = new
    BY <1>1, <1>8
  <2>2. /\ IsCall(new) /\ new.pc = calls[o].pc /\ new.kind = calls[o].kind /\ new.at = calls[o].at
        /\ new.context = calls[o].context /\ new.rejected = calls[o].rejected
    BY <1>2 DEF Fresh, IsCall, Fields
  <2>3. new.raced = (calls[o].raced \/ (takes /\ calls[o].pc = "asking"))
    BY <1>2 DEF Fresh, IsCall, Fields, Rest!At
  <2>4. new.raced \in BOOLEAN /\ (~new.raced => ~calls[o].raced /\ ~(takes /\ calls[o].pc = "asking"))
    BY <2>3
  <2>5. ASSUME ~new.raced, calls[o].pc = "asking", sources["auth"].force PROVE sources'["auth"].force
    <3>1. ~takes
      BY <2>4, <2>5
    <3>2. s # "auth"
      BY <1>4, <2>5, <3>1
    <3> QED BY <1>1, <1>2, <1>3, <2>5, <3>2 DEF Sourced, Rest!Sources
  <2> HIDE DEF new, takes
  <2>6. Fresh(calls[o], sources["auth"])
    BY <1>2
  <2>7. Fresh(new, sources'["auth"])
    BY <1>6, <2>2, <2>4, <2>5, <2>6 DEF Fresh
  <2> QED BY <2>1, <2>7
<1>9. calls' = [o \in Calls |-> calls'[o]]
  BY <1>1
<1> QED BY <1>6, <1>7, <1>8, <1>9 DEF Tokens

\* A refresh of Auth replaces the token for everybody.
LEMMA RefreshedIsFresh ==
  ASSUME Tokens, NEW c \in Calls, Rest!Refreshed(c) PROVE Tokens'
<1>1. calls[c].pc = "refreshing" /\ Sourced /\ Fresh(calls[c], sources["auth"])
  BY DEF Rest!Refreshed, Rest!At, Tokens
<1>2. Rest!Asked(c) \in Rest!Sources
  BY <1>1, AsksForBoth
<1>3. CASE Rest!LimitedUse(c)
  <2>1. Rest!goes(c, Rest!has(c, Rest!SingleUse)) /\ sources' = sources /\ Rest!Asked(c) = "appCheck"
    BY <1>3 DEF Rest!Refreshed, Rest!LimitedUse
  <2>2. Fresh(Rest!has(c, Rest!SingleUse), sources["auth"])
    BY <1>1, <2>1, GoesOnFresh DEF Sourced
  <2>3. Sourced' /\ sources["auth"].token \in Nat
    BY <1>1, <2>1 DEF Sourced, IsSource
  <2> QED BY <2>1, <2>2, <2>3, OneStaysFresh
<1>4. CASE ~Rest!LimitedUse(c)
  <2> DEFINE new == sources[Rest!Asked(c)].token + 1
  <2>1. Rest!goes(c, Rest!has(c, new)) /\ sources' = [sources EXCEPT ![Rest!Asked(c)].token = new]
    BY <1>4 DEF Rest!Refreshed
  <2>2. /\ Sourced' /\ sources["auth"].token \in Nat /\ sources'["auth"].force = sources["auth"].force
        /\ sources["auth"].token <= sources'["auth"].token /\ (Rest!Asked(c) = "auth" => sources'["auth"].token = new)
    <3> DEFINE a == Rest!Asked(c)
               source == [sources[a] EXCEPT !.token = new]
    <3>1. IsSource(source) /\ source.token = new /\ source.exists = sources[a].exists /\ source.force = sources[a].force
      BY <1>1, <1>2 DEF Sourced, IsSource, SourceFields
    <3>2. sources' = [sources EXCEPT ![a] = source]
      BY <1>1, <1>2, <2>1 DEF Sourced
    <3>3. a \in Rest!Sources /\ (a = "auth" => new = sources["auth"].token + 1)
      BY <1>2
    <3>4. \A s \in Rest!Sources : sources'[s] = IF s = a THEN source ELSE sources[s]
      BY <1>1, <3>2 DEF Sourced
    <3>5. sources' = [s \in Rest!Sources |-> sources'[s]]
      BY <1>1, <3>2 DEF Sourced
    <3> HIDE DEF source, new
    <3>6. Sourced'
      BY <1>1, <3>1, <3>3, <3>4, <3>5 DEF Sourced, Rest!Sources
    <3>7. CASE a = "auth"
      BY <1>1, <3>1, <3>3, <3>4, <3>6, <3>7 DEF Sourced, Rest!Sources
    <3>8. CASE a # "auth"
      BY <1>1, <3>4, <3>6, <3>8 DEF Sourced, Rest!Sources
    <3> QED BY <3>7, <3>8
  <2>3. Rest!Asked(c) = "auth" => /\ new \in 0 .. sources'["auth"].token
                             /\ new # calls[c].rejected["auth"]
    BY <1>1, <2>2 DEF Fresh
  <2> HIDE DEF new
  <2>4. sources'["auth"].token \in Nat
    BY <2>2 DEF Sourced
  <2>5. Fresh(Rest!has(c, new), sources'["auth"])
    BY <1>1, <2>2, <2>3, <2>4, GoesOnFresh
  <2> QED BY <2>1, <2>2, <2>5, OneStaysFresh
<1> QED BY <1>3, <1>4

\* A call that ended has no token.
LEMMA EndedIsFresh ==
  ASSUME NEW call, NEW result, NEW auth, auth.token \in Nat PROVE Fresh(Rest!ended(call, result), auth)
<1> DEFINE new == Rest!ended(call, result)
<1>1. /\ IsCall(new) /\ new.pc = "done" /\ new.at = 1 /\ new.raced = FALSE
      /\ new.context = Rest!NoTokens /\ new.rejected = Rest!NoTokens
  BY DEF IsCall, Fields, Rest!ended, Rest!Idle
<1>2. Rest!NoTokens = [s \in Rest!Sources |-> Rest!NoTokens[s]] /\ Rest!NoTokens["auth"] = Rest!NoToken /\ Rest!NoToken \in 0 .. auth.token
  BY DEF Rest!NoTokens, Rest!NoToken, Rest!Sources
<1> HIDE DEF new
<1>3. Fresh(new, auth)
  BY <1>1, <1>2 DEF Fresh
<1> QED BY <1>3 DEF new

\* A refresh of the user's token that failed sends a callable off without one.
LEMMA RefreshFailsIsFresh ==
  ASSUME Tokens, NEW c \in Calls, Rest!RefreshFails(c) PROVE Tokens'
<1> DEFINE failed == [Rest!Pending EXCEPT !.code = "UNAUTHENTICATED"]
           cached == sources[Rest!Asked(c)].token
<1>1. /\ calls[c].pc = "refreshing" /\ Sourced /\ Fresh(calls[c], sources["auth"])
      /\ sources["auth"].token \in Nat /\ sources' = sources /\ Sourced'
  BY DEF Rest!RefreshFails, Rest!At, Tokens, Sourced, IsSource
<1>2. \/ Rest!Asked(c) = "appCheck" /\ Rest!goes(c, Rest!has(c, cached))
      \/ calls[c].kind = "callable" /\ Rest!goes(c, Rest!has(c, Rest!NoToken))
      \/ Rest!goes(c, Rest!ended(calls[c], failed))
  BY DEF Rest!RefreshFails
<1>3. CASE Rest!Asked(c) = "appCheck" /\ Rest!goes(c, Rest!has(c, cached))
  <2>1. Fresh(Rest!has(c, cached), sources["auth"])
    BY <1>1, <1>3, GoesOnFresh
  <2> QED BY <1>1, <1>3, <2>1, OneStaysFresh
<1>4. CASE calls[c].kind = "callable" /\ Rest!goes(c, Rest!has(c, Rest!NoToken))
  <2>1. calls[c].rejected["auth"] = Rest!NoToken
    BY <1>1, <1>4 DEF Fresh, Retried, Rest!Idempotent
  <2>2. Fresh(Rest!has(c, Rest!NoToken), sources["auth"])
    BY <1>1, <2>1, GoesOnFresh DEF Rest!NoToken
  <2> QED BY <1>1, <1>4, <2>2, OneStaysFresh
<1>5. CASE Rest!goes(c, Rest!ended(calls[c], failed))
  BY <1>1, <1>5, EndedIsFresh, OneStaysFresh
<1> QED BY <1>2, <1>3, <1>4, <1>5

\* An answer arrives; the tokens stay.
LEMMA ReceivedIsFresh ==
  ASSUME Tokens, NEW c \in Calls, NEW answer, Rest!At(c, "sent"), Rest!received(c, answer), sources' = sources PROVE Tokens'
<1> DEFINE call == [calls[c] EXCEPT !.pc = "received", !.answer = answer]
<1>1. /\ Rest!goes(c, call) /\ calls[c].pc = "sent" /\ Fresh(calls[c], sources["auth"]) /\ sources["auth"].token \in Nat /\ Sourced'
  BY DEF Rest!received, Rest!At, Tokens, Sourced, IsSource
<1>2. /\ IsCall(call) /\ call.pc = "received" /\ call.kind = calls[c].kind /\ call.at = calls[c].at
      /\ call.raced = calls[c].raced /\ call.context = calls[c].context /\ call.rejected = calls[c].rejected
  BY <1>1 DEF Fresh, IsCall, Fields
<1> HIDE DEF call
<1>3. Fresh(call, sources["auth"])
  BY <1>1, <1>2 DEF Fresh
<1> QED BY <1>1, <1>3, OneStaysFresh

\* A request is sent again with the tokens it had.
LEMMA ResendIsFresh ==
  ASSUME Tokens, NEW c \in Calls, Rest!Resend(c) PROVE Tokens'
<1> DEFINE call == [calls[c] EXCEPT !.pc = "sent", !.resent = @ + 1]
<1>1. /\ Rest!goes(c, call) /\ calls[c].pc = "received" /\ sources' = sources
      /\ Fresh(calls[c], sources["auth"]) /\ sources["auth"].token \in Nat /\ Sourced'
  BY DEF Rest!Resend, Rest!At, Tokens, Sourced, IsSource
<1>2. /\ IsCall(call) /\ call.pc = "sent" /\ call.kind = calls[c].kind /\ call.at = calls[c].at
      /\ call.raced = calls[c].raced /\ call.context = calls[c].context /\ call.rejected = calls[c].rejected
  BY <1>1 DEF Fresh, IsCall, Fields
<1> HIDE DEF call
<1>3. Fresh(call, sources["auth"])
  BY <1>1, <1>2 DEF Fresh
<1> QED BY <1>1, <1>3, OneStaysFresh

\* A rejection orders a new token, and the call asks for it.
LEMMA RetryIsFresh ==
  ASSUME Tokens, NEW c \in Calls, Rest!Retry(c) PROVE Tokens'
<1> DEFINE code == Rest!Error(calls[c])
           call == [calls[c] EXCEPT !.pc = "asking", !.at = 1, !.attempt = @ + 1, !.resent = 0, !.answer = Rest!NoAnswer,
                                    !.context = Rest!NoTokens, !.raced = FALSE,
                                    !.rejected = IF code = "UNAUTHENTICATED" THEN calls[c].context ELSE Rest!NoTokens]
<1>1. /\ Rest!goes(c, call) /\ sources' = Rest!invalidated(code) /\ Rest!retryable(calls[c], code)
      /\ Sourced /\ Fresh(calls[c], sources["auth"])
  BY DEF Rest!Retry, Tokens
<1>2. calls[c].kind \in Retried
  BY <1>1 DEF Rest!retryable, Retried
<1>3. /\ Sourced' /\ sources'["auth"].token = sources["auth"].token /\ sources["auth"].token \in Nat
      /\ sources["auth"].force => sources'["auth"].force
      /\ code = "UNAUTHENTICATED" => sources'["auth"].force
  <2>1. CASE code = "UNAUTHENTICATED"
    <3>1. sources' = [s \in Rest!Sources |-> Rest!invalidate_token(s)]
      BY <1>1, <2>1 DEF Rest!invalidated
    <3> QED BY <1>1, <3>1, SourceInvalidated DEF Sourced, Rest!Sources
  <2>2. CASE code # "UNAUTHENTICATED"
    <3>1. sources' = sources
      BY <1>1, <2>2 DEF Rest!invalidated
    <3> QED BY <1>1, <2>2, <3>1 DEF Sourced, IsSource
  <2> QED BY <2>1, <2>2
<1>4. /\ IsCall(call) /\ call.pc = "asking" /\ call.at = 1 /\ call.kind = calls[c].kind
      /\ call.raced = FALSE /\ call.context = Rest!NoTokens
      /\ call.rejected = IF code = "UNAUTHENTICATED" THEN calls[c].context ELSE Rest!NoTokens
  BY <1>1 DEF Fresh, IsCall, Fields
<1>5. Rest!NoTokens = [s \in Rest!Sources |-> Rest!NoTokens[s]] /\ Rest!NoTokens["auth"] = Rest!NoToken /\ Rest!NoToken \in 0 .. sources'["auth"].token
  BY <1>3 DEF Rest!NoTokens, Rest!NoToken, Rest!Sources
<1> HIDE DEF call, code
<1>6. /\ call.rejected["auth"] \in 0 .. sources'["auth"].token
      /\ call.rejected["auth"] # Rest!NoToken => sources'["auth"].force
  BY <1>1, <1>3, <1>4, <1>5 DEF Fresh
<1>7. Fresh(call, sources'["auth"])
  BY <1>2, <1>4, <1>5, <1>6 DEF Fresh
<1>8. sources["auth"].token <= sources'["auth"].token
  BY <1>3
<1> QED BY <1>1, <1>3, <1>7, <1>8, OneStaysFresh

\* The call ends.
LEMMA EndIsFresh ==
  ASSUME Tokens, NEW c \in Calls, Rest!End(c) PROVE Tokens'
<1>1. \E result : Rest!goes(c, Rest!ended(calls[c], result))
  BY DEF Rest!End
<1>2. sources' = sources /\ sources["auth"].token \in Nat /\ Sourced'
  BY DEF Rest!End, Tokens, Sourced, IsSource
<1> QED BY <1>1, <1>2, EndedIsFresh, OneStaysFresh

\* Services are installed and tokens revoked meanwhile.
LEMMA SourcesStayFresh ==
  ASSUME Tokens, NEW s \in Rest!Sources, Rest!Install(s) \/ Rest!Revoke(s) PROVE Tokens'
<1>1. /\ calls' = calls /\ Sourced
      /\ sources' = [sources EXCEPT ![s].exists = TRUE] \/ sources' = [sources EXCEPT ![s].minimum = sources[s].token + 1]
  BY DEF Rest!Install, Rest!Revoke, Tokens
<1>2. Sourced' /\ sources'["auth"].token = sources["auth"].token /\ sources'["auth"].force = sources["auth"].force
  BY <1>1 DEF Sourced, Rest!Sources, IsSource, SourceFields
<1>3. \A c \in Calls : Fresh(calls[c], sources'["auth"])
  BY <1>1, <1>2, StaysFresh DEF Tokens, Sourced
<1> QED BY <1>1, <1>2, <1>3 DEF Tokens

\* No call has a token at first.
LEMMA InitIsFresh == Rest!Init => Tokens
<1> SUFFICES ASSUME Rest!Init PROVE Tokens
  OBVIOUS
<1>1. /\ calls = [c \in Calls |-> Rest!Idle]
      /\ sources = [s \in Rest!Sources |-> [exists |-> s = "auth", resolved |-> FALSE, invalidated |-> FALSE, force |-> FALSE,
                                       token |-> Rest!NoToken, minimum |-> 0]]
  BY DEF Rest!Init
<1>2. Sourced
  BY <1>1 DEF Sourced, Rest!Sources, IsSource, SourceFields, Rest!NoToken
<1>3. IsCall(Rest!Idle) /\ Rest!Idle.pc = "idle" /\ Rest!Idle.at = 1 /\ Rest!Idle.raced = FALSE /\ Rest!Idle.context = Rest!NoTokens /\ Rest!Idle.rejected = Rest!NoTokens
  BY DEF IsCall, Fields, Rest!Idle
<1>4. Rest!NoTokens = [s \in Rest!Sources |-> Rest!NoTokens[s]] /\ Rest!NoTokens["auth"] = Rest!NoToken /\ Rest!NoToken \in 0 .. sources["auth"].token
  BY <1>2 DEF Rest!NoTokens, Rest!NoToken, Rest!Sources, Sourced
<1>5. Fresh(Rest!Idle, sources["auth"])
  BY <1>3, <1>4 DEF Fresh
<1> QED BY <1>1, <1>2, <1>5 DEF Tokens

\* A request sent again after its credentials were rejected does not carry the
\* rejected token of the user, unless another call took over replacing it
\* (invalidate_token, the token providers' force_refresh).
THEOREM RetriesAreFresh == Rest!Spec => []Rest!RetriesCarryAFreshToken
<1>1. Tokens /\ [Rest!Next]_Rest!restVars => Tokens'
  <2> SUFFICES ASSUME Tokens, [Rest!Next]_Rest!restVars PROVE Tokens'
    OBVIOUS
  <2>1. CASE UNCHANGED Rest!restVars
    BY <2>1 DEF Rest!restVars, Tokens, Sourced, IsSource, Fresh, IsCall
  <2>2. ASSUME NEW c \in Calls, Rest!Serve(c) \/ Rest!ServeRefuses(c) \/ Rest!Lose(c) PROVE Tokens'
    <3>1. PICK answer : Rest!received(c, answer)
      BY <2>2 DEF Rest!Serve, Rest!ServeRefuses, Rest!Lose
    <3>2. Rest!At(c, "sent") /\ sources' = sources
      BY <2>2 DEF Rest!Serve, Rest!ServeRefuses, Rest!Lose
    <3> QED BY <3>1, <3>2, ReceivedIsFresh
  <2>3. ASSUME NEW c \in Calls,
               \/ \E kind \in Rest!Kinds, keys \in Lists : Rest!Begin(c, kind, keys)
               \/ Rest!GetToken(c) \/ Rest!Refreshed(c) \/ Rest!RefreshFails(c) \/ Rest!Resend(c) \/ Rest!Retry(c) \/ Rest!End(c)
        PROVE  Tokens'
    BY <2>3, BeginIsFresh, GetTokenIsFresh, RefreshedIsFresh, RefreshFailsIsFresh, ResendIsFresh, RetryIsFresh, EndIsFresh
  <2> QED BY <2>1, <2>2, <2>3, SourcesStayFresh DEF Rest!Next
<1>2. Tokens => Rest!RetriesCarryAFreshToken
  BY DEF Tokens, Fresh, Rest!RetriesCarryAFreshToken, Rest!At
<1> QED BY InitIsFresh, <1>1, <1>2, PTL DEF Rest!Spec
=============================================================================
