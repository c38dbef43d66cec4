------------------------ MODULE StorageUploadProofs ------------------------
(***************************************************************************)
(* What holds of an UploadTask for any number of controllers, payload      *)
(* sizes, chunk limit, retries and control calls: bytes_transferred counts *)
(* only what the server has, and an observer ends up with the last state   *)
(* unless a change fell between emit's snapshot and its clearing of        *)
(* `pending`.                                                              *)
(*                                                                         *)
(* The second part is about the registration tokens of Messaging, for any  *)
(* pages, keys and calls.                                                  *)
(*                                                                         *)
(* The third part is about Performance: for any handles and flushes, where *)
(* a record that was kept is, and which failures lose one.                 *)
(***************************************************************************)
EXTENDS StorageUpload, Sequences, FiniteSetTheorems, SequenceTheorems, TLAPS

Observed == OneDispatch /\ SnapshotIsCurrent /\ WillBeShown
Progress == RequestFits /\ AnswerIsTrue /\ Transfer

-----------------------------------------------------------------------------
(* Types *)

LEMMA EmitType ==
  ASSUME emitting \in EmittingType, NEW t \in Threads, emit(t)
  PROVE  emitting' \in EmittingType
  BY DEF emit, EmittingType, States

LEMMA NoRequestType ==
  ASSUME ConstantsOK PROVE NoRequest \in RequestType /\ NoRequest.kind = "none"
  BY DEF NoRequest, RequestType, ConstantsOK

\* The fields the arguments below compute with.
LEMMA Fields ==
  ASSUME ConstantsOK, TypeOK
  PROVE  /\ task.total \in Nat /\ task.transferred \in Nat /\ task.mult \in 1 .. MaxChunk /\ task.mult \in Nat
         /\ task.url \in BOOLEAN /\ task.state \in States
         /\ session.received \in Nat /\ session.object \in BOOLEAN
         /\ request.from \in Nat /\ request.to \in Nat
<1>1. task \in TaskType /\ session \in SessionType /\ request \in RequestType
  BY DEF TypeOK
<1>2. task.total \in Sizes /\ task.transferred \in Nat /\ task.mult \in 1 .. MaxChunk /\ task.url \in BOOLEAN
  BY <1>1 DEF TaskType
<1>3. task.state \in States
  BY <1>1 DEF TaskType
<1>4. session.received \in Nat /\ session.object \in BOOLEAN /\ request.from \in Nat /\ request.to \in Nat
  BY <1>1 DEF SessionType, RequestType
<1>5. Sizes \subseteq Nat /\ \A n \in 1 .. MaxChunk : n \in Nat
  BY DEF ConstantsOK
<1>6. task.total \in Nat /\ task.mult \in Nat
  BY <1>2, <1>5
<1> QED BY <1>2, <1>3, <1>4, <1>6

-----------------------------------------------------------------------------
(* Observers *)

\* A thread that calls emit is on its way to tell of whatever it changed.
LEMMA EmitBegins ==
  ASSUME TypeOK, Observed, NEW t \in Threads, Free(t), emit(t), UNCHANGED <<registry, seen, missed>>
  PROVE  Observed'
<1>1. /\ emitting[t].at = "no" /\ emitting' = [emitting EXCEPT ![t] = [at |-> "enter", state |-> "pending"]]
      /\ emitting \in EmittingType
  BY DEF TypeOK, Free, emit
<1>2. emitting'[t].at = "enter" /\ \A u \in Threads : u # t => emitting'[u] = emitting[u]
  BY <1>1 DEF EmittingType
<1>3. OneDispatch'
  BY <1>1, <1>2 DEF Observed, OneDispatch, Dispatching
<1>4. SnapshotIsCurrent' /\ WillBeShown'
  BY <1>2 DEF SnapshotIsCurrent, WillBeShown, Entering
<1> QED BY <1>3, <1>4 DEF Observed

\* A step that leaves the state and the observers alone leaves them informed.
LEMMA EmitStays ==
  ASSUME Observed, UNCHANGED <<registry, emitting, seen, missed>>, task'.state = task.state
  PROVE  Observed'
  BY DEF Observed, OneDispatch, Dispatching, SnapshotIsCurrent, WillBeShown, Entering

\* emit's first lock: the call is left to the dispatch under way, or begins one.
LEMMA EnterKeeps ==
  ASSUME TypeOK, Observed, NEW t \in Threads, EmitEnter(t)
  PROVE  Observed'
<1> USE DEF Observed, OneDispatch, Dispatching, SnapshotIsCurrent, WillBeShown, Entering, TypeOK, RegistryType, EmittingType
<1>1. emitting[t].at = "enter" /\ UNCHANGED <<task, seen>>
  BY DEF EmitEnter, emitVars
<1>2. CASE registry.dispatching
  <2>1. /\ registry' = [registry EXCEPT !.pending = TRUE]
        /\ missed' = (missed \/ \E u \in Threads : emitting[u].at = "take")
        /\ emitting' = [emitting EXCEPT ![t] = Quiet]
    BY <1>2 DEF EmitEnter
  <2>2. emitting'[t] = Quiet /\ \A u \in Threads : u # t => emitting'[u] = emitting[u]
    BY <2>1
  <2>3. registry'.pending /\ registry'.dispatching = registry.dispatching /\ registry'.observer = registry.observer
    BY <2>1
  <2>4. OneDispatch'
    BY <1>1, <1>2, <2>2, <2>3 DEF Quiet
  <2>5. ASSUME NEW u \in Threads, emitting'[u].at = "take" PROVE missed'
    <3>1. emitting[u].at = "take"
      BY <2>2, <2>5 DEF Quiet
    <3> QED BY <2>1, <3>1
  <2>6. SnapshotIsCurrent' /\ WillBeShown'
    BY <2>3, <2>5
  <2> QED BY <2>4, <2>6
<1>3. CASE ~registry.dispatching /\ registry.observer = "none"
  <2>1. emitting' = [emitting EXCEPT ![t] = Quiet] /\ UNCHANGED <<registry, missed>>
    BY <1>3 DEF EmitEnter
  <2>2. emitting'[t] = Quiet /\ \A u \in Threads : u # t => emitting'[u] = emitting[u]
    BY <2>1
  <2>3. \A u \in Threads : ~Dispatching(u)
    BY <1>3
  <2>4. \A u \in Threads : emitting'[u].at \notin {"snapshot", "take", "restore"}
    BY <2>2, <2>3 DEF Quiet
  <2> QED BY <1>3, <2>1, <2>4
<1>4. CASE ~registry.dispatching /\ registry.observer # "none"
  <2>1. /\ registry' = [registry EXCEPT !.dispatching = TRUE]
        /\ emitting' = [emitting EXCEPT ![t].at = "snapshot"] /\ missed' = missed
    BY <1>4 DEF EmitEnter
  <2>2. emitting'[t].at = "snapshot" /\ \A u \in Threads : u # t => emitting'[u] = emitting[u]
    BY <2>1
  <2>3. \A u \in Threads : ~Dispatching(u)
    BY <1>4
  <2>4. registry'.dispatching /\ registry'.pending = registry.pending /\ registry'.observer = registry.observer
    BY <2>1
  <2>5. OneDispatch'
    BY <1>4, <2>2, <2>3, <2>4
  <2>6. SnapshotIsCurrent' /\ WillBeShown'
    BY <2>2, <2>3
  <2> QED BY <2>5, <2>6
<1> QED BY <1>2, <1>3, <1>4

\* The snapshot is of the state as it is.
LEMMA SnapshotKeeps ==
  ASSUME TypeOK, Observed, NEW t \in Threads, EmitSnapshot(t)
  PROVE  Observed'
<1> USE DEF Observed, OneDispatch, Dispatching, SnapshotIsCurrent, WillBeShown, Entering, TypeOK, RegistryType, EmittingType
<1>1. /\ emitting[t].at = "snapshot" /\ UNCHANGED <<task, registry, seen, missed>>
      /\ emitting' = [emitting EXCEPT ![t] = [at |-> "take", state |-> task.state]]
  BY DEF EmitSnapshot, emitVars
<1>2. /\ emitting'[t].at = "take" /\ emitting'[t].state = task.state
      /\ \A u \in Threads : u # t => emitting'[u] = emitting[u]
  BY <1>1
<1>3. OneDispatch'
  BY <1>1, <1>2
<1>4. \A u \in Threads : u # t => emitting'[u].at # "take"
  BY <1>1, <1>2
<1> QED BY <1>1, <1>2, <1>3, <1>4

\* `pending` is cleared for a change that the snapshot has, or a thread will tell.
LEMMA TakeKeeps ==
  ASSUME TypeOK, Observed, NEW t \in Threads, EmitTake(t)
  PROVE  Observed'
<1> USE DEF Observed, OneDispatch, Dispatching, SnapshotIsCurrent, WillBeShown, Entering, TypeOK, RegistryType, EmittingType
<1>1. /\ emitting[t].at = "take" /\ UNCHANGED <<task, missed>>
      /\ registry' = [registry EXCEPT !.pending = FALSE, !.observer = IF @ = "listed" THEN "taken" ELSE @]
      /\ seen' = IF registry.observer = "listed" THEN emitting[t].state ELSE seen
      /\ emitting' = [emitting EXCEPT ![t].at = "restore"]
  BY DEF EmitTake, emitVars
<1>2. emitting'[t].at = "restore" /\ \A u \in Threads : u # t => emitting'[u] = emitting[u]
  BY <1>1
<1>3. \A u \in Threads : u # t => ~Dispatching(u)
  BY <1>1
<1>4. /\ ~registry'.pending /\ registry'.dispatching = registry.dispatching
      /\ registry'.observer = IF registry.observer = "listed" THEN "taken" ELSE registry.observer
  BY <1>1
<1>5. OneDispatch'
  BY <1>1, <1>2, <1>3, <1>4
<1>6. registry.observer # "taken"
  BY <1>1, <1>3
<1>7. Entering => Entering'
  BY <1>1, <1>2
<1>8. WillBeShown'
  <2>1. CASE registry.observer = "listed"
    BY <1>1, <1>7, <2>1
  <2>2. CASE registry.observer = "none"
    BY <1>4, <2>2
  <2> QED BY <1>6, <2>1, <2>2
<1>9. SnapshotIsCurrent'
  BY <1>2, <1>3
<1> QED BY <1>5, <1>8, <1>9

\* The observers return; what came meanwhile is shown in another round.
LEMMA RestoreKeeps ==
  ASSUME TypeOK, Observed, NEW t \in Threads, EmitRestore(t)
  PROVE  Observed'
<1> USE DEF Observed, OneDispatch, Dispatching, SnapshotIsCurrent, WillBeShown, Entering, TypeOK, RegistryType, EmittingType
<1> DEFINE left == IF registry.removed THEN "none" ELSE IF registry.observer = "none" THEN "none" ELSE "listed"
           again == registry.pending /\ left # "none"
<1>1. /\ emitting[t].at = "restore" /\ UNCHANGED <<task, seen, missed>>
      /\ registry' = [observer |-> left, removed |-> FALSE, dispatching |-> again, pending |-> registry.pending /\ again]
      /\ emitting' = [emitting EXCEPT ![t] = IF again THEN [@ EXCEPT !.at = "snapshot"] ELSE Quiet]
  BY DEF EmitRestore, emitVars
<1>2. /\ emitting'[t].at = IF again THEN "snapshot" ELSE "no"
      /\ \A u \in Threads : u # t => emitting'[u] = emitting[u]
  BY <1>1 DEF Quiet
<1>3. \A u \in Threads : u # t => ~Dispatching(u)
  BY <1>1
<1>4. registry'.observer = left /\ registry'.dispatching = again /\ registry'.pending = (registry.pending /\ again)
  BY <1>1
<1>5. left \in {"none", "listed"} /\ (registry.observer = "none" => left = "none")
  OBVIOUS
<1>6. Entering => Entering'
  BY <1>1, <1>2
<1> HIDE DEF left
<1>7. CASE again
  BY <1>2, <1>3, <1>4, <1>5, <1>7
<1>8. CASE ~again
  <2>1. \A u \in Threads : emitting'[u].at \notin {"snapshot", "take", "restore"}
    BY <1>2, <1>3, <1>8
  <2>2. ~registry'.dispatching /\ ~registry'.pending
    BY <1>4, <1>8
  <2>3. OneDispatch' /\ SnapshotIsCurrent'
    BY <1>4, <1>5, <2>1, <2>2
  <2>4. WillBeShown'
    BY <1>1, <1>3, <1>4, <1>5, <1>6, <1>8
  <2> QED BY <2>3, <2>4
<1> QED BY <1>7, <1>8

\* An observer that is added has been shown nothing yet.
LEMMA ObserveKeeps ==
  ASSUME TypeOK, Observed, NEW t \in Threads, Observe(t)
  PROVE  Observed'
<1> USE DEF Observed, OneDispatch, Dispatching, SnapshotIsCurrent, WillBeShown, Entering, TypeOK, RegistryType, EmittingType
<1>1. UNCHANGED <<task, emitting, missed>>
  BY DEF Observe
<1>2. registry'.dispatching = registry.dispatching /\ registry'.pending = registry.pending
  BY DEF Observe
<1>3. \/ registry'.observer = "listed" /\ seen' = "nothing"
      \/ registry'.observer \in {"none", registry.observer} /\ seen' = seen
  BY DEF Observe
<1> QED BY <1>1, <1>2, <1>3

-----------------------------------------------------------------------------
(* The driver and the server *)

\* The steps of the driver that send a request.
LEMMA SendTyped ==
  ASSUME ConstantsOK, TypeOK, NEW kind \in {"create", "chunk", "multipart", "cancel", "query"},
         NEW from \in Nat, NEW to \in Nat, sends(kind, from, to)
  PROVE  /\ request' \in RequestType
         /\ driver' = "requesting" /\ request'.kind = kind /\ request'.from = from /\ request'.to = to
  BY DEF sends, ConstantsOK, RequestType

\* Where the driver stands after finish_cancellation.
LEMMA CancelsKeeps ==
  ASSUME ConstantsOK, TypeOK, Progress, Observed, cancels, UNCHANGED driverRest, Free(Driver), task.state # "completed"
  PROVE  TypeOK' /\ Progress' /\ Observed'
<1> USE DEF ConstantsOK
<1>1. CASE ~task.notified /\ task.url
  <2>1. task' = [task EXCEPT !.notified = TRUE] /\ sends("cancel", 0, 0) /\ UNCHANGED emitting
    BY <1>1 DEF cancels
  <2>2. TypeOK'
    BY <2>1, SendTyped DEF TypeOK, TaskType, driverRest
  <2>3. /\ driver' = "requesting" /\ request'.kind = "cancel" /\ session' = session
    BY <2>1, SendTyped DEF driverRest
  <2>4. /\ task'.state = task.state /\ task'.transferred = task.transferred
        /\ task'.total = task.total /\ task'.url = task.url
    BY <2>1 DEF TypeOK, TaskType
  <2>5. Progress'
    BY <1>1, <2>3, <2>4 DEF Progress, RequestFits, AnswerIsTrue, Transfer, resumable
  <2>6. Observed'
    BY <2>1, EmitStays DEF TypeOK, TaskType, driverRest
  <2> QED BY <2>2, <2>5, <2>6
<1>2. CASE ~(~task.notified /\ task.url)
  <2>1. /\ task' = [task EXCEPT !.notified = TRUE, !.recorded = TRUE]
        /\ driver' = "returned" /\ request' = NoRequest
        /\ IF task.recorded THEN UNCHANGED emitting ELSE emit(Driver)
    BY <1>2 DEF cancels
  <2>2. TypeOK'
    BY <2>1, EmitType, NoRequestType DEF TypeOK, TaskType, driverRest, Threads, States
  <2>3. Progress'
    BY <2>1 DEF TypeOK, TaskType, driverRest, Progress, RequestFits, AnswerIsTrue, Transfer, resumable
  <2>4. Observed'
    BY <2>1, EmitStays, EmitBegins DEF TypeOK, TaskType, driverRest, Threads
  <2> QED BY <2>2, <2>3, <2>4
<1> QED BY <1>1, <1>2

\* UploadShared::fail.
LEMMA FailsKeeps ==
  ASSUME ConstantsOK, TypeOK, Progress, Observed, fails, UNCHANGED driverRest, Free(Driver)
  PROVE  TypeOK' /\ Progress' /\ Observed'
<1> USE DEF ConstantsOK
<1>1. /\ task' = [task EXCEPT !.state = "error", !.mult = 1, !.recorded = TRUE]
      /\ driver' = "returned" /\ request' = NoRequest /\ emit(Driver)
  BY DEF fails
<1>2. task' \in TaskType
  <2>1. task \in TaskType /\ "error" \in States /\ 1 \in 1 .. MaxChunk
    BY DEF TypeOK, States
  <2> QED BY <1>1, <2>1 DEF TaskType
<1>3. emitting' \in EmittingType
  BY <1>1, EmitType DEF TypeOK, Threads
<1>4. TypeOK'
  BY <1>1, <1>2, <1>3, NoRequestType DEF TypeOK, driverRest
<1>5. Progress'
  BY <1>1 DEF TypeOK, TaskType, driverRest, Progress, RequestFits, AnswerIsTrue, Transfer, resumable
<1>6. Observed'
  BY <1>1, EmitBegins DEF driverRest, Threads
<1> QED BY <1>4, <1>5, <1>6

\* The top of a turn: a request is sent only where the session allows it.
LEMMA TurnsKeeps ==
  ASSUME ConstantsOK, TypeOK, Progress, Observed, DriverTurns
  PROVE  TypeOK' /\ Progress' /\ Observed'
<1> USE DEF ConstantsOK
<1>1. driver = "idle" /\ Free(Driver) /\ UNCHANGED driverRest
  BY DEF DriverTurns
<1>2. CASE task.state = "canceled" /\ cancels
  BY <1>1, <1>2, CancelsKeeps
<1>3. CASE /\ task.state = "pending" /\ task' = [task EXCEPT !.state = "running"]
           /\ emit(Driver) /\ UNCHANGED <<driver, request>>
  <2>1. TypeOK'
    BY <1>1, <1>3, EmitType DEF TypeOK, TaskType, driverRest, Threads, States
  <2>2. Progress'
    BY <1>1, <1>3 DEF TypeOK, TaskType, driverRest, Progress, RequestFits, AnswerIsTrue, Transfer, resumable
  <2>3. Observed'
    BY <1>1, <1>3, EmitBegins DEF driverRest, Threads
  <2> QED BY <2>1, <2>2, <2>3
<1>4. CASE /\ task.state = "running" /\ UNCHANGED <<task, emitting>>
           /\ IF ~resumable THEN sends("multipart", 0, task.total)
              ELSE IF ~task.url THEN sends("create", 0, 0)
              ELSE sends("chunk", next_chunk.from, next_chunk.to)
  <2>1. /\ task.total \in Nat /\ task.transferred \in Nat /\ task.mult \in Nat /\ session.received \in Nat
        /\ task.transferred <= task.total
    BY Fields DEF Progress, Transfer
  <2>2. /\ next_chunk.from \in Nat /\ next_chunk.to \in Nat
        /\ next_chunk.from <= next_chunk.to /\ next_chunk.to <= task.total
    BY <2>1 DEF next_chunk
  <2>3. Observed'
    BY <1>1, <1>4, EmitStays DEF driverRest
  <2>4. PICK kind \in {"create", "chunk", "multipart"}, from \in Nat, to \in Nat :
          /\ sends(kind, from, to)
          /\ kind \in {"create", "multipart"} => ~task.url
          /\ kind = "create" => resumable
          /\ kind = "chunk" => task.url /\ from <= to /\ to <= task.total
          /\ kind = "multipart" => to = task.total
    <3>1. CASE ~resumable
      BY <1>4, <2>1, <3>1 DEF Progress, Transfer
    <3>2. CASE resumable /\ ~task.url
      BY <1>4, <3>2
    <3>3. CASE resumable /\ task.url
      BY <1>4, <2>2, <3>3
    <3> QED BY <3>1, <3>2, <3>3
  <2>5. TypeOK'
    BY <1>1, <1>4, <2>4, SendTyped DEF TypeOK, TaskType, driverRest
  <2>6. /\ driver' = "requesting" /\ request'.kind = kind /\ request'.from = from /\ request'.to = to
        /\ task' = task /\ session' = session
    BY <1>1, <1>4, <2>4, SendTyped DEF driverRest
  <2>7. Progress'
    BY <1>1, <1>4, <2>4, <2>6 DEF Progress, RequestFits, AnswerIsTrue, Transfer, resumable
  <2> QED BY <2>3, <2>5, <2>7
<1> QED BY <1>1, <1>2, <1>3, <1>4 DEF DriverTurns

\* refresh_status asks for a session there is.
LEMMA AsksKeeps ==
  ASSUME ConstantsOK, TypeOK, Progress, Observed, DriverAsksStatus
  PROVE  TypeOK' /\ Progress' /\ Observed'
<1>1. /\ driver = "idle" /\ task.url /\ task.state \notin Terminal /\ sends("query", 0, 0)
      /\ UNCHANGED <<task, emitting, driverRest>>
  BY DEF DriverAsksStatus
<1>2. TypeOK'
  BY <1>1, SendTyped DEF TypeOK, TaskType, driverRest
<1>3. driver' = "requesting" /\ request'.kind = "query" /\ task' = task /\ session' = session
  BY <1>1, SendTyped DEF driverRest
<1>4. Progress'
  BY <1>1, <1>3 DEF Progress, RequestFits, AnswerIsTrue, Transfer, resumable, Terminal
<1>5. Observed'
  BY <1>1, EmitStays DEF driverRest
<1> QED BY <1>2, <1>4, <1>5

\* What the server has after a request is a session, has no fewer of the task's bytes
\* than the task counts, and no more than the payload has.
LEMMA ServerAdvances ==
  ASSUME ConstantsOK, TypeOK, Progress, driver = "requesting"
  PROVE  /\ SessionAfter \in SessionType
         /\ task.transferred <= SessionAfter.received /\ SessionAfter.received <= task.total
<1>1. session \in SessionType
  BY DEF TypeOK
<1>2. /\ task.transferred <= session.received /\ session.received <= task.total
      /\ request.kind \in {"create", "multipart"} => task.transferred = 0
      /\ request.kind = "multipart" => request.to = task.total
      /\ request.kind = "chunk" => request.from <= request.to /\ request.to <= task.total
  BY DEF Progress, RequestFits, Transfer
<1>3. CASE request.kind = "create"
  <2>1. SessionAfter = [session EXCEPT !.status = "active", !.received = 0]
    BY <1>3 DEF SessionAfter
  <2>2. SessionAfter \in SessionType /\ SessionAfter.received = 0
    BY <1>1, <2>1 DEF SessionType
  <2> QED BY <1>2, <1>3, <2>2, Fields
<1>4. CASE request.kind = "multipart"
  <2>1. SessionAfter = [session EXCEPT !.object = TRUE, !.received = request.to]
    BY <1>4 DEF SessionAfter
  <2>2. SessionAfter \in SessionType /\ SessionAfter.received = request.to
    BY <1>1, <2>1, Fields DEF SessionType
  <2> QED BY <1>2, <1>4, <2>2, Fields
<1>5. CASE request.kind = "chunk" /\ session.status = "active" /\ session.received = request.from
  BY <1>1, <1>2, <1>5, Fields DEF SessionAfter, SessionType
<1>6. CASE request.kind = "cancel" /\ session.status = "active"
  BY <1>1, <1>2, <1>6 DEF SessionAfter, SessionType
<1>7. CASE /\ request.kind \notin {"create", "multipart"}
           /\ ~(request.kind = "chunk" /\ session.status = "active" /\ session.received = request.from)
           /\ ~(request.kind = "cancel" /\ session.status = "active")
  BY <1>1, <1>2, <1>7 DEF SessionAfter
<1> QED BY <1>3, <1>4, <1>5, <1>6, <1>7

\* The answer the server gives is one the driver understands, and says what it has.
LEMMA ServerAnswers ==
  ASSUME ConstantsOK, TypeOK, Progress, driver = "requesting"
  PROVE  /\ AnswerOf \in {"none", "active", "final", "failed", "canceled"}
         /\ request.kind = "multipart" => AnswerOf = "final" /\ SessionAfter.object /\ SessionAfter.received = task.total
         /\ request.kind = "chunk" =>
              /\ AnswerOf \in {"active", "final", "failed", "canceled"}
              /\ AnswerOf = "final" => SessionAfter.object /\ SessionAfter.received = task.total
              /\ AnswerOf = "active" => SessionAfter.received = request.to
<1> USE DEF ConstantsOK, TypeOK, TaskType, RequestType, SessionType, Progress, RequestFits, Transfer
<1>1. CASE request.kind \in {"create", "cancel", "query"}
  BY <1>1 DEF AnswerOf
<1>2. CASE request.kind = "multipart"
  BY <1>2 DEF AnswerOf, SessionAfter
<1>3. CASE request.kind = "chunk"
  <2>1. CASE session.status = "active" /\ session.received = request.from
    <3>1. SessionAfter = [status |-> IF request.to = task.total THEN "final" ELSE "active", received |-> request.to,
                          object |-> request.to = task.total]
      BY <1>3, <2>1 DEF SessionAfter
    <3>2. AnswerOf = IF SessionAfter # session THEN SessionAfter.status
                     ELSE IF session.status = "canceled" THEN "canceled" ELSE "failed"
      BY <1>3 DEF AnswerOf
    <3> HIDE DEF TypeOK, Progress, RequestFits, Transfer
    <3> QED BY <1>3, <2>1, <3>1, <3>2
  <2>2. CASE ~(session.status = "active" /\ session.received = request.from)
    <3>1. SessionAfter = session
      BY <1>3, <2>2 DEF SessionAfter
    <3>2. AnswerOf = IF session.status = "canceled" THEN "canceled" ELSE "failed"
      BY <1>3, <3>1 DEF AnswerOf
    <3> QED BY <1>3, <3>2
  <2> QED BY <2>1, <2>2
<1> QED BY <1>1, <1>2, <1>3

\* An attempt, answered or not: a request served again changes nothing it should not.
LEMMA AttemptKeeps ==
  ASSUME ConstantsOK, TypeOK, Progress, Observed, Attempt
  PROVE  TypeOK' /\ Progress' /\ Observed'
<1> USE DEF ConstantsOK
<1>1. /\ driver = "requesting" /\ UNCHANGED <<task, registry, emitting, controls, seen, missed>>
  BY DEF Attempt
<1>2. Observed'
  BY <1>1, EmitStays
<1>3. session' \in {session, SessionAfter}
  BY DEF Attempt
<1>4. /\ session' \in SessionType
      /\ task.transferred <= session'.received /\ session'.received <= task.total
  BY <1>1, <1>3, ServerAdvances DEF TypeOK, Progress, Transfer
<1>5. \/ /\ driver' = driver /\ request' = [request EXCEPT !.attempt = @ + 1] /\ request.attempt < MaxAttempts
      \/ driver' = "answered" /\ request' = [request EXCEPT !.answer = "failed"]
      \/ driver' = "answered" /\ request' = [request EXCEPT !.answer = AnswerOf] /\ session' = SessionAfter
  BY DEF Attempt, retries, answers
<1>6. /\ request' \in RequestType
      /\ driver' \in {"requesting", "answered"}
      /\ request'.kind = request.kind /\ request'.from = request.from /\ request'.to = request.to
  BY <1>1, <1>5, ServerAnswers DEF TypeOK, RequestType
<1>7. TypeOK'
  BY <1>1, <1>4, <1>6 DEF TypeOK
<1>8. RequestFits' /\ Transfer'
  BY <1>1, <1>4, <1>6 DEF Progress, RequestFits, Transfer, resumable
<1>9. AnswerIsTrue'
  <2>1. CASE driver' = driver
    BY <1>1, <2>1 DEF AnswerIsTrue
  <2>2. CASE driver' = "answered" /\ request' = [request EXCEPT !.answer = "failed"]
    BY <2>2 DEF AnswerIsTrue, TypeOK, RequestType
  <2>3. CASE driver' = "answered" /\ request' = [request EXCEPT !.answer = AnswerOf] /\ session' = SessionAfter
    <3>1. request'.answer = AnswerOf
      BY <2>3 DEF TypeOK, RequestType
    <3> QED BY <1>1, <1>6, <2>3, <3>1, ServerAnswers DEF AnswerIsTrue
  <2> QED BY <1>5, <2>1, <2>2, <2>3
<1> QED BY <1>2, <1>7, <1>8, <1>9 DEF Progress

\* The look at the answer.
LEMMA LooksKeeps ==
  ASSUME ConstantsOK, TypeOK, Progress, Observed, DriverLooks
  PROVE  TypeOK' /\ Progress' /\ Observed'
<1> USE DEF ConstantsOK
<1>1. /\ driver = "answered" /\ Free(Driver) /\ UNCHANGED driverRest /\ task.state # "completed"
  BY DEF DriverLooks, Progress, Transfer
<1>2. CASE cancels
  BY <1>1, <1>2, CancelsKeeps
<1>3. CASE fails
  BY <1>1, <1>3, FailsKeeps
<1>4. CASE /\ request.kind = "create" /\ task' = [task EXCEPT !.url = TRUE]
           /\ driver' = "idle" /\ request' = NoRequest /\ UNCHANGED emitting
  <2>1. TypeOK'
    BY <1>1, <1>4, NoRequestType DEF TypeOK, TaskType, driverRest
  <2>2. Progress'
    BY <1>1, <1>4 DEF TypeOK, TaskType, driverRest, Progress, RequestFits, AnswerIsTrue, Transfer, resumable
  <2>3. Observed'
    BY <1>1, <1>4, EmitStays DEF TypeOK, TaskType, driverRest
  <2> QED BY <2>1, <2>2, <2>3
<1>5. CASE /\ request.kind = "query" /\ driver' = "idle" /\ request' = NoRequest
           /\ IF request.answer \in {"active", "final"}
              THEN task' = [task EXCEPT !.transferred = session.received] /\ emit(Driver)
              ELSE UNCHANGED <<task, emitting>>
  <2>1. task' \in TaskType
    BY <1>5, Fields DEF TypeOK, TaskType
  <2>2. emitting' \in EmittingType
    BY <1>5, EmitType DEF TypeOK, Threads
  <2>3. TypeOK'
    BY <1>1, <1>5, <2>1, <2>2, NoRequestType DEF TypeOK, driverRest
  <2>4. /\ task'.state = task.state /\ task'.total = task.total /\ task'.url = task.url
        /\ task'.transferred \in {task.transferred, session.received} /\ session' = session
    BY <1>1, <1>5 DEF TypeOK, TaskType, driverRest
  <2>5. task.url
    BY <1>1, <1>5 DEF Progress, RequestFits
  <2>6. Progress'
    BY <1>1, <1>5, <2>4, <2>5, Fields DEF Progress, RequestFits, AnswerIsTrue, Transfer, resumable
  <2>7. Observed'
    BY <1>1, <1>5, EmitStays, EmitBegins DEF TypeOK, TaskType, driverRest, Threads
  <2> QED BY <2>3, <2>6, <2>7
<1>6. CASE /\ request.kind = "cancel" /\ task' = [task EXCEPT !.recorded = TRUE]
           /\ IF task.recorded THEN UNCHANGED emitting ELSE emit(Driver)
           /\ driver' = "returned" /\ request' = NoRequest
  <2>1. TypeOK'
    BY <1>1, <1>6, EmitType, NoRequestType DEF TypeOK, TaskType, driverRest, Threads, States
  <2>2. Progress'
    BY <1>1, <1>6 DEF TypeOK, TaskType, driverRest, Progress, RequestFits, AnswerIsTrue, Transfer, resumable
  <2>3. Observed'
    BY <1>1, <1>6, EmitStays, EmitBegins DEF TypeOK, TaskType, driverRest, Threads
  <2> QED BY <2>1, <2>2, <2>3
<1>7. CASE /\ driver' = "recording" /\ UNCHANGED <<task, request, emitting>>
           /\ \/ request.kind = "multipart" /\ request.answer # "failed"
              \/ request.kind = "chunk" /\ request.answer \notin {"failed", "canceled"}
  <2>1. TypeOK'
    BY <1>1, <1>7 DEF TypeOK, driverRest
  <2>2. Progress'
    BY <1>1, <1>7 DEF driverRest, Progress, RequestFits, AnswerIsTrue, Transfer, resumable
  <2>3. Observed'
    BY <1>1, <1>7, EmitStays DEF driverRest
  <2> QED BY <2>1, <2>2, <2>3
<1>8. request.kind \in {"create", "query", "cancel", "multipart", "chunk"}
  BY <1>1 DEF TypeOK, RequestType, Progress, RequestFits
<1> QED BY <1>2, <1>3, <1>4, <1>5, <1>6, <1>7, <1>8 DEF DriverLooks

\* What is recorded is what the server answered for.
LEMMA RecordsKeeps ==
  ASSUME ConstantsOK, TypeOK, Progress, Observed, DriverRecords
  PROVE  TypeOK' /\ Progress' /\ Observed'
<1> USE DEF ConstantsOK
<1>1. driver = "recording" /\ Free(Driver) /\ request' = NoRequest /\ emit(Driver) /\ UNCHANGED driverRest
  BY DEF DriverRecords
<1>2. Observed'
  BY <1>1, EmitBegins DEF driverRest, Threads
<1>3. Bumped \in 1 .. MaxChunk
  BY DEF Bumped, TypeOK, TaskType
<1>4. \/ /\ request.answer = "final" /\ driver' = "returned"
         /\ task' = [task EXCEPT !.transferred = task.total, !.state = "completed"]
      \/ /\ request.answer # "final" /\ driver' = "idle"
         /\ task' = [task EXCEPT !.transferred = request.to, !.mult = Bumped]
  BY DEF DriverRecords
<1>5. task' \in TaskType
  BY <1>3, <1>4, Fields DEF TypeOK, TaskType, States
<1>6. emitting' \in EmittingType
  BY <1>1, EmitType DEF TypeOK, Threads
<1>7. TypeOK'
  BY <1>1, <1>4, <1>5, <1>6, NoRequestType DEF TypeOK, driverRest
<1>8. /\ task'.total = task.total /\ task'.url = task.url /\ session' = session
      /\ task'.transferred = IF request.answer = "final" THEN task.total ELSE request.to
      /\ task'.state = IF request.answer = "final" THEN "completed" ELSE task.state
  BY <1>1, <1>4 DEF TypeOK, TaskType, driverRest
<1>9. Progress'
  <2>1. /\ request.kind \in {"multipart", "chunk"}
        /\ request.answer = "final" => session.object /\ session.received = task.total
        /\ request.answer # "final" => task.url /\ session.received = request.to
    BY <1>1 DEF Progress, RequestFits, AnswerIsTrue
  <2>2. driver' = IF request.answer = "final" THEN "returned" ELSE "idle"
    BY <1>4
  <2> QED BY <1>1, <1>8, <2>1, <2>2, Fields DEF Progress, RequestFits, AnswerIsTrue, Transfer, resumable
<1> QED BY <1>2, <1>7, <1>9

\* pause, resume and cancel leave a finished task alone.
LEMMA ControlKeeps ==
  ASSUME ConstantsOK, TypeOK, Progress, Observed, NEW t \in Threads, Control(t)
  PROVE  TypeOK' /\ Progress' /\ Observed'
<1>1. PICK next \in {"paused", "running", "canceled"} :
        /\ task.state # "completed" /\ task' = [task EXCEPT !.state = next] /\ emit(t)
  BY DEF Control, transition
<1>2. /\ Free(t) /\ controls < MaxControls /\ controls' = controls + 1
      /\ UNCHANGED <<driver, request, session, registry, seen, missed>>
  BY DEF Control
<1>3. TypeOK'
  BY <1>1, <1>2, EmitType DEF TypeOK, TaskType, States, ConstantsOK
<1>4. Progress'
  BY <1>1, <1>2 DEF TypeOK, TaskType, Progress, RequestFits, AnswerIsTrue, Transfer, resumable
<1>5. Observed'
  BY <1>1, <1>2, EmitBegins
<1> QED BY <1>3, <1>4, <1>5

\* The threads inside emit, and those that add or remove the observer, leave the task
\* alone and keep the types.
LEMMA EmitTyped ==
  ASSUME ConstantsOK, TypeOK, Progress, NEW t \in Threads, Emit(t) \/ Observe(t)
  PROVE  TypeOK' /\ Progress'
<1>1. UNCHANGED <<task, driver, request, session>>
  BY DEF Emit, EmitEnter, EmitSnapshot, EmitTake, EmitRestore, Observe, emitVars
<1>2. Progress'
  BY <1>1 DEF Progress, RequestFits, AnswerIsTrue, Transfer, resumable
<1>3. /\ registry \in RegistryType /\ emitting \in EmittingType /\ task.state \in States /\ "pending" \in States
      /\ emitting[t] \in [at : {"no", "enter", "snapshot", "take", "restore"}, state : States]
      /\ seen \in States \cup {"nothing"} /\ missed \in BOOLEAN /\ controls \in 0 .. MaxControls
  BY Fields DEF TypeOK, EmittingType, States
<1>4. Quiet \in [at : {"no", "enter", "snapshot", "take", "restore"}, state : States]
  BY <1>3 DEF Quiet
<1>5. CASE EmitEnter(t)
  <2>1. registry' \in RegistryType
    BY <1>3, <1>5 DEF EmitEnter, RegistryType
  <2>2. emitting' \in EmittingType
    BY <1>3, <1>4, <1>5 DEF EmitEnter, EmittingType
  <2>3. missed' \in BOOLEAN /\ controls' = controls /\ seen' = seen
    BY <1>3, <1>5 DEF EmitEnter, emitVars
  <2> QED BY <1>1, <1>2, <2>1, <2>2, <2>3 DEF TypeOK
<1>6. CASE EmitSnapshot(t)
  <2>1. emitting' \in EmittingType
    BY <1>3, <1>6 DEF EmitSnapshot, EmittingType
  <2> QED BY <1>1, <1>2, <1>6, <2>1 DEF EmitSnapshot, emitVars, TypeOK
<1>7. CASE EmitTake(t)
  <2>1. emitting' \in EmittingType
    BY <1>3, <1>7 DEF EmitTake, EmittingType
  <2>2. registry' \in RegistryType
    BY <1>3, <1>7 DEF EmitTake, RegistryType
  <2>3. seen' \in States \cup {"nothing"} /\ missed' = missed /\ controls' = controls
    BY <1>3, <1>7 DEF EmitTake, emitVars
  <2> QED BY <1>1, <1>2, <2>1, <2>2, <2>3 DEF TypeOK
<1>8. CASE EmitRestore(t)
  <2>1. emitting' \in EmittingType
    BY <1>3, <1>4, <1>8 DEF EmitRestore, EmittingType
  <2>2. registry' \in RegistryType
    BY <1>3, <1>8 DEF EmitRestore, RegistryType
  <2> QED BY <1>1, <1>2, <1>8, <2>1, <2>2 DEF EmitRestore, emitVars, TypeOK
<1>9. CASE Observe(t)
  <2>1. registry' \in RegistryType
    BY <1>3, <1>9 DEF Observe, RegistryType
  <2>2. controls' \in 0 .. MaxControls
    BY <1>3, <1>9 DEF Observe, ConstantsOK
  <2>3. seen' \in States \cup {"nothing"} /\ missed' = missed /\ emitting' = emitting
    BY <1>3, <1>9 DEF Observe
  <2> QED BY <1>1, <1>2, <2>1, <2>2, <2>3 DEF TypeOK
<1> QED BY <1>2, <1>5, <1>6, <1>7, <1>8, <1>9 DEF Emit

-----------------------------------------------------------------------------
\* The inductive invariant: the request in flight fits the task, an answer about to be
\* recorded is true, and a change of state is shown or will be.
THEOREM UploadInvariant == ASSUME ConstantsOK PROVE Spec => []IInv
<1>1. Init => IInv
  <2> SUFFICES ASSUME Init PROVE IInv
    OBVIOUS
  <2>1. PICK n \in Sizes : task = [state |-> "pending", transferred |-> 0, total |-> n, url |-> FALSE,
                                   notified |-> FALSE, mult |-> 1, recorded |-> FALSE]
    BY DEF Init
  <2>2. "pending" \in States /\ 1 \in 1 .. MaxChunk /\ n \in Nat
    BY DEF States, ConstantsOK
  <2>3. task \in TaskType
    BY <2>1, <2>2 DEF TaskType
  <2>4. emitting \in EmittingType
    BY <2>2 DEF Init, EmittingType, Quiet
  <2>5. session \in SessionType /\ registry \in RegistryType
    BY DEF Init, SessionType, RegistryType
  <2>6. request \in RequestType
    BY NoRequestType DEF Init
  <2>7. controls \in 0 .. MaxControls
    BY DEF Init, ConstantsOK
  <2>8. driver = "idle" /\ seen \in States \cup {"nothing"} /\ missed \in BOOLEAN
    BY DEF Init
  <2>9. TypeOK
    BY <2>3, <2>4, <2>5, <2>6, <2>7, <2>8 DEF TypeOK
  <2>10. /\ session.received = 0 /\ task.transferred = 0 /\ task.total = n /\ ~task.url /\ task.state = "pending"
        /\ driver = "idle"
    BY <2>1 DEF Init
  <2>11. RequestFits /\ AnswerIsTrue /\ Transfer
    BY <2>2, <2>10 DEF RequestFits, AnswerIsTrue, Transfer
  <2>12. \A t \in Threads : emitting[t].at = "no"
    BY DEF Init, Quiet
  <2>13. OneDispatch /\ SnapshotIsCurrent /\ WillBeShown
    BY <2>12 DEF Init, OneDispatch, Dispatching, SnapshotIsCurrent, WillBeShown
  <2> QED BY <2>9, <2>11, <2>13 DEF IInv
<1>2. IInv /\ [Next]_upVars => IInv'
  <2> SUFFICES ASSUME TypeOK, Progress, Observed, [Next]_upVars PROVE TypeOK' /\ Progress' /\ Observed'
    BY DEF IInv, Progress, Observed
  <2>1. CASE DriverStep
    BY <2>1, AttemptKeeps, TurnsKeeps, AsksKeeps, LooksKeeps, RecordsKeeps DEF DriverStep
  <2>2. ASSUME NEW t \in Threads, Emit(t) \/ Observe(t) \/ Control(t) PROVE TypeOK' /\ Progress' /\ Observed'
    BY <2>2, ControlKeeps, EmitTyped, EnterKeeps, SnapshotKeeps, TakeKeeps, RestoreKeeps, ObserveKeeps DEF Emit
  <2>3. CASE UNCHANGED upVars
    BY <2>3 DEF upVars, TypeOK, Progress, RequestFits, AnswerIsTrue, Transfer, resumable,
                Observed, OneDispatch, Dispatching, SnapshotIsCurrent, WillBeShown, Entering
  <2> QED BY <2>1, <2>2, <2>3 DEF Next
<1> QED BY <1>1, <1>2, PTL DEF Spec

\* Through lost answers, retries, status queries and any interleaving of pause, resume
\* and cancel, bytes_transferred counts only bytes the server has and a completed task
\* has its object.  An observer that is not told anything more has seen the last state
\* under one condition, `~missed`: emit takes its snapshot before it clears `pending`
\* (upload.rs:286-289), and a change of another thread that falls between the two is
\* not shown, against the doc of on_state_changed (upload.rs:384-385).
THEOREM UploadsAreTruthful == ASSUME ConstantsOK PROVE Spec => []UploadsReportTheTruth
<1>1. IInv => UploadsReportTheTruth
  <2> SUFFICES ASSUME IInv PROVE UploadsReportTheTruth
    OBVIOUS
  <2>1. TypeOK /\ ProgressIsAcknowledged
    BY DEF IInv, Transfer, ProgressIsAcknowledged
  <2>2. ASSUME \A t \in Threads : Free(t), registry.observer = "listed", seen # "nothing", ~missed
        PROVE  seen = task.state
    BY <2>2 DEF IInv, Free, OneDispatch, Dispatching, WillBeShown, Entering
  <2> QED BY <2>1, <2>2 DEF UploadsReportTheTruth, ObserversSeeTheLastState
<1> QED BY UploadInvariant, <1>1, PTL

-----------------------------------------------------------------------------
\* The pages of a browser that share a registration.
CONSTANTS Pages, Keys, TOKEN_EXPIRATION, AuthLifetime, AUTH_TOKEN_REFRESH_BUFFER, MaxNow, MaxCalls, MaxFaults
VARIABLES platform, store, cache, opened, channel, subscription, permission, installed, live, calls, now, counts, disturbed

Push == INSTANCE Messaging

Records == [token : Int, created : Nat, sub : Nat, key : Keys \cup {"default", "none"}, expires : Int]
\* Where a call is; `then` is "none" until it is known what the auth token is for.
Stops == {"idle", "worker", "subscribing", "creating", "reading", "caching", "installing", "registering", "updating", "deleting",
          "checking", "erasing", "erased", "putting", "announcing", "unsubscribing", "none"}
CallRecords == [pc : Stops, op : {"none", "get", "delete"}, key : Keys \cup {"default", "none"}, sub : Nat, began : Nat, record : Records,
                expires : Nat, then : {"none", "registering", "updating", "deleting"}]

PushTyped ==
  /\ store \in Records
  /\ cache \in [Pages -> Records] /\ opened \subseteq Pages /\ channel \in [Pages -> Seq(Records)]
  /\ subscription \in Nat /\ installed \in Nat /\ now \in Nat
  /\ calls \in [Pages -> CallRecords]
  /\ counts \in [tokens : Nat, subs : Nat, calls : Nat, faults : Nat]

\* A page that does not listen knows nothing, and its call has not read.
Before == {"idle", "worker", "subscribing", "creating", "reading", "unsubscribing", "none"}
Closed == \A p \in Pages : p \notin opened => cache[p] = Push!NotCached /\ channel[p] = <<>> /\ calls[p].pc \in Before

\* One call at a time, and no broadcast on its way to its page.
Busy(p) == calls[p].pc # "idle"
Alone == \A p, q \in Pages : Busy(p) /\ Busy(q) => p = q
Apart == \A p \in Pages : Busy(p) => channel[p] = <<>>

\* What a page will know once its broadcasts are in: what the store holds,
\* once the change of the store is announced.
Latest(p) == IF channel[p] = <<>> THEN cache[p] ELSE channel[p][Len(channel[p])]
Unannounced(call) == call.pc \in {"announcing", "erased"}
Views == (\A p \in Pages : ~Unannounced(calls[p])) => \A p \in Pages : Latest(p) \in {Push!NotCached, store}

\* FCM has the registration of the record in the store, but for a call that is
\* about to make the store agree.
Registration(record) == IF record = Push!None THEN {} ELSE {[token |-> record.token, sub |-> record.sub, key |-> record.key]}
Settling(call) == call.pc \in {"putting", "checking", "erasing"}
Matches == (\A p \in Pages : ~Settling(calls[p])) => live = Registration(store)
Numbered == store = Push!None \/ store.token >= 1

\* What a call relies on at each stop.
Then(call, what) == call.pc = what \/ (call.pc = "installing" /\ call.then = what)
CallFits(call) ==
  /\ call.pc # "none"
  /\ call.pc = "caching" => call.record = store
  /\ call.pc = "installing" => call.then # "none"
  /\ Then(call, "registering") => store = Push!None
  /\ Then(call, "updating") \/ Then(call, "deleting") => call.record = store /\ store # Push!None
  /\ call.pc = "putting" => live = Registration(call.record) /\ call.record.token >= 1
  /\ call.pc = "announcing" => call.record = store
  /\ call.pc \in {"checking", "erasing"} => live = {}
  /\ call.pc = "erased" => store = Push!None
CallsFit == \A p \in Pages : CallFits(calls[p])

Undisturbed == Alone /\ Apart /\ Views /\ Matches /\ Numbered /\ CallsFit
PushInv == platform = "web" => PushTyped /\ Closed /\ (~disturbed => Undisturbed)

LEMMA RecordsAreTyped ==
  /\ Push!None \in Records /\ Push!NotCached \in Records /\ Push!Idle \in CallRecords
  /\ Push!None.token = 0 /\ Push!NotCached # Push!None /\ Push!Idle.pc = "idle"
<1>1. Push!None \in Records BY DEF Push!None, Records
<1>2. Push!NotCached \in Records /\ Push!NotCached.token = -1 BY DEF Push!NotCached, Push!None, Records
<1>3. Push!Idle \in CallRecords BY <1>1 DEF Push!Idle, CallRecords, Stops
<1>4. Push!None.token = 0 /\ Push!Idle.pc = "idle" BY DEF Push!None, Push!Idle
<1> QED BY <1>1, <1>2, <1>3, <1>4

\* The page that moves is the only one with a call.
LEMMA CallMoves ==
  ASSUME PushTyped, Alone, NEW p \in Pages, Busy(p), NEW c, calls' = [calls EXCEPT ![p] = c]
  PROVE  /\ calls'[p] = c
         /\ \A q \in Pages : q # p => calls[q].pc = "idle" /\ calls'[q] = calls[q]
         /\ Alone'
<1>1. calls \in [Pages -> CallRecords] BY DEF PushTyped
<1>2. calls'[p] = c BY <1>1
<1>3. \A q \in Pages : q # p => calls[q].pc = "idle" /\ calls'[q] = calls[q]
  BY <1>1 DEF Alone, Busy
<1> QED BY <1>2, <1>3 DEF Alone, Busy

LEMMA EarlyFits ==
  ASSUME NEW call, call.pc \in Before \ {"none"}
  PROVE  CallFits(call) /\ ~Settling(call) /\ ~Unannounced(call)
BY DEF CallFits, Settling, Unannounced, Then, Before

\* With one call, the store and FCM agree unless it is settling.
LEMMA SoleCall ==
  ASSUME Undisturbed, NEW p \in Pages, Busy(p)
  PROVE  /\ \A q \in Pages : q # p => calls[q].pc = "idle"
         /\ CallFits(calls[p]) /\ channel[p] = <<>>
         /\ ~Settling(calls[p]) => live = Registration(store)
         /\ ~Unannounced(calls[p]) => \A q \in Pages : Latest(q) \in {Push!NotCached, store}
<1>1. \A q \in Pages : q # p => calls[q].pc = "idle" BY DEF Undisturbed, Alone, Busy
<1>2. \A q \in Pages : q # p => ~Settling(calls[q]) /\ ~Unannounced(calls[q]) BY <1>1, EarlyFits DEF Before
<1> QED BY <1>1, <1>2 DEF Undisturbed, CallsFit, Apart, Matches, Views

\* What is left to show when the only call moves.
LEMMA SoleMoves ==
  ASSUME PushTyped, NEW p \in Pages, \A q \in Pages : q # p => calls[q].pc = "idle",
         NEW c, calls' = [calls EXCEPT ![p] = c], channel'[p] = <<>>,
         CallFits(calls[p])', Settling(c) \/ live' = Registration(store'),
         Unannounced(c) \/ \A q \in Pages : Latest(q)' \in {Push!NotCached, store'},
         Numbered'
  PROVE  Undisturbed'
<1>1. calls \in [Pages -> CallRecords] BY DEF PushTyped
<1>2. calls'[p] = c /\ \A q \in Pages : q # p => calls'[q].pc = "idle" BY <1>1
<1>3. Alone' /\ Apart' BY <1>2 DEF Alone, Apart, Busy
<1>4. Views' BY <1>2 DEF Views
<1>5. Matches' BY <1>2 DEF Matches, Registration
<1>6. CallsFit'
  <2>1. ASSUME NEW q \in Pages, q # p PROVE CallFits(calls[q])' BY <1>2, <2>1 DEF CallFits, Then
  <2> QED BY <2>1 DEF CallsFit
<1> QED BY <1>3, <1>4, <1>5, <1>6 DEF Undisturbed

\* A step that changes the call alone.
LEMMA QuietStep ==
  ASSUME PushTyped, Undisturbed, NEW p \in Pages, \A q \in Pages : q # p => calls[q].pc = "idle", channel[p] = <<>>,
         NEW c, calls' = [calls EXCEPT ![p] = c], UNCHANGED <<store, live, cache, channel>>,
         CallFits(c), Settling(c) \/ live = Registration(store), ~Unannounced(calls[p])
  PROVE  Undisturbed'
<1>1. calls'[p] = c BY DEF PushTyped
<1>2. CallFits(calls[p])' BY <1>1 DEF CallFits, Registration
<1>3. \A q \in Pages : ~Unannounced(calls[q])
  BY EarlyFits DEF Before
<1>4. \A q \in Pages : Latest(q)' \in {Push!NotCached, store'} BY <1>3 DEF Latest, Undisturbed, Views
<1>5. Settling(c) \/ live' = Registration(store') BY DEF Registration
<1>6. Numbered' BY DEF Undisturbed, Numbered
<1> QED BY <1>2, <1>4, <1>5, <1>6, SoleMoves

LEMMA NothingMoves ==
  ASSUME Undisturbed, UNCHANGED <<store, live, cache, channel, calls>>
  PROVE  Undisturbed'
BY DEF Undisturbed, Alone, Apart, Busy, Views, Latest, Matches, Registration, Numbered, CallsFit, CallFits, Then

LEMMA ReadIsTyped ==
  ASSUME PushTyped, NEW p \in Pages, NEW record \in Records, NEW c, c = Push!read(p, record)
  PROVE  c \in CallRecords
<1>1. calls[p] \in CallRecords /\ now \in Nat /\ installed \in Nat BY DEF PushTyped
<1>2. Push!Idle \in CallRecords BY RecordsAreTyped
<1>5. PICK on : on = [calls[p] EXCEPT !.record = record, !.began = now] OBVIOUS
<1>6. on \in CallRecords BY <1>1, <1>5 DEF CallRecords
<1>3. \A w \in {"registering", "deleting"} : [on EXCEPT !.pc = "installing", !.then = w] \in CallRecords
  BY <1>6 DEF CallRecords, Stops
<1>7. \A e \in Nat : [on EXCEPT !.pc = "installing", !.then = "updating", !.expires = e] \in CallRecords
  BY <1>6 DEF CallRecords, Stops
<1>4. \A e \in {0, installed} : [on EXCEPT !.pc = "installing", !.then = "updating", !.expires = e] \in CallRecords
  BY <1>1, <1>7
<1> QED BY <1>2, <1>3, <1>4, <1>5 DEF Push!read

\* A call that has read the record of the store is done, or goes on as it must.
LEMMA ReadFits ==
  ASSUME PushTyped, NEW p \in Pages, NEW c, c = Push!read(p, store)
  PROVE  CallFits(c) /\ c.pc \in {"idle", "installing"} /\ ~Settling(c) /\ ~Unannounced(c)
<1>1. calls[p] \in CallRecords BY DEF PushTyped
<1> DEFINE on == [calls[p] EXCEPT !.record = store, !.began = now]
<1>2. on.record = store /\ on \in CallRecords BY <1>1 DEF CallRecords, PushTyped
<1>3. CASE c = Push!Idle
  <2>1. c.pc = "idle" BY <1>3, RecordsAreTyped
  <2> QED BY <2>1, EarlyFits DEF Before
<1>4. CASE store = Push!None /\ c = [on EXCEPT !.pc = "installing", !.then = "registering"]
  <2>1. c.pc = "installing" /\ c.then = "registering" BY <1>1, <1>4 DEF CallRecords
  <2> QED BY <2>1, <1>4 DEF CallFits, Settling, Unannounced, Then
<1>5. CASE store # Push!None /\ c = [on EXCEPT !.pc = "installing", !.then = "deleting"]
  <2>1. c.pc = "installing" /\ c.then = "deleting" /\ c.record = store BY <1>1, <1>5 DEF CallRecords
  <2> QED BY <2>1, <1>5 DEF CallFits, Settling, Unannounced, Then
<1>6. CASE store # Push!None /\ \E e \in {0, installed} : c = [on EXCEPT !.pc = "installing", !.then = "updating", !.expires = e]
  <2>1. c.pc = "installing" /\ c.then = "updating" /\ c.record = store BY <1>1, <1>6 DEF CallRecords
  <2> QED BY <2>1, <1>6 DEF CallFits, Settling, Unannounced, Then
<1> QED BY <1>3, <1>4, <1>5, <1>6 DEF Push!read

LEMMA RecordedIsTyped ==
  ASSUME PushTyped, NEW p \in Pages, NEW token \in Int
  PROVE  Push!recorded(p, token) \in Records /\ Push!answered(p, token) \in CallRecords
<1>1. calls[p] \in CallRecords BY DEF PushTyped
<1>2. Push!recorded(p, token) \in Records BY <1>1 DEF Push!recorded, Records, CallRecords
<1>3. [calls[p] EXCEPT !.pc = "checking"] \in CallRecords BY <1>1 DEF CallRecords, Stops
<1>4. [calls[p] EXCEPT !.pc = "putting", !.record = Push!recorded(p, token)] \in CallRecords BY <1>1, <1>2 DEF CallRecords, Stops
<1> QED BY <1>2, <1>3, <1>4 DEF Push!answered

LEMMA TokensAreTyped ==
  ASSUME PushTyped, NEW p \in Pages, NEW token \in Push!Tokens(p)
  PROVE  token \in Int /\ counts.tokens \in Nat
<1>1. calls[p].record \in Records /\ counts.tokens \in Nat BY DEF PushTyped, CallRecords
<1>2. calls[p].record.token \in Int BY <1>1 DEF Records
<1> QED BY <1>1, <1>2 DEF Push!Tokens

\* Every step but those of a native program keeps the types.
LEMMA TypesAreKept ==
  ASSUME Push!ConstantsOK, PushTyped, platform = "web", Push!Next
  PROVE  PushTyped'
<1> USE DEF Push!browser
<1>0. /\ store \in Records /\ cache \in [Pages -> Records] /\ channel \in [Pages -> Seq(Records)] /\ opened \subseteq Pages
      /\ installed \in Nat /\ now \in Nat /\ subscription \in Nat
      /\ calls \in [Pages -> CallRecords] /\ counts \in [tokens : Nat, subs : Nat, calls : Nat, faults : Nat]
  BY DEF PushTyped
<1>c. ASSUME NEW p \in Pages, NEW c \in CallRecords, Push!goes(p, c) PROVE calls' \in [Pages -> CallRecords]
  BY <1>0, <1>c DEF Push!goes
<1>s. ASSUME NEW p \in Pages, NEW pc \in Stops PROVE [calls[p] EXCEPT !.pc = pc] \in CallRecords
  BY <1>0 DEF CallRecords
<1>i. Push!Idle \in CallRecords /\ Push!None \in Records /\ Push!NotCached \in Records BY RecordsAreTyped
<1>n. ASSUME NEW what \in {"tokens", "subs", "calls", "faults"}, Push!count(what)
      PROVE counts' \in [tokens : Nat, subs : Nat, calls : Nat, faults : Nat]
  BY <1>0, <1>n DEF Push!count
<1>a. ASSUME NEW p \in Pages, NEW record \in Records, Push!announced(p, record)
      PROVE cache' \in [Pages -> Records] /\ channel' \in [Pages -> Seq(Records)]
  BY <1>0, <1>a DEF Push!announced
<1>r. ASSUME NEW p \in Pages PROVE Push!removed(p) \in CallRecords
  BY <1>0 DEF Push!removed, CallRecords, Stops
<1>1. ASSUME NEW p \in Pages, NEW op \in {"get", "delete"}, NEW key \in Keys, Push!Begin(p, op, key) PROVE PushTyped'
  <2>1. PICK c : c = [Push!Idle EXCEPT !.pc = IF op = "get" THEN "worker" ELSE "reading", !.op = op,
                          !.key = IF op = "delete" \/ key = "blank" THEN "default" ELSE key] OBVIOUS
  <2>2. c \in CallRecords BY <2>1, <1>i DEF CallRecords, Stops
  <2>3. calls' \in [Pages -> CallRecords] BY <2>1, <2>2, <1>c, <1>1 DEF Push!Begin
  <2> QED BY <2>3, <1>0, <1>n, <1>1 DEF Push!Begin, PushTyped
<1>2. ASSUME NEW p \in Pages, Push!Deliver(p) PROVE PushTyped'
  <2>1. channel[p] \in Seq(Records) /\ channel[p] # <<>> BY <1>0, <1>2 DEF Push!Deliver
  <2>2. Head(channel[p]) \in Records /\ Tail(channel[p]) \in Seq(Records) BY <2>1
  <2> QED BY <2>2, <1>0, <1>2 DEF Push!Deliver, PushTyped
<1>3. ASSUME NEW p \in Pages, Push!ReadCached(p) PROVE PushTyped'
  <2>1. Push!read(p, cache[p]) \in CallRecords BY ReadIsTyped, <1>0
  <2>2. calls' \in [Pages -> CallRecords] BY <2>1, <1>c, <1>3 DEF Push!ReadCached
  <2> QED BY <2>2, <1>0, <1>3 DEF Push!ReadCached, PushTyped
<1>4. ASSUME NEW p \in Pages, Push!ReadStored(p) PROVE PushTyped'
  <2>1. [calls[p] EXCEPT !.pc = "caching", !.record = store] \in CallRecords BY <1>0 DEF CallRecords, Stops
  <2>2. calls' \in [Pages -> CallRecords] BY <2>1, <1>c, <1>4 DEF Push!ReadStored
  <2> QED BY <2>2, <1>0, <1>4 DEF Push!ReadStored, PushTyped
<1>5. ASSUME NEW p \in Pages, Push!Cache(p) PROVE PushTyped'
  <2>0. calls[p].record \in Records BY <1>0 DEF CallRecords
  <2>1. Push!read(p, calls[p].record) \in CallRecords BY ReadIsTyped, <2>0
  <2>2. calls' \in [Pages -> CallRecords] BY <2>1, <1>c, <1>5 DEF Push!Cache
  <2> QED BY <2>0, <2>2, <1>0, <1>5 DEF Push!Cache, PushTyped
<1>6. ASSUME NEW p \in Pages, Push!Put(p) PROVE PushTyped'
  <2>0. calls[p].record \in Records BY <1>0 DEF CallRecords
  <2>1. [calls[p] EXCEPT !.pc = "announcing"] \in CallRecords BY <1>s DEF Stops
  <2>2. calls' \in [Pages -> CallRecords] BY <2>1, <1>c, <1>6 DEF Push!Put, Push!step
  <2> QED BY <2>0, <2>2, <1>0, <1>6 DEF Push!Put, PushTyped
<1>7. ASSUME NEW p \in Pages, Push!Announce(p) PROVE PushTyped'
  <2>0. calls[p].record \in Records BY <1>0 DEF CallRecords
  <2>1. calls' \in [Pages -> CallRecords] BY <1>i, <1>c, <1>7 DEF Push!Announce
  <2> QED BY <2>0, <2>1, <1>a, <1>0, <1>7 DEF Push!Announce, PushTyped
<1>8. ASSUME NEW p \in Pages, Push!Check(p) PROVE PushTyped'
  <2>1. [calls[p] EXCEPT !.pc = "erasing"] \in CallRecords BY <1>s DEF Stops
  <2>2. calls' \in [Pages -> CallRecords] BY <2>1, <1>r, <1>c, <1>8 DEF Push!Check
  <2> QED BY <2>2, <1>0, <1>8 DEF Push!Check, PushTyped
<1>9. ASSUME NEW p \in Pages, Push!Erase(p) PROVE PushTyped'
  <2>1. [calls[p] EXCEPT !.pc = "erased"] \in CallRecords BY <1>s DEF Stops
  <2>2. calls' \in [Pages -> CallRecords] BY <2>1, <1>c, <1>9 DEF Push!Erase, Push!step
  <2> QED BY <2>2, <1>i, <1>0, <1>9 DEF Push!Erase, PushTyped
<1>10. ASSUME NEW p \in Pages, Push!Erased(p) PROVE PushTyped'
  <2>1. calls' \in [Pages -> CallRecords] BY <1>r, <1>c, <1>10 DEF Push!Erased
  <2> QED BY <2>1, <1>i, <1>a, <1>0, <1>10 DEF Push!Erased, PushTyped
<1>11. ASSUME NEW p \in Pages, Push!Worker(p) PROVE PushTyped'
  <2>1. \A pc \in {"subscribing", "unsubscribing"} : [calls[p] EXCEPT !.pc = pc] \in CallRecords BY <1>s DEF Stops
  <2>2. calls' \in [Pages -> CallRecords] BY <2>1, <1>c, <1>11 DEF Push!Worker, Push!step
  <2> QED BY <2>2, <1>0, <1>11 DEF Push!Worker, PushTyped
<1>12. ASSUME NEW p \in Pages, Push!Subscribe(p) PROVE PushTyped'
  <2>1. [calls[p] EXCEPT !.pc = "creating"] \in CallRecords BY <1>s DEF Stops
  <2>2. [calls[p] EXCEPT !.pc = "reading", !.sub = subscription] \in CallRecords BY <1>0 DEF CallRecords, Stops
  <2>3. calls' \in [Pages -> CallRecords] BY <2>1, <2>2, <1>c, <1>12 DEF Push!Subscribe, Push!step
  <2> QED BY <2>3, <1>0, <1>12 DEF Push!Subscribe, PushTyped
<1>13. ASSUME NEW p \in Pages, Push!Create(p) PROVE PushTyped'
  <2>1. subscription' \in Nat /\ counts' \in [tokens : Nat, subs : Nat, calls : Nat, faults : Nat]
    BY <1>0, <1>n, <1>13 DEF Push!Create
  <2>4. PICK sub \in Nat : sub = subscription' BY <2>1
  <2>2. [calls[p] EXCEPT !.pc = "reading", !.sub = sub] \in CallRecords BY <1>0 DEF CallRecords, Stops
  <2>5. calls' = [calls EXCEPT ![p] = [calls[p] EXCEPT !.pc = "reading", !.sub = sub]] BY <2>4, <1>13 DEF Push!Create, Push!goes
  <2>3. calls' \in [Pages -> CallRecords] BY <2>2, <2>5, <1>0
  <2> QED BY <2>1, <2>3, <1>0, <1>13 DEF Push!Create, PushTyped
<1>14. ASSUME NEW p \in Pages, Push!CreateDenied(p) PROVE PushTyped'
  <2>1. calls' \in [Pages -> CallRecords] BY <1>i, <1>c, <1>14 DEF Push!CreateDenied
  <2> QED BY <2>1, <1>0, <1>14 DEF Push!CreateDenied, PushTyped
<1>15. ASSUME NEW p \in Pages, Push!Unsubscribe(p) PROVE PushTyped'
  <2>1. calls' \in [Pages -> CallRecords] BY <1>i, <1>c, <1>15 DEF Push!Unsubscribe
  <2> QED BY <2>1, <1>0, <1>15 DEF Push!Unsubscribe, Push!NoSubscription, PushTyped
<1>16. ASSUME NEW p \in Pages, Push!Install(p) PROVE PushTyped'
  <2>1. PICK e : e = IF calls[p].expires = 0 \/ now >= installed THEN now + AuthLifetime ELSE installed OBVIOUS
  <2>2. e \in Nat BY <2>1, <1>0 DEF Push!ConstantsOK
  <2>4. installed' = e /\ Push!goes(p, [calls[p] EXCEPT !.pc = calls[p].then, !.expires = e]) BY <1>16, <2>1 DEF Push!Install
  <2>5. Push!At(p, "installing") /\ UNCHANGED <<store, cache, opened, channel, live, counts, disturbed, Push!browser>> BY <1>16 DEF Push!Install
  <2>6. [calls[p] EXCEPT !.pc = calls[p].then, !.expires = e] \in CallRecords BY <2>2, <1>0 DEF CallRecords, Stops
  <2>7. calls' \in [Pages -> CallRecords] BY <2>6, <2>4, <1>c
  <2> QED BY <2>7, <2>2, <2>4, <2>5, <1>0 DEF PushTyped
<1>17. ASSUME NEW p \in Pages, Push!Serve(p) PROVE PushTyped'
  <2>1. PICK token \in Push!Tokens(p) : /\ Push!goes(p, Push!answered(p, token))
                                  /\ IF token > counts.tokens THEN Push!count("tokens") ELSE UNCHANGED counts
    BY <1>17 DEF Push!Serve
  <2>2. token \in Int BY TokensAreTyped
  <2>3. calls' \in [Pages -> CallRecords] BY <2>1, <2>2, RecordedIsTyped, <1>c
  <2>4. counts' \in [tokens : Nat, subs : Nat, calls : Nat, faults : Nat] BY <2>1, <1>0, <1>n
  <2> QED BY <2>3, <2>4, <1>0, <1>17 DEF Push!Serve, PushTyped
<1>18. ASSUME NEW p \in Pages, Push!Fail(p) PROVE PushTyped'
  <2>1. [calls[p] EXCEPT !.pc = "checking"] \in CallRecords BY <1>s DEF Stops
  <2>2. calls' \in [Pages -> CallRecords] BY <2>1, <1>i, <1>c, <1>18 DEF Push!Fail
  <2>3. counts' \in [tokens : Nat, subs : Nat, calls : Nat, faults : Nat] BY <1>n, <1>18 DEF Push!Fail
  <2> QED BY <2>2, <2>3, <1>0, <1>18 DEF Push!Fail, PushTyped
<1>19. ASSUME NEW p \in Pages, Push!Reload(p) PROVE PushTyped'
  <2>1. calls' \in [Pages -> CallRecords] BY <1>i, <1>c, <1>19 DEF Push!Reload
  <2>2. counts' \in [tokens : Nat, subs : Nat, calls : Nat, faults : Nat] BY <1>n, <1>19 DEF Push!Reload
  <2>3. cache' \in [Pages -> Records] /\ channel' \in [Pages -> Seq(Records)] BY <1>0, <1>i, <1>19 DEF Push!Reload
  <2> QED BY <2>1, <2>2, <2>3, <1>0, <1>19 DEF Push!Reload, PushTyped
<1>20. ASSUME NEW p \in Pages, NEW again \in BOOLEAN, Push!ServeLost(p, again) PROVE PushTyped'
  <2>1. [calls[p] EXCEPT !.pc = "checking"] \in CallRecords BY <1>s DEF Stops
  <2>2. calls' \in [Pages -> CallRecords] BY <2>1, <1>i, <1>0, <1>c, <1>20 DEF Push!ServeLost
  <2>3. PICK token \in Push!Tokens(p) : counts' = [counts EXCEPT !.faults = @ + 1, !.tokens = IF token > @ THEN token ELSE @]
    BY <1>20 DEF Push!ServeLost
  <2>4. token \in Int BY TokensAreTyped
  <2>6. PICK n : n = IF token > counts.tokens THEN token ELSE counts.tokens OBVIOUS
  <2>7. n \in Nat BY <2>4, <2>6, <1>0
  <2>8. counts' = [counts EXCEPT !.faults = counts.faults + 1, !.tokens = n] BY <2>3, <2>6
  <2>5. counts' \in [tokens : Nat, subs : Nat, calls : Nat, faults : Nat] 
    <3>1. PICK f \in Nat : f = counts.faults + 1 BY <1>0
    <3>2. counts' = [counts EXCEPT !.faults = f, !.tokens = n] BY <3>1, <2>8
    <3>3. [counts EXCEPT !.faults = f, !.tokens = n] \in [tokens : Nat, subs : Nat, calls : Nat, faults : Nat] BY <2>7, <1>0
    <3> QED BY <3>2, <3>3
  <2> QED BY <2>2, <2>5, <1>0, <1>20 DEF Push!ServeLost, PushTyped
<1>21. ASSUME NEW p \in Pages, Push!GenerateToken(p) PROVE PushTyped'
  BY <1>21, <1>0 DEF Push!GenerateToken, Push!At, CallRecords, Stops
<1>22. ASSUME Push!Dropped \/ Push!Tick \/ \E answer \in {"granted", "denied"} : Push!RequestPermission(answer) PROVE PushTyped'
  BY <1>22, <1>0 DEF Push!Dropped, Push!Tick, Push!RequestPermission, Push!NoSubscription, PushTyped
<1>23. ~Push!DeleteTokenNative /\ \A p \in Pages, key \in Keys : ~Push!GetTokenNative(p, key) BY DEF Push!DeleteTokenNative, Push!GetTokenNative
<1> QED BY <1>1, <1>2, <1>3, <1>4, <1>5, <1>6, <1>7, <1>8, <1>9, <1>10, <1>11, <1>12, <1>13, <1>14, <1>15, <1>16, <1>17, <1>18,
           <1>19, <1>20, <1>21, <1>22, <1>23 DEF Push!Next

\* A page that does not listen goes on knowing nothing.
LEMMA ListenersAlone ==
  ASSUME PushTyped, Closed, platform = "web", Push!Next
  PROVE  Closed'
<1> USE DEF Push!browser
<1>0. cache \in [Pages -> Records] /\ channel \in [Pages -> Seq(Records)] /\ calls \in [Pages -> CallRecords] BY DEF PushTyped
<1>o. ASSUME NEW p \in Pages, p \in opened', opened \subseteq opened',
             \A q \in Pages : q # p /\ q \notin opened => cache'[q] = cache[q] /\ channel'[q] = channel[q] /\ calls'[q] = calls[q]
      PROVE Closed'
  BY <1>o DEF Closed
<1>p. ASSUME NEW p \in Pages, p \notin opened, opened' = opened, UNCHANGED <<cache, channel>>,
             NEW c, Push!goes(p, c), c.pc \in Before
      PROVE Closed'
  BY <1>0, <1>p DEF Closed, Push!goes
<1>q. ASSUME NEW p \in Pages, opened' = opened, UNCHANGED <<cache, channel>>, NEW c, Push!goes(p, c), p \in opened \/ c.pc \in Before
      PROVE Closed'
  <2>1. CASE p \in opened
    <3>1. \A q \in Pages : q # p => calls'[q] = calls[q] BY <1>0, <1>q DEF Push!goes
    <3> QED BY <3>1, <2>1, <1>q, <1>o
  <2>2. CASE p \notin opened BY <2>2, <1>q, <1>p
  <2> QED BY <2>1, <2>2
<1>l. ASSUME NEW p \in Pages, calls[p].pc \notin Before PROVE p \in opened BY <1>l DEF Closed
<1>1. ASSUME NEW p \in Pages, NEW op \in {"get", "delete"}, NEW key \in Keys, Push!Begin(p, op, key) PROVE Closed'
  <2>1. PICK c : c = [Push!Idle EXCEPT !.pc = IF op = "get" THEN "worker" ELSE "reading", !.op = op,
                          !.key = IF op = "delete" \/ key = "blank" THEN "default" ELSE key] OBVIOUS
  <2>2. c.pc \in Before BY <2>1 DEF Push!Idle, Before
  <2> QED BY <2>1, <2>2, <1>q, <1>1 DEF Push!Begin
<1>2. ASSUME NEW p \in Pages, Push!Deliver(p) PROVE Closed'
  <2>1. p \in opened BY <1>2 DEF Push!Deliver, Closed
  <2> QED BY <2>1, <1>0, <1>o, <1>2 DEF Push!Deliver
<1>3. ASSUME NEW p \in Pages, Push!ReadCached(p) \/ Push!ReadStored(p) PROVE Closed'
  BY <1>0, <1>o, <1>3 DEF Push!ReadCached, Push!ReadStored, Push!goes
<1>5. ASSUME NEW p \in Pages, Push!Cache(p) PROVE Closed'
  <2>1. p \in opened BY <1>l, <1>5 DEF Push!Cache, Push!At, Before
  <2> QED BY <2>1, <1>0, <1>o, <1>5 DEF Push!Cache, Push!goes
<1>6. ASSUME NEW p \in Pages, Push!Put(p) \/ Push!Check(p) \/ Push!Erase(p) \/ Push!Install(p) \/ Push!Serve(p) PROVE Closed'
  <2>1. p \in opened BY <1>l, <1>6 DEF Push!Put, Push!Check, Push!Erase, Push!Install, Push!Serve, Push!Requesting, Push!At, Before
  <2>2. \A q \in Pages : q # p => calls'[q] = calls[q] BY <1>0, <1>6 DEF Push!Put, Push!Check, Push!Erase, Push!Install, Push!Serve, Push!goes, Push!step
  <2> QED BY <2>1, <2>2, <1>o, <1>6 DEF Push!Put, Push!Check, Push!Erase, Push!Install, Push!Serve
<1>7. ASSUME NEW p \in Pages, Push!Announce(p) \/ Push!Erased(p) PROVE Closed'
  <2>1. p \in opened BY <1>l, <1>7 DEF Push!Announce, Push!Erased, Push!At, Before
  <2>2. \A q \in Pages : q # p => calls'[q] = calls[q] BY <1>0, <1>7 DEF Push!Announce, Push!Erased, Push!goes
  <2>3. opened' = opened /\ \E record : Push!announced(p, record) BY <1>7 DEF Push!Announce, Push!Erased
  <2>4. \A q \in Pages : q # p /\ q \notin opened => cache'[q] = cache[q] /\ channel'[q] = channel[q]
    BY <2>3, <1>0 DEF Push!announced
  <2> QED BY <2>1, <2>2, <2>3, <2>4, <1>o
<1>8. ASSUME NEW p \in Pages, Push!Worker(p) PROVE Closed'
  <2>1. PICK c : Push!goes(p, c) /\ c.pc \in {"subscribing", "unsubscribing"} BY <1>0, <1>8 DEF Push!Worker, Push!step, CallRecords
  <2>2. c.pc \in Before BY <2>1 DEF Before
  <2> QED BY <2>1, <2>2, <1>q, <1>8 DEF Push!Worker
<1>9. ASSUME NEW p \in Pages, Push!Subscribe(p) PROVE Closed'
  <2>3. [calls[p] EXCEPT !.pc = "reading", !.sub = subscription].pc = "reading" /\ [calls[p] EXCEPT !.pc = "creating"].pc = "creating"
    BY <1>0 DEF CallRecords
  <2>1. PICK c : Push!goes(p, c) /\ c.pc \in {"reading", "creating"} BY <2>3, <1>9 DEF Push!Subscribe, Push!step
  <2>2. c.pc \in Before BY <2>1 DEF Before
  <2> QED BY <2>1, <2>2, <1>q, <1>9 DEF Push!Subscribe
<1>10. ASSUME NEW p \in Pages, Push!Create(p) PROVE Closed'
  <2>1. PICK c : Push!goes(p, c) /\ c.pc = "reading"
    <3>1. PICK sub : sub = subscription' OBVIOUS
    <3>2. Push!goes(p, [calls[p] EXCEPT !.pc = "reading", !.sub = sub]) BY <3>1, <1>10 DEF Push!Create, Push!goes
    <3>3. [calls[p] EXCEPT !.pc = "reading", !.sub = sub].pc = "reading" BY <1>0 DEF CallRecords
    <3> QED BY <3>2, <3>3
  <2>2. c.pc \in Before BY <2>1 DEF Before
  <2> QED BY <2>1, <2>2, <1>q, <1>10 DEF Push!Create
<1>11. ASSUME NEW p \in Pages, Push!CreateDenied(p) \/ Push!Unsubscribe(p) PROVE Closed'
  <2>1. Push!goes(p, Push!Idle) /\ Push!Idle.pc \in Before BY <1>11, RecordsAreTyped DEF Push!CreateDenied, Push!Unsubscribe, Before
  <2> QED BY <2>1, <1>q, <1>11 DEF Push!CreateDenied, Push!Unsubscribe
<1>12. ASSUME NEW p \in Pages, Push!Fail(p) PROVE Closed'
  <2>1. PICK c : Push!goes(p, c) /\ (c = Push!Idle \/ Push!At(p, "deleting")) BY <1>12 DEF Push!Fail
  <2>2. Push!Idle.pc \in Before BY RecordsAreTyped DEF Before
  <2>3. p \in opened \/ c.pc \in Before BY <2>1, <2>2, <1>l DEF Push!At, Before
  <2> QED BY <2>1, <2>3, <1>q, <1>12 DEF Push!Fail
<1>13. ASSUME NEW p \in Pages, NEW again \in BOOLEAN, Push!ServeLost(p, again) PROVE Closed'
  <2>1. p \in opened BY <1>l, <1>13 DEF Push!ServeLost, Push!Requesting, Push!At, Before
  <2>2. \A q \in Pages : q # p => calls'[q] = calls[q] BY <1>0, <1>13 DEF Push!ServeLost, Push!goes
  <2> QED BY <2>1, <2>2, <1>o, <1>13 DEF Push!ServeLost
<1>14. ASSUME NEW p \in Pages, Push!Reload(p) PROVE Closed'
  <2>1. SUFFICES ASSUME NEW q \in Pages, q \notin opened' PROVE cache'[q] = Push!NotCached /\ channel'[q] = <<>> /\ calls'[q].pc \in Before
    BY DEF Closed
  <2>2. CASE q = p BY <2>2, <1>0, <1>14, RecordsAreTyped DEF Push!Reload, Push!goes, Before
  <2>3. CASE q # p BY <2>3, <2>1, <1>0, <1>14 DEF Push!Reload, Push!goes, Closed
  <2> QED BY <2>2, <2>3
<1>15. \A p \in Pages : ~Push!GenerateToken(p) BY <1>0 DEF Push!GenerateToken, Push!At, CallRecords, Stops
<1>16. ASSUME Push!Dropped \/ Push!Tick \/ \E answer \in {"granted", "denied"} : Push!RequestPermission(answer) PROVE Closed'
  BY <1>16 DEF Push!Dropped, Push!Tick, Push!RequestPermission, Closed
<1>17. ~Push!DeleteTokenNative /\ \A p \in Pages, key \in Keys : ~Push!GetTokenNative(p, key) BY DEF Push!DeleteTokenNative, Push!GetTokenNative
<1> QED BY <1>1, <1>2, <1>3, <1>5, <1>6, <1>7, <1>8, <1>9, <1>10, <1>11, <1>12, <1>13, <1>14, <1>15, <1>16, <1>17 DEF Push!Next

\* An announced record of the store is what every page that listens will know.
LEMMA AnnouncementsArrive ==
  ASSUME PushTyped, Closed, NEW p \in Pages, channel[p] = <<>>, NEW record \in Records, record = store', Push!announced(p, record)
  PROVE  channel'[p] = <<>> /\ \A q \in Pages : Latest(q)' \in {Push!NotCached, store'}
<1>1. cache \in [Pages -> Records] /\ channel \in [Pages -> Seq(Records)] BY DEF PushTyped
<1>2. channel'[p] = <<>> /\ cache'[p] = record BY <1>1 DEF Push!announced
<1>3. ASSUME NEW q \in Pages, q # p PROVE Latest(q)' \in {Push!NotCached, store'}
  <2>1. cache'[q] = cache[q] BY <1>1, <1>3 DEF Push!announced
  <2>2. CASE q \in opened
    <3>1. channel'[q] = Append(channel[q], record) BY <1>1, <1>3, <2>2 DEF Push!announced
    <3>2. channel[q] \in Seq(Records) BY <1>1
    <3>3. channel'[q] # <<>> /\ channel'[q][Len(channel'[q])] = record BY <3>1, <3>2
    <3> QED BY <3>3 DEF Latest
  <2>3. CASE q \notin opened
    <3>1. channel'[q] = channel[q] BY <1>1, <1>3, <2>3 DEF Push!announced
    <3> QED BY <3>1, <2>1, <2>3 DEF Latest, Closed
  <2> QED BY <2>2, <2>3
<1> QED BY <1>2, <1>3 DEF Latest

LEMMA OneRegistrationStep ==
  ASSUME PushTyped, Closed, Undisturbed, platform = "web", ~disturbed', Push!Next
  PROVE  Undisturbed'
<1> USE DEF Push!browser
<1>0. /\ cache \in [Pages -> Records] /\ channel \in [Pages -> Seq(Records)] /\ calls \in [Pages -> CallRecords]
      /\ store \in Records /\ counts.tokens \in Nat
  BY DEF PushTyped
<1>q. ASSUME NEW p \in Pages, Busy(p), NEW c, Push!goes(p, c), UNCHANGED <<store, live, cache, channel>>,
             c.pc \in Before \ {"none"}, ~Settling(calls[p]), ~Unannounced(calls[p])
      PROVE Undisturbed'
  <2>1. CallFits(c) BY <1>q, EarlyFits
  <2> QED BY <2>1, <1>q, SoleCall, QuietStep DEF Push!goes
<1>1. ASSUME NEW p \in Pages, NEW op \in {"get", "delete"}, NEW key \in Keys, Push!Begin(p, op, key) PROVE Undisturbed'
  <2>1. PICK c : c = [Push!Idle EXCEPT !.pc = IF op = "get" THEN "worker" ELSE "reading", !.op = op,
                          !.key = IF op = "delete" \/ key = "blank" THEN "default" ELSE key] OBVIOUS
  <2>2. c.pc \in Before \ {"none"} BY <2>1 DEF Push!Idle, Before
  <2>3. CallFits(c) BY <2>2, EarlyFits
  <2>4. Push!Quiet BY <1>1 DEF Push!Begin
  <2>5. \A q \in Pages : calls[q].pc = "idle" /\ channel[q] = <<>> BY <2>4 DEF Push!Quiet, Push!At
  <2>6. \A q \in Pages : ~Settling(calls[q]) /\ ~Unannounced(calls[q]) BY <2>5, EarlyFits DEF Before
  <2>7. live = Registration(store) BY <2>6 DEF Undisturbed, Matches
  <2>8. calls' = [calls EXCEPT ![p] = c] /\ UNCHANGED <<store, live, cache, channel>> BY <1>1, <2>1 DEF Push!Begin, Push!goes
  <2> QED BY <2>3, <2>5, <2>6, <2>7, <2>8, QuietStep
<1>2. ASSUME NEW p \in Pages, Push!Deliver(p) PROVE Undisturbed'
  <2>1. channel[p] \in Seq(Records) /\ channel[p] # <<>> BY <1>0, <1>2 DEF Push!Deliver
  <2>2. /\ cache' = [cache EXCEPT ![p] = Head(channel[p])] /\ channel' = [channel EXCEPT ![p] = Tail(channel[p])]
        /\ UNCHANGED <<store, live, calls>>
    BY <1>2 DEF Push!Deliver
  <2>3. Latest(p)' = Latest(p)
    <3>1. cache'[p] = Head(channel[p]) /\ channel'[p] = Tail(channel[p]) BY <2>2, <1>0
    <3>2. PICK s \in Seq(Records) : s = channel[p] BY <2>1
    <3>3. CASE Tail(s) = <<>>
      <4>2. s # <<>> BY <3>2, <2>1
      <4>3. Len(Tail(s)) = Len(s) - 1 BY <4>2, <3>2
      <4>6. Len(<<>>) = 0 OBVIOUS
      <4>4. Len(Tail(s)) = 0 BY <3>3, <4>6, Zenon
      <4>5. Len(s) \in Nat BY <3>2
      <4>1. Len(s) = 1 BY <4>3, <4>4, <4>5
      <4> QED BY <4>1, <3>1, <3>2, <3>3, <2>1 DEF Latest
    <3>4. CASE Tail(s) # <<>>
      <4>1. Len(s) > 1 /\ Len(Tail(s)) = Len(s) - 1 BY <3>2, <3>4, <2>1
      <4>2. Tail(s)[Len(Tail(s))] = s[Len(s)] BY <4>1, <3>2
      <4> QED BY <4>2, <3>1, <3>2, <3>4, <2>1 DEF Latest
    <3> QED BY <3>3, <3>4
  <2>4. \A q \in Pages : q # p => Latest(q)' = Latest(q) BY <2>2, <1>0 DEF Latest
  <2>5. Views' BY <2>2, <2>3, <2>4 DEF Undisturbed, Views
  <2>6. Apart'
    <3>1. \A q \in Pages : channel[q] = <<>> => channel'[q] = <<>> BY <2>2, <1>0, <2>1
    <3> QED BY <3>1, <2>2 DEF Undisturbed, Apart, Busy
  <2> QED BY <2>2, <2>5, <2>6 DEF Undisturbed, Alone, Busy, Matches, Registration, Numbered, CallsFit, CallFits, Then
<1>3. ASSUME NEW p \in Pages, Push!ReadCached(p) PROVE Undisturbed'
  <2>1. Busy(p) /\ ~Settling(calls[p]) /\ ~Unannounced(calls[p]) BY <1>3 DEF Push!ReadCached, Push!At, Busy, Settling, Unannounced
  <2>2. cache[p] = store BY <2>1, SoleCall, <1>3 DEF Push!ReadCached, Latest
  <2>3. PICK c : c = Push!read(p, store) OBVIOUS
  <2>4. Push!goes(p, c) /\ UNCHANGED <<store, live, cache, channel>> BY <2>2, <2>3, <1>3 DEF Push!ReadCached
  <2>5. CallFits(c) BY <2>3, ReadFits
  <2> QED BY <2>1, <2>4, <2>5, SoleCall, QuietStep DEF Push!goes
<1>4. ASSUME NEW p \in Pages, Push!ReadStored(p) PROVE Undisturbed'
  <2>1. Busy(p) /\ ~Settling(calls[p]) /\ ~Unannounced(calls[p]) BY <1>4 DEF Push!ReadStored, Push!At, Busy, Settling, Unannounced
  <2>2. PICK c : c = [calls[p] EXCEPT !.pc = "caching", !.record = store] OBVIOUS
  <2>3. c.pc = "caching" /\ c.record = store BY <2>2, <1>0 DEF CallRecords
  <2>4. CallFits(c) BY <2>3 DEF CallFits, Then
  <2>5. Push!goes(p, c) /\ UNCHANGED <<store, live, cache, channel>> BY <2>2, <1>4 DEF Push!ReadStored
  <2> QED BY <2>1, <2>4, <2>5, SoleCall, QuietStep DEF Push!goes
<1>5. ASSUME NEW p \in Pages, Push!Cache(p) PROVE Undisturbed'
  <2>1. Busy(p) /\ ~Settling(calls[p]) /\ ~Unannounced(calls[p]) BY <1>5 DEF Push!Cache, Push!At, Busy, Settling, Unannounced
  <2>2. calls[p].record = store BY <2>1, SoleCall, <1>5 DEF Push!Cache, CallFits, Push!At
  <2>3. PICK c : c = Push!read(p, store) OBVIOUS
  <2>4. Push!goes(p, c) /\ cache' = [cache EXCEPT ![p] = store] /\ UNCHANGED <<store, live, channel>> BY <2>2, <2>3, <1>5 DEF Push!Cache
  <2>5. CallFits(c) BY <2>3, ReadFits
  <2>6. calls'[p] = c BY <2>4, <1>0 DEF Push!goes
  <2>7. CallFits(calls[p])' BY <2>4, <2>5, <2>6 DEF CallFits, Registration
  <2>8. \A q \in Pages : Latest(q)' \in {Push!NotCached, store'}
    <3>1. Latest(p)' = store BY <2>1, <2>4, <1>0, SoleCall DEF Latest
    <3>2. \A q \in Pages : q # p => Latest(q)' = Latest(q) BY <2>4, <1>0 DEF Latest
    <3> QED BY <3>1, <3>2, <2>1, <2>4, SoleCall
  <2>9. live' = Registration(store') BY <2>1, <2>4, SoleCall DEF Registration
  <2>10. Numbered' BY <2>4 DEF Numbered, Undisturbed
  <2>11. channel'[p] = <<>> BY <2>1, <2>4, SoleCall
  <2> QED BY <2>1, <2>4, <2>7, <2>8, <2>9, <2>10, <2>11, SoleCall, SoleMoves DEF Push!goes
<1>6. ASSUME NEW p \in Pages, Push!Put(p) PROVE Undisturbed'
  <2>1. Busy(p) /\ calls[p].pc = "putting" BY <1>6 DEF Push!Put, Push!At, Busy
  <2>2. PICK record : record = calls[p].record OBVIOUS
  <2>3. live = Registration(record) /\ record.token >= 1 BY <2>1, <2>2, SoleCall DEF CallFits
  <2>4. PICK c : c = [calls[p] EXCEPT !.pc = "announcing"] OBVIOUS
  <2>5. c.pc = "announcing" /\ c.record = record BY <2>2, <2>4, <1>0 DEF CallRecords
  <2>6. Push!goes(p, c) /\ store' = record /\ UNCHANGED <<live, cache, channel>> BY <2>2, <2>4, <1>6 DEF Push!Put, Push!step
  <2>7. calls'[p] = c BY <2>6, <1>0 DEF Push!goes
  <2>8. CallFits(calls[p])' BY <2>5, <2>6, <2>7 DEF CallFits, Then
  <2>9. live' = Registration(store') BY <2>3, <2>6 DEF Registration
  <2>10. Numbered' BY <2>3, <2>6 DEF Numbered
  <2>11. channel'[p] = <<>> /\ Unannounced(c) BY <2>1, <2>5, <2>6, SoleCall DEF Unannounced
  <2> QED BY <2>1, <2>6, <2>8, <2>9, <2>10, <2>11, SoleCall, SoleMoves DEF Push!goes
<1>7. ASSUME NEW p \in Pages, Push!Announce(p) PROVE Undisturbed'
  <2>1. Busy(p) /\ calls[p].pc = "announcing" /\ ~Settling(calls[p]) BY <1>7 DEF Push!Announce, Push!At, Busy, Settling
  <2>2. calls[p].record = store BY <2>1, SoleCall DEF CallFits
  <2>3. Push!goes(p, Push!Idle) /\ Push!announced(p, store) /\ UNCHANGED <<store, live>> BY <2>2, <1>7 DEF Push!Announce
  <2>4. channel'[p] = <<>> /\ \A q \in Pages : Latest(q)' \in {Push!NotCached, store'}
    BY <2>1, <2>3, <1>0, SoleCall, AnnouncementsArrive
  <2>5. calls'[p] = Push!Idle BY <2>3, <1>0 DEF Push!goes
  <2>6. CallFits(calls[p])' BY <2>5, RecordsAreTyped DEF CallFits, Then
  <2>7. live' = Registration(store') BY <2>1, <2>3, SoleCall DEF Registration
  <2>8. Numbered' BY <2>3 DEF Numbered, Undisturbed
  <2> QED BY <2>1, <2>3, <2>4, <2>6, <2>7, <2>8, SoleCall, SoleMoves DEF Push!goes
<1>r. ASSUME NEW p \in Pages, store = Push!None, NEW c, c = Push!removed(p) PROVE CallFits(c) /\ ~Settling(c)
  <2>1. c.pc = "worker" \/ (c.pc = "installing" /\ c.then = "registering") BY <1>0, <1>r DEF Push!removed, CallRecords
  <2> QED BY <2>1, <1>r DEF CallFits, Settling, Then
<1>8. ASSUME NEW p \in Pages, Push!Check(p) PROVE Undisturbed'
  <2>1. Busy(p) /\ calls[p].pc = "checking" /\ ~Unannounced(calls[p]) BY <1>8 DEF Push!Check, Push!At, Busy, Unannounced
  <2>2. live = {} BY <2>1, SoleCall DEF CallFits
  <2>3. UNCHANGED <<store, live, cache, channel>> BY <1>8 DEF Push!Check
  <2>4. CASE store # Push!None
    <3>1. PICK c : c = [calls[p] EXCEPT !.pc = "erasing"] OBVIOUS
    <3>2. c.pc = "erasing" BY <3>1, <1>0 DEF CallRecords
    <3>3. CallFits(c) /\ Settling(c) BY <3>2, <2>2 DEF CallFits, Settling, Then
    <3>4. Push!goes(p, c) BY <3>1, <2>4, <1>8 DEF Push!Check
    <3> QED BY <3>3, <3>4, <2>1, <2>3, SoleCall, QuietStep DEF Push!goes
  <2>5. CASE store = Push!None
    <3>1. PICK c : c = Push!removed(p) OBVIOUS
    <3>2. CallFits(c) BY <3>1, <2>5, <1>r
    <3>3. live = Registration(store) BY <2>2, <2>5 DEF Registration
    <3>4. Push!goes(p, c) BY <3>1, <2>5, <1>8 DEF Push!Check
    <3> QED BY <3>2, <3>3, <3>4, <2>1, <2>3, SoleCall, QuietStep DEF Push!goes
  <2> QED BY <2>4, <2>5
<1>9. ASSUME NEW p \in Pages, Push!Erase(p) PROVE Undisturbed'
  <2>1. Busy(p) /\ calls[p].pc = "erasing" BY <1>9 DEF Push!Erase, Push!At, Busy
  <2>2. live = {} BY <2>1, SoleCall DEF CallFits
  <2>3. PICK c : c = [calls[p] EXCEPT !.pc = "erased"] OBVIOUS
  <2>4. c.pc = "erased" BY <2>3, <1>0 DEF CallRecords
  <2>5. Push!goes(p, c) /\ store' = Push!None /\ UNCHANGED <<live, cache, channel>> BY <2>3, <1>9 DEF Push!Erase, Push!step
  <2>6. calls'[p] = c BY <2>5, <1>0 DEF Push!goes
  <2>7. CallFits(calls[p])' BY <2>4, <2>5, <2>6 DEF CallFits, Then
  <2>8. live' = Registration(store') BY <2>2, <2>5 DEF Registration
  <2>9. Numbered' BY <2>5 DEF Numbered
  <2>10. channel'[p] = <<>> /\ Unannounced(c) BY <2>1, <2>4, <2>5, SoleCall DEF Unannounced
  <2> QED BY <2>1, <2>5, <2>7, <2>8, <2>9, <2>10, SoleCall, SoleMoves DEF Push!goes
<1>10. ASSUME NEW p \in Pages, Push!Erased(p) PROVE Undisturbed'
  <2>1. Busy(p) /\ calls[p].pc = "erased" /\ ~Settling(calls[p]) BY <1>10 DEF Push!Erased, Push!At, Busy, Settling
  <2>2. store = Push!None BY <2>1, SoleCall DEF CallFits
  <2>3. PICK c : c = Push!removed(p) OBVIOUS
  <2>4. Push!goes(p, c) /\ Push!announced(p, Push!None) /\ UNCHANGED <<store, live>> BY <2>3, <1>10 DEF Push!Erased
  <2>5. channel'[p] = <<>> /\ \A q \in Pages : Latest(q)' \in {Push!NotCached, store'}
    BY <2>1, <2>2, <2>4, RecordsAreTyped, SoleCall, AnnouncementsArrive
  <2>6. CallFits(c) BY <2>2, <2>3, <1>r
  <2>7. calls'[p] = c BY <2>4, <1>0 DEF Push!goes
  <2>8. CallFits(calls[p])' BY <2>4, <2>6, <2>7 DEF CallFits, Registration
  <2>9. live' = Registration(store') BY <2>1, <2>4, SoleCall DEF Registration
  <2>10. Numbered' BY <2>4 DEF Numbered, Undisturbed
  <2> QED BY <2>1, <2>4, <2>5, <2>8, <2>9, <2>10, SoleCall, SoleMoves DEF Push!goes
<1>11. ASSUME NEW p \in Pages, Push!Worker(p) PROVE Undisturbed'
  <2>1. PICK c : Push!goes(p, c) /\ c.pc \in {"subscribing", "unsubscribing"} BY <1>0, <1>11 DEF Push!Worker, Push!step, CallRecords
  <2>2. c.pc \in Before \ {"none"} BY <2>1 DEF Before
  <2>3. Busy(p) /\ ~Settling(calls[p]) /\ ~Unannounced(calls[p]) BY <1>11 DEF Push!Worker, Push!At, Busy, Settling, Unannounced
  <2> QED BY <2>1, <2>2, <2>3, <1>q, <1>11 DEF Push!Worker
<1>12. ASSUME NEW p \in Pages, Push!Subscribe(p) PROVE Undisturbed'
  <2>1. [calls[p] EXCEPT !.pc = "reading", !.sub = subscription].pc = "reading" /\ [calls[p] EXCEPT !.pc = "creating"].pc = "creating"
    BY <1>0 DEF CallRecords
  <2>2. PICK c : Push!goes(p, c) /\ c.pc \in {"reading", "creating"} BY <2>1, <1>12 DEF Push!Subscribe, Push!step
  <2>3. c.pc \in Before \ {"none"} BY <2>2 DEF Before
  <2>4. Busy(p) /\ ~Settling(calls[p]) /\ ~Unannounced(calls[p]) BY <1>12 DEF Push!Subscribe, Push!At, Busy, Settling, Unannounced
  <2> QED BY <2>2, <2>3, <2>4, <1>q, <1>12 DEF Push!Subscribe
<1>13. ASSUME NEW p \in Pages, Push!Create(p) PROVE Undisturbed'
  <2>1. PICK sub : sub = subscription' OBVIOUS
  <2>2. PICK c : c = [calls[p] EXCEPT !.pc = "reading", !.sub = sub] OBVIOUS
  <2>3. Push!goes(p, c) BY <2>1, <2>2, <1>13 DEF Push!Create, Push!goes
  <2>4. c.pc \in Before \ {"none"} BY <2>2, <1>0 DEF Before, CallRecords
  <2>5. Busy(p) /\ ~Settling(calls[p]) /\ ~Unannounced(calls[p]) BY <1>13 DEF Push!Create, Push!At, Busy, Settling, Unannounced
  <2> QED BY <2>3, <2>4, <2>5, <1>q, <1>13 DEF Push!Create
<1>14. ASSUME NEW p \in Pages, Push!CreateDenied(p) \/ Push!Unsubscribe(p) PROVE Undisturbed'
  <2>1. Push!goes(p, Push!Idle) /\ Push!Idle.pc \in Before \ {"none"} BY <1>14, RecordsAreTyped DEF Push!CreateDenied, Push!Unsubscribe, Before
  <2>2. Busy(p) /\ ~Settling(calls[p]) /\ ~Unannounced(calls[p])
    BY <1>14 DEF Push!CreateDenied, Push!Unsubscribe, Push!At, Busy, Settling, Unannounced
  <2>3. UNCHANGED <<store, live, cache, channel>> BY <1>14 DEF Push!CreateDenied, Push!Unsubscribe
  <2> QED BY <2>1, <2>2, <2>3, <1>q
<1>15. ASSUME NEW p \in Pages, Push!Install(p) PROVE Undisturbed'
  <2>1. Busy(p) /\ calls[p].pc = "installing" /\ ~Settling(calls[p]) /\ ~Unannounced(calls[p])
    BY <1>15 DEF Push!Install, Push!At, Busy, Settling, Unannounced
  <2>2. PICK e : Push!goes(p, [calls[p] EXCEPT !.pc = calls[p].then, !.expires = e]) BY <1>15 DEF Push!Install
  <2>3. PICK c : c = [calls[p] EXCEPT !.pc = calls[p].then, !.expires = e] OBVIOUS
  <2>4. c.pc = calls[p].then /\ c.record = calls[p].record /\ c.pc \in {"none", "registering", "updating", "deleting"}
    BY <2>3, <1>0 DEF CallRecords
  <2>5. CallFits(calls[p]) BY <2>1, SoleCall
  <2>6. CallFits(c) BY <2>1, <2>4, <2>5 DEF CallFits, Then
  <2>7. Push!goes(p, c) /\ UNCHANGED <<store, live, cache, channel>> BY <2>2, <2>3, <1>15 DEF Push!Install
  <2> QED BY <2>1, <2>6, <2>7, SoleCall, QuietStep DEF Push!goes
<1>16. ASSUME NEW p \in Pages, Push!Serve(p) PROVE Undisturbed'
  <2>1. PICK token \in Push!Tokens(p) : live' = Push!Effect(p, token) /\ Push!goes(p, Push!answered(p, token)) BY <1>16 DEF Push!Serve
  <2>2. UNCHANGED <<store, cache, channel>> BY <1>16 DEF Push!Serve
  <2>3. Busy(p) /\ ~Settling(calls[p]) /\ ~Unannounced(calls[p])
    BY <1>16 DEF Push!Serve, Push!Requesting, Push!At, Busy, Settling, Unannounced
  <2>4. CallFits(calls[p]) /\ live = Registration(store) /\ channel[p] = <<>> /\ \A q \in Pages : Latest(q) \in {Push!NotCached, store}
    BY <2>3, SoleCall
  <2>5. PICK c : c = Push!answered(p, token) OBVIOUS
  <2>6. token \in Int BY TokensAreTyped
  <2>7. CASE Push!At(p, "deleting")
    <3>1. store # Push!None /\ calls[p].record = store BY <2>4, <2>7 DEF CallFits, Then, Push!At
    <3>2. live' = Push!without(store.token) BY <3>1, <2>1, <2>7 DEF Push!Effect, Push!At
    <3>3. live' = {} BY <3>1, <3>2, <2>4 DEF Push!without, Registration
    <3>4. c.pc = "checking" BY <2>5, <2>7, <1>0 DEF Push!answered, CallRecords
    <3>5. calls'[p] = c BY <2>1, <2>5, <1>0 DEF Push!goes
    <3>6. CallFits(calls[p])' BY <3>3, <3>4, <3>5 DEF CallFits, Then
    <3>7. Settling(c) BY <3>4 DEF Settling
    <3> HIDE DEF Latest
    <3>8. \A q \in Pages : Latest(q)' \in {Push!NotCached, store'} BY <2>2, <2>4 DEF Latest
    <3>9. Numbered' BY <2>2 DEF Numbered, Undisturbed
    <3> QED BY <3>6, <3>7, <3>8, <3>9, <2>1, <2>2, <2>3, <2>4, <2>5, SoleCall, SoleMoves DEF Push!goes
  <2>8. CASE ~Push!At(p, "deleting")
    <3>1. PICK record : record = Push!recorded(p, token) OBVIOUS
    <3>2. record.token = token /\ record.sub = calls[p].sub /\ record.key = calls[p].key BY <3>1 DEF Push!recorded
    <3>3. token >= 1 /\ live' = {Push!registration(p, token)}
      <4>1. CASE Push!At(p, "registering")
        <5>1. store = Push!None BY <2>4, <4>1 DEF CallFits, Then, Push!At
        <5>2. live = {} BY <5>1, <2>4 DEF Registration
        <5>3. token = counts.tokens + 1 /\ live' = live \cup {Push!registration(p, token)} BY <2>1, <4>1 DEF Push!Tokens, Push!Effect, Push!At
        <5> QED BY <5>2, <5>3, <1>0
      <4>2. CASE Push!At(p, "updating")
        <5>1. store # Push!None /\ calls[p].record = store BY <2>4, <4>2 DEF CallFits, Then, Push!At
        <5>2. Push!without(store.token) = {} BY <5>1, <2>4 DEF Push!without, Registration
        <5>3. token \in {counts.tokens + 1, store.token} BY <5>1, <2>1, <4>2 DEF Push!Tokens, Push!At
        <5>4. live' = Push!without(store.token) \cup {Push!registration(p, token)} BY <5>1, <2>1, <4>2 DEF Push!Effect, Push!At
        <5>5. store.token >= 1 BY <5>1 DEF Undisturbed, Numbered
        <5> QED BY <5>2, <5>3, <5>4, <5>5, <1>0
      <4> QED BY <4>1, <4>2, <2>8, <1>16 DEF Push!Serve, Push!Requesting
    <3>4. live' = Registration(record)
      <4>1. record # Push!None BY <3>2, <3>3, RecordsAreTyped
      <4> QED BY <4>1, <3>2, <3>3 DEF Registration, Push!registration
    <3>5. c.pc = "putting" /\ c.record = record BY <2>5, <2>8, <3>1, <1>0 DEF Push!answered, CallRecords
    <3>6. calls'[p] = c BY <2>1, <2>5, <1>0 DEF Push!goes
    <3>7. CallFits(calls[p])' BY <3>2, <3>3, <3>4, <3>5, <3>6 DEF CallFits, Then, Registration
    <3>8. Settling(c) BY <3>5 DEF Settling
    <3>9. \A q \in Pages : Latest(q)' \in {Push!NotCached, store'} BY <2>2, <2>4 DEF Latest
    <3>10. Numbered' BY <2>2 DEF Numbered, Undisturbed
    <3> QED BY <3>7, <3>8, <3>9, <3>10, <2>1, <2>2, <2>3, <2>4, <2>5, SoleCall, SoleMoves DEF Push!goes
  <2> QED BY <2>7, <2>8
<1>17. ASSUME NEW p \in Pages, Push!Fail(p) PROVE Undisturbed'
  <2>1. ~Push!Committed(p) /\ ~(Push!At(p, "deleting") /\ calls[p].op = "get") BY <1>17 DEF Push!Fail
  <2>2. Push!goes(p, Push!Idle) /\ UNCHANGED <<store, live, cache, channel>> BY <2>1, <1>17 DEF Push!Fail
  <2>3. Busy(p) /\ ~Settling(calls[p]) /\ ~Unannounced(calls[p])
    BY <2>1, <1>17 DEF Push!Fail, Push!At, Busy, Settling, Unannounced, Push!Committed
  <2>4. Push!Idle.pc \in Before \ {"none"} BY RecordsAreTyped DEF Before
  <2> QED BY <2>2, <2>3, <2>4, <1>q
<1>18. ASSUME NEW p \in Pages, Push!Reload(p) PROVE Undisturbed'
  <2>1. ~Push!Committed(p) BY <1>18 DEF Push!Reload
  <2>2. ~Settling(calls[p]) /\ ~Unannounced(calls[p]) BY <2>1 DEF Push!Committed, Push!At, Settling, Unannounced
  <2>3. /\ cache' = [cache EXCEPT ![p] = Push!NotCached] /\ channel' = [channel EXCEPT ![p] = <<>>]
        /\ calls' = [calls EXCEPT ![p] = Push!Idle] /\ UNCHANGED <<store, live>>
    BY <1>18 DEF Push!Reload, Push!goes
  <2>4. cache'[p] = Push!NotCached /\ channel'[p] = <<>> /\ calls'[p].pc = "idle" BY <2>3, <1>0, RecordsAreTyped
  <2>5. \A q \in Pages : q # p => cache'[q] = cache[q] /\ channel'[q] = channel[q] /\ calls'[q] = calls[q] BY <2>3, <1>0
  <2>6. Alone' BY <2>4, <2>5 DEF Alone, Busy, Undisturbed
  <2>7. Apart' BY <2>4, <2>5 DEF Apart, Busy, Undisturbed
  <2>8. Views'
    <3>1. SUFFICES ASSUME \A q \in Pages : ~Unannounced(calls'[q]), NEW q \in Pages PROVE Latest(q)' \in {Push!NotCached, store}
      BY <2>3 DEF Views, Unannounced
    <3>2. \A o \in Pages : ~Unannounced(calls[o]) BY <2>2, <2>5, <3>1
    <3>3. Latest(q) \in {Push!NotCached, store} BY <3>2 DEF Undisturbed, Views
    <3> QED BY <3>3, <2>4, <2>5 DEF Latest
  <2>9. Matches'
    <3>1. SUFFICES ASSUME \A q \in Pages : ~Settling(calls'[q]) PROVE live = Registration(store)
      BY <2>3 DEF Matches, Settling, Registration
    <3>2. \A o \in Pages : ~Settling(calls[o]) BY <2>2, <2>5, <3>1
    <3> QED BY <3>2 DEF Undisturbed, Matches
  <2>10. CallsFit'
    <3>1. SUFFICES ASSUME NEW q \in Pages PROVE CallFits(calls[q])' BY DEF CallsFit
    <3>2. CASE q = p BY <3>2, <2>4 DEF CallFits, Then
    <3>3. CASE q # p BY <3>3, <2>3, <2>5 DEF Undisturbed, CallsFit, CallFits, Then, Registration
    <3> QED BY <3>2, <3>3
  <2>11. Numbered' BY <2>3 DEF Numbered, Undisturbed
  <2> QED BY <2>6, <2>7, <2>8, <2>9, <2>10, <2>11 DEF Undisturbed
<1>19. \A p \in Pages, again \in BOOLEAN : ~Push!ServeLost(p, again) BY DEF Push!ServeLost
<1>20. \A p \in Pages : ~Push!GenerateToken(p) BY <1>0 DEF Push!GenerateToken, Push!At, CallRecords, Stops
<1>21. ASSUME Push!Dropped \/ Push!Tick \/ \E answer \in {"granted", "denied"} : Push!RequestPermission(answer) PROVE Undisturbed'
  BY <1>21, NothingMoves DEF Push!Dropped, Push!Tick, Push!RequestPermission
<1>22. ~Push!DeleteTokenNative /\ \A p \in Pages, key \in Keys : ~Push!GetTokenNative(p, key) BY DEF Push!DeleteTokenNative, Push!GetTokenNative
<1> QED BY <1>1, <1>2, <1>3, <1>4, <1>5, <1>6, <1>7, <1>8, <1>9, <1>10, <1>11, <1>12, <1>13, <1>14, <1>15, <1>16, <1>17, <1>18,
           <1>19, <1>20, <1>21, <1>22 DEF Push!Next

\* A call that is disturbed stays so, and a program runs in a browser or not.
LEMMA HistoryIsKept ==
  ASSUME Push!Next
  PROVE  platform' = platform /\ (disturbed => disturbed')
<1> USE DEF Push!browser
<1>1. ASSUME NEW p \in Pages PROVE
        /\ \A op \in {"get", "delete"}, key \in Keys : Push!Begin(p, op, key) => platform' = platform /\ (disturbed => disturbed')
        /\ Push!Deliver(p) \/ Push!ReadCached(p) \/ Push!ReadStored(p) \/ Push!Cache(p) \/ Push!Put(p) \/ Push!Announce(p) \/ Push!Check(p) \/ Push!Erase(p)
             => platform' = platform /\ (disturbed => disturbed')
        /\ Push!Erased(p) \/ Push!Worker(p) \/ Push!Subscribe(p) \/ Push!Create(p) \/ Push!CreateDenied(p) \/ Push!Unsubscribe(p)
             => platform' = platform /\ (disturbed => disturbed')
        /\ Push!Install(p) \/ Push!Serve(p) \/ Push!Fail(p) \/ Push!Reload(p) \/ Push!GenerateToken(p) => platform' = platform /\ (disturbed => disturbed')
        /\ \A again \in BOOLEAN : Push!ServeLost(p, again) => platform' = platform /\ (disturbed => disturbed')
        /\ \A key \in Keys : Push!GetTokenNative(p, key) => platform' = platform /\ (disturbed => disturbed')
  <2>1. \A op \in {"get", "delete"}, key \in Keys : Push!Begin(p, op, key) => platform' = platform /\ (disturbed => disturbed') BY DEF Push!Begin
  <2>2. Push!Deliver(p) \/ Push!ReadCached(p) \/ Push!ReadStored(p) \/ Push!Cache(p) \/ Push!Put(p) \/ Push!Announce(p) \/ Push!Check(p) \/ Push!Erase(p)
          => platform' = platform /\ (disturbed => disturbed')
    BY DEF Push!Deliver, Push!ReadCached, Push!ReadStored, Push!Cache, Push!Put, Push!Announce, Push!Check, Push!Erase
  <2>3. Push!Erased(p) \/ Push!Worker(p) \/ Push!Subscribe(p) \/ Push!Create(p) \/ Push!CreateDenied(p) \/ Push!Unsubscribe(p)
          => platform' = platform /\ (disturbed => disturbed')
    BY DEF Push!Erased, Push!Worker, Push!Subscribe, Push!Create, Push!CreateDenied, Push!Unsubscribe
  <2>4. Push!Install(p) \/ Push!Serve(p) \/ Push!Fail(p) \/ Push!Reload(p) \/ Push!GenerateToken(p) => platform' = platform /\ (disturbed => disturbed')
    <3>1. Push!Install(p) \/ Push!Serve(p) \/ Push!GenerateToken(p) => platform' = platform /\ (disturbed => disturbed') BY DEF Push!Install, Push!Serve, Push!GenerateToken
    <3>2. Push!Fail(p) => platform' = platform /\ (disturbed => disturbed') BY DEF Push!Fail
    <3>3. Push!Reload(p) => platform' = platform /\ (disturbed => disturbed') BY DEF Push!Reload
    <3> QED BY <3>1, <3>2, <3>3
  <2>5. \A again \in BOOLEAN : Push!ServeLost(p, again) => platform' = platform /\ (disturbed => disturbed') BY DEF Push!ServeLost
  <2>6. \A key \in Keys : Push!GetTokenNative(p, key) => platform' = platform /\ (disturbed => disturbed') BY DEF Push!GetTokenNative
  <2> QED BY <2>1, <2>2, <2>3, <2>4, <2>5, <2>6
<1>2. Push!Dropped \/ Push!Tick \/ Push!DeleteTokenNative \/ (\E answer \in {"granted", "denied"} : Push!RequestPermission(answer))
        => platform' = platform /\ (disturbed => disturbed')
  BY DEF Push!Dropped, Push!Tick, Push!DeleteTokenNative, Push!RequestPermission
<1> QED BY <1>1, <1>2 DEF Push!Next

LEMMA PushStarts == Push!Init => PushInv
<1> SUFFICES ASSUME Push!Init PROVE PushTyped /\ Closed /\ Undisturbed BY DEF PushInv
<1>1. PushTyped BY RecordsAreTyped DEF Push!Init, PushTyped, Push!NoSubscription
<1>2. \A p \in Pages : calls[p] = Push!Idle /\ Push!Idle.pc = "idle" /\ cache[p] = Push!NotCached /\ channel[p] = <<>>
  BY RecordsAreTyped DEF Push!Init
<1>3. Closed BY <1>2 DEF Closed, Before
<1>4. Alone /\ Apart BY <1>2 DEF Alone, Apart, Busy
<1>5. Views /\ Numbered BY <1>2 DEF Views, Latest, Numbered, Push!Init
<1>6. Matches BY DEF Matches, Registration, Push!Init
<1>7. CallsFit BY <1>2, EarlyFits DEF CallsFit, Before
<1> QED BY <1>1, <1>3, <1>4, <1>5, <1>6, <1>7 DEF Undisturbed

LEMMA PushSteps ==
  ASSUME Push!ConstantsOK, PushInv, [Push!Next]_(Push!messagingVars)
  PROVE  PushInv'
<1>1. CASE Push!Next
  <2>1. SUFFICES ASSUME platform' = "web" PROVE PushTyped' /\ Closed' /\ (~disturbed' => Undisturbed') BY DEF PushInv
  <2>2. platform = "web" /\ (disturbed => disturbed') BY <1>1, <2>1, HistoryIsKept
  <2>3. PushTyped /\ Closed /\ (~disturbed => Undisturbed) BY <2>2 DEF PushInv
  <2> QED BY <1>1, <2>2, <2>3, TypesAreKept, ListenersAlone, OneRegistrationStep
<1>2. CASE UNCHANGED Push!messagingVars
  <2>1. PushTyped => PushTyped' BY <1>2 DEF Push!messagingVars, PushTyped
  <2>2. Closed => Closed' BY <1>2 DEF Push!messagingVars, Closed
  <2>3. Undisturbed => Undisturbed' BY <1>2, NothingMoves DEF Push!messagingVars
  <2> QED BY <2>1, <2>2, <2>3, <1>2 DEF PushInv, Push!messagingVars
<1> QED BY <1>1, <1>2

LEMMA PushMeans == PushInv => Push!OneRegistration
<1> SUFFICES ASSUME PushInv, platform = "web", Push!Quiet, ~disturbed
             PROVE  /\ live = IF store = Push!None THEN {} ELSE {[token |-> store.token, sub |-> store.sub, key |-> store.key]}
                    /\ \A p \in Pages : cache[p] \in {Push!NotCached, store}
  BY DEF Push!OneRegistration
<1>1. \A p \in Pages : calls[p].pc = "idle" /\ channel[p] = <<>> BY DEF Push!Quiet, Push!At
<1>2. \A p \in Pages : ~Settling(calls[p]) /\ ~Unannounced(calls[p]) BY <1>1, EarlyFits DEF Before
<1> QED BY <1>1, <1>2 DEF PushInv, Undisturbed, Matches, Views, Registration, Latest

\* get_token and delete_token change FCM, the record in IndexedDB, the cache of
\* the page and those of the others one after the other.  Between calls, with the
\* broadcasts in, the four agree: FCM has the registration of the record and no
\* other, and no page remembers another, unless calls overlapped or one failed
\* after FCM had done its part.
THEOREM OneRegistrationIsKept ==
  ASSUME Push!ConstantsOK
  PROVE  Push!Spec => []Push!OneRegistration
<1>1. PushInv /\ [Push!Next]_(Push!messagingVars) => PushInv' BY PushSteps
<1> QED BY <1>1, PushStarts, PushMeans, PTL DEF Push!Spec

-----------------------------------------------------------------------------
(***************************************************************************)
(* The queue of Performance and the flushes that empty it.  The invariant: *)
(* whoever has read IndexedDB is alone and has what is in it, the file is  *)
(* the queue, and a record kept is in the queue, in one batch or uploaded, *)
(* unless an answer or a write of the file was lost or IndexedDB was used  *)
(* twice at once.  A record that a failing IndexedDB loses is no longer    *)
(* kept but dropped, and is then in none of these places.                  *)
(***************************************************************************)
CONSTANTS Traces, Requests, Flushes, BatchSize, MaxPerfFaults, MaxSends, MaxSettings
VARIABLES backend, queue, file, collecting, instrumenting, handles, flushes, uploaded, perfCounts, perfDisturbed

Perf == INSTANCE Performance WITH MaxFaults <- MaxPerfFaults, counts <- perfCounts, disturbed <- perfDisturbed

\* A record is in a sequence, and in no place of it twice.
Holds(s, h) == \E i \in 1 .. Len(s) : s[i] = h
Once(s) == \A i, j \in 1 .. Len(s) : s[i] = s[j] => i = j

HandleStops == {"new", "running", "asking", "stopped", "pushing", "putting", "kept", "dropped", "completed"}
FlushStops == {"idle", "draining", "loaded", "drained", "sent", "requeueing", "reloaded"}
HandleRecords == [pc : HandleStops, marked : BOOLEAN, loaded : Seq(Perf!Handles)]
FlushRecords == [pc : FlushStops, batch : Seq(Perf!Handles), loaded : Seq(Perf!Handles)]

PerfTyped ==
  /\ backend \in {"memory", "file", "indexedDb"} /\ queue \in Seq(Perf!Handles)
  /\ file \in Seq(Perf!Handles) \cup {Perf!Torn} /\ (backend # "file" => file \in Seq(Perf!Handles))
  /\ handles \in [Perf!Handles -> HandleRecords] /\ flushes \in [Flushes -> FlushRecords]
  /\ uploaded \in [Perf!Handles -> Nat] /\ perfDisturbed \in BOOLEAN

\* A flush has a batch from the drain to the last record put back.
Batches ==
  /\ \A f \in Flushes : Len(flushes[f].batch) <= BatchSize /\ (flushes[f].batch = <<>> <=> flushes[f].pc \in {"idle", "draining", "loaded"})
  /\ Perf!locked => \A f \in Flushes : flushes[f].pc \notin {"loaded", "reloaded"}
  /\ Perf!locked => \A h \in Perf!Handles : handles[h].pc # "putting"

\* Whoever has read IndexedDB is alone, and has what is in it.
Reading ==
  /\ \A f \in Flushes : flushes[f].pc \in {"loaded", "reloaded"} =>
       /\ flushes[f].loaded = file /\ \A h \in Perf!Handles : handles[h].pc # "putting"
       /\ \A g \in Flushes : g # f => flushes[g].pc \notin {"loaded", "reloaded"}
  /\ \A h \in Perf!Handles : handles[h].pc = "putting" =>
       /\ handles[h].loaded = file /\ \A g \in Perf!Handles : handles[g].pc = "putting" => g = h

\* A record kept is in the queue, in one batch, or uploaded once.
Placed ==
  /\ Once(Perf!Queued) /\ \A f \in Flushes : Once(flushes[f].batch)
  /\ \A f, g \in Flushes : f # g => \A h \in Perf!Handles : ~(Holds(flushes[f].batch, h) /\ Holds(flushes[g].batch, h))
  /\ \A f \in Flushes : \A h \in Perf!Handles : Holds(flushes[f].batch, h) => ~Holds(Perf!Queued, h)
  /\ \A h \in Perf!Handles : uploaded[h] \in {0, 1}
  /\ \A h \in Perf!Handles : uploaded[h] = 1 => ~Holds(Perf!Queued, h) /\ \A f \in Flushes : ~Holds(flushes[f].batch, h)
  /\ \A h \in Perf!Handles : handles[h].pc = "kept" <=>
       Holds(Perf!Queued, h) \/ uploaded[h] = 1 \/ \E f \in Flushes : Holds(flushes[f].batch, h)

PerfInv ==
  /\ PerfTyped /\ Batches
  /\ ~perfDisturbed => Reading /\ Placed /\ (backend = "file" => file = queue)

\* What the sequence operators do to the records a sequence holds.
LEMMA AppendHolds ==
  ASSUME NEW q \in Seq(Perf!Handles), NEW h \in Perf!Handles
  PROVE  /\ Append(q, h) \in Seq(Perf!Handles) /\ Append(q, h) # <<>>
         /\ \A x \in Perf!Handles : Holds(Append(q, h), x) <=> Holds(q, x) \/ x = h
         /\ Once(q) /\ ~Holds(q, h) => Once(Append(q, h))
<1> DEFINE p == Append(q, h)
<1>1. p \in Seq(Perf!Handles) /\ Len(p) = Len(q) + 1 /\ Len(q) \in Nat /\ p[Len(q) + 1] = h /\ \A i \in 1 .. Len(q) : p[i] = q[i]
  OBVIOUS
<1>2. \A i \in 1 .. Len(p) : i \in 1 .. Len(q) \/ i = Len(q) + 1 BY <1>1
<1>3. \A i \in 1 .. Len(q) : i \in 1 .. Len(p) BY <1>1
<1>4. Len(q) + 1 \in 1 .. Len(p) BY <1>1
<1>5. p # <<>> BY <1>1
<1> HIDE DEF p
<1>6. \A x \in Perf!Handles : Holds(p, x) <=> Holds(q, x) \/ x = h BY <1>1, <1>2, <1>3, <1>4 DEF Holds
<1>7. Once(q) /\ ~Holds(q, h) => Once(p) BY <1>1, <1>2 DEF Holds, Once
<1> QED BY <1>1, <1>5, <1>6, <1>7 DEF p

LEMMA TailHolds ==
  ASSUME NEW b \in Seq(Perf!Handles), b # <<>>
  PROVE  /\ Head(b) \in Perf!Handles /\ Tail(b) \in Seq(Perf!Handles) /\ Len(Tail(b)) = Len(b) - 1 /\ Len(b) \in Nat /\ Holds(b, Head(b))
         /\ \A x \in Perf!Handles : Holds(b, x) <=> Holds(Tail(b), x) \/ x = Head(b)
         /\ Once(b) => Once(Tail(b)) /\ ~Holds(Tail(b), Head(b))
<1>1. PICK t : t = Tail(b) OBVIOUS
<1>2. PICK x : x = Head(b) OBVIOUS
<1>3. /\ t \in Seq(Perf!Handles) /\ x \in Perf!Handles /\ Len(t) = Len(b) - 1 /\ Len(b) \in Nat /\ Len(b) > 0 /\ b[1] = x
      /\ \A i \in 1 .. Len(t) : t[i] = b[i + 1]
  BY <1>1, <1>2, HeadTailProperties, EmptySeq
<1>4. \A i \in 1 .. Len(t) : i + 1 \in 1 .. Len(b) /\ i + 1 # 1 BY <1>3
<1>5. 1 \in 1 .. Len(b) BY <1>3
<1>6. \A i \in 1 .. Len(b) : i = 1 \/ (i - 1 \in 1 .. Len(t) /\ b[i] = t[i - 1])
  <2> SUFFICES ASSUME NEW i \in 1 .. Len(b), i # 1 PROVE i - 1 \in 1 .. Len(t) /\ b[i] = t[i - 1] OBVIOUS
  <2>1. i - 1 \in 1 .. Len(t) /\ (i - 1) + 1 = i BY <1>3
  <2> QED BY <2>1, <1>3
<1>7. \A y \in Perf!Handles : Holds(b, y) <=> Holds(t, y) \/ y = x
  <2> SUFFICES ASSUME NEW y \in Perf!Handles PROVE Holds(b, y) <=> Holds(t, y) \/ y = x OBVIOUS
  <2>1. Holds(b, y) => Holds(t, y) \/ y = x BY <1>3, <1>6 DEF Holds
  <2>2. Holds(t, y) => Holds(b, y) BY <1>3, <1>4 DEF Holds
  <2>3. y = x => Holds(b, y) BY <1>3, <1>5 DEF Holds
  <2> QED BY <2>1, <2>2, <2>3
<1>8. ASSUME Once(b) PROVE Once(t) /\ ~Holds(t, x)
  <2>1. Once(t)
    <3> SUFFICES ASSUME NEW i \in 1 .. Len(t), NEW j \in 1 .. Len(t), t[i] = t[j] PROVE i = j BY DEF Once
    <3>1. b[i + 1] = b[j + 1] /\ i + 1 \in 1 .. Len(b) /\ j + 1 \in 1 .. Len(b) BY <1>3, <1>4
    <3>2. i + 1 = j + 1 BY <3>1, <1>8 DEF Once
    <3> QED BY <3>2
  <2>2. ASSUME NEW i \in 1 .. Len(t), t[i] = x PROVE FALSE
    <3>1. b[i + 1] = b[1] /\ i + 1 \in 1 .. Len(b) /\ i + 1 # 1 BY <2>2, <1>3, <1>4
    <3> QED BY <3>1, <1>5, <1>8 DEF Once
  <2> QED BY <2>1, <2>2 DEF Holds
<1>9. Holds(b, x) BY <1>3, <1>5 DEF Holds
<1> QED BY <1>1, <1>2, <1>3, <1>7, <1>8, <1>9

\* drain: what is taken and what is left.
LEMMA DrainHolds ==
  ASSUME Perf!ConstantsOK, NEW q \in Seq(Perf!Handles)
  PROVE  /\ Perf!taken(q) \in Seq(Perf!Handles) /\ Perf!rest(q) \in Seq(Perf!Handles) /\ Len(Perf!taken(q)) <= BatchSize
         /\ q # <<>> => Perf!taken(q) # <<>>
         /\ \A x \in Perf!Handles : Holds(q, x) <=> Holds(Perf!taken(q), x) \/ Holds(Perf!rest(q), x)
         /\ Once(q) => Once(Perf!taken(q)) /\ Once(Perf!rest(q)) /\ \A x \in Perf!Handles : ~(Holds(Perf!taken(q), x) /\ Holds(Perf!rest(q), x))
<1>1. Len(q) \in Nat /\ BatchSize \in Nat /\ BatchSize > 0 BY DEF Perf!ConstantsOK
<1>2. PICK n \in Nat : n = IF Len(q) < BatchSize THEN Len(q) ELSE BatchSize BY <1>1
<1>3. n <= Len(q) /\ n <= BatchSize /\ (Len(q) > 0 => n > 0) BY <1>1, <1>2
<1>4. PICK t : t = Perf!taken(q) OBVIOUS
<1>5. t = SubSeq(q, 1, n) BY <1>4, <1>2 DEF Perf!taken
<1>6. \A i \in 1 .. n : q[i] \in Perf!Handles BY <1>1, <1>3
<1>7. t \in Seq(Perf!Handles) /\ Len(t) = n /\ \A i \in 1 .. n : t[i] = q[i]
  <2>1. /\ t \in Seq(Perf!Handles) /\ Len(t) = (IF 1 <= n THEN n - 1 + 1 ELSE 0) /\ \A i \in 1 .. (n - 1 + 1) : t[i] = q[1 + i - 1]
    BY <1>5, <1>6, SubSeqProperties
  <2> QED BY <2>1
<1>8. PICK r : r = Perf!rest(q) OBVIOUS
<1>9. r = SubSeq(q, n + 1, Len(q)) BY <1>8, <1>4, <1>7 DEF Perf!rest
<1>10. \A i \in (n + 1) .. Len(q) : q[i] \in Perf!Handles BY <1>1
<1>11. r \in Seq(Perf!Handles) /\ Len(r) = Len(q) - n /\ \A i \in 1 .. Len(r) : r[i] = q[n + i]
  <2>1. /\ r \in Seq(Perf!Handles) /\ Len(r) = (IF n + 1 <= Len(q) THEN Len(q) - (n + 1) + 1 ELSE 0)
        /\ \A i \in 1 .. (Len(q) - (n + 1) + 1) : r[i] = q[(n + 1) + i - 1]
    BY <1>1, <1>9, <1>10, SubSeqProperties
  <2>2. Len(r) = Len(q) - n BY <2>1, <1>1, <1>3
  <2>3. \A i \in 1 .. Len(r) : i \in 1 .. (Len(q) - (n + 1) + 1) /\ (n + 1) + i - 1 = n + i BY <2>2, <1>1
  <2> QED BY <2>1, <2>2, <2>3
<1>12. \A i \in 1 .. Len(t) : i \in 1 .. Len(q) /\ t[i] = q[i] BY <1>7, <1>3, <1>1
<1>13. \A i \in 1 .. Len(r) : n + i \in 1 .. Len(q) /\ r[i] = q[n + i] /\ n + i > n BY <1>11, <1>1
<1>14. \A i \in 1 .. Len(q) : (i \in 1 .. Len(t) /\ t[i] = q[i]) \/ (i - n \in 1 .. Len(r) /\ r[i - n] = q[i])
  <2> SUFFICES ASSUME NEW i \in 1 .. Len(q), ~(i \in 1 .. Len(t) /\ t[i] = q[i]) PROVE i - n \in 1 .. Len(r) /\ r[i - n] = q[i] OBVIOUS
  <2>1. i > n BY <1>7, <1>1
  <2>2. i - n \in 1 .. Len(r) /\ n + (i - n) = i BY <2>1, <1>11, <1>1
  <2> QED BY <2>2, <1>11
<1>15. \A x \in Perf!Handles : Holds(q, x) <=> Holds(t, x) \/ Holds(r, x)
  <2> SUFFICES ASSUME NEW x \in Perf!Handles PROVE Holds(q, x) <=> Holds(t, x) \/ Holds(r, x) OBVIOUS
  <2>1. Holds(q, x) => Holds(t, x) \/ Holds(r, x) BY <1>14 DEF Holds
  <2>2. Holds(t, x) => Holds(q, x) BY <1>12 DEF Holds
  <2>3. Holds(r, x) => Holds(q, x) BY <1>13 DEF Holds
  <2> QED BY <2>1, <2>2, <2>3
<1>16. ASSUME Once(q) PROVE Once(t) /\ Once(r) /\ \A x \in Perf!Handles : ~(Holds(t, x) /\ Holds(r, x))
  <2>1. Once(t) BY <1>12, <1>16 DEF Once
  <2>2. Once(r)
    <3> SUFFICES ASSUME NEW i \in 1 .. Len(r), NEW j \in 1 .. Len(r), r[i] = r[j] PROVE i = j BY DEF Once
    <3>1. n + i = n + j BY <1>13, <1>16 DEF Once
    <3> QED BY <3>1
  <2>3. ASSUME NEW i \in 1 .. Len(t), NEW j \in 1 .. Len(r), t[i] = r[j] PROVE FALSE
    <3>1. i = n + j BY <2>3, <1>12, <1>13, <1>16 DEF Once
    <3> QED BY <3>1, <1>7
  <2> QED BY <2>1, <2>2, <2>3 DEF Holds
<1>17. q # <<>> => t # <<>>
  <2> SUFFICES ASSUME q # <<>>, t = <<>> PROVE FALSE OBVIOUS
  <2>1. Len(q) > 0 /\ Len(t) = 0 BY EmptySeq, <1>1
  <2> QED BY <2>1, <1>3, <1>7
<1> QED BY <1>3, <1>4, <1>7, <1>8, <1>11, <1>15, <1>16, <1>17

\* Nothing is in the empty sequence.
LEMMA EmptyHolds == Once(<<>>) /\ \A x : ~Holds(<<>>, x)
BY DEF Once, Holds


LEMMA QueuedTyped == PerfTyped => Perf!Queued \in Seq(Perf!Handles)
BY DEF PerfTyped, Perf!Queued, Perf!locked

\* Placed by parts: where the records are, and that none is there twice.
LEMMA PlacedFacts ==
  ASSUME PerfTyped, Placed
  PROVE  /\ Once(Perf!Queued) /\ \A f \in Flushes : Once(flushes[f].batch)
         /\ \A f, g \in Flushes : f # g => \A h \in Perf!Handles : ~(Holds(flushes[f].batch, h) /\ Holds(flushes[g].batch, h))
         /\ \A f \in Flushes : \A h \in Perf!Handles : Holds(flushes[f].batch, h) => ~Holds(Perf!Queued, h)
         /\ \A h \in Perf!Handles : uploaded[h] \in {0, 1}
         /\ \A h \in Perf!Handles : uploaded[h] = 1 => ~Holds(Perf!Queued, h) /\ \A f \in Flushes : ~Holds(flushes[f].batch, h)
         /\ \A h \in Perf!Handles : handles[h].pc = "kept" <=>
              Holds(Perf!Queued, h) \/ uploaded[h] = 1 \/ \E f \in Flushes : Holds(flushes[f].batch, h)
BY DEF Placed

\* A step that moves no record.
LEMMA StaysPlaced ==
  ASSUME PerfTyped, Placed, Perf!Queued' = Perf!Queued, uploaded' = uploaded,
         \A f \in Flushes : flushes'[f].batch = flushes[f].batch,
         \A h \in Perf!Handles : handles'[h].pc = "kept" <=> handles[h].pc = "kept"
  PROVE  Placed'
<1>1. PICK q : q = Perf!Queued' OBVIOUS
<1>2. PICK u : u = uploaded' OBVIOUS
<1>3. q = Perf!Queued /\ u = uploaded BY <1>1, <1>2
<1>4. Once(q) /\ \A f \in Flushes : Once(flushes'[f].batch) BY <1>3, PlacedFacts
<1>5. \A f, g \in Flushes : f # g => \A h \in Perf!Handles : ~(Holds(flushes'[f].batch, h) /\ Holds(flushes'[g].batch, h))
  BY PlacedFacts
<1>6. \A f \in Flushes : \A h \in Perf!Handles : Holds(flushes'[f].batch, h) => ~Holds(q, h) BY <1>3, PlacedFacts
<1>7. \A h \in Perf!Handles : u[h] \in {0, 1} BY <1>3, PlacedFacts
<1>8. \A h \in Perf!Handles : u[h] = 1 => ~Holds(q, h) /\ \A f \in Flushes : ~Holds(flushes'[f].batch, h) BY <1>3, PlacedFacts
<1>9. \A h \in Perf!Handles : handles'[h].pc = "kept" <=> Holds(q, h) \/ u[h] = 1 \/ \E f \in Flushes : Holds(flushes'[f].batch, h)
  BY <1>3, PlacedFacts
<1> QED BY <1>1, <1>2, <1>4, <1>5, <1>6, <1>7, <1>8, <1>9 DEF Placed

\* A record is put in the queue by the handle that had it.
LEMMA AddPlaced ==
  ASSUME PerfTyped, Placed, uploaded' = uploaded, NEW h \in Perf!Handles,
         Perf!Queued' = Append(Perf!Queued, h), handles[h].pc # "kept",
         \A f \in Flushes : flushes'[f].batch = flushes[f].batch,
         \A x \in Perf!Handles : handles'[x].pc = "kept" <=> handles[x].pc = "kept" \/ x = h
  PROVE  Placed'
<1>1. PICK q : q = Perf!Queued' OBVIOUS
<1>2. PICK u : u = uploaded' OBVIOUS
<1>0. PICK p : p = Perf!Queued OBVIOUS
<1>3. p \in Seq(Perf!Handles) /\ q = Append(p, h) /\ u = uploaded BY <1>0, <1>1, <1>2, QueuedTyped
<1>4. ~Holds(p, h) /\ u[h] # 1 /\ \A f \in Flushes : ~Holds(flushes[f].batch, h) BY <1>0, <1>3, PlacedFacts
<1>5. Once(p) BY <1>0, PlacedFacts
<1>6. Once(q) /\ \A x \in Perf!Handles : Holds(q, x) <=> Holds(p, x) \/ x = h BY <1>3, <1>4, <1>5, AppendHolds
<1>7. \A f \in Flushes : Once(flushes'[f].batch) BY PlacedFacts
<1>8. \A f, g \in Flushes : f # g => \A x \in Perf!Handles : ~(Holds(flushes'[f].batch, x) /\ Holds(flushes'[g].batch, x))
  BY PlacedFacts
<1>9. \A f \in Flushes : \A x \in Perf!Handles : Holds(flushes'[f].batch, x) => ~Holds(q, x) BY <1>0, <1>4, <1>6, PlacedFacts
<1>10. \A x \in Perf!Handles : u[x] \in {0, 1} BY <1>3, PlacedFacts
<1>11. \A x \in Perf!Handles : u[x] = 1 => ~Holds(q, x) /\ \A f \in Flushes : ~Holds(flushes'[f].batch, x)
  BY <1>0, <1>3, <1>4, <1>6, PlacedFacts
<1>12. \A x \in Perf!Handles : handles'[x].pc = "kept" <=> Holds(q, x) \/ u[x] = 1 \/ \E f \in Flushes : Holds(flushes'[f].batch, x)
  BY <1>0, <1>3, <1>6, PlacedFacts
<1> QED BY <1>1, <1>2, <1>6, <1>7, <1>8, <1>9, <1>10, <1>11, <1>12 DEF Placed

\* Records go from the queue to an empty batch, or stay: p is taken, q left.
LEMMA DrainPlaced ==
  ASSUME Perf!ConstantsOK, PerfTyped, Placed, uploaded' = uploaded, NEW f \in Flushes,
         Perf!Queued' = Perf!rest(Perf!Queued), flushes[f].batch = <<>>, flushes'[f].batch = Perf!taken(Perf!Queued),
         \A g \in Flushes : g # f => flushes'[g].batch = flushes[g].batch,
         \A x \in Perf!Handles : handles'[x].pc = "kept" <=> handles[x].pc = "kept"
  PROVE  Placed'
<1>1. PICK q : q = Perf!Queued' OBVIOUS
<1>2. PICK u : u = uploaded' OBVIOUS
<1>0. PICK p : p = Perf!Queued OBVIOUS
<1>3. p \in Seq(Perf!Handles) /\ q = Perf!rest(p) /\ u = uploaded /\ Once(p) BY <1>0, <1>1, <1>2, QueuedTyped, PlacedFacts
<1>4. PICK b : b = Perf!taken(p) OBVIOUS
<1>5. flushes'[f].batch = b BY <1>0, <1>4
<1>6. /\ Once(q) /\ Once(b) /\ \A x \in Perf!Handles : ~(Holds(b, x) /\ Holds(q, x))
      /\ \A x \in Perf!Handles : Holds(p, x) <=> Holds(b, x) \/ Holds(q, x)
  BY <1>3, <1>4, DrainHolds
<1>7. \A x \in Perf!Handles : ~Holds(flushes[f].batch, x) BY EmptyHolds
<1>8. \A g \in Flushes : Once(flushes'[g].batch) BY <1>5, <1>6, PlacedFacts
<1>9. \A g \in Flushes : g # f => \A x \in Perf!Handles : ~(Holds(b, x) /\ Holds(flushes[g].batch, x))
  BY <1>0, <1>6, PlacedFacts
<1>10. \A k, g \in Flushes : k # g => \A x \in Perf!Handles : ~(Holds(flushes'[k].batch, x) /\ Holds(flushes'[g].batch, x))
  <2> SUFFICES ASSUME NEW k \in Flushes, NEW g \in Flushes, k # g, NEW x \in Perf!Handles
               PROVE ~(Holds(flushes'[k].batch, x) /\ Holds(flushes'[g].batch, x)) OBVIOUS
  <2>1. CASE k = f BY <2>1, <1>5, <1>9
  <2>2. CASE g = f BY <2>2, <1>5, <1>9
  <2>3. CASE k # f /\ g # f BY <2>3, PlacedFacts
  <2> QED BY <2>1, <2>2, <2>3
<1>11. \A g \in Flushes : \A x \in Perf!Handles : Holds(flushes'[g].batch, x) => ~Holds(q, x)
  <2> SUFFICES ASSUME NEW g \in Flushes, NEW x \in Perf!Handles, Holds(flushes'[g].batch, x) PROVE ~Holds(q, x) OBVIOUS
  <2>1. CASE g = f BY <2>1, <1>5, <1>6
  <2>2. CASE g # f BY <2>2, <1>0, <1>6, PlacedFacts
  <2> QED BY <2>1, <2>2
<1>12. \A x \in Perf!Handles : u[x] \in {0, 1} BY <1>3, PlacedFacts
<1>13. \A x \in Perf!Handles : u[x] = 1 => ~Holds(q, x) /\ \A g \in Flushes : ~Holds(flushes'[g].batch, x)
  <2> SUFFICES ASSUME NEW x \in Perf!Handles, u[x] = 1 PROVE ~Holds(q, x) /\ \A g \in Flushes : ~Holds(flushes'[g].batch, x)
    OBVIOUS
  <2>1. ~Holds(p, x) /\ \A g \in Flushes : ~Holds(flushes[g].batch, x) BY <1>0, <1>3, PlacedFacts
  <2>2. ~Holds(q, x) /\ ~Holds(b, x) BY <2>1, <1>6
  <2> QED BY <2>1, <2>2, <1>5
<1>14. \A x \in Perf!Handles : handles'[x].pc = "kept" <=> Holds(q, x) \/ u[x] = 1 \/ \E g \in Flushes : Holds(flushes'[g].batch, x)
  <2> SUFFICES ASSUME NEW x \in Perf!Handles
               PROVE handles'[x].pc = "kept" <=> Holds(q, x) \/ u[x] = 1 \/ \E g \in Flushes : Holds(flushes'[g].batch, x)
    OBVIOUS
  <2>1. handles[x].pc = "kept" <=> Holds(p, x) \/ u[x] = 1 \/ \E g \in Flushes : Holds(flushes[g].batch, x)
    BY <1>0, <1>3, PlacedFacts
  <2>2. (\E g \in Flushes : Holds(flushes'[g].batch, x)) <=> Holds(b, x) \/ \E g \in Flushes : Holds(flushes[g].batch, x)
    BY <1>5, <1>7
  <2> QED BY <2>1, <2>2, <1>6
<1> QED BY <1>1, <1>2, <1>6, <1>8, <1>10, <1>11, <1>12, <1>13, <1>14 DEF Placed

\* The first record of a batch goes back to the queue.
LEMMA RequeuePlaced ==
  ASSUME PerfTyped, Placed, uploaded' = uploaded, NEW f \in Flushes, flushes[f].batch # <<>>,
         Perf!Queued' = Append(Perf!Queued, Head(flushes[f].batch)), flushes'[f].batch = Tail(flushes[f].batch),
         \A g \in Flushes : g # f => flushes'[g].batch = flushes[g].batch,
         \A x \in Perf!Handles : handles'[x].pc = "kept" <=> handles[x].pc = "kept"
  PROVE  Placed'
<1>1. PICK q : q = Perf!Queued' OBVIOUS
<1>2. PICK u : u = uploaded' OBVIOUS
<1>0. PICK p : p = Perf!Queued OBVIOUS
<1>15. PICK a : a = flushes[f].batch OBVIOUS
<1>16. a \in Seq(Perf!Handles) /\ a # <<>> /\ Once(a) BY <1>15, PlacedFacts DEF PerfTyped, FlushRecords
<1>17. PICK h : h = Head(a) OBVIOUS
<1>4. PICK b : b = Tail(a) OBVIOUS
<1>18. h \in Perf!Handles /\ Holds(a, h) /\ Once(b) /\ ~Holds(b, h) /\ \A x \in Perf!Handles : Holds(a, x) <=> Holds(b, x) \/ x = h
  BY <1>4, <1>16, <1>17, TailHolds
<1>3. p \in Seq(Perf!Handles) /\ q = Append(p, h) /\ u = uploaded /\ Once(p)
  BY <1>0, <1>1, <1>2, <1>15, <1>17, QueuedTyped, PlacedFacts
<1>5. flushes'[f].batch = b BY <1>4, <1>15
<1>19. ~Holds(p, h) /\ \A x \in Perf!Handles : Holds(a, x) => ~Holds(p, x) BY <1>0, <1>15, <1>18, PlacedFacts
<1>6. Once(q) /\ \A x \in Perf!Handles : Holds(q, x) <=> Holds(p, x) \/ x = h BY <1>3, <1>18, <1>19, AppendHolds
<1>8. \A g \in Flushes : Once(flushes'[g].batch) BY <1>5, <1>18, PlacedFacts
<1>9. \A g \in Flushes : g # f => \A x \in Perf!Handles : ~(Holds(a, x) /\ Holds(flushes[g].batch, x))
  BY <1>15, PlacedFacts
<1>10. \A k, g \in Flushes : k # g => \A x \in Perf!Handles : ~(Holds(flushes'[k].batch, x) /\ Holds(flushes'[g].batch, x))
  <2> SUFFICES ASSUME NEW k \in Flushes, NEW g \in Flushes, k # g, NEW x \in Perf!Handles
               PROVE ~(Holds(flushes'[k].batch, x) /\ Holds(flushes'[g].batch, x)) OBVIOUS
  <2>1. CASE k = f BY <2>1, <1>5, <1>9, <1>18
  <2>2. CASE g = f BY <2>2, <1>5, <1>9, <1>18
  <2>3. CASE k # f /\ g # f BY <2>3, PlacedFacts
  <2> QED BY <2>1, <2>2, <2>3
<1>11. \A g \in Flushes : \A x \in Perf!Handles : Holds(flushes'[g].batch, x) => ~Holds(q, x)
  <2> SUFFICES ASSUME NEW g \in Flushes, NEW x \in Perf!Handles, Holds(flushes'[g].batch, x) PROVE ~Holds(q, x) OBVIOUS
  <2>1. CASE g = f BY <2>1, <1>5, <1>6, <1>18, <1>19
  <2>2. CASE g # f
    <3>1. Holds(flushes[g].batch, x) BY <2>2
    <3>2. ~Holds(p, x) BY <3>1, <1>0, PlacedFacts
    <3>3. x # h BY <3>1, <2>2, <1>9, <1>18
    <3> QED BY <3>2, <3>3, <1>6
  <2> QED BY <2>1, <2>2
<1>12. \A x \in Perf!Handles : u[x] \in {0, 1} BY <1>3, PlacedFacts
<1>13. \A x \in Perf!Handles : u[x] = 1 => ~Holds(q, x) /\ \A g \in Flushes : ~Holds(flushes'[g].batch, x)
  <2> SUFFICES ASSUME NEW x \in Perf!Handles, u[x] = 1 PROVE ~Holds(q, x) /\ \A g \in Flushes : ~Holds(flushes'[g].batch, x)
    OBVIOUS
  <2>1. ~Holds(p, x) /\ \A g \in Flushes : ~Holds(flushes[g].batch, x) BY <1>0, <1>3, PlacedFacts
  <2>3. ~Holds(a, x) BY <2>1, <1>15
  <2>2. ~Holds(q, x) /\ ~Holds(b, x) BY <2>1, <2>3, <1>6, <1>18
  <2> QED BY <2>1, <2>2, <1>5
<1>14. \A x \in Perf!Handles : handles'[x].pc = "kept" <=> Holds(q, x) \/ u[x] = 1 \/ \E g \in Flushes : Holds(flushes'[g].batch, x)
  <2> SUFFICES ASSUME NEW x \in Perf!Handles
               PROVE handles'[x].pc = "kept" <=> Holds(q, x) \/ u[x] = 1 \/ \E g \in Flushes : Holds(flushes'[g].batch, x)
    OBVIOUS
  <2>1. handles[x].pc = "kept" <=> Holds(p, x) \/ u[x] = 1 \/ \E g \in Flushes : Holds(flushes[g].batch, x)
    BY <1>0, <1>3, PlacedFacts
  <2>2. (\E g \in Flushes : Holds(flushes'[g].batch, x)) <=> Holds(b, x) \/ \E g \in Flushes : g # f /\ Holds(flushes[g].batch, x)
    BY <1>5
  <2>3. (\E g \in Flushes : Holds(flushes[g].batch, x)) <=> Holds(a, x) \/ \E g \in Flushes : g # f /\ Holds(flushes[g].batch, x)
    BY <1>15
  <2> QED BY <2>1, <2>2, <2>3, <1>6, <1>18
<1> QED BY <1>1, <1>2, <1>6, <1>8, <1>10, <1>11, <1>12, <1>13, <1>14 DEF Placed

\* A batch the endpoint has: each of its records is uploaded, once.
LEMMA UploadPlaced ==
  ASSUME PerfTyped, Placed, Perf!Queued' = Perf!Queued, NEW f \in Flushes, flushes'[f].batch = <<>>,
         \A x \in Perf!Handles : uploaded'[x] = IF Holds(flushes[f].batch, x) THEN 1 ELSE uploaded[x],
         \A g \in Flushes : g # f => flushes'[g].batch = flushes[g].batch,
         \A x \in Perf!Handles : handles'[x].pc = "kept" <=> handles[x].pc = "kept"
  PROVE  Placed'
<1>1. PICK q : q = Perf!Queued' OBVIOUS
<1>3. q = Perf!Queued BY <1>1
<1>4. PICK a : a = flushes[f].batch OBVIOUS
<1>5. \A x \in Perf!Handles : uploaded'[x] = IF Holds(a, x) THEN 1 ELSE uploaded[x] BY <1>4
<1>7. \A x \in Perf!Handles : ~Holds(flushes'[f].batch, x) BY EmptyHolds
<1>6. Once(q) /\ \A g \in Flushes : Once(flushes'[g].batch) BY <1>3, EmptyHolds, PlacedFacts
<1>8. \A x \in Perf!Handles : \A g \in Flushes : Holds(flushes'[g].batch, x) <=> g # f /\ Holds(flushes[g].batch, x) BY <1>7
<1>9. \A k, g \in Flushes : k # g => \A x \in Perf!Handles : ~(Holds(flushes'[k].batch, x) /\ Holds(flushes'[g].batch, x))
  BY <1>8, PlacedFacts
<1>10. \A g \in Flushes : \A x \in Perf!Handles : Holds(flushes'[g].batch, x) => ~Holds(q, x) BY <1>3, <1>8, PlacedFacts
<1>11. \A x \in Perf!Handles : uploaded'[x] \in {0, 1} BY <1>5, PlacedFacts
<1>12. \A x \in Perf!Handles : uploaded'[x] = 1 => ~Holds(q, x) /\ \A g \in Flushes : ~Holds(flushes'[g].batch, x)
  <2> SUFFICES ASSUME NEW x \in Perf!Handles, uploaded'[x] = 1
               PROVE ~Holds(q, x) /\ \A g \in Flushes : ~Holds(flushes'[g].batch, x) OBVIOUS
  <2>1. CASE Holds(a, x)
    <3>1. ~Holds(q, x) BY <2>1, <1>3, <1>4, PlacedFacts
    <3>2. \A g \in Flushes : g # f => ~Holds(flushes[g].batch, x) BY <2>1, <1>4, PlacedFacts
    <3> QED BY <3>1, <3>2, <1>8
  <2>2. CASE ~Holds(a, x)
    <3>1. uploaded[x] = 1 BY <2>2, <1>5
    <3> QED BY <3>1, <1>3, <1>8, PlacedFacts
  <2> QED BY <2>1, <2>2
<1>13. \A x \in Perf!Handles : handles'[x].pc = "kept" <=> Holds(q, x) \/ uploaded'[x] = 1 \/ \E g \in Flushes : Holds(flushes'[g].batch, x)
  <2> SUFFICES ASSUME NEW x \in Perf!Handles
               PROVE handles'[x].pc = "kept" <=> Holds(q, x) \/ uploaded'[x] = 1 \/ \E g \in Flushes : Holds(flushes'[g].batch, x)
    OBVIOUS
  <2>1. handles[x].pc = "kept" <=> Holds(q, x) \/ uploaded[x] = 1 \/ \E g \in Flushes : Holds(flushes[g].batch, x)
    BY <1>3, PlacedFacts
  <2>2. (\E g \in Flushes : Holds(flushes'[g].batch, x)) <=> \E g \in Flushes : g # f /\ Holds(flushes[g].batch, x)
    BY <1>8
  <2>3. (\E g \in Flushes : Holds(flushes[g].batch, x)) <=> Holds(a, x) \/ \E g \in Flushes : g # f /\ Holds(flushes[g].batch, x)
    BY <1>4
  <2>4. uploaded'[x] = 1 <=> Holds(a, x) \/ uploaded[x] = 1 BY <1>5
  <2> QED BY <2>1, <2>2, <2>3, <2>4
<1> QED BY <1>1, <1>6, <1>9, <1>10, <1>11, <1>12, <1>13 DEF Placed

\* A batch is dropped: its records are kept no longer, and are nowhere.
LEMMA DropPlaced ==
  ASSUME PerfTyped, Placed, Perf!Queued' = Perf!Queued, uploaded' = uploaded, NEW f \in Flushes, flushes'[f].batch = <<>>,
         \A g \in Flushes : g # f => flushes'[g].batch = flushes[g].batch,
         \A x \in Perf!Handles : handles'[x].pc = "kept" <=> handles[x].pc = "kept" /\ ~Holds(flushes[f].batch, x)
  PROVE  Placed'
<1>1. PICK q : q = Perf!Queued' OBVIOUS
<1>2. PICK u : u = uploaded' OBVIOUS
<1>3. q = Perf!Queued /\ u = uploaded BY <1>1, <1>2
<1>4. PICK a : a = flushes[f].batch OBVIOUS
<1>5. \A x \in Perf!Handles : ~Holds(flushes'[f].batch, x) BY EmptyHolds
<1>6. Once(q) /\ \A g \in Flushes : Once(flushes'[g].batch) BY <1>3, EmptyHolds, PlacedFacts
<1>7. \A x \in Perf!Handles : \A g \in Flushes : Holds(flushes'[g].batch, x) <=> g # f /\ Holds(flushes[g].batch, x) BY <1>5
<1>8. \A k, g \in Flushes : k # g => \A x \in Perf!Handles : ~(Holds(flushes'[k].batch, x) /\ Holds(flushes'[g].batch, x))
  BY <1>7, PlacedFacts
<1>9. \A g \in Flushes : \A x \in Perf!Handles : Holds(flushes'[g].batch, x) => ~Holds(q, x) BY <1>3, <1>7, PlacedFacts
<1>10. \A x \in Perf!Handles : u[x] \in {0, 1} BY <1>3, PlacedFacts
<1>11. \A x \in Perf!Handles : u[x] = 1 => ~Holds(q, x) /\ \A g \in Flushes : ~Holds(flushes'[g].batch, x)
  BY <1>3, <1>7, PlacedFacts
<1>12. \A x \in Perf!Handles : handles'[x].pc = "kept" <=> Holds(q, x) \/ u[x] = 1 \/ \E g \in Flushes : Holds(flushes'[g].batch, x)
  <2> SUFFICES ASSUME NEW x \in Perf!Handles
               PROVE handles'[x].pc = "kept" <=> Holds(q, x) \/ u[x] = 1 \/ \E g \in Flushes : Holds(flushes'[g].batch, x)
    OBVIOUS
  <2>1. handles[x].pc = "kept" <=> Holds(q, x) \/ u[x] = 1 \/ \E g \in Flushes : Holds(flushes[g].batch, x)
    BY <1>3, PlacedFacts
  <2>2. (\E g \in Flushes : Holds(flushes'[g].batch, x)) <=> \E g \in Flushes : g # f /\ Holds(flushes[g].batch, x)
    BY <1>7
  <2>3. Holds(a, x) => ~Holds(q, x) /\ u[x] # 1 /\ ~\E g \in Flushes : g # f /\ Holds(flushes[g].batch, x)
    BY <1>3, <1>4, PlacedFacts
  <2>4. (\E g \in Flushes : Holds(flushes[g].batch, x)) <=> Holds(a, x) \/ \E g \in Flushes : g # f /\ Holds(flushes[g].batch, x)
    BY <1>4
  <2>5. handles'[x].pc = "kept" <=> handles[x].pc = "kept" /\ ~Holds(a, x) BY <1>4
  <2> QED BY <2>1, <2>2, <2>3, <2>4, <2>5
<1> QED BY <1>1, <1>2, <1>6, <1>8, <1>9, <1>10, <1>11, <1>12 DEF Placed

\* What arrives adds one for each record of a batch that has it once.
LEMMA ArrivedAddsOne ==
  ASSUME NEW b \in Seq(Perf!Handles), Once(b), NEW h \in Perf!Handles
  PROVE  Cardinality({i \in DOMAIN b : b[i] = h}) = IF Holds(b, h) THEN 1 ELSE 0
<1>1. DOMAIN b = 1 .. Len(b) OBVIOUS
<1>2. CASE Holds(b, h)
  <2>1. PICK i \in 1 .. Len(b) : b[i] = h BY <1>2 DEF Holds
  <2>2. {j \in DOMAIN b : b[j] = h} = {i} BY <1>1, <2>1 DEF Once
  <2> QED BY <2>2, <1>2, FS_Singleton
<1>3. CASE ~Holds(b, h)
  <2>1. {j \in DOMAIN b : b[j] = h} = {} BY <1>1, <1>3 DEF Holds
  <2> QED BY <2>1, <1>3, FS_EmptySet
<1> QED BY <1>2, <1>3

LEMMA ArrivedIsOnce ==
  ASSUME PerfTyped, Placed, NEW f \in Flushes, Perf!arrived(flushes[f].batch)
  PROVE  \A x \in Perf!Handles : uploaded'[x] = IF Holds(flushes[f].batch, x) THEN 1 ELSE uploaded[x]
<1> SUFFICES ASSUME NEW x \in Perf!Handles
             PROVE uploaded'[x] = IF Holds(flushes[f].batch, x) THEN 1 ELSE uploaded[x] OBVIOUS
<1>1. PICK a : a = flushes[f].batch OBVIOUS
<1>2. a \in Seq(Perf!Handles) /\ Once(a) BY <1>1, PlacedFacts DEF PerfTyped, FlushRecords
<1>3. PICK n : n = Cardinality({i \in DOMAIN a : a[i] = x}) OBVIOUS
<1>4. n = IF Holds(a, x) THEN 1 ELSE 0 BY <1>2, <1>3, ArrivedAddsOne
<1>5. uploaded'[x] = uploaded[x] + n BY <1>1, <1>3 DEF Perf!arrived, Perf!Cardinality, Cardinality
<1>6. uploaded[x] \in {0, 1} /\ (Holds(a, x) => uploaded[x] # 1) BY <1>1, PlacedFacts
<1> QED BY <1>1, <1>4, <1>5, <1>6

LEMMA ArrivedIsTyped ==
  ASSUME PerfTyped, NEW b \in Seq(Perf!Handles), Perf!arrived(b)
  PROVE  uploaded' \in [Perf!Handles -> Nat]
<1> SUFFICES ASSUME NEW x \in Perf!Handles PROVE uploaded[x] + Cardinality({i \in DOMAIN b : b[i] = x}) \in Nat BY DEF Perf!arrived, Perf!Cardinality, Cardinality
<1>1. DOMAIN b = 1 .. Len(b) /\ Len(b) \in Nat OBVIOUS
<1>2. IsFiniteSet(1 .. Len(b)) BY <1>1, FS_Interval
<1>3. {i \in DOMAIN b : b[i] = x} \subseteq 1 .. Len(b) BY <1>1
<1>4. IsFiniteSet({i \in DOMAIN b : b[i] = x}) BY <1>2, <1>3, FS_Subset
<1>5. Cardinality({i \in DOMAIN b : b[i] = x}) \in Nat BY <1>4, FS_CardinalityType
<1>6. uploaded[x] \in Nat BY DEF PerfTyped
<1> QED BY <1>5, <1>6

\* One flush, or one handle, at a time.
LEMMA OneFlush ==
  ASSUME PerfTyped, NEW f \in Flushes, NEW r \in FlushRecords, Perf!goes(f, r)
  PROVE  /\ flushes' \in [Flushes -> FlushRecords] /\ flushes'[f] = r
         /\ \A g \in Flushes : g # f => flushes'[g] = flushes[g]
BY DEF PerfTyped, Perf!goes

LEMMA OneMove ==
  ASSUME PerfTyped, NEW h \in Perf!Handles, NEW c \in HandleStops, Perf!moves(h, c)
  PROVE  /\ handles' \in [Perf!Handles -> HandleRecords] /\ handles'[h].pc = c
         /\ \A x \in Perf!Handles : x # h => handles'[x] = handles[x]
<1>1. [handles[h] EXCEPT !.pc = c] \in HandleRecords BY DEF PerfTyped, HandleRecords
<1>2. [handles[h] EXCEPT !.pc = c].pc = c BY DEF PerfTyped, HandleRecords
<1>3. handles \in [Perf!Handles -> HandleRecords] BY DEF PerfTyped
<1>4. handles' = [handles EXCEPT ![h] = [handles[h] EXCEPT !.pc = c]] BY DEF Perf!moves
<1> QED BY <1>1, <1>2, <1>3, <1>4

\* What a flush may be: it holds a batch, or it has not got one.
RunsWith(r) ==
  /\ r \in FlushRecords /\ Len(r.batch) <= BatchSize
  /\ r.batch = <<>> <=> r.pc \in {"idle", "draining", "loaded"}

LEMMA NothingRuns == Perf!ConstantsOK => RunsWith(Perf!NoFlush) /\ RunsWith([Perf!NoFlush EXCEPT !.pc = "draining"])
<1> SUFFICES ASSUME Perf!ConstantsOK PROVE RunsWith(Perf!NoFlush) /\ RunsWith([Perf!NoFlush EXCEPT !.pc = "draining"]) OBVIOUS
<1>1. <<>> \in Seq(Perf!Handles) /\ Len(<<>>) = 0 /\ 0 <= BatchSize BY DEF Perf!ConstantsOK
<1>2. [Perf!NoFlush EXCEPT !.pc = "draining"] = [pc |-> "draining", batch |-> <<>>, loaded |-> <<>>] BY DEF Perf!NoFlush
<1>3. RunsWith(Perf!NoFlush) BY <1>1 DEF RunsWith, Perf!NoFlush, FlushRecords, FlushStops
<1>4. RunsWith([pc |-> "draining", batch |-> <<>>, loaded |-> <<>>]) BY <1>1 DEF RunsWith, FlushRecords, FlushStops
<1> QED BY <1>2, <1>3, <1>4

LEMMA FlushRuns ==
  ASSUME PerfTyped, Batches, NEW f \in Flushes
  PROVE  RunsWith(flushes[f])
BY DEF PerfTyped, Batches, RunsWith

LEMMA BatchesGo ==
  ASSUME PerfTyped, Batches, NEW f \in Flushes, NEW r, RunsWith(r), Perf!goes(f, r), backend' = backend,
         Perf!locked => r.pc \notin {"loaded", "reloaded"},
         \A h \in Perf!Handles : handles'[h].pc = "putting" => handles[h].pc = "putting"
  PROVE  Batches' /\ flushes' \in [Flushes -> FlushRecords] /\ flushes'[f] = r
         /\ \A g \in Flushes : g # f => flushes'[g] = flushes[g]
<1>1. r \in FlushRecords BY DEF RunsWith
<1>2. /\ flushes' \in [Flushes -> FlushRecords] /\ flushes'[f] = r
      /\ \A g \in Flushes : g # f => flushes'[g] = flushes[g]
  BY <1>1, OneFlush
<1>3. Perf!locked' = Perf!locked BY DEF Perf!locked
<1>4. ASSUME NEW g \in Flushes PROVE RunsWith(flushes'[g]) /\ (Perf!locked => flushes'[g].pc \notin {"loaded", "reloaded"})
  <2>1. CASE g = f BY <2>1, <1>2
  <2>2. CASE g # f
    <3>1. flushes'[g] = flushes[g] BY <2>2, <1>2
    <3>2. Perf!locked => flushes[g].pc \notin {"loaded", "reloaded"} BY DEF Batches
    <3> QED BY <3>1, <3>2, FlushRuns
  <2> QED BY <2>1, <2>2
<1>5. \A g \in Flushes : Len(flushes'[g].batch) <= BatchSize /\ (flushes'[g].batch = <<>> <=> flushes'[g].pc \in {"idle", "draining", "loaded"})
  BY <1>4 DEF RunsWith
<1>6. Perf!locked' => \A g \in Flushes : flushes'[g].pc \notin {"loaded", "reloaded"} BY <1>3, <1>4
<1>7. Perf!locked' => \A h \in Perf!Handles : handles'[h].pc # "putting" BY <1>3 DEF Batches
<1> QED BY <1>2, <1>5, <1>6, <1>7 DEF Batches

LEMMA BatchesStay ==
  ASSUME Batches, flushes' = flushes, backend' = backend,
         \A h \in Perf!Handles : handles'[h].pc = "putting" => handles[h].pc = "putting" \/ ~Perf!locked
  PROVE  Batches'
BY DEF Batches, Perf!locked

\* With the queue's lock nobody is between a read and a write.
LEMMA LockedReads == ASSUME Batches', Perf!locked' PROVE Reading'
BY DEF Batches, Reading

LEMMA Persists ==
  ASSUME PerfTyped, NEW q \in Seq(Perf!Handles), Perf!Persisted(q)
  PROVE  /\ file' \in Seq(Perf!Handles) \cup {Perf!Torn} /\ (backend # "file" => file' \in Seq(Perf!Handles)) /\ perfDisturbed' \in BOOLEAN
         /\ ~perfDisturbed' => ~perfDisturbed /\ (backend = "file" => file' = q) /\ perfCounts' = perfCounts
<1>1. CASE file' = (IF backend = "file" THEN q ELSE file) /\ UNCHANGED <<perfCounts, perfDisturbed>>
  BY <1>1 DEF PerfTyped
<1>2. CASE backend = "file" /\ Perf!fault /\ file' \in {file, Perf!Torn} /\ perfDisturbed' = TRUE
  BY <1>2 DEF PerfTyped
<1> QED BY <1>1, <1>2 DEF Perf!Persisted

\* A handle's own steps.
LEMMA HandleMoves ==
  ASSUME PerfInv, NEW h \in Perf!Handles, handles' \in [Perf!Handles -> HandleRecords],
         \A x \in Perf!Handles : x # h => handles'[x] = handles[x],
         handles[h].pc \notin {"putting", "kept"}, handles'[h].pc \notin {"putting", "kept"},
         UNCHANGED <<backend, queue, file, flushes, uploaded, perfDisturbed>>
  PROVE  PerfInv'
<1>1. PerfTyped /\ Batches BY DEF PerfInv
<1>2. PerfTyped' BY <1>1 DEF PerfTyped
<1>3. \A x \in Perf!Handles : (handles'[x].pc = "putting" <=> handles[x].pc = "putting") /\ (handles'[x].pc = "kept" <=> handles[x].pc = "kept")
                         /\ (handles'[x].pc = "putting" => handles'[x] = handles[x])
  OBVIOUS
<1>4. Batches' BY <1>1, <1>3, BatchesStay
<1>5. ASSUME ~perfDisturbed' PROVE Reading' /\ Placed' /\ (backend' = "file" => file' = queue')
  <2>1. Reading /\ Placed /\ (backend = "file" => file = queue) BY <1>5 DEF PerfInv
  <2>2. Perf!Queued' = Perf!Queued BY DEF Perf!Queued, Perf!locked
  <2>3. Placed' BY <1>1, <1>3, <2>1, <2>2, StaysPlaced
  <2>4. Reading' BY <1>3, <2>1 DEF Reading
  <2> QED BY <2>1, <2>3, <2>4
<1> QED BY <1>2, <1>4, <1>5 DEF PerfInv

\* A flush's steps that leave the store alone.
LEMMA FlushMoves ==
  ASSUME PerfInv, NEW f \in Flushes, NEW r, RunsWith(r), Perf!goes(f, r), r.batch = flushes[f].batch,
         r.pc \notin {"loaded", "reloaded"},
         UNCHANGED <<backend, queue, file, handles, uploaded, perfDisturbed>>
  PROVE  PerfInv'
<1>1. PerfTyped /\ Batches BY DEF PerfInv
<1>2. /\ Batches' /\ flushes' \in [Flushes -> FlushRecords] /\ flushes'[f] = r
      /\ \A g \in Flushes : g # f => flushes'[g] = flushes[g]
  BY <1>1, BatchesGo
<1>3. PerfTyped' BY <1>1, <1>2 DEF PerfTyped
<1>5. ASSUME ~perfDisturbed' PROVE Reading' /\ Placed' /\ (backend' = "file" => file' = queue')
  <2>1. Reading /\ Placed /\ (backend = "file" => file = queue) BY <1>5 DEF PerfInv
  <2>2. Perf!Queued' = Perf!Queued BY DEF Perf!Queued, Perf!locked
  <2>3. Placed' BY <1>1, <1>2, <2>1, <2>2, StaysPlaced
  <2>4. Reading' BY <1>2, <2>1 DEF Reading
  <2> QED BY <2>1, <2>3, <2>4
<1> QED BY <1>2, <1>3, <1>5 DEF PerfInv

\* A flush reads IndexedDB.
LEMMA FlushReads ==
  ASSUME PerfInv, NEW f \in Flushes, NEW r, RunsWith(r), Perf!goes(f, r), r.batch = flushes[f].batch,
         ~Perf!locked, r.loaded = file, perfDisturbed' = (perfDisturbed \/ Perf!InUse),
         UNCHANGED <<backend, queue, file, handles, uploaded>>
  PROVE  PerfInv'
<1>1. PerfTyped /\ Batches BY DEF PerfInv
<1>2. /\ Batches' /\ flushes' \in [Flushes -> FlushRecords] /\ flushes'[f] = r
      /\ \A g \in Flushes : g # f => flushes'[g] = flushes[g]
  BY <1>1, BatchesGo
<1>3. perfDisturbed' \in BOOLEAN OBVIOUS
<1>4. PerfTyped' BY <1>1, <1>2, <1>3 DEF PerfTyped
<1>5. ASSUME ~perfDisturbed' PROVE Reading' /\ Placed' /\ (backend' = "file" => file' = queue')
  <2>1. ~perfDisturbed /\ ~Perf!InUse BY <1>5
  <2>2. Placed /\ (backend = "file" => file = queue) BY <2>1 DEF PerfInv
  <2>3. Perf!Queued' = Perf!Queued BY DEF Perf!Queued, Perf!locked
  <2>4. Placed' BY <1>1, <1>2, <2>2, <2>3, StaysPlaced
  <2>5. /\ \A g \in Flushes : flushes[g].pc \notin {"loaded", "reloaded"}
        /\ \A h \in Perf!Handles : handles[h].pc # "putting"
    BY <2>1 DEF Perf!InUse, Perf!Flush, Perf!Handle
  <2>6. Reading' BY <1>2, <2>5 DEF Reading
  <2> QED BY <2>2, <2>4, <2>6
<1> QED BY <1>2, <1>4, <1>5 DEF PerfInv

LEMMA PushStep ==
  ASSUME PerfInv, NEW h \in Perf!Handles, Perf!Push(h)
  PROVE  PerfInv'
<1>1. PerfTyped /\ Batches BY DEF PerfInv
<1>2. /\ handles[h].pc = "pushing" /\ Perf!locked /\ queue' = Append(queue, h) /\ Perf!Persisted(queue') /\ Perf!moves(h, "kept")
      /\ UNCHANGED <<backend, flushes, uploaded>>
  BY DEF Perf!Push, Perf!Handle, Perf!settings
<1>3. PICK q : q = queue' OBVIOUS
<1>4. q = Append(queue, h) /\ Perf!Persisted(q) /\ queue \in Seq(Perf!Handles) BY <1>1, <1>2, <1>3 DEF PerfTyped
<1>5. q \in Seq(Perf!Handles) BY <1>4
<1>6. /\ file' \in Seq(Perf!Handles) \cup {Perf!Torn} /\ (backend # "file" => file' \in Seq(Perf!Handles)) /\ perfDisturbed' \in BOOLEAN
      /\ ~perfDisturbed' => ~perfDisturbed /\ (backend = "file" => file' = q)
  BY <1>1, <1>4, <1>5, Persists
<1>7. "kept" \in HandleStops BY DEF HandleStops
<1>8. /\ handles' \in [Perf!Handles -> HandleRecords] /\ handles'[h].pc = "kept"
      /\ \A x \in Perf!Handles : x # h => handles'[x] = handles[x]
  BY <1>1, <1>2, <1>7, OneMove
<1>9. PerfTyped' BY <1>1, <1>2, <1>3, <1>5, <1>6, <1>8 DEF PerfTyped
<1>10. Batches' BY <1>1, <1>2, <1>8, BatchesStay
<1>11. Perf!locked' BY <1>2 DEF Perf!locked
<1>12. Reading' BY <1>10, <1>11, LockedReads
<1>13. ASSUME ~perfDisturbed' PROVE Placed'
  <2>1. Placed BY <1>6, <1>13 DEF PerfInv
  <2>2. Perf!Queued' = Append(Perf!Queued, h) BY <1>2, <1>11 DEF Perf!Queued
  <2>3. \A x \in Perf!Handles : handles'[x].pc = "kept" <=> handles[x].pc = "kept" \/ x = h BY <1>8
  <2>4. \A f \in Flushes : flushes'[f].batch = flushes[f].batch BY <1>2
  <2>5. handles[h].pc # "kept" /\ uploaded' = uploaded BY <1>2
  <2> QED BY <1>1, <2>1, <2>2, <2>3, <2>4, <2>5, AddPlaced
<1>14. ~perfDisturbed' => (backend' = "file" => file' = queue') BY <1>2, <1>3, <1>6
<1> QED BY <1>9, <1>10, <1>12, <1>13, <1>14 DEF PerfInv

LEMMA PushLoadsStep ==
  ASSUME PerfInv, NEW h \in Perf!Handles, Perf!PushLoads(h)
  PROVE  PerfInv'
<1>1. PerfTyped /\ Batches BY DEF PerfInv
<1>2. /\ handles[h].pc = "pushing" /\ ~Perf!locked /\ perfDisturbed' = (perfDisturbed \/ Perf!InUse)
      /\ UNCHANGED <<backend, queue, file, flushes, uploaded>>
  BY DEF Perf!PushLoads, Perf!Handle, Perf!settings
<1>3. file \in Seq(Perf!Handles) BY <1>1, <1>2 DEF PerfTyped, Perf!locked
<1>4. PICK r : r = [[handles[h] EXCEPT !.pc = "putting"] EXCEPT !.loaded = file] OBVIOUS
<1>5. handles \in [Perf!Handles -> HandleRecords] /\ handles[h] \in HandleRecords BY <1>1 DEF PerfTyped
<1>6. r \in HandleRecords /\ r.pc = "putting" /\ r.loaded = file BY <1>3, <1>4, <1>5 DEF HandleRecords, HandleStops
<1>7. handles' = [handles EXCEPT ![h] = r]
  <2>1. handles' = [[handles EXCEPT ![h] = [handles[h] EXCEPT !.pc = "putting"]] EXCEPT ![h] = [[handles EXCEPT ![h] = [handles[h] EXCEPT !.pc = "putting"]][h] EXCEPT !.loaded = file]]
    BY DEF Perf!PushLoads
  <2>2. [handles EXCEPT ![h] = [handles[h] EXCEPT !.pc = "putting"]][h] = [handles[h] EXCEPT !.pc = "putting"] BY <1>5
  <2>3. handles' = [[handles EXCEPT ![h] = [handles[h] EXCEPT !.pc = "putting"]] EXCEPT ![h] = r] BY <2>1, <2>2, <1>4
  <2> QED BY <2>3, <1>5
<1>8. handles' \in [Perf!Handles -> HandleRecords] /\ handles'[h] = r /\ \A x \in Perf!Handles : x # h => handles'[x] = handles[x]
  BY <1>5, <1>6, <1>7
<1>9. perfDisturbed' \in BOOLEAN BY <1>2
<1>10. PerfTyped' BY <1>1, <1>2, <1>8, <1>9 DEF PerfTyped
<1>11. Batches' BY <1>1, <1>2, BatchesStay
<1>12. ASSUME ~perfDisturbed' PROVE Reading' /\ Placed' /\ (backend' = "file" => file' = queue')
  <2>1. ~perfDisturbed /\ ~Perf!InUse BY <1>2, <1>12
  <2>2. Placed /\ (backend = "file" => file = queue) BY <2>1 DEF PerfInv
  <2>3. Perf!Queued' = Perf!Queued BY <1>2 DEF Perf!Queued, Perf!locked
  <2>4. \A x \in Perf!Handles : handles'[x].pc = "kept" <=> handles[x].pc = "kept" BY <1>2, <1>6, <1>8
  <2>5. (\A f \in Flushes : flushes'[f].batch = flushes[f].batch) /\ uploaded' = uploaded BY <1>2
  <2>6. Placed' BY <1>1, <2>2, <2>3, <2>4, <2>5, StaysPlaced
  <2>7. /\ \A g \in Flushes : flushes[g].pc \notin {"loaded", "reloaded"}
        /\ \A x \in Perf!Handles : handles[x].pc # "putting"
    BY <2>1 DEF Perf!InUse, Perf!Flush, Perf!Handle
  <2>8. Reading' BY <1>2, <1>6, <1>8, <2>7 DEF Reading
  <2> QED BY <1>2, <2>2, <2>6, <2>8
<1> QED BY <1>10, <1>11, <1>12 DEF PerfInv

LEMMA PushStoresStep ==
  ASSUME PerfInv, NEW h \in Perf!Handles, Perf!PushStores(h)
  PROVE  PerfInv'
<1>1. PerfTyped /\ Batches BY DEF PerfInv
<1>2. /\ handles[h].pc = "putting" /\ file' = Append(handles[h].loaded, h)
      /\ UNCHANGED <<backend, queue, flushes, uploaded, perfDisturbed>>
  BY DEF Perf!PushStores, Perf!Handle, Perf!settings
<1>3. ~Perf!locked BY <1>1, <1>2 DEF Batches
<1>4. PICK r : r = [[handles[h] EXCEPT !.pc = "kept"] EXCEPT !.loaded = <<>>] OBVIOUS
<1>5. handles \in [Perf!Handles -> HandleRecords] /\ handles[h] \in HandleRecords BY <1>1 DEF PerfTyped
<1>0. <<>> \in Seq(Perf!Handles) OBVIOUS
<1>6. r \in HandleRecords /\ r.pc = "kept" BY <1>0, <1>4, <1>5 DEF HandleRecords, HandleStops
<1>7. handles' = [handles EXCEPT ![h] = r]
  <2>1. handles' = [[handles EXCEPT ![h] = [handles[h] EXCEPT !.pc = "kept"]] EXCEPT ![h] = [[handles EXCEPT ![h] = [handles[h] EXCEPT !.pc = "kept"]][h] EXCEPT !.loaded = <<>>]]
    BY DEF Perf!PushStores
  <2>2. [handles EXCEPT ![h] = [handles[h] EXCEPT !.pc = "kept"]][h] = [handles[h] EXCEPT !.pc = "kept"] BY <1>5
  <2>3. handles' = [[handles EXCEPT ![h] = [handles[h] EXCEPT !.pc = "kept"]] EXCEPT ![h] = r] BY <2>1, <2>2, <1>4
  <2> QED BY <2>3, <1>5
<1>8. handles' \in [Perf!Handles -> HandleRecords] /\ handles'[h].pc = "kept" /\ \A x \in Perf!Handles : x # h => handles'[x] = handles[x]
  BY <1>5, <1>6, <1>7
<1>9. handles[h].loaded \in Seq(Perf!Handles) BY <1>5 DEF HandleRecords
<1>10. file' \in Seq(Perf!Handles) BY <1>2, <1>9
<1>11. PerfTyped' BY <1>1, <1>2, <1>8, <1>10 DEF PerfTyped
<1>12. Batches' BY <1>1, <1>2, <1>3, BatchesStay
<1>13. ASSUME ~perfDisturbed' PROVE Reading' /\ Placed' /\ (backend' = "file" => file' = queue')
  <2>1. Reading /\ Placed BY <1>2, <1>13 DEF PerfInv
  <2>2. handles[h].loaded = file BY <1>2, <2>1 DEF Reading
  <2>3. Perf!Queued' = Append(Perf!Queued, h) BY <1>2, <1>3, <2>2 DEF Perf!Queued, Perf!locked
  <2>4. \A x \in Perf!Handles : handles'[x].pc = "kept" <=> handles[x].pc = "kept" \/ x = h BY <1>8
  <2>5. (\A f \in Flushes : flushes'[f].batch = flushes[f].batch) /\ uploaded' = uploaded /\ handles[h].pc # "kept" BY <1>2
  <2>6. Placed' BY <1>1, <2>1, <2>3, <2>4, <2>5, AddPlaced
  <2>7. /\ \A g \in Flushes : flushes[g].pc \notin {"loaded", "reloaded"}
        /\ \A x \in Perf!Handles : x # h => handles[x].pc # "putting"
    BY <1>2, <2>1 DEF Reading
  <2>8. Reading' BY <1>2, <1>8, <2>7 DEF Reading
  <2>9. backend' # "file" BY <1>2, <1>3, <1>1 DEF Perf!locked
  <2> QED BY <2>6, <2>8, <2>9
<1> QED BY <1>11, <1>12, <1>13 DEF PerfInv

\* The load or the store of a push fails: the record is in no place.
LEMMA PushFailsStep ==
  ASSUME PerfInv, NEW h \in Perf!Handles, Perf!PushFails(h)
  PROVE  PerfInv'
<1>1. PerfTyped /\ Batches BY DEF PerfInv
<1>2. /\ handles[h].pc \in {"pushing", "putting"} /\ ~Perf!locked
      /\ UNCHANGED <<backend, queue, file, flushes, uploaded, perfDisturbed>>
  BY DEF Perf!PushFails, Perf!Handle, Perf!settings
<1>3. <<>> \in Seq(Perf!Handles) OBVIOUS
<1>4. PICK r : r = [[handles[h] EXCEPT !.pc = "dropped"] EXCEPT !.loaded = <<>>] OBVIOUS
<1>5. handles \in [Perf!Handles -> HandleRecords] /\ handles[h] \in HandleRecords BY <1>1 DEF PerfTyped
<1>6. r \in HandleRecords /\ r.pc = "dropped" BY <1>3, <1>4, <1>5 DEF HandleRecords, HandleStops
<1>7. handles' = [handles EXCEPT ![h] = r]
  <2>1. handles' = [[handles EXCEPT ![h] = [handles[h] EXCEPT !.pc = "dropped"]] EXCEPT ![h] = [[handles EXCEPT ![h] = [handles[h] EXCEPT !.pc = "dropped"]][h] EXCEPT !.loaded = <<>>]]
    BY DEF Perf!PushFails
  <2>2. [handles EXCEPT ![h] = [handles[h] EXCEPT !.pc = "dropped"]][h] = [handles[h] EXCEPT !.pc = "dropped"] BY <1>5
  <2>3. handles' = [[handles EXCEPT ![h] = [handles[h] EXCEPT !.pc = "dropped"]] EXCEPT ![h] = r] BY <2>1, <2>2, <1>4
  <2> QED BY <2>3, <1>5
<1>8. handles' \in [Perf!Handles -> HandleRecords] /\ handles'[h] = r /\ \A x \in Perf!Handles : x # h => handles'[x] = handles[x]
  BY <1>5, <1>6, <1>7
<1>9. PerfTyped' BY <1>1, <1>2, <1>8 DEF PerfTyped
<1>10. Batches' BY <1>1, <1>2, BatchesStay
<1>11. ASSUME ~perfDisturbed' PROVE Reading' /\ Placed' /\ (backend' = "file" => file' = queue')
  <2>1. Reading /\ Placed /\ (backend = "file" => file = queue) BY <1>2, <1>11 DEF PerfInv
  <2>2. Perf!Queued' = Perf!Queued BY <1>2 DEF Perf!Queued, Perf!locked
  <2>3. \A x \in Perf!Handles : handles'[x].pc = "kept" <=> handles[x].pc = "kept" BY <1>2, <1>6, <1>8
  <2>4. (\A f \in Flushes : flushes'[f].batch = flushes[f].batch) /\ uploaded' = uploaded BY <1>2
  <2>5. Placed' BY <1>1, <2>1, <2>2, <2>3, <2>4, StaysPlaced
  <2>6. \A x \in Perf!Handles : handles'[x].pc = "putting" => handles'[x] = handles[x] /\ handles[x].pc = "putting" BY <1>6, <1>8
  <2>7. Reading' BY <1>2, <2>1, <2>6 DEF Reading
  <2> QED BY <1>2, <2>1, <2>5, <2>7
<1> QED BY <1>9, <1>10, <1>11 DEF PerfInv

\* A drained batch, and none where the queue was empty.
Drained(q) == IF q = <<>> THEN Perf!NoFlush ELSE [Perf!NoFlush EXCEPT !.pc = "drained", !.batch = Perf!taken(q)]

LEMMA DrainedRuns ==
  ASSUME Perf!ConstantsOK, NEW q \in Seq(Perf!Handles)
  PROVE  RunsWith(Drained(q)) /\ Drained(q).batch = Perf!taken(q) /\ Drained(q).pc \in {"idle", "drained"}
<1>1. PICK t : t = Perf!taken(q) OBVIOUS
<1>2. t \in Seq(Perf!Handles) /\ Len(t) <= BatchSize /\ (q # <<>> => t # <<>>) BY <1>1, DrainHolds
<1>3. CASE q = <<>>
  <2>1. Drained(q) = Perf!NoFlush BY <1>3 DEF Drained
  <2>2. Perf!NoFlush.batch = <<>> /\ Perf!NoFlush.pc = "idle" BY DEF Perf!NoFlush
  <2>3. t = <<>>
    <3>1. Len(q) = 0 BY <1>3
    <3>2. \A x \in Perf!Handles : ~Holds(t, x) BY <1>1, <1>3, DrainHolds, EmptyHolds
    <3>3. ASSUME t # <<>> PROVE FALSE BY <3>2, <3>3, <1>2, TailHolds
    <3> QED BY <3>3
  <2> QED BY <1>1, <2>1, <2>2, <2>3, NothingRuns
<1>4. CASE q # <<>>
  <2>1. Drained(q) = [pc |-> "drained", batch |-> t, loaded |-> <<>>] BY <1>1, <1>4 DEF Drained, Perf!NoFlush
  <2>2. <<>> \in Seq(Perf!Handles) OBVIOUS
  <2>3. RunsWith([pc |-> "drained", batch |-> t, loaded |-> <<>>]) BY <1>2, <1>4, <2>2 DEF RunsWith, FlushRecords, FlushStops
  <2> QED BY <1>1, <2>1, <2>3
<1> QED BY <1>3, <1>4

LEMMA RequeuedRuns ==
  ASSUME Perf!ConstantsOK, PerfTyped, Batches, NEW f \in Flushes, flushes[f].batch # <<>>
  PROVE  RunsWith(Perf!requeued(f)) /\ Perf!requeued(f).batch = Tail(flushes[f].batch) /\ Perf!requeued(f).pc \in {"idle", "requeueing"}
<1>1. PICK a : a = flushes[f].batch OBVIOUS
<1>2. a \in Seq(Perf!Handles) /\ a # <<>> /\ Len(a) <= BatchSize BY <1>1 DEF PerfTyped, FlushRecords, Batches
<1>3. PICK t : t = Tail(a) OBVIOUS
<1>4. t \in Seq(Perf!Handles) /\ Len(t) = Len(a) - 1 /\ Len(a) \in Nat BY <1>2, <1>3, TailHolds
<1>5. Len(t) <= BatchSize BY <1>2, <1>4 DEF Perf!ConstantsOK
<1>6. t = <<>> <=> Len(a) = 1
  <2>1. t = <<>> <=> Len(t) = 0 BY <1>4, EmptySeq
  <2> QED BY <2>1, <1>4
<1>7. CASE Len(a) = 1
  <2>1. Perf!requeued(f) = Perf!NoFlush BY <1>1, <1>7 DEF Perf!requeued
  <2>2. Perf!NoFlush.batch = <<>> /\ Perf!NoFlush.pc = "idle" BY DEF Perf!NoFlush
  <2> QED BY <1>1, <1>3, <1>6, <1>7, <2>1, <2>2, NothingRuns
<1>8. CASE Len(a) # 1
  <2>1. Perf!requeued(f) = [pc |-> "requeueing", batch |-> t, loaded |-> <<>>] BY <1>1, <1>3, <1>8 DEF Perf!requeued, Perf!NoFlush
  <2>2. <<>> \in Seq(Perf!Handles) OBVIOUS
  <2>3. RunsWith([pc |-> "requeueing", batch |-> t, loaded |-> <<>>])
    BY <1>4, <1>5, <1>6, <1>8, <2>2 DEF RunsWith, FlushRecords, FlushStops
  <2> QED BY <1>1, <1>3, <2>1, <2>3
<1> QED BY <1>7, <1>8

LEMMA DrainStep ==
  ASSUME Perf!ConstantsOK, PerfInv, NEW f \in Flushes, Perf!Drain(f)
  PROVE  PerfInv'
<1>1. PerfTyped /\ Batches BY DEF PerfInv
<1>2. /\ flushes[f].pc = "draining" /\ Perf!locked /\ queue' = Perf!rest(queue) /\ Perf!Persisted(queue')
      /\ UNCHANGED <<backend, handles, uploaded>>
  BY DEF Perf!Drain, Perf!Flush, Perf!settings
<1>3. PICK q : q = queue' OBVIOUS
<1>4. q = Perf!rest(queue) /\ Perf!Persisted(q) /\ queue \in Seq(Perf!Handles) BY <1>1, <1>2, <1>3 DEF PerfTyped
<1>5. q \in Seq(Perf!Handles) BY <1>4, DrainHolds
<1>6. /\ file' \in Seq(Perf!Handles) \cup {Perf!Torn} /\ (backend # "file" => file' \in Seq(Perf!Handles)) /\ perfDisturbed' \in BOOLEAN
      /\ ~perfDisturbed' => ~perfDisturbed /\ (backend = "file" => file' = q) /\ perfCounts' = perfCounts
  BY <1>1, <1>4, <1>5, Persists
<1>7. PICK r : r = IF perfCounts' # perfCounts THEN Perf!NoFlush ELSE Drained(queue) OBVIOUS
<1>8. Perf!goes(f, r)
  <2>1. r = IF perfCounts' # perfCounts \/ queue = <<>> THEN Perf!NoFlush ELSE [Perf!NoFlush EXCEPT !.pc = "drained", !.batch = Perf!taken(queue)]
    BY <1>7 DEF Drained
  <2> QED BY <2>1 DEF Perf!Drain, Perf!goes
<1>9. RunsWith(r) /\ r.pc \notin {"loaded", "reloaded"}
  <2>1. RunsWith(Drained(queue)) /\ Drained(queue).pc \in {"idle", "drained"} BY <1>4, DrainedRuns
  <2>2. RunsWith(Perf!NoFlush) /\ Perf!NoFlush.pc = "idle" BY NothingRuns DEF Perf!NoFlush
  <2>3. CASE perfCounts' # perfCounts BY <2>3, <2>2, <1>7
  <2>4. CASE perfCounts' = perfCounts BY <2>4, <2>1, <1>7
  <2> QED BY <2>3, <2>4
<1>10. /\ Batches' /\ flushes' \in [Flushes -> FlushRecords] /\ flushes'[f] = r
       /\ \A g \in Flushes : g # f => flushes'[g] = flushes[g]
  BY <1>1, <1>2, <1>8, <1>9, BatchesGo
<1>11. PerfTyped' BY <1>1, <1>2, <1>3, <1>5, <1>6, <1>10 DEF PerfTyped
<1>12. Perf!locked' BY <1>2 DEF Perf!locked
<1>13. Reading' BY <1>10, <1>12, LockedReads
<1>14. ASSUME ~perfDisturbed' PROVE Placed'
  <2>1. Placed BY <1>6, <1>14 DEF PerfInv
  <2>2. Perf!Queued' = Perf!rest(Perf!Queued) BY <1>2, <1>12 DEF Perf!Queued
  <2>3. r = Drained(queue) BY <1>6, <1>7, <1>14
  <2>4. r.batch = Perf!taken(queue) BY <2>3, <1>4, DrainedRuns
  <2>5. flushes'[f].batch = Perf!taken(Perf!Queued) BY <2>4, <1>2, <1>10 DEF Perf!Queued
  <2>6. flushes[f].batch = <<>> BY <1>1, <1>2 DEF Batches
  <2>7. (\A g \in Flushes : g # f => flushes'[g].batch = flushes[g].batch) /\ uploaded' = uploaded BY <1>2, <1>10
  <2>8. \A x \in Perf!Handles : handles'[x].pc = "kept" <=> handles[x].pc = "kept" BY <1>2
  <2> QED BY <1>1, <2>1, <2>2, <2>5, <2>6, <2>7, <2>8, DrainPlaced
<1>15. ~perfDisturbed' => (backend' = "file" => file' = queue') BY <1>2, <1>3, <1>6
<1> QED BY <1>10, <1>11, <1>13, <1>14, <1>15 DEF PerfInv

LEMMA DrainStoresStep ==
  ASSUME Perf!ConstantsOK, PerfInv, NEW f \in Flushes, Perf!DrainStores(f)
  PROVE  PerfInv'
<1>1. PerfTyped /\ Batches BY DEF PerfInv
<1>2. /\ flushes[f].pc = "loaded" /\ file' = Perf!rest(flushes[f].loaded)
      /\ UNCHANGED <<backend, queue, handles, uploaded, perfDisturbed>>
  BY DEF Perf!DrainStores, Perf!Flush, Perf!settings
<1>3. ~Perf!locked BY <1>1, <1>2 DEF Batches
<1>4. PICK p : p = flushes[f].loaded OBVIOUS
<1>5. p \in Seq(Perf!Handles) BY <1>1, <1>4 DEF PerfTyped, FlushRecords
<1>6. PICK r : r = Drained(p) OBVIOUS
<1>7. Perf!goes(f, r) BY <1>4, <1>6 DEF Perf!DrainStores, Drained, Perf!goes
<1>8. RunsWith(r) /\ r.batch = Perf!taken(p) /\ r.pc \in {"idle", "drained"} BY <1>5, <1>6, DrainedRuns
<1>9. /\ Batches' /\ flushes' \in [Flushes -> FlushRecords] /\ flushes'[f] = r
      /\ \A g \in Flushes : g # f => flushes'[g] = flushes[g]
  <2>1. r.pc \notin {"loaded", "reloaded"} BY <1>8
  <2> QED BY <1>1, <1>2, <1>7, <1>8, <2>1, BatchesGo
<1>10. file' \in Seq(Perf!Handles) BY <1>2, <1>4, <1>5, DrainHolds
<1>11. PerfTyped' BY <1>1, <1>2, <1>9, <1>10 DEF PerfTyped
<1>12. ASSUME ~perfDisturbed' PROVE Reading' /\ Placed'
  <2>1. Reading /\ Placed BY <1>2, <1>12 DEF PerfInv
  <2>2. p = file BY <1>2, <1>4, <2>1 DEF Reading
  <2>3. Perf!Queued = file /\ Perf!Queued' = Perf!rest(Perf!Queued) BY <1>2, <1>3, <1>4, <2>2 DEF Perf!Queued, Perf!locked
  <2>4. flushes'[f].batch = Perf!taken(Perf!Queued) BY <1>8, <1>9, <2>2, <2>3
  <2>5. flushes[f].batch = <<>> BY <1>1, <1>2 DEF Batches
  <2>6. (\A g \in Flushes : g # f => flushes'[g].batch = flushes[g].batch) /\ uploaded' = uploaded BY <1>2, <1>9
  <2>7. \A x \in Perf!Handles : handles'[x].pc = "kept" <=> handles[x].pc = "kept" BY <1>2
  <2>8. Placed' BY <1>1, <2>1, <2>3, <2>4, <2>5, <2>6, <2>7, DrainPlaced
  <2>9. /\ \A g \in Flushes : g # f => flushes[g].pc \notin {"loaded", "reloaded"}
        /\ \A x \in Perf!Handles : handles[x].pc # "putting"
    BY <1>2, <2>1 DEF Reading
  <2>10. Reading' BY <1>2, <1>8, <1>9, <2>9 DEF Reading
  <2> QED BY <2>8, <2>10
<1>13. backend' # "file" BY <1>2, <1>3 DEF Perf!locked
<1> QED BY <1>9, <1>11, <1>12, <1>13 DEF PerfInv

\* The load or the store of a drain fails: the queue stays as it is.
LEMMA DrainFailsStep ==
  ASSUME Perf!ConstantsOK, PerfInv, NEW f \in Flushes, Perf!DrainFails(f)
  PROVE  PerfInv'
<1>1. PerfTyped /\ Batches BY DEF PerfInv
<1>2. /\ flushes[f].pc \in {"draining", "loaded"} /\ Perf!goes(f, Perf!NoFlush)
      /\ UNCHANGED <<backend, queue, file, handles, uploaded, perfDisturbed>>
  BY DEF Perf!DrainFails, Perf!Flush, Perf!settings
<1>3. RunsWith(Perf!NoFlush) /\ Perf!NoFlush.pc = "idle" /\ Perf!NoFlush.batch = <<>> BY NothingRuns DEF Perf!NoFlush
<1>4. flushes[f].batch = <<>> BY <1>1, <1>2 DEF Batches
<1>5. Perf!NoFlush.pc \notin {"loaded", "reloaded"} /\ Perf!NoFlush.batch = flushes[f].batch BY <1>3, <1>4
<1> QED BY <1>2, <1>3, <1>5, FlushMoves

LEMMA UploadedStep ==
  ASSUME Perf!ConstantsOK, PerfInv, NEW f \in Flushes, Perf!Uploaded(f)
  PROVE  PerfInv'
<1>1. PerfTyped /\ Batches BY DEF PerfInv
<1>2. /\ Perf!arrived(flushes[f].batch) /\ Perf!goes(f, Perf!NoFlush)
      /\ UNCHANGED <<backend, queue, file, handles, perfDisturbed>>
  BY DEF Perf!Uploaded, Perf!settings
<1>3. RunsWith(Perf!NoFlush) /\ Perf!NoFlush.pc = "idle" /\ Perf!NoFlush.batch = <<>> BY NothingRuns DEF Perf!NoFlush
<1>4. /\ Batches' /\ flushes' \in [Flushes -> FlushRecords] /\ flushes'[f] = Perf!NoFlush
      /\ \A g \in Flushes : g # f => flushes'[g] = flushes[g]
  <2>1. Perf!NoFlush.pc \notin {"loaded", "reloaded"} BY <1>3
  <2> QED BY <1>1, <1>2, <1>3, <2>1, BatchesGo
<1>5. flushes[f].batch \in Seq(Perf!Handles) BY <1>1 DEF PerfTyped, FlushRecords
<1>6. uploaded' \in [Perf!Handles -> Nat] BY <1>1, <1>2, <1>5, ArrivedIsTyped
<1>7. PerfTyped' BY <1>1, <1>2, <1>4, <1>6 DEF PerfTyped
<1>8. ASSUME ~perfDisturbed' PROVE Reading' /\ Placed' /\ (backend' = "file" => file' = queue')
  <2>1. Reading /\ Placed /\ (backend = "file" => file = queue) BY <1>2, <1>8 DEF PerfInv
  <2>2. Perf!Queued' = Perf!Queued BY <1>2 DEF Perf!Queued, Perf!locked
  <2>3. \A x \in Perf!Handles : uploaded'[x] = IF Holds(flushes[f].batch, x) THEN 1 ELSE uploaded[x]
    BY <1>1, <1>2, <2>1, ArrivedIsOnce
  <2>4. flushes'[f].batch = <<>> /\ \A g \in Flushes : g # f => flushes'[g].batch = flushes[g].batch BY <1>3, <1>4
  <2>5. \A x \in Perf!Handles : handles'[x].pc = "kept" <=> handles[x].pc = "kept" BY <1>2
  <2>6. Placed' BY <1>1, <2>1, <2>2, <2>3, <2>4, <2>5, UploadPlaced
  <2>7. Reading' BY <1>2, <1>3, <1>4, <2>1 DEF Reading
  <2> QED BY <1>2, <2>1, <2>6, <2>7
<1> QED BY <1>4, <1>7, <1>8 DEF PerfInv

LEMMA FlushOnceStep ==
  ASSUME Perf!ConstantsOK, PerfInv, NEW f \in Flushes, Perf!FlushOnce(f)
  PROVE  PerfInv'
<1>1. PICK r : r = [Perf!NoFlush EXCEPT !.pc = "draining"] OBVIOUS
<1>2. Perf!goes(f, r) /\ flushes[f].pc = "idle" /\ UNCHANGED <<backend, queue, file, handles, uploaded, perfDisturbed>>
  BY <1>1 DEF Perf!FlushOnce, Perf!Flush, Perf!settings
<1>3. RunsWith(r) BY <1>1, NothingRuns
<1>4. r.batch = <<>> /\ r.pc = "draining" BY <1>1 DEF Perf!NoFlush
<1>5. flushes[f].batch = <<>> BY <1>2 DEF PerfInv, Batches
<1>6. r.pc \notin {"loaded", "reloaded"} BY <1>4
<1> QED BY <1>2, <1>3, <1>4, <1>5, <1>6, FlushMoves

\* The steps of a flush that change where it is and nothing it holds.
LEMMA WithBatch ==
  ASSUME PerfTyped, Batches, NEW f \in Flushes, flushes[f].batch # <<>>, NEW c \in {"sent", "requeueing"}
  PROVE  LET r == [flushes[f] EXCEPT !.pc = c] IN RunsWith(r) /\ r.batch = flushes[f].batch /\ r.pc \notin {"loaded", "reloaded"}
<1>1. PICK r : r = [flushes[f] EXCEPT !.pc = c] OBVIOUS
<1>2. flushes[f] \in FlushRecords /\ Len(flushes[f].batch) <= BatchSize BY DEF PerfTyped, Batches
<1>3. r.pc = c /\ r.batch = flushes[f].batch /\ r \in FlushRecords BY <1>1, <1>2 DEF FlushRecords, FlushStops
<1>4. RunsWith(r) BY <1>2, <1>3 DEF RunsWith
<1> QED BY <1>1, <1>3, <1>4

LEMMA SendStep ==
  ASSUME PerfInv, NEW f \in Flushes, Perf!Send(f)
  PROVE  PerfInv'
<1>1. PerfTyped /\ Batches BY DEF PerfInv
<1>2. PICK r : r = [flushes[f] EXCEPT !.pc = "sent"] OBVIOUS
<1>3. Perf!goes(f, r) /\ flushes[f].pc = "drained" /\ UNCHANGED <<backend, queue, file, handles, uploaded, perfDisturbed>>
  BY <1>2 DEF Perf!Send, Perf!Flush, Perf!settings
<1>4. flushes[f].batch # <<>> BY <1>1, <1>3 DEF Batches
<1>5. RunsWith(r) /\ r.batch = flushes[f].batch /\ r.pc \notin {"loaded", "reloaded"} BY <1>1, <1>2, <1>4, WithBatch
<1> QED BY <1>3, <1>5, FlushMoves

LEMMA SendFailsStep ==
  ASSUME PerfInv, NEW f \in Flushes, NEW lost \in BOOLEAN, Perf!SendFails(f, lost)
  PROVE  PerfInv'
<1>1. PerfTyped /\ Batches BY DEF PerfInv
<1>2. PICK r : r = [flushes[f] EXCEPT !.pc = "requeueing"] OBVIOUS
<1>3. Perf!goes(f, r) /\ flushes[f].pc = "sent" /\ UNCHANGED <<backend, queue, file, handles>>
  BY <1>2 DEF Perf!SendFails, Perf!Flush, Perf!settings
<1>4. flushes[f].batch # <<>> BY <1>1, <1>3 DEF Batches
<1>5. RunsWith(r) /\ r.batch = flushes[f].batch /\ r.pc \notin {"loaded", "reloaded"} BY <1>1, <1>2, <1>4, WithBatch
<1>6. CASE ~lost
  <2>1. UNCHANGED <<uploaded, perfDisturbed>> BY <1>6 DEF Perf!SendFails
  <2> QED BY <2>1, <1>3, <1>5, FlushMoves
<1>7. CASE lost
  <2>1. Perf!arrived(flushes[f].batch) /\ perfDisturbed' = TRUE BY <1>7 DEF Perf!SendFails
  <2>2. /\ Batches' /\ flushes' \in [Flushes -> FlushRecords] BY <1>1, <1>3, <1>5, BatchesGo
  <2>3. flushes[f].batch \in Seq(Perf!Handles) BY <1>1 DEF PerfTyped, FlushRecords
  <2>4. uploaded' \in [Perf!Handles -> Nat] BY <1>1, <2>1, <2>3, ArrivedIsTyped
  <2>5. PerfTyped' BY <1>1, <1>3, <2>1, <2>2, <2>4 DEF PerfTyped
  <2> QED BY <2>1, <2>2, <2>5 DEF PerfInv
<1> QED BY <1>6, <1>7

LEMMA DrainLoadsStep ==
  ASSUME Perf!ConstantsOK, PerfInv, NEW f \in Flushes, Perf!DrainLoads(f)
  PROVE  PerfInv'
<1>1. PerfTyped /\ Batches BY DEF PerfInv
<1>2. /\ flushes[f].pc = "draining" /\ ~Perf!locked /\ perfDisturbed' = (perfDisturbed \/ Perf!InUse)
      /\ UNCHANGED <<backend, queue, file, handles, uploaded>>
  BY DEF Perf!DrainLoads, Perf!Flush, Perf!settings
<1>3. file \in Seq(Perf!Handles) BY <1>1, <1>2 DEF PerfTyped, Perf!locked
<1>4. PICK r : r = [Perf!NoFlush EXCEPT !.pc = "loaded", !.loaded = file] OBVIOUS
<1>5. r = [pc |-> "loaded", batch |-> <<>>, loaded |-> file] BY <1>4 DEF Perf!NoFlush
<1>6. <<>> \in Seq(Perf!Handles) /\ Len(<<>>) = 0 /\ 0 <= BatchSize BY DEF Perf!ConstantsOK
<1>7. RunsWith(r) BY <1>3, <1>5, <1>6 DEF RunsWith, FlushRecords, FlushStops
<1>8. Perf!goes(f, r) BY <1>4 DEF Perf!DrainLoads, Perf!goes
<1>9. r.batch = flushes[f].batch /\ r.loaded = file BY <1>1, <1>2, <1>5 DEF Batches
<1> QED BY <1>2, <1>7, <1>8, <1>9, FlushReads

LEMMA RequeueLoadsStep ==
  ASSUME PerfInv, NEW f \in Flushes, Perf!RequeueLoads(f)
  PROVE  PerfInv'
<1>1. PerfTyped /\ Batches BY DEF PerfInv
<1>2. /\ flushes[f].pc = "requeueing" /\ ~Perf!locked /\ perfDisturbed' = (perfDisturbed \/ Perf!InUse)
      /\ UNCHANGED <<backend, queue, file, handles, uploaded>>
  BY DEF Perf!RequeueLoads, Perf!Flush, Perf!settings
<1>3. file \in Seq(Perf!Handles) BY <1>1, <1>2 DEF PerfTyped, Perf!locked
<1>4. PICK r : r = [flushes[f] EXCEPT !.pc = "reloaded", !.loaded = file] OBVIOUS
<1>5. flushes[f] \in FlushRecords /\ flushes[f].batch # <<>> /\ Len(flushes[f].batch) <= BatchSize
  BY <1>1, <1>2 DEF PerfTyped, Batches
<1>6. r \in FlushRecords /\ r.pc = "reloaded" /\ r.batch = flushes[f].batch /\ r.loaded = file
  BY <1>3, <1>4, <1>5 DEF FlushRecords, FlushStops
<1>7. RunsWith(r) BY <1>5, <1>6 DEF RunsWith
<1>8. Perf!goes(f, r) BY <1>4 DEF Perf!RequeueLoads, Perf!goes
<1> QED BY <1>2, <1>6, <1>7, <1>8, FlushReads

LEMMA RequeueStep ==
  ASSUME Perf!ConstantsOK, PerfInv, NEW f \in Flushes, Perf!Requeue(f)
  PROVE  PerfInv'
<1>1. PerfTyped /\ Batches BY DEF PerfInv
<1>2. /\ flushes[f].pc = "requeueing" /\ Perf!locked /\ queue' = Append(queue, Head(flushes[f].batch)) /\ Perf!Persisted(queue')
      /\ UNCHANGED <<backend, handles, uploaded>>
  BY DEF Perf!Requeue, Perf!Flush, Perf!settings
<1>3. PICK q : q = queue' OBVIOUS
<1>4. flushes[f].batch \in Seq(Perf!Handles) /\ flushes[f].batch # <<>> BY <1>1, <1>2 DEF PerfTyped, FlushRecords, Batches
<1>5. Head(flushes[f].batch) \in Perf!Handles BY <1>4, TailHolds
<1>6. q \in Seq(Perf!Handles) /\ Perf!Persisted(q) BY <1>1, <1>2, <1>3, <1>5 DEF PerfTyped
<1>7. /\ file' \in Seq(Perf!Handles) \cup {Perf!Torn} /\ (backend # "file" => file' \in Seq(Perf!Handles)) /\ perfDisturbed' \in BOOLEAN
      /\ ~perfDisturbed' => ~perfDisturbed /\ (backend = "file" => file' = q) /\ perfCounts' = perfCounts
  BY <1>1, <1>6, Persists
<1>8. PICK r : r = IF perfCounts' # perfCounts THEN Perf!NoFlush ELSE Perf!requeued(f) OBVIOUS
<1>9. Perf!goes(f, r) BY <1>8 DEF Perf!Requeue, Perf!goes
<1>10. RunsWith(r) /\ r.pc \notin {"loaded", "reloaded"}
  <2>1. RunsWith(Perf!requeued(f)) /\ Perf!requeued(f).pc \in {"idle", "requeueing"} BY <1>1, <1>4, RequeuedRuns
  <2>2. RunsWith(Perf!NoFlush) /\ Perf!NoFlush.pc = "idle" BY NothingRuns DEF Perf!NoFlush
  <2>3. CASE perfCounts' # perfCounts BY <2>3, <2>2, <1>8
  <2>4. CASE perfCounts' = perfCounts BY <2>4, <2>1, <1>8
  <2> QED BY <2>3, <2>4
<1>11. /\ Batches' /\ flushes' \in [Flushes -> FlushRecords] /\ flushes'[f] = r
       /\ \A g \in Flushes : g # f => flushes'[g] = flushes[g]
  BY <1>1, <1>2, <1>9, <1>10, BatchesGo
<1>12. PerfTyped' BY <1>1, <1>2, <1>3, <1>6, <1>7, <1>11 DEF PerfTyped
<1>13. Perf!locked' BY <1>2 DEF Perf!locked
<1>14. Reading' BY <1>11, <1>13, LockedReads
<1>15. ASSUME ~perfDisturbed' PROVE Placed'
  <2>1. Placed BY <1>7, <1>15 DEF PerfInv
  <2>2. Perf!Queued' = Append(Perf!Queued, Head(flushes[f].batch)) BY <1>2, <1>13 DEF Perf!Queued
  <2>3. r = Perf!requeued(f) BY <1>7, <1>8, <1>15
  <2>4. flushes'[f].batch = Tail(flushes[f].batch) BY <2>3, <1>1, <1>4, <1>11, RequeuedRuns
  <2>5. (\A g \in Flushes : g # f => flushes'[g].batch = flushes[g].batch) /\ uploaded' = uploaded BY <1>2, <1>11
  <2>6. \A x \in Perf!Handles : handles'[x].pc = "kept" <=> handles[x].pc = "kept" BY <1>2
  <2> QED BY <1>1, <1>4, <2>1, <2>2, <2>4, <2>5, <2>6, RequeuePlaced
<1>16. ~perfDisturbed' => (backend' = "file" => file' = queue') BY <1>2, <1>3, <1>7
<1> QED BY <1>11, <1>12, <1>14, <1>15, <1>16 DEF PerfInv

LEMMA RequeueStoresStep ==
  ASSUME Perf!ConstantsOK, PerfInv, NEW f \in Flushes, Perf!RequeueStores(f)
  PROVE  PerfInv'
<1>1. PerfTyped /\ Batches BY DEF PerfInv
<1>2. /\ flushes[f].pc = "reloaded" /\ file' = Append(flushes[f].loaded, Head(flushes[f].batch))
      /\ UNCHANGED <<backend, queue, handles, uploaded, perfDisturbed>>
  BY DEF Perf!RequeueStores, Perf!Flush, Perf!settings
<1>3. ~Perf!locked BY <1>1, <1>2 DEF Batches
<1>4. flushes[f].batch \in Seq(Perf!Handles) /\ flushes[f].batch # <<>> /\ flushes[f].loaded \in Seq(Perf!Handles)
  BY <1>1, <1>2 DEF PerfTyped, FlushRecords, Batches
<1>5. Head(flushes[f].batch) \in Perf!Handles BY <1>4, TailHolds
<1>6. PICK r : r = Perf!requeued(f) OBVIOUS
<1>7. Perf!goes(f, r) BY <1>6 DEF Perf!RequeueStores
<1>8. RunsWith(r) /\ r.batch = Tail(flushes[f].batch) /\ r.pc \in {"idle", "requeueing"} BY <1>1, <1>4, <1>6, RequeuedRuns
<1>9. /\ Batches' /\ flushes' \in [Flushes -> FlushRecords] /\ flushes'[f] = r
      /\ \A g \in Flushes : g # f => flushes'[g] = flushes[g]
  <2>1. r.pc \notin {"loaded", "reloaded"} BY <1>8
  <2> QED BY <1>1, <1>2, <1>7, <1>8, <2>1, BatchesGo
<1>10. file' \in Seq(Perf!Handles) BY <1>2, <1>4, <1>5
<1>11. PerfTyped' BY <1>1, <1>2, <1>9, <1>10 DEF PerfTyped
<1>12. ASSUME ~perfDisturbed' PROVE Reading' /\ Placed'
  <2>1. Reading /\ Placed BY <1>2, <1>12 DEF PerfInv
  <2>2. flushes[f].loaded = file BY <1>2, <2>1 DEF Reading
  <2>3. Perf!Queued' = Append(Perf!Queued, Head(flushes[f].batch)) BY <1>2, <1>3, <2>2 DEF Perf!Queued, Perf!locked
  <2>4. flushes'[f].batch = Tail(flushes[f].batch) BY <1>8, <1>9
  <2>5. (\A g \in Flushes : g # f => flushes'[g].batch = flushes[g].batch) /\ uploaded' = uploaded BY <1>2, <1>9
  <2>6. \A x \in Perf!Handles : handles'[x].pc = "kept" <=> handles[x].pc = "kept" BY <1>2
  <2>7. Placed' BY <1>1, <1>4, <2>1, <2>3, <2>4, <2>5, <2>6, RequeuePlaced
  <2>8. /\ \A g \in Flushes : g # f => flushes[g].pc \notin {"loaded", "reloaded"}
        /\ \A x \in Perf!Handles : handles[x].pc # "putting"
    BY <1>2, <2>1 DEF Reading
  <2>9. Reading' BY <1>2, <1>8, <1>9, <2>8 DEF Reading
  <2> QED BY <2>7, <2>9
<1>13. backend' # "file" BY <1>2, <1>3 DEF Perf!locked
<1> QED BY <1>9, <1>11, <1>12, <1>13 DEF PerfInv

\* The load or the store of a requeue fails: what is left of the batch is dropped.
LEMMA RequeueFailsStep ==
  ASSUME Perf!ConstantsOK, PerfInv, NEW f \in Flushes, Perf!RequeueFails(f)
  PROVE  PerfInv'
<1>1. PerfTyped /\ Batches BY DEF PerfInv
<1>2. /\ flushes[f].pc \in {"requeueing", "reloaded"} /\ Perf!goes(f, Perf!NoFlush)
      /\ handles' = [h \in Perf!Handles |-> IF \E i \in DOMAIN flushes[f].batch : flushes[f].batch[i] = h
                                            THEN [handles[h] EXCEPT !.pc = "dropped"] ELSE handles[h]]
      /\ UNCHANGED <<backend, queue, file, uploaded, perfDisturbed>>
  BY DEF Perf!RequeueFails, Perf!Flush, Perf!settings
<1>3. RunsWith(Perf!NoFlush) /\ Perf!NoFlush.pc = "idle" /\ Perf!NoFlush.batch = <<>> BY NothingRuns DEF Perf!NoFlush
<1>4. PICK a : a = flushes[f].batch OBVIOUS
<1>5. a \in Seq(Perf!Handles) BY <1>1, <1>4 DEF PerfTyped, FlushRecords
<1>6. \A h : (\E i \in DOMAIN a : a[i] = h) <=> Holds(a, h) BY <1>5 DEF Holds
<1>7. \A h \in Perf!Handles : handles'[h] = IF Holds(a, h) THEN [handles[h] EXCEPT !.pc = "dropped"] ELSE handles[h]
  BY <1>2, <1>4, <1>6
<1>8. \A h \in Perf!Handles : handles[h] \in HandleRecords BY <1>1 DEF PerfTyped
<1>9. \A h \in Perf!Handles : LET r == [handles[h] EXCEPT !.pc = "dropped"] IN r \in HandleRecords /\ r.pc = "dropped"
  BY <1>8 DEF HandleRecords, HandleStops
<1>10. \A h \in Perf!Handles : handles'[h] \in HandleRecords BY <1>7, <1>8, <1>9
<1>11. handles' \in [Perf!Handles -> HandleRecords] BY <1>2, <1>10
<1>12. \A h \in Perf!Handles : /\ handles'[h].pc = "putting" => handles'[h] = handles[h] /\ handles[h].pc = "putting"
                               /\ handles'[h].pc = "kept" <=> handles[h].pc = "kept" /\ ~Holds(a, h)
  <2> SUFFICES ASSUME NEW h \in Perf!Handles
               PROVE  /\ handles'[h].pc = "putting" => handles'[h] = handles[h] /\ handles[h].pc = "putting"
                      /\ handles'[h].pc = "kept" <=> handles[h].pc = "kept" /\ ~Holds(a, h)
    OBVIOUS
  <2>1. CASE Holds(a, h)
    <3>1. handles'[h].pc = "dropped" BY <2>1, <1>7, <1>9
    <3> QED BY <2>1, <3>1
  <2>2. CASE ~Holds(a, h)
    <3>1. handles'[h] = handles[h] BY <2>2, <1>7
    <3> QED BY <2>2, <3>1
  <2> QED BY <2>1, <2>2
<1>13. /\ Batches' /\ flushes' \in [Flushes -> FlushRecords] /\ flushes'[f] = Perf!NoFlush
       /\ \A g \in Flushes : g # f => flushes'[g] = flushes[g]
  <2>1. Perf!NoFlush.pc \notin {"loaded", "reloaded"} BY <1>3
  <2> QED BY <1>1, <1>2, <1>3, <1>12, <2>1, BatchesGo
<1>14. PerfTyped' BY <1>1, <1>2, <1>11, <1>13 DEF PerfTyped
<1>15. ASSUME ~perfDisturbed' PROVE Reading' /\ Placed' /\ (backend' = "file" => file' = queue')
  <2>1. Reading /\ Placed /\ (backend = "file" => file = queue) BY <1>2, <1>15 DEF PerfInv
  <2>2. Perf!Queued' = Perf!Queued BY <1>2 DEF Perf!Queued, Perf!locked
  <2>3. flushes'[f].batch = <<>> /\ \A g \in Flushes : g # f => flushes'[g].batch = flushes[g].batch BY <1>3, <1>13
  <2>4. \A h \in Perf!Handles : handles'[h].pc = "kept" <=> handles[h].pc = "kept" /\ ~Holds(flushes[f].batch, h) BY <1>4, <1>12
  <2>5. uploaded' = uploaded BY <1>2
  <2>6. Placed' BY <1>1, <2>1, <2>2, <2>3, <2>4, <2>5, DropPlaced
  <2>7. Reading'
    <3>1. \A g \in Flushes : flushes'[g].pc \in {"loaded", "reloaded"} => g # f /\ flushes'[g] = flushes[g] BY <1>3, <1>13
    <3>2. ASSUME NEW g \in Flushes, flushes'[g].pc \in {"loaded", "reloaded"}
          PROVE  /\ flushes'[g].loaded = file' /\ \A h \in Perf!Handles : handles'[h].pc # "putting"
                 /\ \A k \in Flushes : k # g => flushes'[k].pc \notin {"loaded", "reloaded"}
      <4>1. flushes[g].pc \in {"loaded", "reloaded"} /\ flushes'[g] = flushes[g] BY <3>1, <3>2
      <4>2. /\ flushes[g].loaded = file /\ \A h \in Perf!Handles : handles[h].pc # "putting"
            /\ \A k \in Flushes : k # g => flushes[k].pc \notin {"loaded", "reloaded"}
        BY <2>1, <4>1 DEF Reading
      <4> QED BY <1>2, <1>12, <3>1, <4>1, <4>2
    <3>3. ASSUME NEW h \in Perf!Handles, handles'[h].pc = "putting"
          PROVE  handles'[h].loaded = file' /\ \A g \in Perf!Handles : handles'[g].pc = "putting" => g = h
      BY <1>2, <1>12, <2>1, <3>3 DEF Reading
    <3> QED BY <3>2, <3>3 DEF Reading
  <2> QED BY <1>2, <2>1, <2>6, <2>7
<1> QED BY <1>13, <1>14, <1>15 DEF PerfInv

\* The program starts again: what was queued in the file or in IndexedDB is there.
LEMMA RestartStep ==
  ASSUME Perf!ConstantsOK, PerfInv, Perf!Restart
  PROVE  PerfInv'
<1>1. PerfTyped /\ Batches BY DEF PerfInv
<1>2. /\ queue' = IF backend = "file" /\ file # Perf!Torn THEN file ELSE <<>>
      /\ flushes' = [f \in Flushes |-> Perf!NoFlush]
      /\ handles' = [h \in Perf!Handles |-> IF handles[h].pc = "new" \/ handles[h].pc = "kept" THEN handles[h] ELSE [Perf!NoHandle EXCEPT !.pc = "completed"]]
      /\ perfDisturbed' = (perfDisturbed \/ backend = "memory" \/ (\E f \in Flushes : ~Perf!Flush(f, "idle"))
                       \/ (\E h \in Perf!Handles : Perf!Handle(h, "pushing") \/ Perf!Handle(h, "putting")))
      /\ UNCHANGED <<backend, file, uploaded>>
  BY DEF Perf!Restart, Perf!settings, Perf!Handle
<1>3. RunsWith(Perf!NoFlush) /\ Perf!NoFlush.pc = "idle" /\ Perf!NoFlush.batch = <<>> BY NothingRuns DEF Perf!NoFlush
<1>4. PICK n : n = [Perf!NoHandle EXCEPT !.pc = "completed"] OBVIOUS
<1>5. n = [pc |-> "completed", marked |-> FALSE, loaded |-> <<>>] BY <1>4 DEF Perf!NoHandle
<1>6. <<>> \in Seq(Perf!Handles) OBVIOUS
<1>7. n \in HandleRecords /\ n.pc = "completed" BY <1>5, <1>6 DEF HandleRecords, HandleStops
<1>8. \A h \in Perf!Handles : handles'[h] = IF handles[h].pc = "new" \/ handles[h].pc = "kept" THEN handles[h] ELSE n
  BY <1>2, <1>4
<1>9. handles' \in [Perf!Handles -> HandleRecords] BY <1>1, <1>2, <1>4, <1>7 DEF PerfTyped
<1>10. flushes' \in [Flushes -> FlushRecords] /\ \A f \in Flushes : flushes'[f] = Perf!NoFlush BY <1>2, <1>3 DEF RunsWith
<1>11. queue' \in Seq(Perf!Handles) BY <1>1, <1>2, <1>6 DEF PerfTyped
<1>12. perfDisturbed' \in BOOLEAN BY <1>2
<1>13. PerfTyped' BY <1>1, <1>2, <1>9, <1>10, <1>11, <1>12 DEF PerfTyped
<1>14. \A h \in Perf!Handles : handles'[h].pc # "putting" /\ (handles'[h].pc = "kept" <=> handles[h].pc = "kept")
  BY <1>7, <1>8
<1>15. Batches'
  <2>1. \A f \in Flushes : Len(flushes'[f].batch) <= BatchSize /\ (flushes'[f].batch = <<>> <=> flushes'[f].pc \in {"idle", "draining", "loaded"})
    BY <1>3, <1>10 DEF RunsWith
  <2>2. \A f \in Flushes : flushes'[f].pc \notin {"loaded", "reloaded"} BY <1>3, <1>10
  <2> QED BY <2>1, <2>2, <1>14 DEF Batches
<1>16. Reading' BY <1>3, <1>10, <1>14 DEF Reading
<1>17. ASSUME ~perfDisturbed' PROVE Placed' /\ (backend' = "file" => file' = queue')
  <2>1. ~perfDisturbed /\ backend # "memory" /\ \A f \in Flushes : flushes[f].pc = "idle" BY <1>2, <1>17 DEF Perf!Flush
  <2>2. Placed /\ (backend = "file" => file = queue) BY <2>1 DEF PerfInv
  <2>3. backend = "file" => file # Perf!Torn
    <3> SUFFICES ASSUME backend = "file", file = Perf!Torn PROVE FALSE OBVIOUS
    <3>1. queue = <<"torn">> /\ queue \in Seq(Perf!Handles) BY <1>1, <2>2 DEF PerfTyped, Perf!Torn
    <3>2. Len(queue) = 1 /\ queue[1] = "torn" BY <3>1
    <3>3. queue[1] \in Perf!Handles BY <3>1, <3>2
    <3> QED BY <3>2, <3>3 DEF Perf!ConstantsOK
  <2>4. Perf!Queued' = Perf!Queued
    <3>1. CASE backend = "file" BY <3>1, <2>2, <2>3, <1>2 DEF Perf!Queued, Perf!locked
    <3>2. CASE backend # "file"
      <4>1. backend = "indexedDb" BY <3>2, <2>1, <1>1 DEF PerfTyped
      <4> QED BY <4>1, <1>2 DEF Perf!Queued, Perf!locked
    <3> QED BY <3>1, <3>2
  <2>5. \A f \in Flushes : flushes'[f].batch = flushes[f].batch BY <1>1, <1>3, <1>10, <2>1 DEF Batches
  <2>6. uploaded' = uploaded BY <1>2
  <2>7. \A h \in Perf!Handles : handles'[h].pc = "kept" <=> handles[h].pc = "kept" BY <1>14
  <2>8. Placed' BY <1>1, <2>2, <2>4, <2>5, <2>6, <2>7, StaysPlaced
  <2>9. backend' = "file" => file' = queue' BY <1>2, <2>3
  <2> QED BY <2>8, <2>9
<1> QED BY <1>13, <1>15, <1>16, <1>17 DEF PerfInv

LEMMA StillStep ==
  ASSUME PerfInv, UNCHANGED <<backend, queue, file, handles, flushes, uploaded, perfDisturbed>>
  PROVE  PerfInv'
BY DEF PerfInv, PerfTyped, Batches, Reading, Placed, Perf!Queued, Perf!locked

LEMMA HandleSteps ==
  ASSUME PerfInv, NEW h \in Perf!Handles,
         Perf!Start(h) \/ Perf!MarkResponseInitiated(h) \/ Perf!Stop(h) \/ Perf!TokenAnswered(h) \/ Perf!Record(h) \/ Perf!Store(h)
  PROVE  PerfInv'
<1>1. PerfTyped BY DEF PerfInv
<1>2. UNCHANGED <<backend, queue, file, flushes, uploaded, perfDisturbed>>
  BY DEF Perf!Start, Perf!MarkResponseInitiated, Perf!Stop, Perf!TokenAnswered, Perf!Record, Perf!Store, Perf!settings
<1>3. CASE Perf!MarkResponseInitiated(h)
  <2>1. handles \in [Perf!Handles -> HandleRecords] /\ handles[h].pc = "running" /\ handles' = [handles EXCEPT ![h].marked = TRUE]
    BY <1>1, <1>3 DEF Perf!MarkResponseInitiated, PerfTyped, Perf!Handle
  <2>2. PICK r : r = [handles[h] EXCEPT !.marked = TRUE] OBVIOUS
  <2>3. r \in HandleRecords /\ r.pc = "running" BY <2>1, <2>2 DEF HandleRecords
  <2>4. handles' = [handles EXCEPT ![h] = r] BY <2>1, <2>2
  <2>5. handles' \in [Perf!Handles -> HandleRecords] /\ handles'[h].pc = "running" /\ \A x \in Perf!Handles : x # h => handles'[x] = handles[x]
    BY <2>1, <2>3, <2>4
  <2> QED BY <1>2, <2>1, <2>5, HandleMoves
<1>4. CASE Perf!Start(h) \/ Perf!Stop(h) \/ Perf!TokenAnswered(h) \/ Perf!Record(h) \/ Perf!Store(h)
  <2>1. handles[h].pc \notin {"putting", "kept"}
    BY <1>4 DEF Perf!Start, Perf!Stop, Perf!TokenAnswered, Perf!Record, Perf!Store, Perf!Handle
  <2>2. \E c \in {"running", "asking", "stopped", "pushing", "completed"} : Perf!moves(h, c)
    BY <1>4 DEF Perf!Start, Perf!Stop, Perf!TokenAnswered, Perf!Record, Perf!Store
  <2>3. PICK c \in {"running", "asking", "stopped", "pushing", "completed"} : Perf!moves(h, c) BY <2>2
  <2>4. c \in HandleStops /\ c \notin {"putting", "kept"} BY DEF HandleStops
  <2>5. /\ handles' \in [Perf!Handles -> HandleRecords] /\ handles'[h].pc = c
        /\ \A x \in Perf!Handles : x # h => handles'[x] = handles[x]
    BY <1>1, <2>3, <2>4, OneMove
  <2> QED BY <1>2, <2>1, <2>4, <2>5, HandleMoves
<1> QED BY <1>3, <1>4

LEMMA PerfSteps ==
  ASSUME Perf!ConstantsOK, PerfInv, [Perf!Next]_(Perf!performanceVars)
  PROVE  PerfInv'
<1>1. CASE \E h \in Perf!Handles : Perf!Start(h) \/ Perf!MarkResponseInitiated(h) \/ Perf!Stop(h) \/ Perf!TokenAnswered(h) \/ Perf!Record(h) \/ Perf!Store(h)
  BY <1>1, HandleSteps
<1>2. CASE \E h \in Perf!Handles : Perf!Push(h) \/ Perf!PushLoads(h) \/ Perf!PushStores(h) \/ Perf!PushFails(h)
  BY <1>2, PushStep, PushLoadsStep, PushStoresStep, PushFailsStep
<1>3. CASE \E f \in Flushes : Perf!FlushOnce(f) \/ Perf!Send(f) \/ Perf!Uploaded(f) \/ \E lost \in BOOLEAN : Perf!SendFails(f, lost)
  BY <1>3, FlushOnceStep, SendStep, UploadedStep, SendFailsStep
<1>4. CASE \E f \in Flushes : Perf!Drain(f) \/ Perf!DrainLoads(f) \/ Perf!DrainStores(f) \/ Perf!DrainFails(f)
  BY <1>4, DrainStep, DrainLoadsStep, DrainStoresStep, DrainFailsStep
<1>5. CASE \E f \in Flushes : Perf!Requeue(f) \/ Perf!RequeueLoads(f) \/ Perf!RequeueStores(f) \/ Perf!RequeueFails(f)
  BY <1>5, RequeueStep, RequeueLoadsStep, RequeueStoresStep, RequeueFailsStep
<1>6. CASE \E data, instrumentation \in BOOLEAN : Perf!ApplySettings(data, instrumentation)
  <2>1. UNCHANGED <<backend, queue, file, handles, flushes, uploaded, perfDisturbed>> BY <1>6 DEF Perf!ApplySettings
  <2> QED BY <2>1, StillStep
<1>7. CASE Perf!Restart BY <1>7, RestartStep
<1>8. CASE UNCHANGED Perf!performanceVars
  <2>1. UNCHANGED <<backend, queue, file, handles, flushes, uploaded, perfDisturbed>> BY <1>8 DEF Perf!performanceVars
  <2> QED BY <2>1, StillStep
<1> QED BY <1>1, <1>2, <1>3, <1>4, <1>5, <1>6, <1>7, <1>8 DEF Perf!Next

LEMMA PerfStarts == Perf!ConstantsOK /\ Perf!Init => PerfInv
<1> SUFFICES ASSUME Perf!ConstantsOK, Perf!Init PROVE PerfInv OBVIOUS
<1>1. <<>> \in Seq(Perf!Handles) OBVIOUS
<1>2. RunsWith(Perf!NoFlush) /\ Perf!NoFlush.pc = "idle" /\ Perf!NoFlush.batch = <<>> BY NothingRuns DEF Perf!NoFlush
<1>3. Perf!NoHandle \in HandleRecords /\ Perf!NoHandle.pc = "new" BY <1>1 DEF Perf!NoHandle, HandleRecords, HandleStops
<1>4. flushes \in [Flushes -> FlushRecords] /\ \A f \in Flushes : flushes[f] = Perf!NoFlush BY <1>2 DEF Perf!Init, RunsWith
<1>5. handles \in [Perf!Handles -> HandleRecords] /\ \A h \in Perf!Handles : handles[h] = Perf!NoHandle BY <1>3 DEF Perf!Init
<1>6. uploaded \in [Perf!Handles -> Nat] /\ \A h \in Perf!Handles : uploaded[h] = 0 BY DEF Perf!Init
<1>7. backend \in {"memory", "file", "indexedDb"} /\ queue = <<>> /\ file = <<>> /\ perfDisturbed = FALSE BY DEF Perf!Init
<1>8. PerfTyped BY <1>1, <1>4, <1>5, <1>6, <1>7 DEF PerfTyped
<1>9. Batches
  <2>1. \A f \in Flushes : Len(flushes[f].batch) <= BatchSize /\ (flushes[f].batch = <<>> <=> flushes[f].pc \in {"idle", "draining", "loaded"})
    BY <1>2, <1>4 DEF RunsWith
  <2>2. \A f \in Flushes : flushes[f].pc \notin {"loaded", "reloaded"} BY <1>2, <1>4
  <2>3. \A h \in Perf!Handles : handles[h].pc # "putting" BY <1>3, <1>5
  <2> QED BY <2>1, <2>2, <2>3 DEF Batches
<1>10. Reading BY <1>2, <1>3, <1>4, <1>5 DEF Reading
<1>11. Perf!Queued = <<>> BY <1>7 DEF Perf!Queued
<1>12. \A h \in Perf!Handles : ~Holds(Perf!Queued, h) /\ uploaded[h] = 0 /\ handles[h].pc # "kept" BY <1>3, <1>5, <1>6, <1>11, EmptyHolds
<1>13. \A f \in Flushes : Once(flushes[f].batch) /\ \A h \in Perf!Handles : ~Holds(flushes[f].batch, h) BY <1>2, <1>4, EmptyHolds
<1>14. Once(Perf!Queued) BY <1>11, EmptyHolds
<1>15. Placed BY <1>12, <1>13, <1>14 DEF Placed
<1> QED BY <1>7, <1>8, <1>9, <1>10, <1>15 DEF PerfInv

\* A record that is in one place counts once.
LEMMA InIsOnce ==
  ASSUME NEW b \in Seq(Perf!Handles), Once(b), NEW h \in Perf!Handles
  PROVE  Perf!In(h, b) = IF Holds(b, h) THEN 1 ELSE 0
BY ArrivedAddsOne DEF Perf!In, Perf!Cardinality, Cardinality

LEMMA PlacedIsOnce ==
  ASSUME PerfInv, ~perfDisturbed, NEW h \in Perf!Handles
  PROVE  Perf!Waiting(h) <= 1 /\ (Perf!Handle(h, "kept") => Perf!Waiting(h) = 1)
<1>1. PerfTyped /\ Batches /\ Placed BY DEF PerfInv
<1>2. PICK q : q = Perf!In(h, Perf!Queued) OBVIOUS
<1>3. q = IF Holds(Perf!Queued, h) THEN 1 ELSE 0 BY <1>1, <1>2, QueuedTyped, PlacedFacts, InIsOnce
<1>4. PICK u : u = uploaded[h] OBVIOUS
<1>5. u \in {0, 1} BY <1>1, <1>4, PlacedFacts
<1>6. PICK B : B = {f \in Flushes : Perf!In(h, flushes[f].batch) > 0 /\ ~Perf!Flush(f, "loaded")} OBVIOUS
<1>7. PICK b : b = Cardinality(B) OBVIOUS
<1>8. \A f \in Flushes : f \in B <=> Holds(flushes[f].batch, h)
  <2> SUFFICES ASSUME NEW f \in Flushes PROVE f \in B <=> Holds(flushes[f].batch, h) OBVIOUS
  <2>1. PICK a : a = flushes[f].batch OBVIOUS
  <2>2. a \in Seq(Perf!Handles) /\ Once(a) BY <1>1, <2>1, PlacedFacts DEF PerfTyped, FlushRecords
  <2>3. Perf!In(h, a) = IF Holds(a, h) THEN 1 ELSE 0 BY <2>2, InIsOnce
  <2>4. flushes[f].pc = "loaded" => ~Holds(a, h) BY <1>1, <2>1, EmptyHolds DEF Batches
  <2>5. Perf!In(h, a) > 0 <=> Holds(a, h) BY <2>3
  <2> QED BY <1>6, <2>1, <2>4, <2>5 DEF Perf!Flush
<1>9. CASE \E f \in Flushes : Holds(flushes[f].batch, h)
  <2>1. PICK f \in Flushes : Holds(flushes[f].batch, h) BY <1>9
  <2>2. \A g \in Flushes : g # f => ~Holds(flushes[g].batch, h) BY <1>1, <2>1, PlacedFacts
  <2>3. B = {f} BY <1>6, <1>8, <2>1, <2>2
  <2>4. b = 1 BY <1>7, <2>3, FS_Singleton
  <2>5. ~Holds(Perf!Queued, h) /\ uploaded[h] # 1 BY <1>1, <2>1, PlacedFacts
  <2>6. handles[h].pc = "kept" BY <1>1, <2>1, PlacedFacts
  <2>7. ~(Perf!Handle(h, "pushing") \/ Perf!Handle(h, "putting")) BY <2>6 DEF Perf!Handle
  <2>8. q = 0 /\ u = 0 BY <1>3, <1>4, <1>5, <2>5
  <2>9. Perf!Waiting(h) = q + u + b + 0 BY <1>2, <1>4, <1>6, <1>7, <2>7 DEF Perf!Waiting, Perf!Cardinality, Cardinality
  <2> QED BY <2>4, <2>8, <2>9
<1>10. CASE ~\E f \in Flushes : Holds(flushes[f].batch, h)
  <2>1. B = {} BY <1>6, <1>8, <1>10
  <2>2. b = 0 BY <1>7, <2>1, FS_EmptySet
  <2>3. u = 1 => ~Holds(Perf!Queued, h) BY <1>1, <1>4, PlacedFacts
  <2>4. handles[h].pc = "kept" <=> Holds(Perf!Queued, h) \/ u = 1 BY <1>1, <1>4, <1>10, PlacedFacts
  <2>5. CASE handles[h].pc = "kept"
    <3>1. ~(Perf!Handle(h, "pushing") \/ Perf!Handle(h, "putting")) BY <2>5 DEF Perf!Handle
    <3>2. q + u = 1 BY <1>3, <1>5, <2>3, <2>4, <2>5
    <3>3. Perf!Waiting(h) = q + u + b + 0 BY <1>2, <1>4, <1>6, <1>7, <3>1 DEF Perf!Waiting, Perf!Cardinality, Cardinality
    <3> QED BY <2>2, <3>2, <3>3
  <2>6. CASE handles[h].pc # "kept"
    <3>1. q = 0 /\ u = 0 BY <1>3, <1>5, <2>4, <2>6
    <3>2. PICK w : w = IF Perf!Handle(h, "pushing") \/ Perf!Handle(h, "putting") THEN 1 ELSE 0 OBVIOUS
    <3>3. w \in {0, 1} BY <3>2
    <3>4. Perf!Waiting(h) = q + u + b + w BY <1>2, <1>4, <1>6, <1>7, <3>2 DEF Perf!Waiting, Perf!Cardinality, Cardinality
    <3>5. ~Perf!Handle(h, "kept") BY <2>6 DEF Perf!Handle
    <3>6. q + u + b + w <= 1 BY <2>2, <3>1, <3>3
    <3> QED BY <3>4, <3>5, <3>6
  <2> QED BY <2>5, <2>6
<1> QED BY <1>9, <1>10

LEMMA PerfMeans == PerfInv => Perf!TypeOK /\ Perf!RecordsAreUploadedOnce
<1> SUFFICES ASSUME PerfInv PROVE Perf!TypeOK /\ Perf!RecordsAreUploadedOnce OBVIOUS
<1>1. Perf!TypeOK
  <2>1. \A f \in Flushes : Len(flushes[f].batch) <= BatchSize BY DEF PerfInv, Batches
  <2>2. \A h \in Perf!Handles : handles[h].pc \in HandleStops BY DEF PerfInv, PerfTyped, HandleRecords
  <2>3. backend # "file" => file \in Seq(Perf!Handles) BY DEF PerfInv, PerfTyped
  <2> QED BY <2>1, <2>2, <2>3 DEF Perf!TypeOK, HandleStops
<1>2. Perf!RecordsAreUploadedOnce BY PlacedIsOnce DEF Perf!RecordsAreUploadedOnce
<1> QED BY <1>1, <1>2

\* Traces and network requests (api.rs, storage.rs, transport.rs): for any number
\* of handles and flushes under way at once, a record that was kept is in the queue,
\* in one flush's batch or uploaded, and in one of these alone; uploads refused and
\* put back, overlapping flushes, failing drains and restarts neither lose nor repeat
\* it.  Not covered, and lost by the code: what a failing push into IndexedDB drops,
\* the record's own or that of requeue, which gives up the rest of its batch
\* (transport.rs:104-114).  Nor is anything said once an answer of the endpoint or a
\* write of the file was lost, or IndexedDB was read by one while another had it.
THEOREM TelemetryIsUploadedOnce ==
  ASSUME Perf!ConstantsOK
  PROVE  Perf!Spec => [](Perf!TypeOK /\ Perf!RecordsAreUploadedOnce)
<1>1. Perf!Init => PerfInv BY PerfStarts
<1>2. PerfInv /\ [Perf!Next]_(Perf!performanceVars) => PerfInv' BY PerfSteps
<1> QED BY <1>1, <1>2, PerfMeans, PTL DEF Perf!Spec
=============================================================================
