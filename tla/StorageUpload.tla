--------------------------- MODULE StorageUpload ---------------------------
(***************************************************************************)
(* A Cloud Storage UploadTask (upload.rs): the driver that runs it to the  *)
(* end, the controllers that pause, resume, cancel and observe it through  *)
(* handles from other threads, the request loop below it                   *)
(* (request/transport.rs, builders.rs), and the upload session on the      *)
(* server, which is external.  A step is what a thread does between two    *)
(* locks or awaits.  Data is counted in chunks.                            *)
(***************************************************************************)
EXTENDS Integers, FiniteSets

CONSTANTS Controllers,  \* threads that hold a handle
          Sizes,        \* payload sizes; more than 1 is resumable
          MaxChunk,     \* MAX_RESUMABLE_CHUNK_SIZE in chunks
          MaxAttempts,  \* bound: attempts of a request (max_attempts, timeout)
          MaxControls   \* bound: control calls

VARIABLES task,      \* TaskState and the fields of UploadTask
          driver,    \* where the driver is
          request,   \* the request it awaits
          session,   \* server: the upload session and the object
          registry,  \* ObserverRegistry with one observer
          emitting,  \* threads inside emit
          controls,  \* control calls made
          seen,      \* last state the observer was shown
          missed     \* history: a change fell between snapshot and take

upVars == <<task, driver, request, session, registry, emitting, controls, seen, missed>>

Driver == "driver"
Threads == Controllers \cup {Driver}
States == {"pending", "running", "paused", "completed", "error", "canceled"}
NoRequest == [kind |-> "none", from |-> 0, to |-> 0, attempt |-> 0, answer |-> "none"]
Quiet == [at |-> "no", state |-> "pending"]

TaskType == [state : States, transferred : Nat, total : Sizes, url : BOOLEAN, notified : BOOLEAN,
             mult : 1 .. MaxChunk, recorded : BOOLEAN]
RequestType == [kind : {"none", "create", "chunk", "multipart", "cancel", "query"}, from : Nat, to : Nat,
                attempt : 0 .. MaxAttempts, answer : {"none", "active", "final", "failed", "canceled"}]
SessionType == [status : {"none", "active", "final", "canceled"}, received : Nat, object : BOOLEAN]
RegistryType == [observer : {"none", "listed", "taken"}, removed : BOOLEAN, dispatching : BOOLEAN, pending : BOOLEAN]
EmittingType == [Threads -> [at : {"no", "enter", "snapshot", "take", "restore"}, state : States]]

TypeOK ==
  /\ task \in TaskType /\ request \in RequestType /\ session \in SessionType
  /\ driver \in {"idle", "requesting", "answered", "recording", "returned"}
  /\ registry \in RegistryType /\ emitting \in EmittingType
  /\ controls \in 0 .. MaxControls
  /\ seen \in States \cup {"nothing"}
  /\ missed \in BOOLEAN

\* UploadTask::new
Init ==
  /\ task \in {[state |-> "pending", transferred |-> 0, total |-> n, url |-> FALSE, notified |-> FALSE,
                mult |-> 1, recorded |-> FALSE] : n \in Sizes}
  /\ driver = "idle"
  /\ request = NoRequest
  /\ session = [status |-> "none", received |-> 0, object |-> FALSE]
  /\ registry = [observer |-> "none", removed |-> FALSE, dispatching |-> FALSE, pending |-> FALSE]
  /\ emitting = [t \in Threads |-> Quiet]
  /\ controls = 0
  /\ seen = "nothing"
  /\ missed = FALSE

resumable == task.total > 1
Terminal == {"completed", "error", "canceled"}

(***************************************************************************)
(* Observers: emit, one action per lock it takes.                          *)
(***************************************************************************)
Free(t) == emitting[t].at = "no"
emit(t) == emitting' = [emitting EXCEPT ![t] = [at |-> "enter", state |-> "pending"]]
emitVars == <<task, driver, request, session, controls>>

\* Another dispatch will deliver, nobody listens, or this one delivers.
EmitEnter(t) ==
  /\ emitting[t].at = "enter"
  /\ \/ /\ registry.dispatching
        /\ registry' = [registry EXCEPT !.pending = TRUE]
        /\ missed' = (missed \/ \E u \in Threads : emitting[u].at = "take")
        /\ emitting' = [emitting EXCEPT ![t] = Quiet]
     \/ /\ ~registry.dispatching /\ registry.observer = "none"
        /\ emitting' = [emitting EXCEPT ![t] = Quiet]
        /\ UNCHANGED <<registry, missed>>
     \/ /\ ~registry.dispatching /\ registry.observer # "none"
        /\ registry' = [registry EXCEPT !.dispatching = TRUE]
        /\ emitting' = [emitting EXCEPT ![t].at = "snapshot"]
        /\ UNCHANGED missed
  /\ UNCHANGED <<emitVars, seen>>

EmitSnapshot(t) ==
  /\ emitting[t].at = "snapshot"
  /\ emitting' = [emitting EXCEPT ![t] = [at |-> "take", state |-> task.state]]
  /\ UNCHANGED <<emitVars, registry, seen, missed>>

\* `pending` is cleared, the observers are taken and called without a lock.
EmitTake(t) ==
  /\ emitting[t].at = "take"
  /\ registry' = [registry EXCEPT !.pending = FALSE, !.observer = IF @ = "listed" THEN "taken" ELSE @]
  /\ seen' = IF registry.observer = "listed" THEN emitting[t].state ELSE seen
  /\ emitting' = [emitting EXCEPT ![t].at = "restore"]
  /\ UNCHANGED <<emitVars, missed>>

\* Observers return unless removed meanwhile; another round if needed.
EmitRestore(t) ==
  /\ emitting[t].at = "restore"
  /\ LET left == IF registry.removed THEN "none" ELSE IF registry.observer = "none" THEN "none" ELSE "listed"
         again == registry.pending /\ left # "none"
     IN /\ registry' = [observer |-> left, removed |-> FALSE, dispatching |-> again,
                        pending |-> registry.pending /\ again]
        /\ emitting' = [emitting EXCEPT ![t] = IF again THEN [@ EXCEPT !.at = "snapshot"] ELSE Quiet]
  /\ UNCHANGED <<emitVars, seen, missed>>

Emit(t) == EmitEnter(t) \/ EmitSnapshot(t) \/ EmitTake(t) \/ EmitRestore(t)

\* on_state_changed and the closure it returns.
Observe(t) ==
  /\ t \in Controllers /\ Free(t) /\ controls < MaxControls
  /\ controls' = controls + 1
  /\ \/ /\ registry.observer = "none" /\ ~registry.removed
        /\ registry' = [registry EXCEPT !.observer = "listed"]
        /\ seen' = "nothing"
     \/ /\ registry.observer # "none"
        /\ registry' = [registry EXCEPT !.observer = IF @ = "listed" THEN "none" ELSE @,
                                        !.removed = registry.dispatching]
        /\ UNCHANGED seen
  /\ UNCHANGED <<task, driver, request, session, emitting, missed>>

(***************************************************************************)
(* Control: pause, resume, cancel through transition.                      *)
(***************************************************************************)
transition(t, from, next) ==
  /\ task.state \in from
  /\ task' = [task EXCEPT !.state = next]
  /\ emit(t)

Control(t) ==
  /\ t \in Controllers /\ Free(t) /\ controls < MaxControls
  /\ controls' = controls + 1
  /\ \/ transition(t, {"pending", "running"}, "paused")
     \/ transition(t, {"paused"}, "running")
     \/ transition(t, {"pending", "running", "paused"}, "canceled")
  /\ UNCHANGED <<driver, request, session, registry, seen, missed>>

(***************************************************************************)
(* HttpClient::execute and the server.                                     *)
(***************************************************************************)
sends(kind, from, to) ==
  /\ driver' = "requesting"
  /\ request' = [kind |-> kind, from |-> from, to |-> to, attempt |-> 1, answer |-> "none"]

\* What the server makes of the request.  A chunk that is not at the end of
\* what it has is refused, as is any command for a session it closed.
SessionAfter ==
  CASE request.kind = "create" -> [session EXCEPT !.status = "active", !.received = 0]
    [] request.kind = "multipart" -> [session EXCEPT !.object = TRUE, !.received = request.to]
    [] request.kind = "chunk" /\ session.status = "active" /\ session.received = request.from ->
         [status |-> IF request.to = task.total THEN "final" ELSE "active", received |-> request.to,
          object |-> request.to = task.total]
    [] request.kind = "cancel" /\ session.status = "active" -> [session EXCEPT !.status = "canceled"]
    [] OTHER -> session

AnswerOf ==
  CASE request.kind \in {"create", "cancel"} -> "active"
    [] request.kind = "multipart" -> "final"
    [] request.kind = "query" -> session.status
    [] request.kind = "chunk" -> IF SessionAfter # session THEN SessionAfter.status
                                 ELSE IF session.status = "canceled" THEN "canceled" ELSE "failed"

answers(a) == driver' = "answered" /\ request' = [request EXCEPT !.answer = a]

\* can_retry: a network failure or a retryable status is tried again while
\* attempts and time are left.
retries ==
  \/ request.attempt < MaxAttempts /\ request' = [request EXCEPT !.attempt = @ + 1] /\ UNCHANGED driver
  \/ answers("failed")

\* One attempt: served and answered, served and the answer lost, or not served.
Attempt ==
  /\ driver = "requesting"
  /\ \/ session' = SessionAfter /\ answers(AnswerOf)
     \/ session' = SessionAfter /\ retries
     \/ UNCHANGED session /\ retries
  /\ UNCHANGED <<task, registry, emitting, controls, seen, missed>>

(***************************************************************************)
(* The driver: run_to_completion around upload_next_with_progress.         *)
(***************************************************************************)
driverRest == <<session, registry, controls, seen, missed>>

\* finish_cancellation, up to its request.
cancels ==
  IF ~task.notified /\ task.url
  THEN task' = [task EXCEPT !.notified = TRUE] /\ sends("cancel", 0, 0) /\ UNCHANGED emitting
  ELSE /\ task' = [task EXCEPT !.notified = TRUE, !.recorded = TRUE]
       /\ driver' = "returned" /\ request' = NoRequest
       /\ IF task.recorded THEN UNCHANGED emitting ELSE emit(Driver)

\* UploadShared::fail, whatever the state is by now.
fails ==
  /\ task' = [task EXCEPT !.state = "error", !.mult = 1, !.recorded = TRUE]
  /\ driver' = "returned" /\ request' = NoRequest
  /\ emit(Driver)

\* start_offset and end_offset of the next chunk.
next_chunk ==
  [from |-> task.transferred,
   to |-> IF task.transferred + task.mult < task.total THEN task.transferred + task.mult ELSE task.total]

\* The top of a turn: the state decides, then the session, then the chunk.
DriverTurns ==
  /\ driver = "idle" /\ Free(Driver)
  /\ \/ task.state = "canceled" /\ cancels
     \/ /\ task.state = "pending"
        /\ task' = [task EXCEPT !.state = "running"]
        /\ emit(Driver)
        /\ UNCHANGED <<driver, request>>
     \/ /\ task.state = "running"
        /\ IF ~resumable THEN sends("multipart", 0, task.total)
           ELSE IF ~task.url THEN sends("create", 0, 0)
           ELSE sends("chunk", next_chunk.from, next_chunk.to)
        /\ UNCHANGED <<task, emitting>>
  /\ UNCHANGED driverRest

\* refresh_status between two turns.
DriverAsksStatus ==
  /\ driver = "idle" /\ Free(Driver) /\ task.url /\ task.state \notin Terminal
  /\ sends("query", 0, 0)
  /\ UNCHANGED <<task, emitting, driverRest>>

\* The answer: the state is looked at, then the answer is recorded.
DriverLooks ==
  /\ driver = "answered" /\ Free(Driver)
  /\ CASE request.kind = "create" ->
            IF request.answer = "failed" THEN fails
            ELSE task' = [task EXCEPT !.url = TRUE] /\ driver' = "idle" /\ request' = NoRequest /\ UNCHANGED emitting
       [] request.kind = "query" ->
            /\ IF request.answer \in {"active", "final"}
               THEN task' = [task EXCEPT !.transferred = session.received] /\ emit(Driver)
               ELSE UNCHANGED <<task, emitting>>
            /\ driver' = "idle" /\ request' = NoRequest
       [] request.kind = "cancel" ->
            /\ task' = [task EXCEPT !.recorded = TRUE]
            /\ IF task.recorded THEN UNCHANGED emitting ELSE emit(Driver)
            /\ driver' = "returned" /\ request' = NoRequest
       [] request.kind = "multipart" ->
            IF request.answer = "failed" THEN fails
            ELSE IF task.state = "canceled" THEN cancels
            ELSE driver' = "recording" /\ UNCHANGED <<task, request, emitting>>
       [] request.kind = "chunk" ->
            IF task.state = "canceled" THEN cancels
            ELSE IF request.answer \in {"failed", "canceled"} THEN fails
            ELSE driver' = "recording" /\ UNCHANGED <<task, request, emitting>>
  /\ UNCHANGED driverRest

\* bump_multiplier
Bumped == IF 2 * task.mult <= MaxChunk THEN 2 * task.mult ELSE task.mult

\* Mutant of DriverRecords: the end of the range is taken for inclusive.
DriverRecords_InclusiveEnd ==
  /\ driver = "recording" /\ Free(Driver)
  /\ IF request.answer = "final"
     THEN task' = [task EXCEPT !.transferred = task.total, !.state = "completed"] /\ driver' = "returned"
     ELSE task' = [task EXCEPT !.transferred = request.to + 1, !.mult = Bumped] /\ driver' = "idle"
  /\ request' = NoRequest
  /\ emit(Driver)
  /\ UNCHANGED driverRest

\* set_transferred, then complete or the next turn: a cancel since the look
\* is overwritten by complete.
DriverRecords ==
  /\ driver = "recording" /\ Free(Driver)
  /\ IF request.answer = "final"
     THEN task' = [task EXCEPT !.transferred = task.total, !.state = "completed"] /\ driver' = "returned"
     ELSE task' = [task EXCEPT !.transferred = request.to, !.mult = Bumped] /\ driver' = "idle"
  /\ request' = NoRequest
  /\ emit(Driver)
  /\ UNCHANGED driverRest

DriverStep == Attempt \/ DriverTurns \/ DriverAsksStatus \/ DriverLooks \/ DriverRecords

Next == DriverStep \/ \E t \in Threads : Emit(t) \/ Observe(t) \/ Control(t)

Spec == Init /\ [][Next]_upVars
-----------------------------------------------------------------------------
\* The doc of bytes_transferred: uploaded and acknowledged by the server.  The
\* client never counts bytes the server lacks, through retries and status
\* queries, and a completed task has an object with all of them.
ProgressIsAcknowledged ==
  /\ task.transferred <= session.received
  /\ task.state = "completed" => session.object /\ session.received = task.total

\* Once no thread is inside emit, an observer that was shown anything was shown
\* the current state, unless a change fell between a snapshot and the moment
\* that `pending` is cleared.
ObserversSeeTheLastState ==
  (\A t \in Threads : Free(t)) /\ registry.observer = "listed" /\ seen # "nothing" /\ ~missed
    => seen = task.state

\* Both, and the types of the variables: what a run checks and StorageUploadProofs
\* proves.
UploadsReportTheTruth == TypeOK /\ ProgressIsAcknowledged /\ ObserversSeeTheLastState

\* What the theorems ask of the constants.
ConstantsOK ==
  /\ Sizes \subseteq Nat
  /\ MaxChunk \in Nat \ {0} /\ MaxAttempts \in Nat \ {0} /\ MaxControls \in Nat

\* The request in flight fits the task: a session is created, or the whole body
\* sent, only before there is a session; a chunk begins no later than it ends.
RequestFits ==
  driver \in {"requesting", "answered", "recording"} =>
    /\ request.kind # "none"
    /\ request.kind \in {"create", "multipart"} => ~task.url
    /\ request.kind = "create" => resumable
    /\ request.kind \in {"chunk", "query"} => task.url
    /\ request.kind = "multipart" => request.to = task.total
    /\ request.kind = "chunk" => request.from <= request.to /\ request.to <= task.total

\* An answer that is about to be recorded says what the server has.
AnswerIsTrue ==
  /\ driver \in {"answered", "recording"} =>
       /\ request.kind = "multipart" => request.answer \in {"final", "failed"}
       /\ request.kind = "chunk" => request.answer \in {"active", "final", "failed", "canceled"}
       /\ request.kind \in {"multipart", "chunk"} /\ request.answer = "final" =>
            session.object /\ session.received = task.total
       /\ request.kind = "chunk" /\ request.answer = "active" => session.received = request.to
  /\ driver = "recording" => request.kind \in {"multipart", "chunk"} /\ request.answer \in {"active", "final"}

Transfer ==
  /\ task.transferred <= session.received /\ session.received <= task.total
  /\ task.state = "completed" => driver = "returned" /\ session.object /\ session.received = task.total
  /\ ~task.url /\ driver # "returned" => task.transferred = 0
  /\ task.url => resumable

\* One thread at most dispatches, and a change that came meanwhile is noted.
Dispatching(t) == emitting[t].at \in {"snapshot", "take", "restore"}

OneDispatch ==
  /\ registry.dispatching <=> \E t \in Threads : Dispatching(t)
  /\ \A t, u \in Threads : Dispatching(t) /\ Dispatching(u) => t = u
  /\ registry.pending => registry.dispatching
  /\ registry.observer = "taken" => \E t \in Threads : emitting[t].at = "restore"

\* A snapshot that is to be shown is of the current state, or a thread is on its way
\* to tell of the change; and an observer that was shown another state will be called.
Entering == \E t \in Threads : emitting[t].at = "enter"

SnapshotIsCurrent ==
  \A t \in Threads : emitting[t].at = "take" => missed \/ Entering \/ emitting[t].state = task.state

WillBeShown ==
  \/ missed \/ seen = "nothing" \/ registry.observer = "none" \/ seen = task.state
  \/ Entering \/ registry.pending \/ \E t \in Threads : emitting[t].at \in {"snapshot", "take"}

IInv == TypeOK /\ RequestFits /\ AnswerIsTrue /\ Transfer /\ OneDispatch /\ SnapshotIsCurrent /\ WillBeShown

\* The doc of cancel: the session is discarded, so no object is created.
CanceledMeansNoObject == driver = "returned" /\ task.state = "canceled" => ~session.object
=============================================================================
