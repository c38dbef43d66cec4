------------------------ MODULE DatabaseTransaction ------------------------
(***************************************************************************)
(* DatabaseReference::run_transaction over the REST backend (api.rs,       *)
(* backend.rs): a read with its ETag, the closure, a write with if-match,  *)
(* and the closure again on the data of a 412, MAX_TRANSACTION_ATTEMPTS    *)
(* times.  The other writes of the API are the register's environment.     *)
(*                                                                         *)
(* The location holds a number, 0 for null; the ETag of a value is a hash  *)
(* of it, so a value is its own version.  The closure adds one below Limit *)
(* and aborts otherwise.  A request or its answer may be lost.             *)
(***************************************************************************)
EXTENDS Naturals

CONSTANTS Clients,      \* tasks that run one transaction each
          Limit,        \* the closure returns None from here on
          MaxAttempts,  \* MAX_TRANSACTION_ATTEMPTS
          MaxValue,     \* bound: the largest value
          MaxWrites,    \* bound: writes of others
          NullIs404     \* the server answers a read of null with 404 and no ETag

VARIABLES stored,    \* the location at the server
          runs,      \* each transaction: its read, its request, its attempts
          applied,   \* history: transactions whose write took effect
          outcome,   \* what each transaction returned
          others     \* writes of others so far

txVars == <<stored, runs, applied, outcome, others>>

\* The bounds leave room for the updates, and the server gives an ETag with null.
ConstantsOK ==
  /\ Limit \in Nat /\ MaxValue \in Nat /\ Limit <= MaxValue
  /\ MaxAttempts \in Nat /\ MaxWrites \in Nat /\ NullIs404 = FALSE

NoVersion == MaxValue + 1
Values == 0 .. MaxValue

TypeOK ==
  /\ stored \in Values
  /\ runs \in [Clients -> [pc : {"read", "update", "request", "reply", "done"}, value : Values, version : 0 .. NoVersion,
                           new : Values, ok : BOOLEAN, attempts : 0 .. MaxAttempts]]
  /\ applied \in SUBSET Clients
  /\ outcome \in [Clients -> {"running", "committed", "aborted", "failed"}]
  /\ others \in 0 .. MaxWrites

Init ==
  /\ stored = 0
  /\ runs = [c \in Clients |-> [pc |-> "read", value |-> 0, version |-> 0, new |-> 0, ok |-> FALSE, attempts |-> 0]]
  /\ applied = {}
  /\ outcome = [c \in Clients |-> "running"]
  /\ others = 0

At(c, pc) == runs[c].pc = pc

\* The version a read of this value carries.
version_tag(value) == IF NullIs404 /\ value = 0 THEN NoVersion ELSE value

returns(c, result) ==
  /\ outcome' = [outcome EXCEPT ![c] = result]
  /\ runs' = [runs EXCEPT ![c].pc = "done"]

\* read_for_update; an error ends the transaction.
ReadForUpdate(c) ==
  /\ At(c, "read")
  /\ \/ /\ runs' = [runs EXCEPT ![c].pc = "update", ![c].value = stored, ![c].version = version_tag(stored)]
        /\ UNCHANGED outcome
     \/ returns(c, "failed")
  /\ UNCHANGED <<stored, applied, others>>

\* One turn of the loop: the closure runs on what was read.
Update(c) ==
  /\ At(c, "update")
  /\ CASE runs[c].attempts = MaxAttempts -> returns(c, "failed")
       [] runs[c].attempts < MaxAttempts /\ runs[c].value >= Limit -> returns(c, "aborted")
       [] OTHER -> /\ runs' = [runs EXCEPT ![c].pc = "request", ![c].new = runs[c].value + 1, ![c].attempts = @ + 1]
                   /\ UNCHANGED outcome
  /\ UNCHANGED <<stored, applied, others>>

\* Mutant of matches: the precondition is not sent.
matches_Always(version) == TRUE

\* The server's if-match: without a version the write is unconditional.
matches(version) == version = NoVersion \/ version = stored

\* compare_and_set reaches the server, or never does.
CompareAndSet(c) ==
  /\ At(c, "request")
  /\ \/ /\ matches(runs[c].version)
        /\ stored' = runs[c].new
        /\ applied' = applied \cup {c}
        /\ runs' = [runs EXCEPT ![c].pc = "reply", ![c].ok = TRUE]
        /\ UNCHANGED outcome
     \/ /\ ~matches(runs[c].version)
        /\ runs' = [runs EXCEPT ![c].pc = "reply", ![c].ok = FALSE, ![c].value = stored, ![c].version = stored]
        /\ UNCHANGED <<stored, applied, outcome>>
     \/ returns(c, "failed") /\ UNCHANGED <<stored, applied>>
  /\ UNCHANGED others

\* Its answer: committed, or a conflict that carries the data; a lost answer
\* is an error and is not retried.
Answer(c) ==
  /\ At(c, "reply")
  /\ \/ runs[c].ok /\ returns(c, "committed")
     \/ /\ ~runs[c].ok
        /\ runs' = [runs EXCEPT ![c].pc = "update"]
        /\ UNCHANGED outcome
     \/ returns(c, "failed")
  /\ UNCHANGED <<stored, applied, others>>

\* set, remove, update, set_priority and the writes of other clients; an
\* increment is resolved by the server.
OtherWrites ==
  /\ others < MaxWrites
  /\ others' = others + 1
  /\ stored' \in Values
  /\ UNCHANGED <<runs, applied, outcome>>

Next == OtherWrites \/ \E c \in Clients : ReadForUpdate(c) \/ Update(c) \/ CompareAndSet(c) \/ Answer(c)

Spec == Init /\ [][Next]_txVars

-----------------------------------------------------------------------------
\* What the transactions know of themselves: before its request a transaction has
\* had no effect, the request in flight adds one to the value whose version it
\* carries, and the answer that waits is ok just if the write took effect.
RequestsAreExact ==
  \A c \in Clients :
    /\ At(c, "done") <=> outcome[c] # "running"
    /\ runs[c].pc \in {"read", "update", "request"} => c \notin applied
    /\ At(c, "reply") => (runs[c].ok <=> c \in applied)
    /\ runs[c].pc \in {"update", "request"} \/ (At(c, "reply") /\ ~runs[c].ok) => runs[c].version = runs[c].value
    /\ At(c, "request") => runs[c].value < Limit /\ runs[c].new = runs[c].value + 1

IInv == TypeOK /\ RequestsAreExact

Register == INSTANCE DatabaseRegister WITH value <- stored

\* The doc of run_transaction: "the same 25 attempts and the same final
\* guarantee" as the JS SDK.  Every step is a step of the register: an update
\* is applied to the value the location has at that instant, once, and
\* `committed` is reported for nothing else.
ImplementsRegister == Register!Spec
============================================================================
