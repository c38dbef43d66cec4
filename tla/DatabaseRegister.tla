-------------------------- MODULE DatabaseRegister --------------------------
(***************************************************************************)
(* What run_transaction promises: the location is one register, and a      *)
(* transaction applies its update to the value the register has at that    *)
(* instant, at most once, and reports `committed` only if it did.          *)
(***************************************************************************)
EXTENDS Naturals

CONSTANTS Clients,      \* transactions
          Limit,        \* the update of every transaction: add one below Limit
          MaxValue      \* bound: the largest value

VARIABLES value,    \* the register
          applied,  \* transactions whose update took effect
          outcome   \* what each transaction reported

regVars == <<value, applied, outcome>>

Outcomes == {"running", "committed", "aborted", "failed"}

Init ==
  /\ value = 0
  /\ applied = {}
  /\ outcome = [c \in Clients |-> "running"]

\* Other writers.
Write(v) == value' = v /\ UNCHANGED <<applied, outcome>>

Apply(c) ==
  /\ outcome[c] = "running" /\ c \notin applied /\ value < Limit
  /\ value' = value + 1
  /\ applied' = applied \cup {c}
  /\ UNCHANGED outcome

\* Committed means applied; aborted and failed say nothing of the effect but
\* that an aborted transaction had none.
Report(c, result) ==
  /\ outcome[c] = "running"
  /\ result = "committed" => c \in applied
  /\ result = "aborted" => c \notin applied
  /\ outcome' = [outcome EXCEPT ![c] = result]
  /\ UNCHANGED <<value, applied>>

Next ==
  \/ \E v \in 0 .. MaxValue : Write(v)
  \/ \E c \in Clients : Apply(c) \/ \E result \in Outcomes \ {"running"} : Report(c, result)

Spec == Init /\ [][Next]_regVars
=============================================================================
