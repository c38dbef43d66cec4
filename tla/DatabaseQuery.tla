---------------------------- MODULE DatabaseQuery ----------------------------
(***************************************************************************)
(* Realtime Database queries (query.rs and DatabaseQuery in api.rs), built *)
(* constraint by constraint and sent as REST parameters.                   *)
(***************************************************************************)
EXTENDS Naturals, Sequences, FiniteSets

CONSTANTS Bounds,          \* values and names of bounds
          Limits,          \* limits given, 0 among them
          MaxConstraints   \* bound: constraints of a query

VARIABLES params,   \* QueryParams
          given,    \* the constraints given so far
          refused   \* the query was dropped with an error

dqVars == <<params, given, refused>>

None == "none"
Indexes == {"$key", "$value", "$priority", "child"}

Constraints ==
  [op : {"orderBy"}, arg : Indexes \cup {"badChild"}]
  \cup [op : {"startAt", "startAfter", "endAt", "endBefore", "equalTo"}, arg : Bounds]
  \cup [op : {"limitToFirst", "limitToLast"}, arg : Limits]

Init ==
  /\ params = [index |-> "$priority", ordered |-> FALSE, start |-> <<>>, end |-> <<>>, limit |-> <<>>]
  /\ given = <<>>
  /\ refused = FALSE

\* The setters, each of which refuses a second call.
set_index(q) == ~q.ordered

\* Mutant of set_start: a second start replaces the first.
set_start_Replaces(q) == TRUE

set_start(q) == q.start = <<>>

set_end(q) == q.end = <<>>
set_limit(q) == q.limit = <<>>

\* QueryConstraint::apply: whether a constraint is taken ...
accepts(q, c) ==
  CASE c.op = "orderBy" -> c.arg # "badChild" /\ set_index(q)
    [] c.op \in {"startAt", "startAfter"} -> set_start(q)
    [] c.op \in {"endAt", "endBefore"} -> set_end(q)
    [] c.op = "equalTo" -> set_start(q) /\ set_end(q)
    [] OTHER -> c.arg > 0 /\ set_limit(q)

\* ... and what it makes of the query.
apply(q, c) ==
  CASE c.op = "orderBy" -> [q EXCEPT !.index = c.arg, !.ordered = TRUE]
    [] c.op \in {"startAt", "startAfter"} -> [q EXCEPT !.start = <<[value |-> c.arg, inclusive |-> c.op = "startAt"]>>]
    [] c.op \in {"endAt", "endBefore"} -> [q EXCEPT !.end = <<[value |-> c.arg, inclusive |-> c.op = "endAt"]>>]
    [] c.op = "equalTo" -> LET bound == <<[value |-> c.arg, inclusive |-> TRUE]>>
                           IN [q EXCEPT !.start = bound, !.end = bound]
    [] OTHER -> [q EXCEPT !.limit = <<c>>]

Constrain(c) ==
  /\ ~refused /\ Len(given) < MaxConstraints
  /\ given' = Append(given, c)
  /\ IF accepts(params, c) THEN params' = apply(params, c) /\ UNCHANGED refused
     ELSE refused' = TRUE /\ UNCHANGED params

is_default(q) == ~q.ordered /\ q.index = "$priority" /\ q.start = <<>> /\ q.end = <<>> /\ q.limit = <<>>

\* The parameters, as a set of pairs: names are unique and the server does not
\* look at their order.
to_rest_params(q) ==
  IF is_default(q) THEN {}
  ELSE {<<"orderBy", q.index>>}
       \cup {<<IF q.start[i].inclusive THEN "startAt" ELSE "startAfter", q.start[i].value>> : i \in DOMAIN q.start}
       \cup {<<IF q.end[i].inclusive THEN "endAt" ELSE "endBefore", q.end[i].value>> : i \in DOMAIN q.end}
       \cup {<<q.limit[i].op, q.limit[i].arg>> : i \in DOMAIN q.limit}

Next == \E c \in Constraints : Constrain(c)

Spec == Init /\ [][Next]_dqVars
-----------------------------------------------------------------------------
TypeOK ==
  /\ params.index \in Indexes
  /\ \A part \in {params.start, params.end, params.limit} : Len(part) <= 1
  /\ Len(given) <= MaxConstraints

Given(ops) == {i \in DOMAIN given : given[i].op \in ops}
Starts == {"startAt", "startAfter", "equalTo"}
Ends == {"endAt", "endBefore", "equalTo"}
LimitOps == {"limitToFirst", "limitToLast"}

\* A query is refused exactly when two constraints claim the same part or one
\* is invalid by itself; otherwise the server is sent every constraint given,
\* in whatever order, and an index only then.
QueryIsItsConstraints ==
  /\ refused <=> \/ \E ops \in {{"orderBy"}, Starts, Ends, LimitOps} : Cardinality(Given(ops)) > 1
                 \/ \E i \in DOMAIN given : (given[i].op = "orderBy" /\ given[i].arg = "badChild") \/ (given[i].op \in LimitOps /\ given[i].arg = 0)
  /\ ~refused =>
       to_rest_params(params) =
         UNION {CASE c.op = "equalTo" -> {<<"startAt", c.arg>>, <<"endAt", c.arg>>}
                  [] OTHER -> {<<c.op, c.arg>>} : c \in {given[i] : i \in DOMAIN given}}
         \cup (IF given = <<>> \/ Given({"orderBy"}) # {} THEN {} ELSE {<<"orderBy", "$priority">>})
=============================================================================
