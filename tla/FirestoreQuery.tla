--------------------------- MODULE FirestoreQuery ---------------------------
(***************************************************************************)
(* Firestore queries: building one (api/query.rs), the request it becomes  *)
(* (structured_query.rs), its evaluation by the in-memory store            *)
(* (query_evaluator.rs, in_memory.rs), aggregates, and paging with a       *)
(* document as the cursor.                                                 *)
(*                                                                         *)
(* A value is its place in the order of the types, its place within them,  *)
(* and whether a number is an integer or a double.  A document's name is a *)
(* number, its rank among the names.                                       *)
(***************************************************************************)
EXTENDS Integers, Sequences, FiniteSets, SequencesExt

CONSTANTS Names, Canonical, \* documents; their fields, in canonical order
          Groups,           \* the collection each document is in
          Contents,         \* what the collections may hold
          Cursors,          \* the values for cursors
          Leaves,           \* the field filters
          MaxDisjunctive,   \* elements of an `in`, `not-in` or `array-contains-any`
          MaxSteps          \* bound: constraints added

VARIABLES docs,   \* the documents
          query,  \* Query
          pages,  \* the names listed so far, page by page
          steps

queryVars == <<docs, query, pages, steps>>

Fields == ToSet(Canonical)

Value(type, rank, repr, elements) == [type |-> type, rank |-> rank, repr |-> repr, of |-> elements]
Missing == Value(-1, 0, "none", <<>>)
Null == Value(0, 0, "none", <<>>)
Number(n, repr) == Value(2, n, repr, <<>>)
String(n) == Value(4, n, "none", <<>>)
Reference(n) == Value(6, n, "none", <<>>)
Array(elements) == Value(8, 0, "none", elements)
Sentinel == Value(10, 0, "none", <<>>)
NaN == Number(-1, "double")   \* before every other number
DocumentId == "__name__"

Inequalities == {"<", "<=", ">", ">=", "!=", "not-in"}
Disjunctions == {"in", "not-in", "array-contains-any"}

NoBound == [values |-> <<>>, inclusive |-> FALSE]
NewQuery(group) == [group |-> group, filters |-> <<>>, order |-> <<>>, limit |-> 0, last |-> FALSE,
                    start |-> NoBound, end |-> NoBound, projection |-> {}]

TypeOK ==
  /\ docs \in Contents
  /\ query.limit \in Nat /\ query.last \in BOOLEAN /\ query.projection \subseteq Fields
  /\ pages \in Seq(Names) /\ steps \in 0 .. MaxSteps

Init ==
  /\ docs \in Contents
  /\ query \in {NewQuery(g) : g \in {Groups[n] : n \in Names}}
  /\ pages = <<>>
  /\ steps = 0

(***************************************************************************)
(* Building a query                                                        *)
(***************************************************************************)
\* ensure_value_supported, ensure_disjunctive_filter
ensure_value_supported(value) == value # NaN /\ value # Null

ensure_disjunctive_filter(value) ==
  /\ value.type = 8
  /\ Len(value.of) \in 1 .. MaxDisjunctive
  /\ \A i \in DOMAIN value.of : ensure_value_supported(value.of[i])

validate_leaf(leaf) ==
  /\ leaf.value # Sentinel
  /\ leaf.field = DocumentId => leaf.op \notin {"array-contains", "array-contains-any"}
  /\ leaf.op = "array-contains" => ensure_value_supported(leaf.value)
  /\ leaf.op \in Disjunctions => ensure_disjunctive_filter(leaf.value)
  /\ leaf.op = "!=" => leaf.value # NaN

\* A filter is a group of leaves; where_field adds a group of one.
leaves(q) == UNION {{q.filters[i].of[j] : j \in DOMAIN q.filters[i].of} : i \in DOMAIN q.filters}
inequality_fields(q) == {leaf.field : leaf \in {l \in leaves(q) : l.op \in Inequalities}}

\* The plain filters' field of inequality, which a further one must be on.
inequality_field(q) ==
  {q.filters[i].of[1].field : i \in {j \in DOMAIN q.filters : q.filters[j].op = "field" /\ q.filters[j].of[1].op \in Inequalities}}

validate_filter(q, leaf) ==
  /\ validate_leaf(leaf)
  /\ leaf.op \in Inequalities => inequality_field(q) \subseteq {leaf.field}

builds(q) == query' = q /\ steps < MaxSteps /\ steps' = steps + 1 /\ pages' = <<>> /\ UNCHANGED docs

WhereField(leaf) ==
  /\ validate_filter(query, leaf)
  /\ builds([query EXCEPT !.filters = Append(@, [op |-> "field", of |-> <<leaf>>])])

\* where_filter: an empty combination is refused.
WhereFilter(op, of) ==
  /\ of # <<>> /\ \A i \in DOMAIN of : validate_leaf(of[i])
  /\ builds([query EXCEPT !.filters = Append(@, [op |-> op, of |-> of])])

OrderBy(field, descending) ==
  /\ query.start = NoBound /\ query.end = NoBound
  /\ builds([query EXCEPT !.order = Append(@, [field |-> field, descending |-> descending])])

LimitTo(n) == n > 0 /\ builds([query EXCEPT !.limit = n, !.last = FALSE])

LimitToLast(n) == n > 0 /\ query.order # <<>> /\ builds([query EXCEPT !.limit = n, !.last = TRUE])

\* A second projection is refused, and so is an empty one.
Select(fields) == query.projection = {} /\ fields # {} /\ builds([query EXCEPT !.projection = fields])

\* The explicit order, the fields of inequalities that it lacks, the name.
normalized_order_by(q) ==
  LET descending == q.order # <<>> /\ Last(q.order).descending
      ordered(f) == \E i \in DOMAIN q.order : q.order[i].field = f
      extra == SelectSeq(Canonical, LAMBDA f : f \in inequality_fields(q) /\ ~ordered(f))
      all == q.order \o [i \in DOMAIN extra |-> [field |-> extra[i], descending |-> descending]]
  IN IF ordered(DocumentId) THEN all ELSE Append(all, [field |-> DocumentId, descending |-> descending])

apply_start_bound(q, values, inclusive) == [q EXCEPT !.start = [values |-> values, inclusive |-> inclusive]]
apply_end_bound(q, values, inclusive) == [q EXCEPT !.end = [values |-> values, inclusive |-> inclusive]]

\* start_at, start_after, end_at, end_before with values.
CursorAt(values, inclusive) ==
  /\ values # <<>>
  /\ \/ builds(apply_start_bound(query, values, inclusive))
     \/ builds(apply_end_bound(query, values, inclusive))

\* The fields of the order, and a reference to the document for its name; no
\* document that lacks one of them.
cursor_values_from_snapshot(q, n) ==
  LET order == normalized_order_by(q)
  IN [i \in DOMAIN order |-> IF order[i].field = DocumentId THEN Reference(n) ELSE docs[n][order[i].field]]

HasCursor(q, n) == Missing \notin ToSet(cursor_values_from_snapshot(q, n))

SnapshotCursor(n, inclusive) ==
  /\ HasCursor(query, n)
  /\ LET values == cursor_values_from_snapshot(query, n)
     IN \/ builds(apply_start_bound(query, values, inclusive))
        \/ builds(apply_end_bound(query, values, inclusive))

\* Mutant of definition: a query for the last documents keeps its bounds.
definition_KeepsBounds(q) ==
  LET order == normalized_order_by(q)
  IN [group |-> q.group, filters |-> q.filters, limit |-> q.limit, start |-> q.start, end |-> q.end,
      order |-> IF q.last THEN [i \in DOMAIN order |-> [order[i] EXCEPT !.descending = ~@]] ELSE order]

\* What is asked for: the last documents are the first ones of the reverse
\* order, between the same bounds the other way round.
definition(q) ==
  LET order == normalized_order_by(q)
  IN [group |-> q.group, filters |-> q.filters, limit |-> q.limit,
      start |-> IF q.last THEN q.end ELSE q.start, end |-> IF q.last THEN q.start ELSE q.end,
      order |-> IF q.last THEN [i \in DOMAIN order |-> [order[i] EXCEPT !.descending = ~@]] ELSE order]

\* encode_cursor: a position before or after the documents with these values.
encode_cursor(bound, start) == [values |-> bound.values, before |-> IF start THEN bound.inclusive ELSE ~bound.inclusive]

\* encode_structured_query
encode_structured_query(d) ==
  [group |-> d.group, filters |-> d.filters, order |-> d.order, limit |-> d.limit,
   startAt |-> encode_cursor(d.start, TRUE), endAt |-> encode_cursor(d.end, FALSE)]

(***************************************************************************)
(* Values                                                                  *)
(***************************************************************************)
Sign(a, b) == IF a < b THEN -1 ELSE IF a > b THEN 1 ELSE 0

\* Scalars, and arrays of them element by element.
scalar_order(a, b) == IF a.type # b.type THEN Sign(a.type, b.type) ELSE Sign(a.rank, b.rank)

compare_values(a, b) ==
  IF a.type # b.type \/ a.type # 8 THEN scalar_order(a, b)
  ELSE LET shorter == IF Len(a.of) < Len(b.of) THEN Len(a.of) ELSE Len(b.of)
           differs == {i \in 1 .. shorter : scalar_order(a.of[i], b.of[i]) # 0}
       IN IF differs = {} THEN Sign(Len(a.of), Len(b.of))
          ELSE LET i == CHOOSE i \in differs : \A j \in differs : i <= j IN scalar_order(a.of[i], b.of[i])

\* PartialEq: an integer is no double, NaN is not itself.
same(a, b) == a = b /\ a # NaN

array_contains(array, needle) == \E i \in DOMAIN array.of : same(array.of[i], needle)

\* What the operators of an order ask of the comparison.
Comparisons == {"<", "<=", ">", ">="}
Admits(op, sign) ==
  CASE op = "<" -> sign < 0 [] op = "<=" -> sign <= 0 [] op = ">" -> sign > 0 [] op = ">=" -> sign >= 0

evaluate_filter(leaf, value) ==
  LET among == \E i \in DOMAIN leaf.value.of : same(leaf.value.of[i], value)
  IN CASE leaf.op = "==" -> same(value, leaf.value)
       [] leaf.op = "!=" -> ~same(value, leaf.value)
       [] leaf.op \in Comparisons -> Admits(leaf.op, compare_values(value, leaf.value))
       [] leaf.op = "array-contains" -> value.type = 8 /\ array_contains(value, leaf.value)
       [] leaf.op = "array-contains-any" ->
            value.type = 8 /\ \E i \in DOMAIN leaf.value.of : array_contains(value, leaf.value.of[i])
       [] leaf.op = "in" -> among
       [] leaf.op = "not-in" -> value # Null /\ ~among

(***************************************************************************)
(* The in-memory store                                                     *)
(***************************************************************************)
\* The name of a document is a string here.
get_field_value(n, field) == IF field = DocumentId THEN String(n) ELSE docs[n][field]

OrNull(value) == IF value = Missing THEN Null ELSE value

\* A missing field passes for null, and only in a "!=".
leaf_satisfied(n, leaf) ==
  LET value == get_field_value(n, leaf.field)
  IN (value # Missing \/ leaf.op = "!=") /\ evaluate_filter(leaf, OrNull(value))

\* One of the filters, or all of them.
Combined(filter, satisfied) == IF filter.op = "or" THEN satisfied # {} ELSE satisfied = DOMAIN filter.of

document_satisfies(n, filter) == Combined(filter, {i \in DOMAIN filter.of : leaf_satisfied(n, filter.of[i])})

\* The first clause of the order that tells two lists of values apart.
Clauses(order, left, right) ==
  LET signs == [i \in DOMAIN left |-> LET s == compare_values(left[i], right[i]) IN IF order[i].descending THEN -s ELSE s]
      differs == {i \in DOMAIN signs : signs[i] # 0}
  IN IF differs = {} THEN 0 ELSE signs[CHOOSE i \in differs : \A j \in differs : i <= j]

Row(n, order) == [i \in DOMAIN order |-> OrNull(get_field_value(n, order[i].field))]
compare_snapshots(left, right, order) == Clauses(order, Row(left, order), Row(right, order))

compare_snapshot_to_bound(n, bound, order) ==
  LET compared == IF Len(bound.values) < Len(order) THEN Len(bound.values) ELSE Len(order)
  IN Clauses(order, SubSeq(Row(n, order), 1, compared), SubSeq(bound.values, 1, compared))

is_before_start_bound(n, bound, order) ==
  LET c == compare_snapshot_to_bound(n, bound, order) IN IF bound.inclusive THEN c < 0 ELSE c <= 0

is_after_end_bound(n, bound, order) ==
  LET c == compare_snapshot_to_bound(n, bound, order) IN IF bound.inclusive THEN c > 0 ELSE c >= 0

\* Documents by name.
Listed(names) == SelectSeq([n \in 1 .. Cardinality(Names) |-> n], LAMBDA n : n \in names)

FirstOf(s, limit) == IF limit = 0 \/ Len(s) <= limit THEN s ELSE SubSeq(s, 1, limit)
LastOf(s, limit) == IF limit = 0 \/ Len(s) <= limit THEN s ELSE SubSeq(s, Len(s) - limit + 1, Len(s))
Limited(s, q) == IF q.last THEN LastOf(s, q.limit) ELSE FirstOf(s, q.limit)

\* Filter, sort, cut at the bounds, then the first or the last ones.
apply_query_to_documents(names, q) ==
  LET order == normalized_order_by(q)
      chosen == {n \in names : \A i \in DOMAIN q.filters : document_satisfies(n, q.filters[i])}
      within == {n \in chosen : /\ q.start = NoBound \/ ~is_before_start_bound(n, q.start, order)
                                /\ q.end = NoBound \/ ~is_after_end_bound(n, q.end, order)}
      sorted == SortSeq(Listed(within), LAMBDA m, n : compare_snapshots(m, n, order) < 0)
  IN Limited(sorted, q)

matches_collection(q) == {n \in Names : Groups[n] = q.group}

InMemory(q) == apply_query_to_documents(matches_collection(q), q)

\* sum_numeric: the values that are numbers, an integer if they all are.
Numeric(listed, field) == SelectSeq(listed, LAMBDA n : docs[n][field].type = 2)
sum_numeric(listed, field) ==
  LET numbers == Numeric(listed, field)
  IN [total |-> FoldLeft(LAMBDA acc, n : acc + docs[n][field].rank, 0, numbers),
      double |-> \E i \in DOMAIN numbers : docs[numbers[i]][field].repr = "double"]
average_numeric(listed, field) == [total |-> sum_numeric(listed, field).total, count |-> Len(Numeric(listed, field))]

(***************************************************************************)
(* The backend: what Firestore makes of a request                          *)
(***************************************************************************)
Wire(n, field) == IF field = DocumentId THEN Reference(n) ELSE docs[n][field]
WireRow(n, order) == [i \in DOMAIN order |-> Wire(n, order[i].field)]
Equals(a, b) == compare_values(a, b) = 0

BackendLeaf(n, leaf) ==
  LET value == Wire(n, leaf.field)
      has(array, v) == array.type = 8 /\ \E i \in DOMAIN array.of : Equals(array.of[i], v)
  IN /\ value # Missing
     /\ leaf.op \in Comparisons => value.type = leaf.value.type /\ (NaN \in {value, leaf.value} => value = leaf.value)
     /\ CASE leaf.op = "==" -> Equals(value, leaf.value)
          [] leaf.op = "!=" -> ~Equals(value, leaf.value) /\ value # Null
          [] leaf.op \in Comparisons -> Admits(leaf.op, compare_values(value, leaf.value))
          [] leaf.op = "array-contains" -> has(value, leaf.value)
          [] leaf.op = "array-contains-any" -> \E i \in DOMAIN leaf.value.of : has(value, leaf.value.of[i])
          [] leaf.op = "in" -> has(leaf.value, value)
          [] leaf.op = "not-in" -> value # Null /\ ~has(leaf.value, value)

BackendChoice(names, filters) ==
  {n \in names : \A i \in DOMAIN filters :
     Combined(filters[i], {j \in DOMAIN filters[i].of : BackendLeaf(n, filters[i].of[j])})}

Position(n, cursor, order) ==
  LET compared == IF Len(cursor.values) < Len(order) THEN Len(cursor.values) ELSE Len(order)
  IN Clauses(order, SubSeq(WireRow(n, order), 1, compared), SubSeq(cursor.values, 1, compared))

Backend(request) ==
  LET order == request.order
      chosen == {n \in BackendChoice({m \in Names : Groups[m] = request.group}, request.filters) :
                   \A i \in DOMAIN order : Wire(n, order[i].field) # Missing}
      after(n) == LET p == Position(n, request.startAt, order) IN IF request.startAt.before THEN p >= 0 ELSE p > 0
      upTo(n) == LET p == Position(n, request.endAt, order) IN IF request.endAt.before THEN p < 0 ELSE p <= 0
      within == {n \in chosen : (request.startAt.values = <<>> \/ after(n)) /\ (request.endAt.values = <<>> \/ upTo(n))}
  IN FirstOf(SortSeq(Listed(within), LAMBDA m, n : Clauses(order, WireRow(m, order), WireRow(n, order)) < 0), request.limit)

(***************************************************************************)
(* Results                                                                 *)
(***************************************************************************)
\* get_docs turns the result of a query for the last documents round.
get_docs(listed, q) == IF q.last THEN Reverse(listed) ELSE listed

OverRest(q) == get_docs(Backend(encode_structured_query(definition(q))), q)
OverMemory(q) == get_docs(InMemory(q), q)

\* The next page begins after the last document of the one before.
ContinueAfter(page) ==
  /\ page # <<>> /\ HasCursor(query, Last(page))
  /\ pages' = pages \o page   \* bounded: a page that repeats ends it
  /\ Len(pages) < Cardinality(Names)
  /\ query' = apply_start_bound(query, cursor_values_from_snapshot(query, Last(page)), FALSE)

NextPage ==
  /\ query.limit > 0 /\ ~query.last /\ query.end = NoBound
  /\ pages = <<>> => query.start = NoBound
  /\ ContinueAfter(OverRest(query))
  /\ UNCHANGED <<docs, steps>>

Next ==
  \/ \E leaf \in Leaves : WhereField(leaf) \/ \E other \in Leaves, op \in {"and", "or"} : WhereFilter(op, <<leaf, other>>)
  \/ \E field \in Fields \cup {DocumentId}, descending \in BOOLEAN : OrderBy(field, descending)
  \/ \E n \in {1, 2} : LimitTo(n) \/ LimitToLast(n)
  \/ \E inclusive \in BOOLEAN :
       \/ \E v \in Cursors : CursorAt(<<v>>, inclusive)
       \/ \E n \in Names : SnapshotCursor(n, inclusive)
  \/ Select({Canonical[1]})
  \/ NextPage

Spec == Init /\ [][Next]_queryVars
-----------------------------------------------------------------------------
\* What a query means: the documents the backend's filters choose, in the
\* query's order and within its bounds, the first or the last of them.
Meaning(q) ==
  LET order == normalized_order_by(q)
      chosen == {n \in BackendChoice(matches_collection(q), q.filters) : \A i \in DOMAIN order : Wire(n, order[i].field) # Missing}
      starts(n) == LET p == Position(n, q.start, order) IN p > 0 \/ (p = 0 /\ q.start.inclusive)
      ends(n) == LET p == Position(n, q.end, order) IN p < 0 \/ (p = 0 /\ q.end.inclusive)
      within == {n \in chosen : (q.start = NoBound \/ starts(n)) /\ (q.end = NoBound \/ ends(n))}
      sorted == SortSeq(Listed(within), LAMBDA m, n : Clauses(order, WireRow(m, order), WireRow(n, order)) < 0)
  IN Limited(sorted, q)

\* The request for a query, flipped for the last documents, and the turned
\* answer are the query's meaning, whatever constraints were combined.
RequestMeansTheQuery == OverRest(query) = Meaning(query)

\* The pages are a part of all there is, and all of it when nothing is left.
Covers(all, rest) == IsPrefix(pages, all) /\ (rest = <<>> => pages = all)

\* Paging with the last document as the cursor neither repeats nor skips a
\* document, also among documents with equal fields.
PagesCoverTheResult ==
  pages # <<>> => Covers(OverRest([query EXCEPT !.start = NoBound, !.limit = 0]), OverRest(query))

\* Integers only, and no document as a cursor.
Integral(v) == v.repr = "integer" \/ (v.type = 8 /\ \A i \in DOMAIN v.of : v.of[i].repr = "integer")
Plain(q) ==
  /\ \A n \in Names, f \in Fields : docs[n][f].repr = "integer"
  /\ \A leaf \in leaves(q) : leaf.field # DocumentId /\ Integral(leaf.value)
  /\ \A v \in ToSet(q.start.values) \cup ToSet(q.end.values) : v.repr = "integer"
  /\ (q.start # NoBound \/ q.end # NoBound) => normalized_order_by(q)[1].field # DocumentId

\* The same documents, and the same aggregates of them.
Agree(memory, rest) ==
  /\ memory = rest
  /\ \A f \in Fields : LET sum == sum_numeric(memory, f)
                       IN ~sum.double /\ average_numeric(rest, f).total = sum.total

\* With such data the in-memory store chooses, orders and cuts as the backend
\* does, and its aggregates are those of the same documents.
InMemoryAgrees == Plain(query) => Agree(InMemory(query), OverRest(query))

\* get_docs, with its limits and cursors, answers the same over either store.
StoresAgree == OverMemory(query) = OverRest(query)
=============================================================================
