--------------------------- MODULE FirestoreValues ---------------------------
(***************************************************************************)
(* What becomes of a program's value on its way into a document and back:  *)
(* serde into a FirestoreValue (value/serde_support.rs), a FirestoreValue  *)
(* into the JSON of the REST API (remote/serializer.rs) or the messages of *)
(* the listen stream (remote/listen/convert.rs), and both ways back.       *)
(***************************************************************************)
EXTENDS Integers, Sequences, FiniteSets, SequencesExt

CONSTANTS MaxInt,      \* i64::MAX, in the small
          Second,      \* nanoseconds in a second, in the small
          MaxSeconds,  \* the last second chrono can format
          Ninety       \* the largest latitude

VARIABLES term, wire, at, value, sent, result

valueVars == <<term, wire, at, value, sent, result>>

\* A program's value: its type, its numbers, its text and what it is made of.
Term(t, n, m, s, of) == [t |-> t, n |-> n, m |-> m, s |-> s, of |-> of]
Failed == Term("error", 0, 0, "", <<>>)
None == Term("none", 0, 0, "", <<>>)

\* ValueKind; a map has keys for its elements.
Kind(k, n, m, s, of, keys) == [k |-> k, n |-> n, m |-> m, s |-> s, of |-> of, keys |-> keys]
Leaf(k, n, s) == Kind(k, n, 0, s, <<>>, <<>>)
Null == Leaf("null", 0, "")
Err == Leaf("error", 0, "")
KIND_KEY == "$__firestore_kind"

\* A value of several: an error in one of them is the value's.
Whole(v) == IF \E i \in DOMAIN v.of : v.of[i] = Err THEN Err ELSE v
Array(of) == Whole(Kind("array", 0, 0, "", of, <<>>))
Map(keys, of) == Whole(Kind("map", 0, 0, "", of, keys))

(***************************************************************************)
(* Timestamps and points                                                   *)
(***************************************************************************)
\* Timestamp::new; the program may also have made one that is not normalized
\* (from_system_time of a time before 1970, or the public fields).
normalize(seconds, nanos) == [seconds |-> seconds + (nanos \div Second), nanos |-> nanos % Second]
Timestamp(seconds, nanos) == LET t == normalize(seconds, nanos) IN Kind("timestamp", t.seconds, t.nanos, "", <<>>, <<>>)

from_system_time(ticks) ==
  IF ticks >= 0 THEN [seconds |-> ticks \div Second, nanos |-> ticks % Second]
  ELSE [seconds |-> -((-ticks) \div Second), nanos |-> -((-ticks) % Second)]

GeoPoint(latitude, longitude) ==
  IF latitude \in -Ninety .. Ninety /\ longitude \in -2 * Ninety .. 2 * Ninety
  THEN Kind("geo_point", latitude, longitude, "", <<>>, <<>>) ELSE Err

\* encode_timestamp: what chrono cannot format is written as the epoch.
encode_timestamp(seconds, nanos) ==
  IF nanos \in 0 .. Second - 1 /\ seconds \in -MaxSeconds .. MaxSeconds THEN <<seconds, nanos>> ELSE <<0, 0>>

(***************************************************************************)
(* serde: to_firestore_value                                               *)
(***************************************************************************)
\* Mutant of serialize_u64: unwrap_or(i64::MAX).
serialize_u64_Saturates(n) == Leaf("integer", IF n > MaxInt THEN MaxInt ELSE n, "")

serialize_u64(n) == IF n > MaxInt THEN Err ELSE Leaf("integer", n, "")

\* KeySerializer: text and integers can be keys; the text of an integer here
\* is "#" and its value stands beside it.
key_of(k) ==
  CASE k.t \in {"str", "char", "variant"} -> k.s
    [] k.t \in {"i64", "u64"} -> "#"
    [] OTHER -> "error"

\* The forms of an enum's variant.
variant_value(t, of) ==
  CASE t.n = 0 -> Leaf("string", 0, t.s)
    [] t.n = 1 -> Map(<<t.s>>, <<of[1]>>)
    [] t.n = 2 -> Map(<<t.s>>, <<Array(of)>>)
    [] OTHER -> Map(<<t.s>>, <<Map(<<"a">>, <<of[1]>>)>>)

\* Serialize for FirestoreValue: within another type, a value's timestamps are
\* made anew.
RECURSIVE serialize_value(_)
serialize_value(v) ==
  IF v.k = "timestamp" THEN Timestamp(v.n, v.m) ELSE [v EXCEPT !.of = [i \in DOMAIN v.of |-> serialize_value(v.of[i])]]

RECURSIVE to_firestore_value(_)
to_firestore_value(t) ==
  LET of == [i \in DOMAIN t.of |-> IF t.t = "value" THEN Null ELSE to_firestore_value(t.of[i])]
  IN CASE t.t = "bool" -> Leaf("boolean", t.n, "")
       [] t.t = "i64" -> Leaf("integer", t.n, "")
       [] t.t = "u64" -> serialize_u64(t.n)
       [] t.t = "f64" -> Leaf("double", t.n, t.s)
       [] t.t \in {"str", "char"} -> Leaf("string", 0, t.s)
       [] t.t \in {"none", "unit"} -> Null
       [] t.t = "some" -> of[1]
       [] t.t = "seq" -> Array(of)
       [] t.t = "map" -> IF key_of(t.of[1]) = "error" THEN Err ELSE Map(<<key_of(t.of[1])>>, <<of[2]>>)
       [] t.t = "struct" -> Map(<<"a", "b">>, of)
       [] t.t = "variant" -> variant_value(t, of)
       [] t.t = "timestamp" -> Timestamp(t.n, t.m)
       [] t.t = "geo_point" -> GeoPoint(t.n, t.m)
       [] t.t = "bytes" -> Leaf("bytes", 0, t.s)
       [] OTHER -> serialize_value(t.of[1])

(***************************************************************************)
(* The wire                                                                *)
(***************************************************************************)
\* serde_json writes a number that is not finite as null.
as_json(v) ==
  CASE v.k = "integer" -> "text"
    [] v.k \in {"double", "geo_point"} -> IF v.s = "nan" THEN "null" ELSE "number"
    [] OTHER -> "text"

RECURSIVE encode_value(_)
encode_value(v) ==
  LET stamp == encode_timestamp(v.n, v.m)
  IN [k |-> v.k, as |-> as_json(v), s |-> v.s, keys |-> v.keys, of |-> [i \in DOMAIN v.of |-> encode_value(v.of[i])],
      n |-> IF v.k = "timestamp" THEN stamp[1] ELSE v.n, m |-> IF v.k = "timestamp" THEN stamp[2] ELSE v.m]

RECURSIVE value_to_proto(_)
value_to_proto(v) ==
  [k |-> v.k, as |-> "binary", s |-> v.s, keys |-> v.keys, of |-> [i \in DOMAIN v.of |-> value_to_proto(v.of[i])], n |-> v.n, m |-> v.m]

\* decode_value, value_from_proto
RECURSIVE decode_value(_)
decode_value(w) ==
  LET of == [i \in DOMAIN w.of |-> decode_value(w.of[i])]
  IN CASE w.as = "null" -> Err
       [] w.k = "timestamp" -> Timestamp(w.n, w.m)
       [] w.k = "geo_point" -> GeoPoint(w.n, w.m)
       [] w.k = "array" -> Array(of)
       [] w.k = "map" -> Map(w.keys, of)
       [] OTHER -> Kind(w.k, w.n, w.m, w.s, <<>>, <<>>)

RECURSIVE HasSentinel(_)
HasSentinel(v) == v.k = "sentinel" \/ \E i \in DOMAIN v.of : HasSentinel(v.of[i])

(***************************************************************************)
(* serde: from_firestore_value, for the type of a term                     *)
(***************************************************************************)
\* ValueVisitor::visit_map: a map that names a kind is read as that kind.
visit_map(keys, of) ==
  LET i == CHOOSE i \in DOMAIN keys : keys[i] = KIND_KEY
      at_key(k) == SelectInSeq(keys, LAMBDA x : x = k)
  IN CASE KIND_KEY \notin ToSet(keys) -> Map(keys, of)
       [] of[i].k # "string" -> Err
       [] of[i].s = "timestamp" /\ at_key("seconds") # 0 -> Timestamp(of[at_key("seconds")].n, 0)
       [] OTHER -> Err

\* A FirestoreValue out of a FirestoreValue: the kinds of its own are tagged,
\* so that they come back as they are.
RECURSIVE visit_value(_)
visit_value(v) ==
  LET of == [i \in DOMAIN v.of |-> visit_value(v.of[i])]
  IN CASE v.k = "sentinel" -> Err
       [] v.k = "array" -> Array(of)
       [] v.k = "map" -> visit_map(v.keys, of)
       [] OTHER -> v

All(t) == IF \E i \in DOMAIN t.of : t.of[i] = Failed THEN Failed ELSE t

\* The key is read out of its text: an integer cannot be.
key_from(k) == IF k.t \in {"str", "char", "variant"} THEN k ELSE Failed

RECURSIVE from_firestore_value(_, _)
from_firestore_value(t, v) ==
  LET each(of) == [i \in DOMAIN t.of |-> from_firestore_value(t.of[i], of[i])]
      number(k, n) == IF v.k = k THEN [t EXCEPT !.n = n] ELSE Failed
      text(k) == IF v.k = k THEN [t EXCEPT !.s = v.s] ELSE Failed
  IN CASE v = Err -> Failed
       [] t.t \in {"none", "some"} -> IF v.k = "null" THEN None ELSE All([t EXCEPT !.of = each(<<v>>)])
       [] t.t = "bool" -> number("boolean", v.n)
       [] t.t = "i64" -> number("integer", v.n)
       [] t.t = "u64" -> IF v.n < 0 THEN Failed ELSE number("integer", v.n)
       [] t.t = "f64" -> IF v.k = "double" THEN [t EXCEPT !.n = v.n, !.s = v.s] ELSE Failed
       [] t.t \in {"str", "char"} -> text("string")
       [] t.t = "unit" -> Failed  \* a null is offered as a None
       [] t.t = "seq" -> IF v.k = "array" THEN All([t EXCEPT !.of = each(v.of)]) ELSE Failed
       [] t.t = "map" -> IF v.k = "map" THEN All([t EXCEPT !.of = <<key_from(t.of[1]), from_firestore_value(t.of[2], v.of[1])>>]) ELSE Failed
       [] t.t = "struct" -> IF v.k = "map" THEN All([t EXCEPT !.of = each(v.of)]) ELSE Failed
       [] t.t = "variant" ->
            CASE v.k = "string" -> IF t.n = 0 THEN [t EXCEPT !.s = v.s] ELSE Failed
              [] v.k = "map" /\ Len(v.of) = 1 ->
                   All([t EXCEPT !.s = v.keys[1], !.of = CASE t.n = 0 -> <<>> [] t.n = 1 -> each(v.of) [] OTHER -> each(v.of[1].of)])
              [] OTHER -> Failed
       [] t.t = "timestamp" -> IF v.k = "timestamp" THEN [t EXCEPT !.n = v.n, !.m = v.m] ELSE Failed
       [] t.t = "geo_point" -> IF v.k = "geo_point" THEN [t EXCEPT !.n = v.n, !.m = v.m] ELSE Failed
       [] t.t = "bytes" -> text("bytes")
       [] OTHER -> LET read == visit_value(v) IN IF read = Err THEN Failed ELSE [t EXCEPT !.of = <<read>>]

(***************************************************************************)
(* The terms, and their way                                                *)
(***************************************************************************)
Atom(t, n, s) == Term(t, n, 0, s, <<>>)
OfTime(t) == Term("timestamp", t.seconds, t.nanos, "", <<>>)

Atoms ==
  {Atom("bool", 1, ""), Atom("i64", -MaxInt - 1, ""), Atom("u64", MaxInt, ""), Atom("u64", MaxInt + 1, ""), Atom("f64", 1, "finite"),
   Atom("f64", 0, "nan"), Atom("str", 0, "x"), Atom("char", 0, "c"), Atom("unit", 0, ""), None, Atom("bytes", 0, "b"),
   Term("geo_point", Ninety, -2 * Ninety, "", <<>>), Term("geo_point", Ninety + 1, 0, "", <<>>),
   OfTime(from_system_time(Second + 1)), OfTime(from_system_time(-1)), OfTime([seconds |-> MaxSeconds + 1, nanos |-> 0])}

Values ==
  {Term("value", 0, 0, "", <<v>>) : v \in
    {Null, Leaf("reference", 0, "path"), Timestamp(1, 1), Leaf("bytes", 0, "b"), Leaf("sentinel", 0, "increment"),
     Map(<<"x">>, <<Timestamp(-1, 1)>>), Map(<<KIND_KEY, "seconds">>, <<Leaf("string", 0, "timestamp"), Leaf("integer", 1, "")>>),
     Kind("timestamp", 0, -1, "", <<>>, <<>>), Array(<<Leaf("reference", 0, "path"), Null>>)}}

Over(terms) ==
  {Term("some", 0, 0, "", <<x>>) : x \in terms} \cup {Term("seq", 0, 0, "", <<x>>) : x \in terms} \cup {Term("variant", n, 0, "V", <<x>>) : n \in 1 .. 3, x \in terms}

Pairs(terms) ==
  {Term("struct", 0, 0, "", <<x, y>>) : x, y \in terms} \cup {Term("map", 0, 0, "", <<x, y>>) : x, y \in terms}

Terms ==
  LET leaves == Atoms \cup Values \cup {Term("variant", 0, 0, "V", <<>>), Term("seq", 0, 0, "", <<>>)}
      first == Over(leaves) \cup Pairs(leaves)
  IN leaves \cup first \cup Over(first)

Init ==
  /\ term \in Terms /\ wire \in {"json", "proto"}
  /\ at = "program" /\ value = Null /\ sent = encode_value(Null) /\ result = None

\* A FirestoreValue may be given as it is.
Serialize ==
  /\ at = "program" /\ value' = IF term.t = "value" THEN term.of[1] ELSE to_firestore_value(term)
  /\ at' = IF value' = Err THEN "refused" ELSE "value"
  /\ UNCHANGED <<term, wire, sent, result>>

\* A sentinel becomes a transform on the way to a write, and is refused in a
\* query or a listen request: it is never encoded.
Encode ==
  /\ at = "value" /\ ~HasSentinel(value)
  /\ at' = "sent" /\ sent' = IF wire = "json" THEN encode_value(value) ELSE value_to_proto(value)
  /\ UNCHANGED <<term, wire, value, result>>

Decode ==
  /\ at = "sent" /\ value' = decode_value(sent)
  /\ at' = IF value' = Err THEN "refused" ELSE "document"
  /\ UNCHANGED <<term, wire, sent, result>>

Deserialize ==
  /\ at = "document" /\ result' = from_firestore_value(term, value)
  /\ at' = "read"
  /\ UNCHANGED <<term, wire, value, sent>>

Next == Serialize \/ Encode \/ Decode \/ Deserialize

Spec == Init /\ [][Next]_valueVars

TypeOK == at \in {"program", "value", "sent", "document", "read", "refused"} /\ wire \in {"json", "proto"}
-----------------------------------------------------------------------------
\* Terms whose value has no counterpart of its own.
RECURSIVE IsNull(_)
IsNull(t) == t.t \in {"none", "unit"} \/ (t.t = "some" /\ IsNull(t.of[1])) \/ (t.t = "value" /\ t.of[1] = Null)

Odd(t) ==
  \/ t.t = "unit" \/ (t.t = "u64" /\ t.n > MaxInt) \/ t.s = "nan"
  \/ (t.t = "timestamp" /\ (t.m < 0 \/ t.n > MaxSeconds)) \/ (t.t = "geo_point" /\ t.n > Ninety)
  \/ (t.t = "some" /\ IsNull(t.of[1])) \/ (t.t = "map" /\ key_from(t.of[1]) = Failed)
  \/ (t.t = "value" /\ (t.of[1].k = "sentinel" \/ t.of[1].m < 0 \/ KIND_KEY \in ToSet(t.of[1].keys)))

RECURSIVE Plain(_)
Plain(t) == ~Odd(t) /\ (t.t # "value" => \A i \in DOMAIN t.of : Plain(t.of[i]))

\* What is read back as something else, without an error: an optional null, a
\* time before 1970 or beyond what can be formatted, a map that names a kind.
RECURSIVE Changes(_)
Changes(t) ==
  \/ (t.t = "some" /\ IsNull(t.of[1])) \/ (t.t = "timestamp" /\ (t.m < 0 \/ t.n > MaxSeconds))
  \/ (t.t = "value" /\ (t.of[1].m < 0 \/ KIND_KEY \in ToSet(t.of[1].keys)))
  \/ (t.t # "value" /\ \E i \in DOMAIN t.of : Changes(t.of[i]))

\* Over either wire a plain value is read back as it was, and any other value
\* is refused on the way, but for the few that are changed (Changes).
ValuesSurvive ==
  /\ Plain(term) => at # "refused" /\ (at = "read" => result = term)
  /\ at = "read" /\ result \notin {term, Failed} => Changes(term)
=============================================================================
