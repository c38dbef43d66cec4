------------------------- MODULE CallableFunctions -------------------------
(***************************************************************************)
(* A callable Cloud Function: the request (api.rs, context.rs), the unary  *)
(* answer (transport.rs, error.rs) and the stream of server-sent events    *)
(* that CallableStream reads (api.rs).  The body of a stream is a sequence *)
(* of lines; a line is two halves and a newline, the atoms a network chunk *)
(* is cut from, and the halves of a wide line part inside a character.     *)
(***************************************************************************)
EXTENDS Integers, Sequences, FiniteSets, SequencesExt

CONSTANTS Bodies,     \* bodies of a stream: [lines, terminated]
          Responses,  \* answers of a unary call: [status, body]
          Endpoints,  \* how the instance was made: "region" or "domain"
          MaxCalls    \* bound: reads of the stream

VARIABLES endpoint,   \* Endpoint
          credentials,\* what the credential providers give
          call,       \* the call: where it is, its request, its outcome
          body,       \* what the server streams, and the atoms still to come
          stream,     \* CallableStream
          delivered,  \* messages returned by next_message
          split,      \* history: a chunk ended inside a character
          calls

fnVars == <<endpoint, credentials, call, body, stream, delivered, split, calls>>

Credentials == {"auth", "messaging", "app_check", "heartbeat"}
NoResult == [kind |-> "none", line |-> 0, garbled |-> FALSE]

\* The atoms of a body; the last newline may be missing.
Atoms(b) ==
  LET atoms == FlattenSeq([i \in DOMAIN b.lines |-> <<[line |-> i, part |-> 1], [line |-> i, part |-> 2],
                                                     [line |-> i, part |-> 0]>>])
  IN IF b.terminated \/ atoms = <<>> THEN atoms ELSE Front(atoms)

Init ==
  /\ endpoint \in {[made |-> e, emulator |-> FALSE] : e \in Endpoints}
  /\ credentials \in {[c \in Credentials |-> "some"], [c \in Credentials |-> IF c = "auth" THEN "empty" ELSE "none"]}
  /\ call = [at |-> "idle", kind |-> "none", url |-> "none", headers |-> {}, outcome |-> "none", failed |-> FALSE,
             answer |-> <<>>]
  /\ body \in {[lines |-> b.lines, rest |-> Atoms(b), broken |-> FALSE] : b \in Bodies}
  /\ stream = [buffer |-> <<>>, finished |-> FALSE, result |-> NoResult, reading |-> "no"]
  /\ delivered = <<>>
  /\ split = FALSE
  /\ calls = 0

(***************************************************************************)
(* The request.                                                            *)
(***************************************************************************)
connect_emulator ==
  /\ ~endpoint.emulator
  /\ endpoint' = [endpoint EXCEPT !.emulator = TRUE]
  /\ UNCHANGED <<credentials, call, body, stream, delivered, split, calls>>

callable_url == IF endpoint.emulator THEN "emulator" ELSE endpoint.made

\* get_context_async: a credential that cannot be had, or is empty, is left out.
get_context_async == {c \in Credentials : credentials[c] = "some"}

\* build_request reads the endpoint, then awaits the credentials.
build_request(kind) ==
  /\ call.at = "idle"
  /\ call' = [call EXCEPT !.at = "context", !.kind = kind, !.url = callable_url]
  /\ UNCHANGED <<endpoint, credentials, body, stream, delivered, split, calls>>

AttachContext ==
  /\ call.at = "context"
  /\ call' = [call EXCEPT !.at = "sent", !.headers = get_context_async]
  /\ UNCHANGED <<endpoint, credentials, body, stream, delivered, split, calls>>

(***************************************************************************)
(* Errors.                                                                 *)
(***************************************************************************)
code_for_http_status(status) ==
  CASE status \in 200 .. 299 -> "ok"
    [] status = 400 -> "invalid-argument" [] status = 401 -> "unauthenticated"
    [] status = 403 -> "permission-denied" [] status = 404 -> "not-found"
    [] status = 409 -> "aborted" [] status = 429 -> "resource-exhausted"
    [] status = 499 -> "cancelled" [] status \in {0, 500} -> "internal"
    [] status = 501 -> "unimplemented" [] status = 503 -> "unavailable"
    [] status = 504 -> "deadline-exceeded"
    [] OTHER -> "unknown"

\* The status named in the body wins, one that is not known is internal; "ok"
\* is no error.
error_for_http_response(status, content) ==
  CASE content.error = "none" \/ content.error = "unnamed" -> code_for_http_status(status)
    [] content.error = "unknown-name" -> "internal"
    [] OTHER -> content.error

map_http_error(failure) ==
  CASE failure = "timeout" -> "deadline-exceeded" [] failure = "decode" -> "internal" [] OTHER -> "unavailable"

\* A stream tells a connection that was not made from one that broke.
map_stream_error(failure) ==
  CASE failure = "timeout" -> "deadline-exceeded" [] failure = "decode" -> "internal"
    [] failure = "connect" -> "unavailable" [] OTHER -> "unknown"

\* SharedCallableTransport::invoke, then extract_data.
unary_outcome(r) ==
  LET error == error_for_http_response(r.status, r.body)
  IN IF error # "ok" THEN error
     ELSE IF ~r.body.json \/ r.status = 204 \/ r.body.data = "none" THEN "internal"
     ELSE "ok"

returns(outcome) == call' = [call EXCEPT !.at = "returned", !.outcome = outcome]

Answer ==
  /\ call.at = "sent" /\ call.kind = "unary"
  /\ \E r \in Responses : call' = [call EXCEPT !.at = "returned", !.outcome = unary_outcome(r), !.answer = <<r>>]
  /\ UNCHANGED <<endpoint, credentials, body, stream, delivered, split, calls>>

Fail ==
  /\ call.at = "sent"
  /\ \E failure \in {"timeout", "decode", "connect", "other"} :
       returns(IF call.kind = "unary" THEN map_http_error(failure) ELSE map_stream_error(failure))
  /\ UNCHANGED <<endpoint, credentials, body, stream, delivered, split, calls>>

\* open_stream: a status that is not a success is an error.
OpenStream ==
  /\ call.at = "sent" /\ call.kind = "stream"
  /\ \/ call' = [call EXCEPT !.at = "streaming"]
     \/ \E r \in {x \in Responses : x.status \notin 200 .. 299} :
          returns(LET e == error_for_http_response(r.status, r.body) IN IF e = "ok" THEN "internal" ELSE e)
  /\ UNCHANGED <<endpoint, credentials, body, stream, delivered, split, calls>>

(***************************************************************************)
(* CallableStream.                                                         *)
(***************************************************************************)
\* next_message is called, by the caller or by the loop of result().
Read(kind) ==
  /\ call.at = "streaming" /\ stream.reading = "no" /\ calls < MaxCalls
  /\ calls' = calls + 1
  /\ stream' = [stream EXCEPT !.reading = kind]
  /\ UNCHANGED <<endpoint, credentials, call, body, delivered, split>>

\* The first complete line of the buffer, or 0.
Newline == IF \E i \in DOMAIN stream.buffer : stream.buffer[i].part = 0
           THEN CHOOSE i \in DOMAIN stream.buffer :
                  /\ stream.buffer[i].part = 0
                  /\ \A j \in 1 .. i - 1 : stream.buffer[j].part # 0
           ELSE 0

\* A line that was cut inside a character holds something else than was sent.
Garbled(atoms) == \E i \in DOMAIN atoms : atoms[i].part \in {1, 2} /\ atoms[i].cut

\* process_line, then what next_message does with the event: a message is
\* returned, an error ends the call, anything else goes on.
process_line(line, st, garbled) ==
  LET kind == body.lines[line].kind
      message == [line |-> line, garbled |-> garbled]
      decoded == [kind |-> kind, line |-> line, garbled |-> garbled]
  IN /\ delivered' = IF kind = "message" THEN Append(delivered, message) ELSE delivered
     /\ stream' =
          CASE kind = "message" -> [st EXCEPT !.reading = IF @ = "result" THEN @ ELSE "no"]
            [] kind \in {"result", "undecodable"} -> [st EXCEPT !.result = decoded]
            [] kind = "error" -> [st EXCEPT !.finished = TRUE, !.result = decoded, !.reading = "no"]
            [] kind = "invalid" -> [st EXCEPT !.reading = "no"]
            [] OTHER -> st
     /\ IF kind \in {"error", "invalid"}
        THEN call' = [call EXCEPT !.at = IF st.reading = "result" THEN "returned" ELSE @, !.outcome = "error",
                                  !.failed = TRUE]
        ELSE UNCHANGED call

Drain ==
  /\ stream.reading # "no" /\ Newline > 0
  /\ process_line(stream.buffer[Newline].line,
                  [stream EXCEPT !.buffer = SubSeq(@, Newline + 1, Len(@))],
                  Garbled(SubSeq(stream.buffer, 1, Newline)))
  /\ UNCHANGED <<endpoint, credentials, body, split, calls>>

\* The next chunk of the body, some atoms of it, decoded on its own: a
\* character that two chunks share is lost.
Chunk ==
  /\ stream.reading # "no" /\ Newline = 0 /\ ~stream.finished
  /\ \E n \in DOMAIN body.rest :
       LET cuts(i) == /\ body.lines[body.rest[i].line].wide
                      /\ \/ i = n /\ body.rest[i].part = 1
                         \/ i = 1 /\ body.rest[i].part = 2
           chunk == [i \in 1 .. n |-> [line |-> body.rest[i].line, part |-> body.rest[i].part, cut |-> cuts(i)]]
       IN /\ stream' = [stream EXCEPT !.buffer = @ \o chunk]
          /\ split' = (split \/ \E i \in 1 .. n : cuts(i))
          /\ body' = [body EXCEPT !.rest = SubSeq(@, n + 1, Len(@))]
  /\ UNCHANGED <<endpoint, credentials, call, delivered, calls>>

\* The connection breaks: an error, kept as the result if there is none yet.
Interrupt ==
  /\ stream.reading # "no" /\ Newline = 0 /\ ~stream.finished
  /\ body' = [body EXCEPT !.broken = TRUE]
  /\ stream' = [stream EXCEPT !.finished = TRUE, !.reading = "no",
                              !.result = IF @ = NoResult THEN [NoResult EXCEPT !.kind = "error"] ELSE @]
  /\ call' = [call EXCEPT !.at = IF stream.reading = "result" THEN "returned" ELSE @, !.outcome = "error",
                         !.failed = TRUE]
  /\ UNCHANGED <<endpoint, credentials, delivered, split, calls>>

\* Mutant of End: what follows the last newline is dropped.
End_DropsTheTail ==
  /\ stream.reading # "no" /\ Newline = 0 /\ ~stream.finished /\ body.rest = <<>>
  /\ stream' = [stream EXCEPT !.buffer = <<>>, !.finished = TRUE]
  /\ UNCHANGED <<endpoint, credentials, call, body, delivered, split, calls>>

\* The body ends: a last line without a newline is processed too.
End ==
  /\ stream.reading # "no" /\ Newline = 0 /\ ~stream.finished /\ body.rest = <<>>
  /\ LET st == [stream EXCEPT !.buffer = <<>>, !.finished = TRUE]
     IN IF stream.buffer = <<>> THEN stream' = st /\ UNCHANGED <<call, delivered>>
        ELSE process_line(stream.buffer[1].line, st, Garbled(stream.buffer))
  /\ UNCHANGED <<endpoint, credentials, body, split, calls>>

\* Nothing is left: next_message returns None, and result() its outcome.
Finish ==
  /\ stream.reading # "no" /\ Newline = 0 /\ stream.finished
  /\ stream' = [stream EXCEPT !.reading = "no"]
  /\ IF stream.reading = "result"
     THEN returns(IF stream.result.kind = "result" THEN "ok" ELSE "error")
     ELSE call' = [call EXCEPT !.outcome = "drained"]
  /\ UNCHANGED <<endpoint, credentials, body, delivered, split, calls>>

Next ==
  \/ connect_emulator \/ AttachContext \/ Answer \/ Fail \/ OpenStream
  \/ \E kind \in {"unary", "stream"} : build_request(kind)
  \/ \E kind \in {"message", "result"} : Read(kind)
  \/ Drain \/ Chunk \/ Interrupt \/ End \/ Finish

Spec == Init /\ [][Next]_fnVars
-----------------------------------------------------------------------------
TypeOK ==
  /\ call.at \in {"idle", "context", "sent", "streaming", "returned"}
  /\ call.headers \subseteq Credentials
  /\ stream.reading \in {"no", "message", "result"}
  /\ stream.finished \in BOOLEAN /\ split \in BOOLEAN
  /\ \A i \in DOMAIN delivered : delivered[i].line \in DOMAIN body.lines
  /\ calls \in 0 .. MaxCalls

\* The lines before the first that ends a call with an error.
Readable ==
  LET ends == {i \in DOMAIN body.lines : body.lines[i].kind \in {"error", "invalid"}}
  IN IF ends = {} THEN Len(body.lines) ELSE (CHOOSE i \in ends : \A j \in ends : i <= j) - 1

Expected == SelectSeq([i \in 1 .. Readable |-> i], LAMBDA i : body.lines[i].kind = "message")
Got == [i \in DOMAIN delivered |-> delivered[i].line]

\* However the network cuts the body into chunks, and whether or not its last
\* line is terminated, next_message returns the messages in order and none
\* twice until the first error; a stream that was read to its end has returned
\* them all, and result() succeeds exactly on the last result the body holds.
StreamsDeliverTheBody ==
  /\ ~call.failed => IsPrefix(Got, Expected)
  /\ ~call.failed /\ call.outcome \in {"drained", "ok"} /\ call.kind = "stream" => Got = Expected
  /\ ~call.failed /\ call.outcome = "ok" /\ call.kind = "stream" =>
       /\ stream.result.line = CHOOSE i \in DOMAIN body.lines :
            /\ body.lines[i].kind = "result"
            /\ \A j \in i + 1 .. Len(body.lines) : body.lines[j].kind \notin {"result", "undecodable"}
       /\ Readable = Len(body.lines)

\* A unary call returns data only for an answer that is a success and names no
\* error: a 2xx answer whose body carries an error is that error.
ErrorsAreNotData ==
  call.outcome = "ok" /\ call.answer # <<>> =>
    LET r == call.answer[1]
    IN /\ r.status \in 200 .. 299 \/ r.body.error = "ok"
       /\ r.body.error \in {"none", "unnamed", "ok"} /\ r.body.data # "none"

\* The doc of stream_async: the function's messages arrive through next_message.
MessagesArriveAsSent == \A i \in DOMAIN delivered : ~delivered[i].garbled
=============================================================================
