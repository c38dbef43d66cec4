-------------------------- MODULE StorageRequests --------------------------
(***************************************************************************)
(* Cloud Storage references: the operations of StorageReference            *)
(* (reference.rs), the requests they build (request/builders.rs, list.rs), *)
(* the retry loop that sends them (request/transport.rs) and the service's *)
(* settings they read (service.rs).  The servers and their objects are     *)
(* external.  A path is the sequence of its components, an empty component *)
(* standing for a doubled, leading or trailing slash.                      *)
(***************************************************************************)
EXTENDS Integers, Sequences, FiniteSets, SequencesExt

CONSTANTS Tasks,      \* tasks that use references
          Names,      \* paths of the objects
          Order,      \* the components in the server's order
          Arguments,  \* paths and URLs a reference is made from
          Buckets,    \* whether the app's options name a bucket
          Strings,    \* arguments of upload_string
          Readers,    \* sources of a streamed upload: its reads, its declared size, its content type
          Limits,     \* max_download_size_bytes
          Refusals,   \* statuses a server answers out of turn, for the App Check token or not
          PageSize,   \* external: entries on a page of a listing
          RESUMABLE_UPLOAD_CHUNK_SIZE, max_attempts,
          MaxCalls,   \* bound: calls made
          MaxFaults   \* bound: lost answers and refusals

VARIABLES servers,  \* the objects of every host
          service,  \* FirebaseStorageState
          tasks,    \* the call of every task
          during,   \* history: the objects there were while the call ran
          calls, faults

reqVars == <<servers, service, tasks, during, calls, faults>>

DEFAULT_HOST == [name |-> "firebasestorage", port |-> FALSE]
EmulatorHost == [name |-> "localhost", port |-> TRUE]
Hosts == {DEFAULT_HOST, EmulatorHost}
NoObject == [data |-> <<-1>>, type |-> "", tokens |-> <<>>]
NoSession == [status |-> "none", data |-> <<>>]
Ok(v) == [ok |-> TRUE, value |-> v, error |-> ""]
\* The codes of StorageErrorCode these calls raise.
Codes == {"unknown", "object-not-found", "bucket-not-found", "quota-exceeded", "unauthenticated", "unauthorized",
          "unauthorized-app", "retry-limit-exceeded", "canceled", "invalid-url", "no-default-bucket",
          "invalid-argument", "invalid-root-operation", "internal-error", "no-download-url"}

Err(code) == [ok |-> FALSE, value |-> <<>>, error |-> code]

(***************************************************************************)
(* Locations and paths.                                                    *)
(***************************************************************************)
\* Location::new trims the slashes at both ends.
Location(raw) ==
  LET full == {i \in DOMAIN raw : raw[i] # ""}
  IN IF full = {} THEN <<>>
     ELSE SubSeq(raw, CHOOSE i \in full : \A j \in full : i <= j, CHOOSE i \in full : \A j \in full : i >= j)

child(path, raw) == path \o SelectSeq(raw, LAMBDA c : c # "")

parent(path) == IF path = <<>> THEN <<"none">> ELSE Front(path)

last_component(path) == IF path = <<>> THEN "" ELSE Last(path)

\* A URL's path is a sequence of segments, each the components it encodes: one,
\* or all of a path encoded whole.  The empty segment is the empty component.
Encoded(path) == IF path = <<>> THEN <<"">> ELSE path
Segments(path) == [i \in DOMAIN path |-> <<path[i]>>]

to_gs_url(path) == [scheme |-> "gs", host |-> "bucket", segments |-> Segments(path)]

\* full_server_url behind the host and the version: the path is one segment.
full_server_url(host, path) ==
  [scheme |-> "http", host |-> host.name, segments |-> Segments(<<"v0", "b", "bucket", "o">>) \o <<Encoded(path)>>]

decode_path_segments(segments) == FlattenSeq(segments)

from_gs_url(url) == IF url.host = "" THEN Err("invalid-url") ELSE Ok(Location(FlattenSeq(url.segments)))

\* The host of the URL, which has no port, against the configured one, or the
\* two other names of the default host; an empty last segment is dropped.
from_http_url(url, host) ==
  LET dropped == url.segments # <<>> /\ Last(url.segments) = <<"">>
      segments == IF dropped THEN Front(url.segments) ELSE url.segments
      configured == url.host = host.name /\ ~host.port
      variant == host = DEFAULT_HOST /\ url.host \in {"storage.googleapis.com", "storage.cloud.google.com"}
  IN CASE configured /\ Len(segments) >= 4 /\ segments[2] = <<"b">> /\ segments[4] = <<"o">> ->
            Ok(Location(decode_path_segments(SubSeq(segments, 5, Len(segments)))))
       [] ~configured /\ variant /\ segments # <<>> -> Ok(Location(decode_path_segments(Tail(segments))))
       [] OTHER -> Err("invalid-url")

from_url(url, host) ==
  CASE url.scheme = "gs" -> from_gs_url(url)
    [] url.scheme = "http" -> from_http_url(url, host)
    [] OTHER -> Err("invalid-url")

\* reference_from_path: a URL, or a path under the default bucket's root.
reference_from_path(argument) ==
  CASE argument.scheme # "path" -> from_url(argument, service.host)
    [] argument.scheme = "path" /\ service.bucket -> Ok(Location(child(<<>>, FlattenSeq(argument.segments))))
    [] OTHER -> Err("no-default-bucket")

(***************************************************************************)
(* What the servers do: external.                                          *)
(***************************************************************************)
Present(b, path) == path \in Names /\ b[path] # NoObject

Rank(c) == CHOOSE i \in DOMAIN Order : Order[i] = c
EntryRank(e) == 2 * Rank(Last(e.path)) + IF e.prefix THEN 1 ELSE 0

\* The entries directly under a prefix: objects, and prefixes of deeper ones.
Entries(b, path) ==
  {[path |-> SubSeq(n, 1, Len(path) + 1), prefix |-> Len(n) > Len(path) + 1] :
      n \in {m \in Names : b[m] # NoObject /\ Len(m) > Len(path) /\ SubSeq(m, 1, Len(path)) = path}}

\* One page after the token, and the token of the next.
PageOf(b, options) ==
  LET after == {e \in Entries(b, options.prefix) : EntryRank(e) > options.token}
      sorted == SetToSortSeq(after, LAMBDA d, e : EntryRank(d) < EntryRank(e))
      size == IF options.max < PageSize THEN options.max ELSE PageSize
      page == SubSeq(sorted, 1, IF Len(sorted) < size THEN Len(sorted) ELSE size)
  IN [entries |-> page, token |-> IF Len(page) < Len(sorted) THEN EntryRank(Last(page)) ELSE 0]

(***************************************************************************)
(* The requests.                                                           *)
(***************************************************************************)
ObjectCalls == {"get_metadata", "update_metadata", "get_bytes", "get_stream", "get_download_url", "delete_object"}
\* list and list_all are for any reference, the others not for the root.
ListCalls == {"list", "list_all"}

\* What the request of a call accepts, and what its error handler makes of a 404.
request_info(kind, limit) ==
  [success_codes |-> CASE kind = "delete_object" -> {200, 204}
                       [] kind \in {"get_bytes", "get_stream"} /\ limit # <<>> -> {200, 206}
                       [] kind = "continue" -> {200, 201, 308}
                       [] OTHER -> {200},
   not_found |-> CASE kind \in ObjectCalls -> "object-not-found"
                   [] kind \in ListCalls -> "bucket-not-found"
                   [] OTHER -> "unknown"]

is_retry_status_code(status) == status \in 500 .. 599 \cup {408, 429}

\* execute tries a refused request again, execute_streaming does not.
should_retry(kind, status) == is_retry_status_code(status) /\ kind # "get_stream"

shared_error(status, app_check) ==
  CASE status = 401 -> IF app_check THEN "unauthorized-app" ELSE "unauthenticated"
    [] status = 402 -> "quota-exceeded"
    [] status = 403 -> "unauthorized"
    [] OTHER -> "unknown"

\* object_error_handler, bucket_error_handler, or the shared one alone.
map_failure(c, status, app_check) ==
  IF status = 404 THEN request_info(c.kind, c.call.limit).not_found ELSE shared_error(status, app_check)

\* build_upload_resource: a content type there always is.
content_type(given) == IF given = "" THEN "application/octet-stream" ELSE given

\* multipart_upload_request: the object its two segments describe.
multipart_upload_request(call) == [data |-> call.data, type |-> content_type(call.type), tokens |-> <<"", "t">>]

\* build_list_options: one level under the reference, from the page's token.
build_list_options(c) ==
  [prefix |-> c.call.at, token |-> c.page, max |-> IF c.kind = "list" THEN c.call.limit[1] ELSE PageSize]

\* The content type given wins over the one a data URL names.
merge_metadata(given, inferred) == IF given # "" THEN given ELSE inferred

prepare_string_upload(s) ==
  [bytes |-> s.payload, content_type |-> IF s.format = "data_url" THEN s.type ELSE "",
   error |-> IF s.format = "raw" \/ (s.valid /\ (s.format = "data_url" => s.scheme /\ s.comma)) THEN ""
             ELSE "invalid-argument"]

\* ObjectMetadata::from_value, and the tokens that are not empty.
metadata_of(o) ==
  [size |-> Len(o.data), type |-> o.type, tokens |-> SelectSeq(o.tokens, LAMBDA x : x # "")]

Cut(data, n) == SubSeq(data, 1, IF Len(data) < n THEN Len(data) ELSE n)

\* Mutant of truncated: the range that was asked for is taken as exact.
truncated_TrustsTheRange(data, limit) == data

\* get_bytes cuts what the range, which names one byte more, lets through.
truncated(data, limit) == IF limit = <<>> THEN data ELSE Cut(data, limit[1])

\* The chunk a streamed upload reads: reads fill the buffer until it is full,
\* what is left to send is read, or a read returns nothing.
read_chunk(reader, want) ==
  LET ends == {i \in 0 .. Len(reader) :
                 \/ i > 0 /\ Len(FlattenSeq(SubSeq(reader, 1, i))) >= want
                 \/ i = Len(reader)
                 \/ i > 0 /\ reader[i] = <<>>}
      used == CHOOSE i \in ends : \A j \in ends : i <= j
      all == FlattenSeq(SubSeq(reader, 1, used))
      kept == Cut(all, want)
      over == SubSeq(all, Len(kept) + 1, Len(all))
      rest == SubSeq(reader, used + 1, Len(reader))
  IN [chunk |-> kept, rest |-> IF over = <<>> THEN rest ELSE <<over>> \o rest]

(***************************************************************************)
(* Calls.                                                                  *)
(***************************************************************************)
Call(op, path) ==
  [op |-> op, at |-> path, limit |-> <<>>, data |-> <<>>, type |-> "", total |-> 0, reader |-> <<>>]

Calls(path) ==
  {Call(op, path) : op \in {"get_metadata", "get_download_url", "delete_object", "list_all"}}
    \cup {[Call(op, path) EXCEPT !.limit = l] : op \in {"get_bytes", "get_stream"}, l \in Limits}
    \cup {[Call("update_metadata", path) EXCEPT !.type = "image"]}
    \cup {[Call("list", path) EXCEPT !.limit = <<m>>] : m \in {0, 1}}
    \cup {[Call("upload_reader", path) EXCEPT !.reader = r.reads, !.total = r.total, !.type = r.type] : r \in Readers}

Idle == [call |-> Call("none", <<>>), phase |-> "idle", kind |-> "none", host |-> DEFAULT_HOST, token |-> "none",
         page |-> 0, items |-> <<>>, prefixes |-> <<>>, url |-> FALSE, offset |-> 0, sent |-> <<>>,
         reader |-> <<>>, final |-> FALSE, attempt |-> 0, time |-> TRUE, session |-> NoSession, hosts |-> {}, result |-> Ok(<<>>)]

Running(t) == tasks[t].phase \notin {"idle", "done"}

\* The objects are observed by every call that runs.
Observed == during' = [t \in Tasks |-> IF Running(t) THEN during[t] \cup {servers'} ELSE during[t]]

\* A call that ended leaves its result and what it listed.
ended(c, result) ==
  [Idle EXCEPT !.phase = "done", !.call = c.call, !.items = c.items, !.prefixes = c.prefixes,
               !.hosts = c.hosts, !.result = result]

done(t, result) == tasks' = [tasks EXCEPT ![t] = ended(@, result)]

\* The method called, up to its first request: early returns come first.
Begin(t, call, refused) ==
  /\ calls' = calls + 1
  /\ during' = [during EXCEPT ![t] = {servers}]
  /\ LET early ==
           CASE call.at = <<>> /\ call.op \notin ListCalls -> "invalid-root-operation"
             [] call.op = "list" /\ call.limit[1] \notin 1 .. 1000 -> "invalid-argument"
             [] OTHER -> refused
     IN tasks' = [tasks EXCEPT ![t] = [Idle EXCEPT !.call = call, !.reader = call.reader,
                                                   !.phase = IF early = "" THEN "build" ELSE "done",
                                                   !.result = Err(early)]]
  /\ UNCHANGED <<servers, service, faults>>

Free(t) == tasks[t].phase \in {"idle", "done"} /\ calls < MaxCalls

\* A call on a reference; one that cannot be made has no call.
Reference(t) ==
  /\ Free(t)
  /\ \E argument \in Arguments : \E reference \in {reference_from_path(argument)} :
       \E call \in IF reference.ok THEN Calls(reference.value) ELSE {Call("reference", <<"none">>)} :
         Begin(t, call, reference.error)

\* upload_string, which decodes and then is upload_bytes, the raw format.
UploadString(t) ==
  /\ Free(t)
  /\ \E argument \in Arguments, s \in Strings : \E reference \in {reference_from_path(argument)} :
       LET prepared == prepare_string_upload(s)
           call == [Call("upload", reference.value) EXCEPT
                      !.data = prepared.bytes, !.type = merge_metadata(s.given, prepared.content_type)]
       IN reference.ok /\ Begin(t, call, prepared.error)

\* connect_emulator, or set_host, which keeps the token.
Connect ==
  /\ calls < MaxCalls /\ service.host # EmulatorHost
  /\ calls' = calls + 1
  /\ service' \in {[service EXCEPT !.host = EmulatorHost, !.override = "mock"], [service EXCEPT !.host = EmulatorHost]}
  /\ UNCHANGED <<servers, tasks, during, faults>>

\* set_max_operation_retry_time(0): the next request has no time at all.
SetRetryTime ==
  /\ calls < MaxCalls /\ service.time
  /\ calls' = calls + 1 /\ service' = [service EXCEPT !.time = FALSE]
  /\ UNCHANGED <<servers, tasks, during, faults>>

\* The next request of a call, built for the host, and sent with the retry time,
\* of the moment; a session's URL is absolute.  A reader that ends early or fails
\* ends the upload.
Build(t) ==
  LET c == tasks[t]
      left == c.call.total - c.offset
      read == read_chunk(c.reader, IF left < RESUMABLE_UPLOAD_CHUNK_SIZE THEN left ELSE RESUMABLE_UPLOAD_CHUNK_SIZE)
      request(kind, host) ==
        [c EXCEPT !.phase = "prepare", !.kind = kind, !.host = host, !.attempt = 1, !.hosts = @ \cup {host},
                  !.time = service.time \/ kind \in {"upload", "create", "continue"}]
      reading == c.call.op = "upload_reader" /\ c.url /\ left > 0
  IN /\ c.phase = "build"
     /\ CASE c.call.op # "upload_reader" -> tasks' = [tasks EXCEPT ![t] = request(c.call.op, service.host)]
          [] c.call.op = "upload_reader" /\ ~c.url -> tasks' = [tasks EXCEPT ![t] = request("create", service.host)]
          [] c.call.op = "upload_reader" /\ c.url /\ left = 0 ->
               tasks' = [tasks EXCEPT ![t] = [request("continue", c.host) EXCEPT !.sent = <<>>, !.final = TRUE]]
          [] reading /\ read.chunk = <<>> -> done(t, Err("internal-error"))
          [] OTHER ->
               \/ tasks' = [tasks EXCEPT ![t] = [request("continue", c.host) EXCEPT
                              !.sent = read.chunk, !.reader = read.rest, !.final = Len(read.chunk) = left]]
               \/ done(t, Err("internal-error"))
     /\ UNCHANGED <<servers, service, during, calls, faults>>

\* prepare_request: the credentials are awaited, then the override is read; and
\* the first check of the time there is.
Prepare(t) ==
  /\ tasks[t].phase = "prepare"
  /\ \/ /\ UNCHANGED faults
        /\ IF tasks[t].time THEN tasks' = [tasks EXCEPT ![t].phase = "send", ![t].token = service.override]
           ELSE done(t, Err("retry-limit-exceeded"))
     \/ faults < MaxFaults /\ faults' = faults + 1 /\ done(t, Err("internal-error"))
  /\ UNCHANGED <<servers, service, during, calls>>

(***************************************************************************)
(* HttpClient::execute: attempts of one request.                           *)
(***************************************************************************)
\* What a server makes of the request: the objects, the session, an answer.
Served(c) ==
  LET b == servers[c.host]
      path == c.call.at
      there == Present(b, path)
      reply(status, body) == [objects |-> b, session |-> c.session, status |-> status, body |-> body]
      stored(o) == IF path \in Names THEN [b EXCEPT ![path] = o] ELSE b
      fits == c.session.status = "active" /\ Len(c.session.data) = c.offset
      data == c.session.data \o c.sent
      whole == [data |-> data, type |-> content_type(c.call.type), tokens |-> <<"", "t">>]
  IN CASE c.kind \in ObjectCalls /\ ~there -> {reply(404, <<>>)}
       [] c.kind \in {"get_metadata", "get_download_url"} /\ there -> {reply(200, b[path])}
       [] c.kind = "update_metadata" /\ there ->
            {[reply(200, [b[path] EXCEPT !.type = c.call.type]) EXCEPT
                !.objects = stored([b[path] EXCEPT !.type = c.call.type])]}
       [] c.kind \in {"get_bytes", "get_stream"} /\ there ->
            {reply(200, b[path])} \cup
              (IF c.call.limit = <<>> THEN {}
               ELSE {reply(206, [b[path] EXCEPT !.data = Cut(@, c.call.limit[1] + 1)])})
       [] c.kind = "delete_object" /\ there -> {[reply(204, <<>>) EXCEPT !.objects = stored(NoObject)]}
       [] c.kind = "upload" ->
            {[reply(200, multipart_upload_request(c.call)) EXCEPT !.objects = stored(multipart_upload_request(c.call))]}
       [] c.kind \in ListCalls ->
            {reply(200, PageOf(b, build_list_options(c)))}
       [] c.kind = "create" -> {[reply(200, <<>>) EXCEPT !.session = [status |-> "active", data |-> <<>>]]}
       [] c.kind = "continue" /\ ~fits -> {reply(400, <<>>)}
       [] c.kind = "continue" /\ fits /\ ~c.final ->
            {[reply(200, <<>>) EXCEPT !.session = [status |-> "active", data |-> data]]}
       [] OTHER ->
            {[reply(200, whole) EXCEPT !.session = [status |-> "final", data |-> data],
                                      !.objects = stored(whole)]}

\* parse_list_result: items and prefixes apart.
ItemsOf(page) == SelectSeq(page.entries, LAMBDA e : ~e.prefix)
PrefixesOf(page) == SelectSeq(page.entries, LAMBDA e : e.prefix)

\* list ends with its page, list_all goes on while there is a token.
listed(c, page) ==
  LET merged == [c EXCEPT !.items = @ \o ItemsOf(page), !.prefixes = @ \o PrefixesOf(page), !.page = page.token]
  IN IF c.kind = "list_all" /\ page.token # 0 THEN [merged EXCEPT !.phase = "build"] ELSE ended(merged, Ok(<<>>))

\* A chunk that was accepted moves the offset; the last one ends the upload.
continued(c, body) ==
  IF c.final THEN ended(c, Ok(metadata_of(body))) ELSE [c EXCEPT !.offset = @ + Len(c.sent), !.phase = "build"]

\* The response handler of the request, and what the method does with it.
handled(c, reply) ==
  LET tokens == SelectSeq(reply.body.tokens, LAMBDA x : x # "")
  IN CASE c.kind \in {"get_metadata", "update_metadata", "upload"} -> ended(c, Ok(metadata_of(reply.body)))
       [] c.kind = "get_bytes" -> ended(c, Ok(truncated(reply.body.data, c.call.limit)))
       [] c.kind = "get_stream" -> ended(c, Ok(reply.body.data))
       [] c.kind = "get_download_url" -> ended(c, IF tokens = <<>> THEN Err("no-download-url") ELSE Ok(tokens[1]))
       [] c.kind = "delete_object" -> ended(c, Ok(<<>>))
       [] c.kind \in ListCalls -> listed(c, reply.body)
       [] c.kind = "create" -> [c EXCEPT !.phase = "build", !.url = TRUE]
       [] OTHER -> continued(c, reply.body)

\* can_retry: while attempts and time are left; time may also run out before the
\* next attempt is made.
again(t, c, error) ==
  \/ c.attempt < max_attempts /\ tasks' = [tasks EXCEPT ![t] = [c EXCEPT !.attempt = @ + 1]]
  \/ c.attempt < max_attempts /\ done(t, Err("retry-limit-exceeded"))
  \/ done(t, Err(error))

\* The server answers.
Answer(t) ==
  LET c == tasks[t] IN
  /\ c.phase = "send"
  /\ \E reply \in Served(c) :
       LET d == [c EXCEPT !.session = reply.session]
       IN /\ servers' = [servers EXCEPT ![c.host] = reply.objects]
          /\ IF reply.status \in request_info(c.kind, c.call.limit).success_codes
             THEN tasks' = [tasks EXCEPT ![t] = handled(d, reply)]
             ELSE done(t, Err(map_failure(c, reply.status, FALSE)))
  /\ Observed
  /\ UNCHANGED <<service, calls, faults>>

\* What makes an answer one the response handler rejects: a body that is not the
\* JSON it reads, or of an upload the status header: missing, unknown, cancelled,
\* or not the final one with its metadata.
rejections(kind) ==
  CASE kind \in {"create", "continue"} -> {"internal-error", "canceled"}
    [] kind \in {"get_bytes", "get_stream", "delete_object"} -> {}
    [] OTHER -> {"internal-error"}

\* It answers, but the answer is not understood.
Misread(t) ==
  LET c == tasks[t] IN
  /\ c.phase = "send" /\ faults < MaxFaults
  /\ faults' = faults + 1
  /\ \E reply \in Served(c), error \in rejections(c.kind) :
       /\ reply.status \in request_info(c.kind, c.call.limit).success_codes
       /\ servers' = [servers EXCEPT ![c.host] = reply.objects]
       /\ done(t, Err(error))
  /\ Observed
  /\ UNCHANGED <<service, calls>>

\* It refuses; the body of a stream's refusal may not be read.
Refuse(t) ==
  LET c == tasks[t] IN
  /\ c.phase = "send" /\ faults < MaxFaults
  /\ faults' = faults + 1
  /\ \E r \in Refusals :
       LET error == map_failure(c, r.status, r.app_check)
       IN CASE should_retry(c.kind, r.status) -> again(t, c, error)
            [] c.kind = "get_stream" -> done(t, Err(error)) \/ done(t, Err("internal-error"))
            [] OTHER -> done(t, Err(error))
  /\ UNCHANGED <<servers, service, during, calls>>

\* The network fails before or after the server acted, which is tried again; the
\* request's own timeout strikes, which is not; or the request could not be made.
Lose(t) ==
  LET c == tasks[t] IN
  /\ c.phase = "send" /\ faults < MaxFaults
  /\ faults' = faults + 1
  /\ \/ \E reply \in Served(c) \cup {[objects |-> servers[c.host], session |-> c.session]} :
          /\ servers' = [servers EXCEPT ![c.host] = reply.objects]
          /\ \/ again(t, [c EXCEPT !.session = reply.session], "retry-limit-exceeded")
             \/ done(t, Err("retry-limit-exceeded"))
     \/ UNCHANGED servers /\ done(t, Err("internal-error"))
  /\ Observed
  /\ UNCHANGED <<service, calls>>

(***************************************************************************)
(* Some objects are there, one without a download token.                   *)
(***************************************************************************)
Init ==
  /\ servers = [h \in Hosts |->
       [n \in Names |-> IF h = DEFAULT_HOST /\ Len(n) < 3
                        THEN [data |-> <<1, 2>>, type |-> "text",
                              tokens |-> IF Len(n) = 1 THEN <<"t">> ELSE <<"", "">>]
                        ELSE NoObject]]
  /\ service \in [host : {DEFAULT_HOST}, override : {"none"}, bucket : Buckets, time : {TRUE}]
  /\ tasks = [t \in Tasks |-> Idle]
  /\ during = [t \in Tasks |-> {}]
  /\ calls = 0 /\ faults = 0

TaskStep(t) ==
  Reference(t) \/ UploadString(t) \/ Build(t) \/ Prepare(t) \/ Answer(t) \/ Misread(t) \/ Refuse(t) \/ Lose(t)

Next == Connect \/ SetRetryTime \/ \E t \in Tasks : TaskStep(t)

Spec == Init /\ [][Next]_reqVars
-----------------------------------------------------------------------------
TypeOK ==
  /\ \A h \in Hosts : DOMAIN servers[h] = Names
  /\ service \in [host : Hosts, override : {"none", "mock"}, bucket : BOOLEAN, time : BOOLEAN]
  /\ \A t \in Tasks : /\ tasks[t].phase \in {"idle", "build", "prepare", "send", "done"}
                      /\ tasks[t].result.error \in Codes \cup {""}
                      /\ tasks[t].attempt \in 0 .. max_attempts
                      /\ tasks[t].offset \in 0 .. tasks[t].call.total
  /\ calls \in 0 .. MaxCalls /\ faults \in 0 .. MaxFaults

\* A call that ended without a change of host under it, and what it saw.
Ended(t) == tasks[t].phase = "done" /\ Cardinality(tasks[t].hosts) = 1
Saw(t) == {s[CHOOSE h \in tasks[t].hosts : TRUE] : s \in during[t]}

\* Through retries, lost answers and other tasks' changes, what a call reports
\* was so at some moment while it ran: an object that is not found was absent,
\* a deletion had an object to delete, the bytes and the metadata are those of
\* one version of the object, and an upload that succeeds stored exactly the
\* bytes it was given or read.
AnswersWereTrue ==
  \A t \in Tasks : Ended(t) =>
    LET c == tasks[t]
        ok(op) == c.call.op = op /\ c.result.ok
        versions == {b[c.call.at] : b \in {s \in Saw(t) : Present(s, c.call.at)}}
    IN /\ c.result.error = "object-not-found" => \E b \in Saw(t) : ~Present(b, c.call.at)
       /\ ok("delete_object") => versions # {} /\ \E b \in Saw(t) : ~Present(b, c.call.at)
       /\ ok("get_metadata") \/ ok("update_metadata") => \E o \in versions : c.result.value = metadata_of(o)
       /\ ok("get_bytes") => \E o \in versions :
            c.result.value = IF c.call.limit = <<>> THEN o.data ELSE Cut(o.data, c.call.limit[1])
       /\ ok("upload") /\ c.call.at \in Names =>
            \E o \in versions : o.data = c.call.data /\ c.result.value = metadata_of(o)
       /\ ok("upload_reader") /\ c.call.at \in Names =>
            \E o \in versions : /\ o.data = Cut(FlattenSeq(c.call.reader), c.call.total) /\ Len(o.data) = c.call.total
                                /\ c.result.value = metadata_of(o) /\ o.type = content_type(c.call.type)

\* list_all, over pages between which other tasks upload and delete: what was
\* directly under the reference all the time is reported, once, nothing is
\* reported that was not there at some moment, and every prefix stands for an
\* object below it.
ListingsAreComplete ==
  \A t \in Tasks : Ended(t) /\ tasks[t].call.op = "list_all" /\ tasks[t].result.ok =>
    LET c == tasks[t]
        entries == c.items \o c.prefixes
        reported == {entries[i] : i \in DOMAIN entries}
    IN /\ \A e \in reported : \E b \in Saw(t) : e \in Entries(b, c.call.at)
       /\ \A e \in UNION {Entries(b, c.call.at) : b \in Saw(t)} :
            (\A b \in Saw(t) : e \in Entries(b, c.call.at)) => e \in reported
       /\ Cardinality(reported) = Len(entries)

\* The URLs of the reference used lead back to it: its gs:// URL, and the URL of a
\* download, whose path is encoded, from a host without a port; and a child's
\* parent is the reference it was taken from.
UrlsLeadBack ==
  \A t \in {u \in Tasks : tasks[u].phase = "done"} :
    LET path == tasks[t].call.at
    IN /\ from_url(to_gs_url(path), service.host) = Ok(path)
       /\ from_url(full_server_url(DEFAULT_HOST, path), DEFAULT_HOST) = Ok(path)
       /\ path # <<>> => child(parent(path), <<last_component(path)>>) = path
=============================================================================
