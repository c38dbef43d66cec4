----------------------------- MODULE MCProducts -----------------------------
(***************************************************************************)
(* The products that talk to their backends by requests, for TLC: the REST *)
(* transport of Firestore and the values it carries, Storage uploads,      *)
(* Messaging, Performance, Analytics, and the flows of Auth that leave the *)
(* program: redirects, action codes, restored sessions.                    *)
(* `part` says which one a behaviour exercises; the others stay in their   *)
(* initial state.                                                          *)
(***************************************************************************)
EXTENDS StorageUpload, Sequences, TLC

CONSTANT Callers

VARIABLES part,
          sources, restCalls, applied, restFaults,
          platform, token, tokenCache, opened, channel, subscription, permission, installed, live,
          pageCalls, now, msgCounts, msgDisturbed,
          backend, queue, file, collecting, instrumenting, handles, flushes, uploaded, perfCounts, perfDisturbed,
          term, wire, at, value, sent, result,
          handlers, pending, requests, arrived, redirectCalls, user, redirected,
          account, signedIn, codes, told, flowCalls, dropped, flowFaults,
          analytics, gtag, loggers, during, received, logCalls, logFaults, setter, overlapped

Rest == INSTANCE RestRequests WITH
  Calls <- Callers, Keys <- {"a", "b"}, Existing <- {"b"}, Lists <- {<<>>, <<"a", "b">>},
  Refusals <- {[status |-> 409, wire |-> "ABORTED"], [status |-> 503, wire |-> "none"]},
  max_attempts <- 2, MaxFaults <- 1, calls <- restCalls, faults <- restFaults

Push == INSTANCE Messaging WITH
  Pages <- Callers, Keys <- {"default", "k"}, TOKEN_EXPIRATION <- 1, AuthLifetime <- 3,
  AUTH_TOKEN_REFRESH_BUFFER <- 1, MaxNow <- 2, MaxCalls <- 2, MaxFaults <- 1,
  store <- token, cache <- tokenCache, calls <- pageCalls, counts <- msgCounts, disturbed <- msgDisturbed

Perf == INSTANCE Performance WITH
  Traces <- {"trace"}, Requests <- {"request"}, Flushes <- Callers, BatchSize <- 2,
  MaxFaults <- 1, MaxSends <- 2, MaxSettings <- 1, counts <- perfCounts, disturbed <- perfDisturbed

\* The same with batches that leave records in the queue.
Single == INSTANCE Performance WITH
  Traces <- {"trace"}, Requests <- {"request"}, Flushes <- Callers, BatchSize <- 1,
  MaxFaults <- 1, MaxSends <- 2, MaxSettings <- 0, counts <- perfCounts, disturbed <- perfDisturbed

Values == INSTANCE FirestoreValues WITH MaxInt <- 3, Second <- 4, MaxSeconds <- 9, Ninety <- 2

Redirect == INSTANCE OAuthRedirect WITH
  Providers <- {"google"}, Users <- {"u"}, Pages <- Callers, MaxRequests <- 2, calls <- redirectCalls, applied <- redirected
Flows == INSTANCE AccountFlows WITH
  Emails <- {"e1", "e2"}, Callers <- {"caller"}, MaxCodes <- 2, MaxEpoch <- 1, MaxFaults <- 1,
  session <- signedIn, calls <- flowCalls, faults <- flowFaults

Events == INSTANCE Analytics WITH
  Apps <- {"local", "remote"}, Options <- [a \in {"local", "remote"} |-> IF a = "local" THEN "G0" ELSE "none"],
  Tasks <- Callers, Ids <- {"", "G1"}, Clients <- {"client"}, Maps <- {"map"}, Endpoints <- {"collect", "invalid"},
  MaxCalls <- 3, MaxFaults <- 1, instances <- analytics, tasks <- loggers, calls <- logCalls, faults <- logFaults

ASSUME ConstantsOK
ASSUME Rest!ConstantsOK /\ Push!ConstantsOK /\ Perf!ConstantsOK /\ Single!ConstantsOK

restVars == <<sources, restCalls, applied, restFaults>>
msgVars == <<platform, token, tokenCache, opened, channel, subscription, permission, installed, live,
             pageCalls, now, msgCounts, msgDisturbed>>
perfVars == <<backend, queue, file, collecting, instrumenting, handles, flushes, uploaded, perfCounts, perfDisturbed>>
valueVars == <<term, wire, at, value, sent, result>>
redirectVars == <<handlers, pending, requests, arrived, redirectCalls, user, redirected>>
flowVars == <<account, signedIn, codes, told, flowCalls, dropped, flowFaults>>
eventVars == <<analytics, gtag, loggers, during, received, logCalls, logFaults, setter, overlapped>>
vars == <<part, upVars, restVars, msgVars, perfVars, valueVars, redirectVars, flowVars, eventVars>>

Symmetry == Permutations(Callers)

\* One initial state of the parts that are not exercised.
ProductsInit ==
  /\ part \in {"upload", "rest", "messaging", "performance", "single", "values", "redirect", "accounts", "analytics"}
  /\ Init /\ Rest!Init /\ Push!Init /\ Perf!Init /\ Redirect!Init /\ Flows!Init /\ Events!Init
  /\ part # "upload" => task.total = 1
  /\ part # "messaging" => platform = "web"
  /\ part \notin {"performance", "single"} => backend = "memory" /\ collecting
  /\ part # "redirect" => handlers = {} /\ user = "u"
  /\ part # "accounts" => account.email = "e1" /\ signedIn.user = "u"
  /\ IF part = "values"
     THEN Values!Init
     ELSE /\ term = Values!Term("seq", 0, 0, "", <<>>) /\ wire = "json" /\ at = "program"
          /\ value = Values!Null /\ sent = Values!encode_value(Values!Null) /\ result = Values!None

ProductsNext ==
  \/ part = "upload" /\ Next
     /\ UNCHANGED <<part, restVars, msgVars, perfVars, valueVars, redirectVars, flowVars, eventVars>>
  \/ part = "rest" /\ Rest!Next
     /\ UNCHANGED <<part, upVars, msgVars, perfVars, valueVars, redirectVars, flowVars, eventVars>>
  \/ part = "messaging" /\ Push!Next
     /\ UNCHANGED <<part, upVars, restVars, perfVars, valueVars, redirectVars, flowVars, eventVars>>
  \/ ((part = "performance" /\ Perf!Next) \/ (part = "single" /\ Single!Next))
     /\ UNCHANGED <<part, upVars, restVars, msgVars, valueVars, redirectVars, flowVars, eventVars>>
  \/ part = "values" /\ Values!Next
     /\ UNCHANGED <<part, upVars, restVars, msgVars, perfVars, redirectVars, flowVars, eventVars>>
  \/ part = "redirect" /\ Redirect!Next
     /\ UNCHANGED <<part, upVars, restVars, msgVars, perfVars, valueVars, flowVars, eventVars>>
  \/ part = "accounts" /\ Flows!Next
     /\ UNCHANGED <<part, upVars, restVars, msgVars, perfVars, valueVars, redirectVars, eventVars>>
  \/ part = "analytics" /\ Events!Next
     /\ UNCHANGED <<part, upVars, restVars, msgVars, perfVars, valueVars, redirectVars, flowVars>>

ProductsSpec == ProductsInit /\ [][ProductsNext]_vars
-----------------------------------------------------------------------------
\* However answers are lost, refused or retried, a commit takes effect at most
\* once, a request sent again after a rejected credential does not carry the
\* rejected token unless another call undertook to replace it, and documents read
\* together come in the order asked for (RestRequests).
RetriesAreSafe ==
  part = "rest" => /\ Rest!TypeOK /\ Rest!CommitsAreNotReplayed /\ Rest!RetriesCarryAFreshToken
                   /\ Rest!BatchAnswersItsKeys

\* Between calls FCM has just the registration the browser keeps, and every page
\* knows it, unless calls overlapped or an answer was lost (Messaging).
OneRegistration == part = "messaging" => Push!TypeOK /\ Push!OneRegistration

\* However flushes overlap and IndexedDB fails, a record that was kept is in one place at
\* a time and uploaded once, unless requeue gave it up, an answer or a write of the file
\* was lost, or IndexedDB was used twice at once (Performance); and an event is sent once, as
\* the instance was configured during the call, while the registry all apps share
\* follows whoever set it last (Analytics).
TelemetryIsSentOnce ==
  /\ part \in {"performance", "single"} => Perf!TypeOK /\ Perf!RecordsAreUploadedOnce
  /\ part = "analytics" => Events!TypeOK /\ Events!EventsAreSentAsConfigured /\ Events!RegistryFollowsItsSetter

\* Over either wire a plain value is read back as it was, and any other is refused
\* but for the few that are changed (FirestoreValues).
ValuesSurvive == part = "values" => Values!TypeOK /\ Values!ValuesSurvive

=============================================================================
