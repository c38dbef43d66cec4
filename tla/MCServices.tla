----------------------------- MODULE MCServices -----------------------------
(***************************************************************************)
(* The services of an app for TLC.  `part` says which service a behaviour  *)
(* exercises; the others stay in their initial state, so that the states   *)
(* explored are the sum of the services', not their product.               *)
(***************************************************************************)
EXTENDS RemoteConfig, TLC

CONSTANTS Callers, Loops, Refreshers, Ttl, Offset, MinWait, MaxWait, OneDay

VARIABLES part,
          st, refs, checkJobs, throttle, calls, checkPast,
          accounts, users, current, authDisk, where, authCache, authTasks, authPast,
          storage, hbStore, hbCache, day, agent, hbTasks, hbCalls, recorded, sent, hbDisturbed,
          servers, service, reqTasks, during, reqCalls, reqFaults,
          level, instances, loggers, lock, logJobs, begun, own, told, last, overlapped

\* The parameters of two templates.
TwoTemplates == <<{"k1"}, {"k2"}>>

Check == INSTANCE AppCheck WITH MaxCalls <- 3, jobs <- checkJobs, past <- checkPast
Methods == INSTANCE AuthMethods WITH
  Tasks <- Callers, Uids <- {1, 2}, Stores <- {"s1", "s2"}, MaxCalls <- 3, MaxErrors <- 1,
  disk <- authDisk, cache <- authCache, tasks <- authTasks, past <- authPast
Beats == INSTANCE Heartbeats WITH
  Tasks <- Callers, Agents <- {"a", "b"}, MAX_NUM_STORED_HEARTBEATS <- 2, MAX_HEADER_BYTES <- 5, AgentBytes <- 2,
  MaxDay <- 3, MaxCalls <- 3, backend <- storage, store <- hbStore, cache <- hbCache, tasks <- hbTasks,
  calls <- hbCalls, disturbed <- hbDisturbed

\* An argument of upload_string.
Str(format, type, ok) ==
  [format |-> format, given |-> "", type |-> type, scheme |-> ok, comma |-> TRUE, valid |-> ok, payload |-> <<3>>]

\* An argument of reference_from_path: no segment of these is encoded whole.
Arg(scheme, host, path) == [scheme |-> scheme, host |-> host, segments |-> [i \in DOMAIN path |-> <<path[i]>>]]

Store == INSTANCE StorageRequests WITH
  Tasks <- Callers, Names <- {<<"a">>, <<"a", "b">>, <<"c">>}, Order <- <<"a", "b", "c">>,
  Arguments <- {Arg("path", "", <<>>), Arg("path", "", <<"a", "", "b">>),
                Arg("http", "storage.googleapis.com", <<"bucket", "a", "">>)}, Buckets <- BOOLEAN,
  Strings <- {Str("data_url", "image", TRUE), Str("base64", "", FALSE)},
  Readers <- {[reads |-> <<<<1>>, <<2, 3>>>>, total |-> 3, type |-> "image"], [reads |-> <<>>, total |-> 0, type |-> ""],
              [reads |-> <<<<4>>>>, total |-> 2, type |-> ""]},
  Limits <- {<<>>, <<1>>}, Refusals <- {[status |-> 401, app_check |-> TRUE], [status |-> 503, app_check |-> FALSE]},
  PageSize <- 1, RESUMABLE_UPLOAD_CHUNK_SIZE <- 2, max_attempts <- 2, MaxCalls <- 2, MaxFaults <- 1,
  tasks <- reqTasks, calls <- reqCalls, faults <- reqFaults

Logs == INSTANCE Logger WITH
  Threads <- Callers, Loggers <- 1 .. 2, LevelNames <- {"warning", "none"}, Emitted <- {2},
  Handlers <- {[callback |-> "cb", level |-> -1]}, MaxCalls <- 4, job <- logJobs

ASSUME ConstantsOK /\ Logs!ConstantsOK /\ Check!ConstantsOK

checkVars == <<st, refs, checkJobs, throttle, calls, checkPast>>
methodVars == <<accounts, users, current, authDisk, where, authCache, authTasks, authPast>>
beatVars == <<storage, hbStore, hbCache, day, agent, hbTasks, hbCalls, recorded, sent, hbDisturbed>>
reqVars == <<servers, service, reqTasks, during, reqCalls, reqFaults>>
logVars == <<level, instances, loggers, lock, logJobs, begun, own, told, last, overlapped>>

Symmetry == Permutations(Callers)

\* One initial state of the services that are not exercised.
ServicesInit ==
  /\ part \in {"appCheck", "remoteConfig", "signIn", "heartbeats", "storage", "logger"}
  /\ Init /\ Check!Init /\ Methods!Init /\ Beats!Init /\ Store!Init /\ Logs!Init
  /\ part # "heartbeats" => storage = "memory" /\ agent = "a"

\* Bound: the third call of these begins when the others have ended.
AtMostOneBusy(at) == \A t, u \in Callers : t # u => at[t].pc = "idle" \/ at[u].pc = "idle"

ServicesNext ==
  \/ part = "appCheck" /\ Check!Next
     /\ UNCHANGED <<part, rcVars, methodVars, beatVars, reqVars, logVars>>
  \/ part = "remoteConfig" /\ Next
     /\ UNCHANGED <<part, checkVars, methodVars, beatVars, reqVars, logVars>>
  \/ /\ part = "signIn" /\ Methods!Next
     /\ UNCHANGED <<part, checkVars, rcVars, beatVars, reqVars, logVars>>
     /\ authPast'.calls = 3 => AtMostOneBusy(authTasks')
  \/ /\ part = "heartbeats" /\ Beats!Next
     /\ UNCHANGED <<part, checkVars, rcVars, methodVars, reqVars, logVars>>
     /\ hbCalls' = 3 => AtMostOneBusy(hbTasks')
  \/ part = "storage" /\ Store!Next
     /\ UNCHANGED <<part, checkVars, rcVars, methodVars, beatVars, logVars>>
  \/ part = "logger" /\ Logs!Next
     /\ UNCHANGED <<part, checkVars, rcVars, methodVars, beatVars, reqVars>>

vars == <<part, checkVars, rcVars, methodVars, beatVars, reqVars, logVars>>
ServicesSpec == ServicesInit /\ [][ServicesNext]_vars
-----------------------------------------------------------------------------
\* One refresh loop at most goes on, none once refresh is disabled; get_token
\* hands out no expired token, also beside an error; after a 403 or 404 no
\* exchange is sent for a day; and a loop wakes before its token expires
\* (AppCheck).
AppCheckIsSound ==
  part = "appCheck" => /\ Check!TypeOK /\ Check!LoopsFollowTheSwitch /\ Check!TokensHandedOutAreValid
                       /\ Check!ForbiddenIsRespected /\ Check!RefreshPrecedesExpiry


\* No list of heartbeats holds a day twice or more than the limit and, undisturbed,
\* each day noted has been sent once or is still kept (Heartbeats); the setters that
\* sweep the list of loggers miss none that is alive, though entries of dead ones are
\* taken out under way, and a message is judged by a level its logger had while it was
\* logged (Logger).
SharedListsAreKept ==
  /\ part = "heartbeats" => Beats!OneHeartbeatPerDay
  /\ part = "logger" => /\ Logs!TypeOK /\ Logs!SettersReachEveryLogger /\ Logs!EveryLoggerIsListed
                        /\ Logs!MessagesMeetALevel

\* Through retries and lost answers, what a call reports was so at some moment of
\* the call, a listing over several pages names every object that stayed, once, and
\* a reference's URLs lead back to it (StorageRequests).
AnswersWereTrue ==
  part = "storage" => Store!TypeOK /\ Store!AnswersWereTrue /\ Store!ListingsAreComplete /\ Store!UrlsLeadBack
=============================================================================
