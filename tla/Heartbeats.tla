----------------------------- MODULE Heartbeats -----------------------------
(***************************************************************************)
(* Heartbeats (core/app/heartbeat.rs): the days an app was used on, kept   *)
(* with the name of the platform until a request carries them.  Each call  *)
(* works on a copy of what is stored, across awaits that no lock spans.    *)
(***************************************************************************)
EXTENDS Integers, Sequences, FiniteSets, SequencesExt

CONSTANTS Tasks,
          Agents,            \* platform_info_string
          MAX_NUM_STORED_HEARTBEATS,
          MAX_HEADER_BYTES,
          AgentBytes,        \* what naming an agent takes, a date taking one
          MaxDay, MaxCalls   \* bounds

VARIABLES backend,  \* storage_for_app: in memory, IndexedDB, or IndexedDB where there is none
          store, cache, day, agent, tasks,
          calls,
          recorded, sent,   \* history: days noted, and carried by a header
          disturbed         \* history: calls overlapped, a write failed, the list was full, the program stopped

heartbeatVars == <<backend, store, cache, day, agent, tasks, calls, recorded, sent, disturbed>>

Backends == {"memory", "indexedDb", "unsupported"}
NoDate == 0
Empty == [last_sent |-> NoDate, heartbeats |-> <<>>]
NotLoaded == [last_sent |-> -1, heartbeats |-> <<>>]
\* `value` is the copy a call works on, `last_sent` the date it writes with it.
Idle == [pc |-> "idle", op |-> "none", value |-> Empty, last_sent |-> NoDate, header |-> <<>>]

Init ==
  /\ backend \in Backends
  /\ store = Empty /\ cache = NotLoaded /\ day = 1 /\ agent \in Agents
  /\ tasks = [t \in Tasks |-> Idle] /\ calls = 0
  /\ recorded = {} /\ sent = <<>> /\ disturbed = FALSE

At(t, pc) == tasks[t].pc = pc
goes(t, task) == tasks' = [tasks EXCEPT ![t] = task]
Dates(heartbeats) == {heartbeats[i].date : i \in DOMAIN heartbeats}

prune_oldest(heartbeats) ==
  IF Len(heartbeats) <= MAX_NUM_STORED_HEARTBEATS THEN heartbeats
  ELSE RemoveAt(heartbeats, CHOOSE i \in DOMAIN heartbeats :
         /\ \A j \in DOMAIN heartbeats : heartbeats[i].date <= heartbeats[j].date
         /\ \A j \in 1 .. i - 1 : heartbeats[i].date < heartbeats[j].date)

\* The entries are grouped by agent before they are encoded.
encoded_len(entries) == AgentBytes * Cardinality({entries[i].agent : i \in DOMAIN entries}) + Len(entries)

\* As many as fit, in order; one too large is skipped and kept.
header_payload(heartbeats) ==
  FoldLeft(LAMBDA r, hb : IF encoded_len(Append(r.to_send, hb)) <= MAX_HEADER_BYTES
                          THEN [r EXCEPT !.to_send = Append(@, hb)] ELSE [r EXCEPT !.unsent = Append(@, hb)],
           [to_send |-> <<>>, unsent |-> <<>>], heartbeats)

\* trigger_heartbeat, once the value is there
triggered(t, value) ==
  IF value.last_sent = day \/ day \in Dates(value.heartbeats) THEN Idle
  ELSE [tasks[t] EXCEPT !.pc = "merging", !.value = [value EXCEPT !.heartbeats = prune_oldest(Append(@, [date |-> day, agent |-> agent]))]]

\* heartbeats_header, once the value is there
headed(t, value) ==
  LET result == header_payload(value.heartbeats)
  IN IF result.to_send = <<>> THEN Idle
     ELSE [tasks[t] EXCEPT !.pc = "merging", !.header = result.to_send,
                           !.value = [last_sent |-> day, heartbeats |-> result.unsent]]

loaded(t, value) == IF tasks[t].op = "trigger" THEN triggered(t, value) ELSE headed(t, value)
Full(t, value) == tasks[t].op = "trigger" /\ Len(value.heartbeats) >= MAX_NUM_STORED_HEARTBEATS

\* A heartbeat noted in a task of its own whenever a product looks for a provider
\* (get_provider), or a request that wants the header.
Begin(t, op) ==
  /\ At(t, "idle") /\ calls < MaxCalls /\ calls' = calls + 1
  /\ goes(t, [Idle EXCEPT !.pc = "loading", !.op = op])
  /\ disturbed' = (disturbed \/ \E o \in Tasks : ~At(o, "idle"))
  /\ UNCHANGED <<backend, store, cache, day, agent, recorded, sent>>

LoadCached(t) ==
  /\ At(t, "loading") /\ cache # NotLoaded
  /\ goes(t, loaded(t, cache))
  /\ disturbed' = (disturbed \/ Full(t, cache))
  /\ UNCHANGED <<backend, store, cache, day, agent, calls, recorded, sent>>

\* storage.read: a database that cannot be read reads as empty.
Read(t) ==
  /\ At(t, "loading") /\ cache = NotLoaded
  /\ \E fails \in BOOLEAN :
       LET value == IF fails \/ backend = "unsupported" THEN Empty ELSE store
       IN /\ fails => backend = "indexedDb"
          /\ goes(t, [tasks[t] EXCEPT !.pc = "read", !.value = value])
          /\ disturbed' = (disturbed \/ fails)
  /\ UNCHANGED <<backend, store, cache, day, agent, calls, recorded, sent>>

\* The cache is set to what was read, whatever has been put there meanwhile.
Load(t) ==
  /\ At(t, "read")
  /\ cache' = tasks[t].value
  /\ goes(t, loaded(t, tasks[t].value))
  /\ disturbed' = (disturbed \/ Full(t, tasks[t].value))
  /\ UNCHANGED <<backend, store, day, agent, calls, recorded, sent>>

\* overwrite: IndexedDB writes the stored date where the value has none, if it can be
\* read.
Merge(t) ==
  /\ At(t, "merging")
  /\ \E fails \in BOOLEAN :
       LET date == tasks[t].value.last_sent
       IN /\ fails => backend = "indexedDb" /\ date = NoDate
          /\ goes(t, [tasks[t] EXCEPT !.pc = "writing",
                        !.last_sent = IF backend = "indexedDb" /\ date = NoDate /\ ~fails THEN store.last_sent ELSE date])
          /\ disturbed' = (disturbed \/ fails)
  /\ UNCHANGED <<backend, store, cache, day, agent, calls, recorded, sent>>

\* write_inner: a write that fails is only logged.
Write(t) ==
  /\ At(t, "writing")
  /\ \E fails \in BOOLEAN :
       /\ fails => backend = "indexedDb"
       /\ store' = IF fails \/ backend = "unsupported" THEN store ELSE [tasks[t].value EXCEPT !.last_sent = tasks[t].last_sent]
       /\ disturbed' = (disturbed \/ fails)
  /\ goes(t, [tasks[t] EXCEPT !.pc = "written"])
  /\ UNCHANGED <<backend, cache, day, agent, calls, recorded, sent>>

\* update_cache, with the copy and not with what was written, and the call returns.
Finish(t) ==
  /\ At(t, "written")
  /\ cache' = tasks[t].value
  /\ recorded' = IF tasks[t].op = "trigger" THEN recorded \cup {Last(tasks[t].value.heartbeats).date} ELSE recorded
  /\ sent' = sent \o [i \in DOMAIN tasks[t].header |-> tasks[t].header[i].date]
  /\ goes(t, Idle)
  /\ UNCHANGED <<backend, store, day, agent, calls, disturbed>>

\* today_utc
Tomorrow ==
  /\ day < MaxDay /\ day' = day + 1
  /\ UNCHANGED <<backend, store, cache, agent, tasks, calls, recorded, sent, disturbed>>

\* platform_agent: another library registers its version.
Version(a) ==
  /\ a # agent /\ agent' = a
  /\ UNCHANGED <<backend, store, cache, day, tasks, calls, recorded, sent, disturbed>>

\* The program starts again: what is in memory only is gone.
Restart ==
  /\ cache # NotLoaded \/ \E t \in Tasks : ~At(t, "idle")
  /\ cache' = NotLoaded
  /\ disturbed' = (disturbed \/ \E t \in Tasks : ~At(t, "idle"))
  /\ tasks' = [t \in Tasks |-> Idle]
  /\ IF backend = "indexedDb" THEN UNCHANGED <<store, recorded, sent>>
     ELSE store' = Empty /\ recorded' = {} /\ sent' = <<>>
  /\ UNCHANGED <<backend, day, agent, calls>>

\* delete_app and initialize_app, with no call under way: the service is a new one, and
\* the store, which is the program's, is kept.
RemakeApp ==
  /\ cache # NotLoaded /\ \A t \in Tasks : At(t, "idle")
  /\ cache' = NotLoaded
  /\ IF backend = "unsupported" THEN recorded' = {} /\ sent' = <<>> ELSE UNCHANGED <<recorded, sent>>
  /\ UNCHANGED <<backend, store, day, agent, tasks, calls, disturbed>>

Next ==
  \/ \E t \in Tasks :
       \/ \E op \in {"trigger", "header"} : Begin(t, op)
       \/ LoadCached(t) \/ Read(t) \/ Load(t) \/ Merge(t) \/ Write(t) \/ Finish(t)
  \/ \E a \in Agents : Version(a)
  \/ Tomorrow \/ Restart \/ RemakeApp

Spec == Init /\ [][Next]_heartbeatVars
-----------------------------------------------------------------------------
OneADay(heartbeats) ==
  /\ Len(heartbeats) <= MAX_NUM_STORED_HEARTBEATS
  /\ \A i, j \in DOMAIN heartbeats : i # j => heartbeats[i].date # heartbeats[j].date

Kept == IF cache # NotLoaded THEN cache ELSE store

\* However calls overlap and storage fails, no list holds a day twice or more
\* than the limit.  When nothing disturbed them, and no call is under way, each
\* day recorded has been sent once or is still kept, never both, and no other is.
OneHeartbeatPerDay ==
  /\ OneADay(store.heartbeats) /\ OneADay(cache.heartbeats)
  /\ ~disturbed /\ (\A t \in Tasks : At(t, "idle")) =>
       /\ IsInjective(sent)
       /\ ToSet(sent) \cap Dates(Kept.heartbeats) = {}
       /\ ToSet(sent) \cup Dates(Kept.heartbeats) = recorded
=============================================================================
