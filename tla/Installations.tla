---------------------------- MODULE Installations ----------------------------
(***************************************************************************)
(* The installation id cache of firebase-installations, native build       *)
(* (api.rs with FilePersistence): one `Installations` instance shared by   *)
(* the tasks of a process, its file, and the Installations backend.  Every *)
(* critical section of the state mutex, every file access and every REST   *)
(* call is one step, so tasks on a multi-threaded runtime interleave       *)
(* between any two of them.  A crash loses the memory, keeps the file and  *)
(* may leave a file torn that was being written.                           *)
(*                                                                         *)
(* An entry is represented by its FID: the refresh token and the auth      *)
(* token travel with it, and whether the auth token still lasts is a free  *)
(* choice.  FilePersistence has no registration lock: acquiring it always  *)
(* succeeds and releasing it does nothing.                                 *)
(***************************************************************************)
EXTENDS Naturals, FiniteSets

CONSTANTS
    Tasks,          \* tasks calling the instance
    None, Torn,     \* no entry; a file whose write was cut short
    Ops,            \* the calls made, a subset of {"get_id", "get_token", "delete"}
    MaxCalls,       \* calls made by all tasks together
    MaxCrashes,     \* crashes followed by a restart of the process
    MaxRevoked      \* installations the backend deletes of its own accord

ASSUME InstallationsAssumption ==
    /\ Ops \subseteq {"get_id", "get_token", "delete"}
    /\ {MaxCalls, MaxCrashes, MaxRevoked} \subseteq Nat
    /\ None \notin Nat /\ Torn \notin Nat /\ None # Torn

VARIABLES
    mem,        \* CachedState: loaded, initializing, entry
    disk,       \* the file of the app: a FID, None or Torn
    live,       \* the FIDs the backend knows
    task,       \* what each task is doing: pc, op and the entry it holds
    count,      \* calls made, crashes, revocations, next FID
    past        \* history: ids handed out and what went wrong (see Trouble)

vars == <<mem, disk, live, task, count, past>>

Fids == Nat
Entry == Fids \cup {None}

\* FID 0 is the installation an earlier process left on disk.
OldFid == 0

Idle == [pc |-> "idle", op |-> "none", fid |-> None]

CachedStateDefault == [loaded |-> FALSE, initializing |-> FALSE, entry |-> None]

(***************************************************************************)
(* What an execution may meet that the guarantees below make exception of: *)
(*   reply   a registration or deletion whose answer was an error          *)
(*   reset   the entry was deleted, or forgotten after a 404               *)
(*   overlap another call was in progress during a delete or a forget      *)
(*   window  a registration began after a load cleared `initializing` and  *)
(*           before it published the entry it had read                     *)
(*   io      the file could not be read, written or removed                *)
(*   crash   the process crashed; tear: with a write under way             *)
(***************************************************************************)
Trouble == {"reply", "reset", "overlap", "window", "io", "crash", "tear"}

Init ==
    /\ mem = CachedStateDefault
    /\ disk \in {None, OldFid}
    /\ live = IF disk = None THEN {} ELSE {OldFid}
    /\ task = [t \in Tasks |-> Idle]
    /\ count = [calls |-> 0, crashes |-> 0, revoked |-> 0, fid |-> 1]
    /\ past = [handed |-> {}, durable |-> disk, deleted |-> {},
               trouble |-> {}, boot |-> disk]

Becomes(t, pc, op, fid) == task' = [task EXCEPT ![t] = [pc |-> pc, op |-> op, fid |-> fid]]
Goto(t, pc) == Becomes(t, pc, task[t].op, task[t].fid)
GotoWith(t, pc, fid) == Becomes(t, pc, task[t].op, fid)
Return(t) == task' = [task EXCEPT ![t] = Idle]

At(t, pc) == task[t].pc = pc
Troubled(p, what) == [p EXCEPT !.trouble = @ \cup what]
Overlap(t) ==
    IF \E u \in Tasks \ {t} : ~At(u, "idle") THEN {"overlap"} ELSE {}
Resetting == {"delete", "delete_rest", "clear", "reset", "forget", "forgotten"}

\* A call begins: get_id and get_token with ensure_entry, delete with the entry.
Call(t) ==
    /\ At(t, "idle") /\ count.calls < MaxCalls
    /\ \E op \in Ops :
          Becomes(t, IF op = "delete" THEN "delete" ELSE "ensure", op, None)
    /\ count' = [count EXCEPT !.calls = @ + 1]
    /\ past' = Troubled(past, IF \E u \in Tasks : task'[u].pc \in Resetting
                              THEN Overlap(t) ELSE {})
    /\ UNCHANGED <<mem, disk, live>>

(***************************************************************************)
(* ensure_entry answered with e.  get_id returns it.  get_token returns    *)
(* its token when that still lasts and no refresh is forced, and else asks *)
(* for a new one; on its second time round ("reget") it always returns.    *)
(***************************************************************************)
Ensured(t, e, p) ==
    /\ past' = [p EXCEPT !.handed = @ \cup {e}]
    /\ \/ Return(t)
       \/ task[t].op = "get_token" /\ GotoWith(t, "refresh", e)

----------------------------------------------------------------------------
(* ensure_entry *)

\* The loop's first look; a task that finds `initializing` yields and looks again.
EnsureLook(t) ==
    /\ At(t, "ensure")
    /\ \/ /\ mem.entry # None
          /\ Ensured(t, mem.entry, past)
       \/ /\ mem.entry = None /\ ~mem.initializing
          /\ Goto(t, IF mem.loaded THEN "register" ELSE "load")
          /\ UNCHANGED past
    /\ UNCHANGED <<mem, disk, live, count>>

\* Load claims the flag, unless someone was faster.
LoadBegin(t) ==
    /\ At(t, "load")
    /\ IF mem.entry # None \/ mem.initializing
       THEN Goto(t, "ensure") /\ UNCHANGED mem
       ELSE /\ mem' = [mem EXCEPT !.loaded = TRUE, !.initializing = TRUE]
            /\ Goto(t, "read")
    /\ UNCHANGED <<disk, live, count, past>>

\* FilePersistence::read, whose errors are those of a torn file.
ReadFile(t) ==
    /\ At(t, "read")
    /\ \/ GotoWith(t, "loaded", disk) /\ UNCHANGED past
       \/ GotoWith(t, "loaded", Torn) /\ past' = Troubled(past, {"io"})
    /\ UNCHANGED <<mem, disk, live, count>>

\* What the file gave: an error returns, nothing means registering, and an
\* entry is published.
AfterRead(t) ==
    CASE task[t].fid = Torn -> Return(t)
      [] task[t].fid = None -> Goto(t, "ensure")
      [] OTHER              -> Goto(t, "publish")

\* The flag is cleared, and the mutex released, before the entry is published.
LoadEnd(t) ==
    /\ At(t, "loaded")
    /\ mem' = [mem EXCEPT !.initializing = FALSE]
    /\ IF mem.entry # None THEN Ensured(t, mem.entry, past) ELSE AfterRead(t) /\ UNCHANGED past
    /\ UNCHANGED <<disk, live, count>>

\* The entry read is stored whatever the cache holds by now.
Publish(t) ==
    /\ At(t, "publish")
    /\ mem' = [mem EXCEPT !.entry = task[t].fid]
    /\ Ensured(t, task[t].fid, past)
    /\ UNCHANGED <<disk, live, count>>

\* Mutant of RegisterBegin: the flag is not looked at a second time.
RegisterBegin_Unchecked(t) ==
    /\ At(t, "register")
    /\ mem' = [mem EXCEPT !.initializing = TRUE]
    /\ Goto(t, "registering")
    /\ past' = Troubled(past, IF \E u \in Tasks : At(u, "publish")
                              THEN {"window"} ELSE {})
    /\ UNCHANGED <<disk, live, count>>

RegisterBegin(t) ==
    /\ At(t, "register")
    /\ IF mem.entry # None \/ mem.initializing
       THEN Goto(t, "ensure") /\ UNCHANGED <<mem, past>>
       ELSE /\ mem' = [mem EXCEPT !.initializing = TRUE]
            /\ Goto(t, "registering")
            /\ past' = Troubled(past, IF \E u \in Tasks : At(u, "publish")
                                      THEN {"window"} ELSE {})
    /\ UNCHANGED <<disk, live, count>>

\* register_remote_installation: done, refused, or done with the answer lost.
RegisterRemote(t) ==
    /\ At(t, "registering")
    /\ \/ /\ live' = live \cup {count.fid}
          /\ count' = [count EXCEPT !.fid = @ + 1]
          /\ GotoWith(t, "registered", count.fid)
          /\ UNCHANGED past
       \/ /\ live' \in {live, live \cup {count.fid}}
          /\ count' = [count EXCEPT !.fid = @ + 1]
          /\ GotoWith(t, "registered", None)
          /\ past' = Troubled(past, {"reply"})
    /\ UNCHANGED <<mem, disk>>

\* An entry that appeared meanwhile wins over the one just registered.
RegisterEnd(t) ==
    /\ At(t, "registered")
    /\ IF mem.entry # None
       THEN mem' = [mem EXCEPT !.initializing = FALSE] /\ Ensured(t, mem.entry, past)
       ELSE IF task[t].fid = None
       THEN mem' = [mem EXCEPT !.initializing = FALSE] /\ Return(t) /\ UNCHANGED past
       ELSE /\ mem' = [loaded |-> TRUE, initializing |-> FALSE, entry |-> task[t].fid]
            /\ Goto(t, "persist")
            /\ UNCHANGED past
    /\ UNCHANGED <<disk, live, count>>

\* FilePersistence::write fails: the file is as it was, or cut short.
WriteFails(t) ==
    /\ disk' \in {disk, Torn}
    /\ Return(t)
    /\ past' = Troubled(past, {"io"})

\* The new entry is written, the listeners are told and the call returns.
Persist(t) ==
    /\ At(t, "persist")
    /\ \/ /\ disk' = task[t].fid
          /\ Ensured(t, task[t].fid,
                     [past EXCEPT !.durable = IF @ = None THEN task[t].fid ELSE @])
       \/ WriteFails(t)
    /\ UNCHANGED <<mem, live, count>>

----------------------------------------------------------------------------
(* get_token's refresh *)

\* generate_auth_token: a token, 404 when the backend has no such id, or an error.
Refresh(t) ==
    /\ At(t, "refresh")
    /\ \/ task[t].fid \in live /\ Goto(t, "store") /\ UNCHANGED past
       \/ task[t].fid \notin live /\ Goto(t, "forget") /\ past' = Troubled(past, Overlap(t))
       \/ Return(t) /\ UNCHANGED past
    /\ UNCHANGED <<mem, disk, live, count>>

\* The refreshed entry is stored over whatever the cache holds by now.
StoreToken(t) ==
    /\ At(t, "store")
    /\ mem' = [mem EXCEPT !.entry = task[t].fid]
    /\ Goto(t, "save")
    /\ UNCHANGED <<disk, live, count, past>>

\* persist_current_state takes the current entry under the lock ...
SaveBegin(t) ==
    /\ At(t, "save")
    /\ IF mem.entry # None THEN GotoWith(t, "write", mem.entry) ELSE Return(t)
    /\ UNCHANGED <<mem, disk, live, count, past>>

\* ... and writes it after releasing it.
SaveEnd(t) ==
    /\ At(t, "write")
    /\ \/ disk' = task[t].fid /\ Return(t) /\ UNCHANGED past
       \/ WriteFails(t)
    /\ UNCHANGED <<mem, live, count>>

\* CachedState as forget_local_entry and delete leave it.
Reset == [loaded |-> TRUE, initializing |-> FALSE, entry |-> None]

\* FilePersistence::clear; its error ends the call.
ClearFile(t, pc) ==
    \/ /\ disk' = None
       /\ Goto(t, pc)
       /\ past' = [Troubled(past, {"reset"}) EXCEPT !.durable = None]
    \/ /\ Return(t)
       /\ past' = Troubled(past, {"io"})
       /\ UNCHANGED disk

\* forget_local_entry clears the file ...
ForgetFile(t) ==
    /\ At(t, "forget")
    /\ ClearFile(t, "forgotten")
    /\ UNCHANGED <<mem, live, count>>

\* ... then the cache, and get_token ensures an entry once more.
ForgetEntry(t) ==
    /\ At(t, "forgotten")
    /\ mem' = Reset
    /\ Becomes(t, "ensure", "reget", None)
    /\ UNCHANGED <<disk, live, count, past>>

----------------------------------------------------------------------------
(* delete *)

DeleteLook(t) ==
    /\ At(t, "delete")
    /\ GotoWith(t, IF mem.entry = None THEN "clear" ELSE "delete_rest", mem.entry)
    /\ UNCHANGED <<mem, disk, live, count, past>>

\* delete_installation; any error, an unknown id included, ends the call.
DeleteRemote(t) ==
    /\ At(t, "delete_rest")
    /\ \/ /\ task[t].fid \in live
          /\ live' = live \ {task[t].fid}
          /\ Goto(t, "clear")
          /\ UNCHANGED past
       \/ /\ live' \in {live, live \ {task[t].fid}}
          /\ Return(t)
          /\ past' = Troubled(past, {"reply"})
    /\ UNCHANGED <<mem, disk, count>>

DeleteFile(t) ==
    /\ At(t, "clear")
    /\ ClearFile(t, "reset")
    /\ UNCHANGED <<mem, live, count>>

DeleteEntry(t) ==
    /\ At(t, "reset")
    /\ mem' = Reset
    /\ Return(t)
    /\ past' = [past EXCEPT !.deleted = @ \cup ({task[t].fid} \ {None})]
    /\ UNCHANGED <<disk, live, count>>

----------------------------------------------------------------------------
(* The environment *)

\* The backend drops an installation (console, inactivity).
Revoke ==
    /\ count.revoked < MaxRevoked
    /\ \E f \in live : live' = live \ {f}
    /\ count' = [count EXCEPT !.revoked = @ + 1]
    /\ UNCHANGED <<mem, disk, task, past>>

\* The process dies and starts again with an empty cache.
Crash ==
    /\ count.crashes < MaxCrashes
    /\ disk' \in {disk} \cup (IF \E t \in Tasks : task[t].pc \in {"persist", "write"}
                              THEN {Torn} ELSE {})
    /\ mem' = CachedStateDefault
    /\ task' = [t \in Tasks |-> Idle]
    /\ count' = [count EXCEPT !.crashes = @ + 1]
    /\ past' = [past EXCEPT !.handed = {}, !.boot = disk',
                            !.trouble = @ \cup {"crash"}
                                          \cup (IF disk' # disk THEN {"tear"} ELSE {})]
    /\ UNCHANGED live

Step(t) ==
    \/ EnsureLook(t)
    \/ LoadBegin(t) \/ ReadFile(t) \/ LoadEnd(t) \/ Publish(t)
    \/ RegisterBegin(t) \/ RegisterRemote(t) \/ RegisterEnd(t) \/ Persist(t)
    \/ Refresh(t) \/ StoreToken(t) \/ SaveBegin(t) \/ SaveEnd(t)
    \/ ForgetFile(t) \/ ForgetEntry(t)
    \/ DeleteLook(t) \/ DeleteRemote(t) \/ DeleteFile(t) \/ DeleteEntry(t)

Next ==
    \/ \E t \in Tasks : Call(t) \/ Step(t)
    \/ Revoke
    \/ Crash

Spec == Init /\ [][Next]_vars

\* Fairness: the runtime keeps polling every task, and REST and file calls end.
FairSpec == Spec /\ \A t \in Tasks : WF_vars(Step(t))

----------------------------------------------------------------------------
(* Properties *)

\* A step of a call, the call, and the entry it holds.
Activity ==
    [pc : {"idle", "ensure", "load", "read", "loaded", "publish", "register", "registering", "registered", "persist",
           "refresh", "store", "save", "write", "forget", "forgotten", "delete", "delete_rest", "clear", "reset"},
     op : Ops \cup {"none", "reget"},
     fid : Entry \cup {Torn}]

\* The variables keep their types: the cached state of api.rs (CachedState),
\* the steps of its calls, and FIDs the model has handed out.
TypeOK ==
    /\ mem \in [loaded : BOOLEAN, initializing : BOOLEAN, entry : Entry]
    /\ disk \in Entry \cup {Torn}
    /\ live \subseteq Fids
    /\ task \in [Tasks -> Activity]
    /\ count \in [calls : 0 .. MaxCalls, crashes : 0 .. MaxCrashes,
                  revoked : 0 .. MaxRevoked, fid : Nat]
    /\ past \in [handed : SUBSET Fids, durable : Entry, deleted : SUBSET Fids,
                 trouble : SUBSET Trouble, boot : Entry \cup {Torn}]

Quiet == \A t \in Tasks : At(t, "idle")

\* `initializing` makes every other call of ensure_entry wait, so whenever it is
\* set some task is inside the load or the registration that will clear it: no
\* error path, no delete and no re-registration leaves it set behind.
FlagIsHeld ==
    mem.initializing =>
        \E t \in Tasks : task[t].pc \in {"read", "loaded", "registering", "registered"}

\* A first start, with nothing on disk and nothing going wrong, registers one
\* installation however many tasks ask at once, and all of them get its id:
\* the two looks at `initializing` and `entry` in ensure_entry are enough.
FirstStartRegistersOnce ==
    past.trouble = {} /\ past.boot = None => Cardinality(live \cup past.handed) <= 1

\* What breaks the agreement of cache and file: resets overlapping other calls,
\* failed or torn writes, and registrations begun in a load's window.
Disordered == past.trouble \cap {"overlap", "window", "io", "tear"} # {}

\* The id that the registering call returned is on disk from then on, through
\* refreshes, lost replies, crashes and restarts, until it is deleted or forgotten:
\* a later process loads it and does not register another.
RegisteredIdSurvives ==
    ~Disordered /\ past.durable # None => disk = past.durable

\* When no call is in progress, the cache holds exactly what is on disk, or has
\* not been loaded yet; a delete leaves both empty.
CacheAgreesWithDisk ==
    Quiet /\ ~Disordered => mem.entry = disk \/ (~mem.loaded /\ mem.entry = None)

\* A first start registers once, the registered id survives restarts, the cache
\* agrees with the file, and whoever sets `initializing` is there to clear it: what
\* the tasks of a process rely on when they share an instance (api.rs).
InstallationIsKept ==
    TypeOK /\ FirstStartRegistersOnce /\ RegisteredIdSurvives /\ CacheAgreesWithDisk /\ FlagIsHeld

\* An installation that delete() removed is, once all calls have returned, neither
\* cached nor persisted: "clearing cached state and persisted data" (api.rs:421).
DeletedStaysGone ==
    Quiet => mem.entry \notin past.deleted /\ disk \notin past.deleted
=============================================================================
