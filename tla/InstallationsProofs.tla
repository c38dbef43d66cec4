------------------------ MODULE InstallationsProofs ------------------------
(***************************************************************************)
(* What the tasks that share an Installations instance rely on, for any    *)
(* number of tasks, calls, crashes and revocations.  The second part is    *)
(* about AppRegistry, where the other products find their services: for    *)
(* any threads, names, components and apps.                                *)
(***************************************************************************)
EXTENDS Installations, FiniteSetTheorems, TLAPS

\* The registry of the apps whose installations these are, and their containers.
CONSTANTS Threads, Worker, Names, ServerNames, Services, Version, MaxApps, MaxOps, DeleteOnce
VARIABLES registered, apps, servers, app, providers, created, locks, job, ops, held, handles, releases, robbed
Apps == INSTANCE AppRegistry
-----------------------------------------------------------------------------
\* Steps of a call that has an entry, and those between setting `initializing` and
\* clearing it; those that come after the entry was published.
WithId == {"publish", "persist", "refresh", "store", "write", "forget", "delete_rest"}
Holding == {"read", "loaded", "registering", "registered"}
Using == {"persist", "refresh", "store", "save", "write"}

\* A step that works with an entry has one.
FidsFit ==
    \A t \in Tasks :
        /\ task[t].pc \in WithId => task[t].fid \in Fids
        /\ task[t].pc \in {"registered", "clear", "reset"} => task[t].fid \in Entry

\* Whoever deletes or forgets the installation is the only one in a call.
ResetsAreAlone ==
    \A t, u \in Tasks : task[t].pc \in Resetting /\ t # u => At(u, "idle")

\* One task at a time loads or registers, and `initializing` is set meanwhile.
OneHolder ==
    /\ ~mem.initializing => \A t \in Tasks : task[t].pc \notin Holding
    /\ \A t, u \in Tasks : task[t].pc \in Holding /\ task[u].pc \in Holding => t = u

\* An entry is cached, registered and used only after the file was read.
LoadedFirst ==
    /\ mem.entry # None \/ mem.initializing => mem.loaded
    /\ \A t \in Tasks : task[t].pc \in {"register", "publish"} \cup Holding \cup Using => mem.loaded

\* Whoever goes on with an entry goes on with the cached one.
UsersHaveTheEntry ==
    \A t \in Tasks :
        /\ task[t].pc \in Using => mem.entry # None
        /\ task[t].pc \in Using \ {"save"} => task[t].fid = mem.entry

\* A registration is under way only while there is no installation: neither cached,
\* nor on disk, nor about to be published by the load.
RegistersOnNothing ==
    \A t \in Tasks :
        task[t].pc \in {"registering", "registered"} =>
            mem.entry = None /\ disk = None /\ \A u \in Tasks : ~At(u, "publish")

\* What was read is still what the file says when it is published.
ReadsTheFile ==
    \A t \in Tasks :
        /\ At(t, "loaded") /\ mem.entry = None => task[t].fid = disk
        /\ At(t, "publish") => task[t].fid = disk /\ mem.entry \in {None, disk}

\* The file holds what was made durable, and what is cached, unless a task is about to
\* write it or is deleting it; with nothing cached it holds nothing.
FileFollows ==
    /\ disk # Torn
    /\ past.durable # None => disk = past.durable
    /\ \A t \in Tasks : task[t].pc \in {"reset", "forgotten"} => disk = None /\ "reset" \in past.trouble
    /\ mem.entry # None =>
          \/ disk = mem.entry
          \/ disk = None /\ \E t \in Tasks : task[t].pc \in {"persist", "reset", "forgotten"}
    /\ mem.entry = None /\ mem.loaded /\ ~mem.initializing =>
          disk = None \/ \E t \in Tasks : At(t, "publish")

\* On a first start the backend knows one id, and it is the one handed out.
OnlyOneId ==
    past.trouble = {} /\ past.boot = None =>
        IF mem.entry # None THEN live \cup past.handed \subseteq {mem.entry}
        ELSE /\ past.handed = {} /\ disk = None
             /\ live = {} \/ \E t \in Tasks : At(t, "registered") /\ live \subseteq {task[t].fid}

\* What holds while nothing got out of order (Disordered).
Orderly ==
    /\ ResetsAreAlone /\ OneHolder /\ LoadedFirst /\ UsersHaveTheEntry
    /\ RegistersOnNothing /\ ReadsTheFile /\ FileFollows /\ OnlyOneId

\* The inductive invariant.
IInv == TypeOK /\ FidsFit /\ FlagIsHeld /\ (~Disordered => Orderly)
-----------------------------------------------------------------------------
\* What is recorded of the past.
Histories == [handed : SUBSET Fids, durable : Entry, deleted : SUBSET Fids, trouble : SUBSET Trouble, boot : Entry \cup {Torn}]

\* Task t goes on to this step with this entry, the others stay where they are.
Moves(t, pc, fid) ==
    task'[t].pc = pc /\ task'[t].fid = fid /\ \A u \in Tasks \ {t} : task'[u] = task[u]

\* ensure_entry finds an entry, or nobody who is getting one.
LEMMA EnsureLookKeeps ==
  ASSUME IInv, NEW t \in Tasks, EnsureLook(t) PROVE IInv'
<1> USE InstallationsAssumption
<1>1. /\ TypeOK /\ FidsFit /\ FlagIsHeld /\ task[t] \in Activity
      /\ At(t, "ensure") /\ (task[t].pc \in WithId => task[t].fid \in Fids)
      /\ UNCHANGED <<mem, disk, live, count>>
  BY DEF IInv, TypeOK, EnsureLook, At, FidsFit
<1>2. \/ /\ mem.entry # None /\ (Return(t) \/ GotoWith(t, "refresh", mem.entry))
         /\ past' = [past EXCEPT !.handed = @ \cup {mem.entry}]
      \/ /\ mem.entry = None /\ ~mem.initializing /\ past' = past
         /\ (mem.loaded /\ Goto(t, "register")) \/ (~mem.loaded /\ Goto(t, "load"))
  BY <1>1 DEF EnsureLook, Ensured, Goto, GotoWith, Return, Becomes, Idle, TypeOK
<1>3. TypeOK' /\ FidsFit'
  <2>1. task' \in [Tasks -> Activity]
    BY <1>1, <1>2 DEF Goto, GotoWith, Return, Becomes, Idle, TypeOK, Activity, Entry
  <2>2. past' \in Histories
    BY <1>1, <1>2 DEF TypeOK, Histories, Entry, WithId, FidsFit, At
  <2>3. /\ mem' \in [loaded : BOOLEAN, initializing : BOOLEAN, entry : Entry]
        /\ disk' \in Entry \cup {Torn} /\ live' \subseteq Fids
        /\ count' \in [calls : 0 .. MaxCalls, crashes : 0 .. MaxCrashes, revoked : 0 .. MaxRevoked, fid : Nat]
    BY <1>1, <1>2 DEF TypeOK
  <2>4. FidsFit'
    BY <1>1, <1>2, <2>1 DEF Goto, GotoWith, Return, Becomes, Idle, TypeOK, FidsFit, WithId, Entry, Activity, At
  <2> QED BY <2>1, <2>2, <2>3, <2>4 DEF TypeOK, Histories
<1>4. FlagIsHeld'
  BY <1>1, <1>2 DEF Goto, GotoWith, Return, Becomes, Idle, TypeOK, FlagIsHeld, Activity, At
<1>5. ASSUME ~Disordered' PROVE Orderly'
  <2>1. ~Disordered
    BY <1>1, <1>2, <1>5 DEF Disordered, TypeOK, Troubled
  <2>2. Orderly
    BY <2>1 DEF IInv
  <2>3. \/ /\ mem.entry # None /\ (Moves(t, "idle", None) \/ Moves(t, "refresh", mem.entry))
           /\ past' = [past EXCEPT !.handed = @ \cup {mem.entry}]
        \/ /\ mem.entry = None /\ ~mem.initializing /\ past' = past
           /\ (mem.loaded /\ Moves(t, "register", task[t].fid)) \/ (~mem.loaded /\ Moves(t, "load", task[t].fid))
    BY <1>1, <1>2 DEF Goto, GotoWith, Return, Becomes, Idle, Moves, TypeOK
  <2>4. ResetsAreAlone'
    BY <1>1, <2>3, <2>2 DEF Orderly, Moves, ResetsAreAlone, Resetting, At
  <2>5. OneHolder'
    BY <1>1, <2>3, <2>2 DEF Orderly, Moves, OneHolder, Holding
  <2>6. LoadedFirst'
    BY <1>1, <2>3, <2>2 DEF Orderly, Moves, LoadedFirst, Holding, Using
  <2>7. UsersHaveTheEntry'
    BY <1>1, <2>3, <2>2 DEF Orderly, Moves, UsersHaveTheEntry, Using
  <2>8. RegistersOnNothing'
    BY <1>1, <2>3, <2>2 DEF Orderly, Moves, RegistersOnNothing, At
  <2>9. ReadsTheFile'
    BY <1>1, <2>3, <2>2 DEF Orderly, Moves, ReadsTheFile, At
  <2>10. FileFollows'
    BY <1>1, <2>3, <2>2 DEF Orderly, Moves, TypeOK, Activity, FileFollows, At, Entry
  <2>11. OnlyOneId'
    BY <1>1, <2>3, <2>2 DEF Orderly, Moves, TypeOK, Activity, OnlyOneId, At, Entry
  <2> QED BY <2>4, <2>5, <2>6, <2>7, <2>8, <2>9, <2>10, <2>11 DEF Orderly
<1> QED BY <1>3, <1>4, <1>5 DEF IInv

\* The load takes the flag, unless there is an entry or somebody has it.
LEMMA LoadBeginKeeps ==
  ASSUME IInv, NEW t \in Tasks, LoadBegin(t) PROVE IInv'
<1> USE InstallationsAssumption
<1>1. /\ TypeOK /\ FidsFit /\ FlagIsHeld /\ task[t] \in Activity
      /\ At(t, "load") /\ (task[t].pc \in WithId => task[t].fid \in Fids)
      /\ UNCHANGED <<disk, live, count>>
  BY DEF IInv, TypeOK, LoadBegin, At, FidsFit
<1>2. /\ past' = past
      /\ \/ (mem.entry # None \/ mem.initializing) /\ mem' = mem /\ Goto(t, "ensure")
         \/ /\ mem.entry = None /\ ~mem.initializing /\ Goto(t, "read")
            /\ mem' = [mem EXCEPT !.loaded = TRUE, !.initializing = TRUE]
  BY <1>1 DEF LoadBegin, Goto, GotoWith, Becomes, TypeOK
<1>3. TypeOK' /\ FidsFit'
  <2>1. task' \in [Tasks -> Activity]
    BY <1>1, <1>2 DEF Goto, GotoWith, Becomes, TypeOK, Activity, Entry
  <2>2. past' \in Histories
    BY <1>1, <1>2 DEF TypeOK, Histories
  <2>3. /\ mem' \in [loaded : BOOLEAN, initializing : BOOLEAN, entry : Entry]
        /\ disk' \in Entry \cup {Torn} /\ live' \subseteq Fids
        /\ count' \in [calls : 0 .. MaxCalls, crashes : 0 .. MaxCrashes, revoked : 0 .. MaxRevoked, fid : Nat]
    BY <1>1, <1>2 DEF TypeOK
  <2>4. FidsFit'
    BY <1>1, <1>2, <2>1 DEF Goto, GotoWith, Becomes, TypeOK, FidsFit, WithId, Fids, At
  <2> QED BY <2>1, <2>2, <2>3, <2>4 DEF TypeOK, Histories
<1>4. FlagIsHeld'
  BY <1>1, <1>2 DEF Goto, GotoWith, Becomes, TypeOK, FlagIsHeld, Activity, At
<1>5. ASSUME ~Disordered' PROVE Orderly'
  <2>1. ~Disordered
    BY <1>1, <1>2, <1>5 DEF Disordered, TypeOK, Troubled
  <2>2. Orderly
    BY <2>1 DEF IInv
  <2>3. /\ past' = past
        /\ \/ (mem.entry # None \/ mem.initializing) /\ mem' = mem /\ Moves(t, "ensure", task[t].fid)
           \/ /\ mem.entry = None /\ ~mem.initializing /\ Moves(t, "read", task[t].fid)
              /\ mem' = [mem EXCEPT !.loaded = TRUE, !.initializing = TRUE]
    BY <1>1, <1>2 DEF Goto, GotoWith, Becomes, Moves, TypeOK
  <2>4. ResetsAreAlone'
    BY <1>1, <2>3, <2>2 DEF Orderly, Moves, ResetsAreAlone, Resetting, At
  <2>5. OneHolder'
    <3>1. CASE mem' = mem /\ past' = past /\ Moves(t, "ensure", task[t].fid)
      BY <3>1, <1>1, <2>2 DEF Orderly, Moves, OneHolder, Holding
    <3>2. CASE mem.entry = None /\ ~mem.initializing /\ past' = past /\ Moves(t, "read", task[t].fid) /\ mem' = [mem EXCEPT !.loaded = TRUE, !.initializing = TRUE]
      BY <3>2, <1>1, <2>2 DEF Orderly, Moves, OneHolder, Holding
    <3> QED BY <2>3, <3>1, <3>2
  <2>6. LoadedFirst'
    BY <1>1, <2>3, <2>2 DEF Orderly, Moves, TypeOK, Activity, LoadedFirst, Holding, Using, Entry
  <2>7. UsersHaveTheEntry'
    BY <1>1, <2>3, <2>2 DEF Orderly, Moves, UsersHaveTheEntry, Using
  <2>8. RegistersOnNothing'
    BY <1>1, <2>3, <2>2 DEF Orderly, Moves, RegistersOnNothing, OneHolder, UsersHaveTheEntry, FileFollows, LoadedFirst, ReadsTheFile, Using, Holding, At
  <2>9. ReadsTheFile'
    <3>1. CASE mem' = mem /\ past' = past /\ Moves(t, "ensure", task[t].fid)
      BY <3>1, <1>1, <2>2 DEF Orderly, Moves, ReadsTheFile, At
    <3>2. CASE mem.entry = None /\ ~mem.initializing /\ past' = past /\ Moves(t, "read", task[t].fid) /\ mem' = [mem EXCEPT !.loaded = TRUE, !.initializing = TRUE]
      BY <3>2, <1>1, <2>2 DEF Orderly, Moves, ReadsTheFile, At
    <3> QED BY <2>3, <3>1, <3>2
  <2>10. FileFollows'
    <3>1. CASE mem' = mem /\ past' = past /\ Moves(t, "ensure", task[t].fid)
      BY <3>1, <1>1, <2>2 DEF Orderly, Moves, FileFollows, At
    <3>2. CASE mem.entry = None /\ ~mem.initializing /\ past' = past /\ Moves(t, "read", task[t].fid) /\ mem' = [mem EXCEPT !.loaded = TRUE, !.initializing = TRUE]
      BY <3>2, <1>1, <2>2 DEF Orderly, Moves, FileFollows, At
    <3> QED BY <2>3, <3>1, <3>2
  <2>11. OnlyOneId'
    BY <1>1, <2>3, <2>2 DEF Orderly, Moves, OnlyOneId, OneHolder, UsersHaveTheEntry, ResetsAreAlone, ReadsTheFile, RegistersOnNothing, FileFollows, Using, Holding, Resetting, At
  <2> QED BY <2>4, <2>5, <2>6, <2>7, <2>8, <2>9, <2>10, <2>11 DEF Orderly
<1> QED BY <1>3, <1>4, <1>5 DEF IInv

\* The file is read, or its reading fails.
LEMMA ReadFileKeeps ==
  ASSUME IInv, NEW t \in Tasks, ReadFile(t) PROVE IInv'
<1> USE InstallationsAssumption
<1>1. /\ TypeOK /\ FidsFit /\ FlagIsHeld /\ task[t] \in Activity
      /\ At(t, "read") /\ (task[t].pc \in WithId => task[t].fid \in Fids)
      /\ UNCHANGED <<mem, disk, live, count>>
  BY DEF IInv, TypeOK, ReadFile, At, FidsFit
<1>2. \/ GotoWith(t, "loaded", disk) /\ past' = past
      \/ GotoWith(t, "loaded", Torn) /\ past' = Troubled(past, {"io"})
  BY <1>1 DEF ReadFile, GotoWith, Becomes, TypeOK
<1>3. TypeOK' /\ FidsFit'
  <2>1. task' \in [Tasks -> Activity]
    BY <1>1, <1>2 DEF GotoWith, Becomes, TypeOK, Activity, Entry
  <2>2. past' \in Histories
    BY <1>1, <1>2 DEF TypeOK, Histories, Trouble, Troubled
  <2>3. /\ mem' \in [loaded : BOOLEAN, initializing : BOOLEAN, entry : Entry]
        /\ disk' \in Entry \cup {Torn} /\ live' \subseteq Fids
        /\ count' \in [calls : 0 .. MaxCalls, crashes : 0 .. MaxCrashes, revoked : 0 .. MaxRevoked, fid : Nat]
    BY <1>1, <1>2 DEF TypeOK
  <2>4. FidsFit'
    BY <1>1, <1>2, <2>1 DEF GotoWith, Becomes, TypeOK, FidsFit, WithId, Fids, At
  <2> QED BY <2>1, <2>2, <2>3, <2>4 DEF TypeOK, Histories
<1>4. FlagIsHeld'
  BY <1>1, <1>2 DEF GotoWith, Becomes, TypeOK, FlagIsHeld
<1>5. ASSUME ~Disordered' PROVE Orderly'
  <2>1. ~Disordered
    BY <1>1, <1>2, <1>5 DEF Disordered, TypeOK, Troubled
  <2>2. Orderly
    BY <2>1 DEF IInv
  <2>0. GotoWith(t, "loaded", disk) /\ past' = past
    BY <1>1, <1>2, <1>5 DEF Disordered, TypeOK, Troubled, Overlap
  <2>3. Moves(t, "loaded", disk) /\ past' = past
    BY <1>1, <2>0 DEF GotoWith, Becomes, Moves, TypeOK
  <2>4. ResetsAreAlone'
    BY <1>1, <2>3, <2>2 DEF Orderly, Moves, ResetsAreAlone, Resetting, At
  <2>5. OneHolder'
    BY <1>1, <2>3, <2>2 DEF Orderly, Moves, OneHolder, ResetsAreAlone, Holding, Resetting, At
  <2>6. LoadedFirst'
    BY <1>1, <2>3, <2>2 DEF Orderly, Moves, LoadedFirst, Holding, Using, At
  <2>7. UsersHaveTheEntry'
    BY <1>1, <2>3, <2>2 DEF Orderly, Moves, UsersHaveTheEntry, Using
  <2>8. RegistersOnNothing'
    BY <1>1, <2>3, <2>2 DEF Orderly, Moves, RegistersOnNothing, At
  <2>9. ReadsTheFile'
    BY <1>1, <2>3, <2>2 DEF Orderly, Moves, ReadsTheFile, At
  <2>10. FileFollows'
    BY <1>1, <2>3, <2>2 DEF Orderly, Moves, FileFollows, At
  <2>11. OnlyOneId'
    BY <1>1, <2>3, <2>2 DEF Orderly, Moves, OnlyOneId, At
  <2> QED BY <2>4, <2>5, <2>6, <2>7, <2>8, <2>9, <2>10, <2>11 DEF Orderly
<1> QED BY <1>3, <1>4, <1>5 DEF IInv

\* The load clears the flag, with what it read still in hand.
LEMMA LoadEndKeeps ==
  ASSUME IInv, NEW t \in Tasks, LoadEnd(t) PROVE IInv'
<1> USE InstallationsAssumption
<1>1. /\ TypeOK /\ FidsFit /\ FlagIsHeld /\ task[t] \in Activity
      /\ At(t, "loaded") /\ (task[t].pc \in WithId => task[t].fid \in Fids)
      /\ UNCHANGED <<disk, live, count>>
  BY DEF IInv, TypeOK, LoadEnd, At, FidsFit
<1>2. /\ mem' = [mem EXCEPT !.initializing = FALSE]
      /\ \/ /\ mem.entry # None /\ (Return(t) \/ GotoWith(t, "refresh", mem.entry))
            /\ past' = [past EXCEPT !.handed = @ \cup {mem.entry}]
         \/ /\ mem.entry = None /\ past' = past
            /\ \/ task[t].fid = Torn /\ Return(t)
               \/ task[t].fid = None /\ Goto(t, "ensure")
               \/ task[t].fid \in Fids /\ Goto(t, "publish")
  BY <1>1 DEF LoadEnd, AfterRead, Ensured, Goto, GotoWith, Return, Becomes, Idle, TypeOK, Activity, Entry
<1>3. TypeOK' /\ FidsFit'
  <2>1. task' \in [Tasks -> Activity]
    <3>1. task \in [Tasks -> Activity] /\ mem.entry \in Entry
      BY <1>1 DEF TypeOK
    <3>2. \A pc \in {"idle", "refresh", "ensure", "publish"} : \A op \in Ops \cup {"none", "reget"} : \A fid \in Entry \cup {Torn} :
            [pc |-> pc, op |-> op, fid |-> fid] \in Activity
      BY DEF Activity
    <3>3. Idle \in Activity /\ task[t].op \in Ops \cup {"none", "reget"} /\ task[t].fid \in Entry \cup {Torn}
      BY <1>1 DEF Idle, Activity, Entry
    <3>4. \E w \in Activity : task' = [task EXCEPT ![t] = w]
      BY <1>2, <3>1, <3>2, <3>3 DEF Goto, GotoWith, Return, Becomes
    <3> QED BY <3>1, <3>4
  <2>2. past' \in Histories
    BY <1>1, <1>2 DEF TypeOK, Histories, Entry, WithId, FidsFit, At
  <2>3. /\ mem' \in [loaded : BOOLEAN, initializing : BOOLEAN, entry : Entry]
        /\ disk' \in Entry \cup {Torn} /\ live' \subseteq Fids
        /\ count' \in [calls : 0 .. MaxCalls, crashes : 0 .. MaxCrashes, revoked : 0 .. MaxRevoked, fid : Nat]
    BY <1>1, <1>2 DEF TypeOK
  <2>4. FidsFit'
    BY <1>1, <1>2, <2>1 DEF Goto, GotoWith, Return, Becomes, Idle, TypeOK, FidsFit, WithId, Entry, Activity, At
  <2> QED BY <2>1, <2>2, <2>3, <2>4 DEF TypeOK, Histories
<1>4. FlagIsHeld'
  BY <1>1, <1>2 DEF Goto, GotoWith, Return, Becomes, Idle, TypeOK, FlagIsHeld
<1>5. ASSUME ~Disordered' PROVE Orderly'
  <2>1. ~Disordered
    BY <1>1, <1>2, <1>5 DEF Disordered, TypeOK, Troubled
  <2>2. Orderly
    BY <2>1 DEF IInv
  <2>3. /\ mem' = [mem EXCEPT !.initializing = FALSE]
        /\ \/ /\ mem.entry # None /\ (Moves(t, "idle", None) \/ Moves(t, "refresh", mem.entry))
              /\ past' = [past EXCEPT !.handed = @ \cup {mem.entry}]
           \/ /\ mem.entry = None /\ past' = past
              /\ \/ task[t].fid = Torn /\ Moves(t, "idle", None)
                 \/ task[t].fid = None /\ Moves(t, "ensure", task[t].fid)
                 \/ task[t].fid \in Fids /\ Moves(t, "publish", task[t].fid)
    BY <1>1, <1>2 DEF Goto, GotoWith, Return, Becomes, Idle, Moves, TypeOK
  <2>4. ResetsAreAlone'
    BY <1>1, <2>3, <2>2 DEF Orderly, Moves, ResetsAreAlone, Resetting, At
  <2>5. OneHolder'
    BY <1>1, <2>3, <2>2 DEF Orderly, Moves, OneHolder, ResetsAreAlone, Holding, Resetting, At
  <2>6. LoadedFirst'
    BY <1>1, <2>3, <2>2 DEF Orderly, Moves, LoadedFirst, Holding, Using, At
  <2>7. UsersHaveTheEntry'
    BY <1>1, <2>3, <2>2 DEF Orderly, Moves, UsersHaveTheEntry, Using
  <2>8. RegistersOnNothing'
    BY <1>1, <2>3, <2>2 DEF Orderly, Moves, RegistersOnNothing, OneHolder, UsersHaveTheEntry, FileFollows, LoadedFirst, ReadsTheFile, Using, Holding, At
  <2>9. ReadsTheFile'
    BY <1>1, <2>3, <2>2 DEF Orderly, Moves, ReadsTheFile, At
  <2>10. FileFollows'
    BY <1>1, <2>3, <2>2 DEF Orderly, Moves, TypeOK, Activity, FileFollows, UsersHaveTheEntry, ResetsAreAlone, OneHolder, ReadsTheFile, RegistersOnNothing, LoadedFirst, Resetting, Holding, Using, At
  <2>11. OnlyOneId'
    BY <1>1, <2>3, <2>2 DEF Orderly, Moves, TypeOK, Activity, OnlyOneId, OneHolder, UsersHaveTheEntry, ResetsAreAlone, ReadsTheFile, RegistersOnNothing, FileFollows, Using, Holding, Resetting, At
  <2> QED BY <2>4, <2>5, <2>6, <2>7, <2>8, <2>9, <2>10, <2>11 DEF Orderly
<1> QED BY <1>3, <1>4, <1>5 DEF IInv

\* The load publishes what it read.
LEMMA PublishKeeps ==
  ASSUME IInv, NEW t \in Tasks, Publish(t) PROVE IInv'
<1> USE InstallationsAssumption
<1>1. /\ TypeOK /\ FidsFit /\ FlagIsHeld /\ task[t] \in Activity
      /\ At(t, "publish") /\ (task[t].pc \in WithId => task[t].fid \in Fids)
      /\ UNCHANGED <<disk, live, count>>
  BY DEF IInv, TypeOK, Publish, At, FidsFit
<1>2. /\ mem' = [mem EXCEPT !.entry = task[t].fid]
      /\ Return(t) \/ Goto(t, "refresh")
      /\ past' = [past EXCEPT !.handed = @ \cup {task[t].fid}]
  BY <1>1 DEF Publish, Ensured, Goto, GotoWith, Return, Becomes, Idle, TypeOK
<1>3. TypeOK' /\ FidsFit'
  <2>1. task' \in [Tasks -> Activity]
    BY <1>1, <1>2 DEF Goto, GotoWith, Return, Becomes, Idle, TypeOK, Activity, Entry
  <2>2. past' \in Histories
    BY <1>1, <1>2 DEF TypeOK, Histories, Entry, WithId, FidsFit, At
  <2>3. /\ mem' \in [loaded : BOOLEAN, initializing : BOOLEAN, entry : Entry]
        /\ disk' \in Entry \cup {Torn} /\ live' \subseteq Fids
        /\ count' \in [calls : 0 .. MaxCalls, crashes : 0 .. MaxCrashes, revoked : 0 .. MaxRevoked, fid : Nat]
    BY <1>1, <1>2 DEF TypeOK, Entry, WithId, At, Fids, Reset
  <2>4. FidsFit'
    BY <1>1, <1>2, <2>1 DEF Goto, GotoWith, Return, Becomes, Idle, TypeOK, FidsFit, WithId, Fids, At
  <2> QED BY <2>1, <2>2, <2>3, <2>4 DEF TypeOK, Histories
<1>4. FlagIsHeld'
  BY <1>1, <1>2 DEF Goto, GotoWith, Return, Becomes, Idle, TypeOK, FlagIsHeld, Activity, At
<1>5. ASSUME ~Disordered' PROVE Orderly'
  <2>1. ~Disordered
    BY <1>1, <1>2, <1>5 DEF Disordered, TypeOK, Troubled
  <2>2. Orderly
    BY <2>1 DEF IInv
  <2>3. /\ mem' = [mem EXCEPT !.entry = task[t].fid]
        /\ Moves(t, "idle", None) \/ Moves(t, "refresh", task[t].fid)
        /\ past' = [past EXCEPT !.handed = @ \cup {task[t].fid}]
    BY <1>1, <1>2 DEF Goto, GotoWith, Return, Becomes, Idle, Moves, TypeOK
  <2>4. ResetsAreAlone'
    BY <1>1, <2>3, <2>2 DEF Orderly, Moves, ResetsAreAlone, Resetting, At
  <2>5. OneHolder'
    BY <1>1, <2>3, <2>2 DEF Orderly, Moves, OneHolder, Holding
  <2>6. LoadedFirst'
    BY <1>1, <2>3, <2>2 DEF Orderly, Moves, LoadedFirst, Holding, Using, At
  <2>7. UsersHaveTheEntry'
    <3>1. mem.entry \in {None, task[t].fid} /\ task[t].fid # None /\ mem'.entry = task[t].fid
      BY <1>1, <2>2, <2>3 DEF Orderly, ReadsTheFile, TypeOK, At, WithId, Fids
    <3> QED BY <1>1, <2>2, <2>3, <3>1 DEF Orderly, UsersHaveTheEntry, Moves, Using
  <2>8. RegistersOnNothing'
    BY <1>1, <2>3, <2>2 DEF Orderly, Moves, RegistersOnNothing, At
  <2>9. ReadsTheFile'
    BY <1>1, <2>3, <2>2 DEF Orderly, Moves, ReadsTheFile, At
  <2>10. FileFollows'
    BY <1>1, <2>3, <2>2 DEF Orderly, Moves, FileFollows, UsersHaveTheEntry, ResetsAreAlone, OneHolder, ReadsTheFile, RegistersOnNothing, LoadedFirst, Resetting, Holding, Using, At
  <2>11. OnlyOneId'
    <3>1. /\ mem.entry \in {None, task[t].fid} /\ task[t].fid = disk /\ task[t].fid # None
          /\ mem'.entry = task[t].fid /\ past'.trouble = past.trouble /\ past'.boot = past.boot
          /\ past'.handed = past.handed \cup {task[t].fid} /\ live' = live
      BY <1>1, <2>2, <2>3 DEF Orderly, ReadsTheFile, TypeOK, At, WithId, Fids
    <3> QED BY <2>2, <3>1 DEF Orderly, OnlyOneId
  <2> QED BY <2>4, <2>5, <2>6, <2>7, <2>8, <2>9, <2>10, <2>11 DEF Orderly
<1> QED BY <1>3, <1>4, <1>5 DEF IInv

\* The registration takes the flag, unless there is an entry or somebody has it.
LEMMA RegisterBeginKeeps ==
  ASSUME IInv, NEW t \in Tasks, RegisterBegin(t) PROVE IInv'
<1> USE InstallationsAssumption
<1>1. /\ TypeOK /\ FidsFit /\ FlagIsHeld /\ task[t] \in Activity
      /\ At(t, "register") /\ (task[t].pc \in WithId => task[t].fid \in Fids)
      /\ UNCHANGED <<disk, live, count>>
  BY DEF IInv, TypeOK, RegisterBegin, At, FidsFit
<1>2. \/ (mem.entry # None \/ mem.initializing) /\ mem' = mem /\ past' = past /\ Goto(t, "ensure")
      \/ /\ mem.entry = None /\ ~mem.initializing /\ Goto(t, "registering")
         /\ mem' = [mem EXCEPT !.initializing = TRUE]
         /\ past' = Troubled(past, IF \E u \in Tasks : At(u, "publish") THEN {"window"} ELSE {})
  BY <1>1 DEF RegisterBegin, Goto, GotoWith, Becomes, TypeOK
<1>3. TypeOK' /\ FidsFit'
  <2>1. task' \in [Tasks -> Activity]
    BY <1>1, <1>2 DEF Goto, GotoWith, Becomes, TypeOK, Activity, Entry
  <2>2. past' \in Histories
    BY <1>1, <1>2 DEF TypeOK, Histories, Trouble, Troubled
  <2>3. /\ mem' \in [loaded : BOOLEAN, initializing : BOOLEAN, entry : Entry]
        /\ disk' \in Entry \cup {Torn} /\ live' \subseteq Fids
        /\ count' \in [calls : 0 .. MaxCalls, crashes : 0 .. MaxCrashes, revoked : 0 .. MaxRevoked, fid : Nat]
    BY <1>1, <1>2 DEF TypeOK
  <2>4. FidsFit'
    BY <1>1, <1>2, <2>1 DEF Goto, GotoWith, Becomes, TypeOK, FidsFit, WithId, Fids, At
  <2> QED BY <2>1, <2>2, <2>3, <2>4 DEF TypeOK, Histories
<1>4. FlagIsHeld'
  BY <1>1, <1>2 DEF Goto, GotoWith, Becomes, TypeOK, FlagIsHeld, Activity, At
<1>5. ASSUME ~Disordered' PROVE Orderly'
  <2>1. ~Disordered
    BY <1>1, <1>2, <1>5 DEF Disordered, TypeOK, Troubled
  <2>2. Orderly
    BY <2>1 DEF IInv
  <2>0. \/ mem' = mem /\ past' = past /\ Goto(t, "ensure")
        \/ /\ mem.entry = None /\ ~mem.initializing /\ Goto(t, "registering") /\ mem' = [mem EXCEPT !.initializing = TRUE]
           /\ (\A u \in Tasks : ~At(u, "publish")) /\ past' = Troubled(past, {})
    BY <1>1, <1>2, <1>5 DEF Disordered, TypeOK, Troubled, Overlap
  <2>3. \/ mem' = mem /\ past' = past /\ Moves(t, "ensure", task[t].fid)
        \/ /\ mem.entry = None /\ ~mem.initializing /\ Moves(t, "registering", task[t].fid) /\ mem' = [mem EXCEPT !.initializing = TRUE]
           /\ (\A u \in Tasks : ~At(u, "publish")) /\ past' = Troubled(past, {})
    BY <1>1, <2>0 DEF Goto, GotoWith, Becomes, Moves, TypeOK
  <2>4. ResetsAreAlone'
    BY <1>1, <2>3, <2>2 DEF Orderly, Moves, ResetsAreAlone, Resetting, At
  <2>5. OneHolder'
    BY <1>1, <2>3, <2>2 DEF Orderly, Moves, TypeOK, Activity, OneHolder, Holding, Entry
  <2>6. LoadedFirst'
    BY <1>1, <2>3, <2>2 DEF Orderly, Moves, TypeOK, Activity, LoadedFirst, Holding, Using, At
  <2>7. UsersHaveTheEntry'
    BY <1>1, <2>3, <2>2 DEF Orderly, Moves, UsersHaveTheEntry, Using
  <2>8. RegistersOnNothing'
    BY <1>1, <2>3, <2>2 DEF Orderly, Moves, TypeOK, Activity, RegistersOnNothing, OneHolder, UsersHaveTheEntry, FileFollows, LoadedFirst, ReadsTheFile, Using, Holding, At
  <2>9. ReadsTheFile'
    BY <1>1, <2>3, <2>2 DEF Orderly, Moves, ReadsTheFile, At
  <2>10. FileFollows'
    BY <1>1, <2>3, <2>2 DEF Orderly, Moves, TypeOK, Activity, FileFollows, UsersHaveTheEntry, ResetsAreAlone, OneHolder, ReadsTheFile, RegistersOnNothing, LoadedFirst, Resetting, Holding, Using, At, Entry, Fids, Troubled, Reset
  <2>11. OnlyOneId'
    BY <1>1, <2>3, <2>2 DEF Orderly, Moves, TypeOK, Activity, OnlyOneId, OneHolder, UsersHaveTheEntry, ResetsAreAlone, ReadsTheFile, RegistersOnNothing, FileFollows, Using, Holding, Resetting, At, Entry, Fids, Troubled, Reset
  <2> QED BY <2>4, <2>5, <2>6, <2>7, <2>8, <2>9, <2>10, <2>11 DEF Orderly
<1> QED BY <1>3, <1>4, <1>5 DEF IInv

\* The backend registers the new id, and its answer arrives or is lost.
LEMMA RegisterRemoteKeeps ==
  ASSUME IInv, NEW t \in Tasks, RegisterRemote(t) PROVE IInv'
<1> USE InstallationsAssumption
<1>1. /\ TypeOK /\ FidsFit /\ FlagIsHeld /\ task[t] \in Activity
      /\ At(t, "registering") /\ (task[t].pc \in WithId => task[t].fid \in Fids)
      /\ UNCHANGED <<mem, disk>>
  BY DEF IInv, TypeOK, RegisterRemote, At, FidsFit
<1>2. /\ count' = [count EXCEPT !.fid = @ + 1]
      /\ \/ live' = live \cup {count.fid} /\ past' = past /\ GotoWith(t, "registered", count.fid)
         \/ /\ live' \in {live, live \cup {count.fid}} /\ past' = Troubled(past, {"reply"})
            /\ GotoWith(t, "registered", None)
  BY <1>1 DEF RegisterRemote, GotoWith, Becomes, TypeOK
<1>3. TypeOK' /\ FidsFit'
  <2>1. task' \in [Tasks -> Activity]
    BY <1>1, <1>2 DEF GotoWith, Becomes, TypeOK, Activity, Entry, WithId, Fids, At
  <2>2. past' \in Histories
    BY <1>1, <1>2 DEF TypeOK, Histories, Trouble, Troubled
  <2>3. /\ mem' \in [loaded : BOOLEAN, initializing : BOOLEAN, entry : Entry]
        /\ disk' \in Entry \cup {Torn} /\ live' \subseteq Fids
        /\ count' \in [calls : 0 .. MaxCalls, crashes : 0 .. MaxCrashes, revoked : 0 .. MaxRevoked, fid : Nat]
    BY <1>1, <1>2 DEF TypeOK, Entry, Fids, Reset
  <2>4. FidsFit'
    BY <1>1, <1>2, <2>1 DEF GotoWith, Becomes, TypeOK, FidsFit, WithId, Entry, Activity, At
  <2> QED BY <2>1, <2>2, <2>3, <2>4 DEF TypeOK, Histories
<1>4. FlagIsHeld'
  BY <1>1, <1>2 DEF GotoWith, Becomes, TypeOK, FlagIsHeld
<1>5. ASSUME ~Disordered' PROVE Orderly'
  <2>1. ~Disordered
    BY <1>1, <1>2, <1>5 DEF Disordered, TypeOK, Troubled
  <2>2. Orderly
    BY <2>1 DEF IInv
  <2>3. /\ count' = [count EXCEPT !.fid = @ + 1]
        /\ \/ live' = live \cup {count.fid} /\ past' = past /\ Moves(t, "registered", count.fid)
           \/ /\ live' \in {live, live \cup {count.fid}} /\ past' = Troubled(past, {"reply"})
              /\ Moves(t, "registered", None)
    BY <1>1, <1>2 DEF GotoWith, Becomes, Moves, TypeOK
  <2>4. ResetsAreAlone'
    BY <1>1, <2>3, <2>2 DEF Orderly, Moves, ResetsAreAlone, Resetting, At
  <2>5. OneHolder'
    BY <1>1, <2>3, <2>2 DEF Orderly, Moves, OneHolder, ResetsAreAlone, Holding, Resetting, At
  <2>6. LoadedFirst'
    BY <1>1, <2>3, <2>2 DEF Orderly, Moves, LoadedFirst, Holding, Using, At
  <2>7. UsersHaveTheEntry'
    BY <1>1, <2>3, <2>2 DEF Orderly, Moves, UsersHaveTheEntry, Using
  <2>8. RegistersOnNothing'
    BY <1>1, <2>3, <2>2 DEF Orderly, Moves, RegistersOnNothing, At
  <2>9. ReadsTheFile'
    BY <1>1, <2>3, <2>2 DEF Orderly, Moves, ReadsTheFile, At
  <2>10. FileFollows'
    BY <1>1, <2>3, <2>2 DEF Orderly, Moves, TypeOK, Activity, FileFollows, UsersHaveTheEntry, ResetsAreAlone, OneHolder, ReadsTheFile, RegistersOnNothing, LoadedFirst, Resetting, Holding, Using, At, Entry, Fids, Troubled, Reset
  <2>11. OnlyOneId'
    <3>1. mem.entry = None /\ disk = None /\ \A u \in Tasks : ~At(u, "registered")
      BY <1>1, <2>2 DEF Orderly, RegistersOnNothing, OneHolder, Holding, At
    <3>2. CASE live' = live \cup {count.fid} /\ past' = past /\ Moves(t, "registered", count.fid)
      BY <1>1, <2>2, <3>1, <3>2 DEF Orderly, OnlyOneId, Moves, At
    <3>3. CASE past' = Troubled(past, {"reply"})
      BY <1>1, <3>3 DEF OnlyOneId, Troubled, TypeOK
    <3> QED BY <2>3, <3>2, <3>3
  <2> QED BY <2>4, <2>5, <2>6, <2>7, <2>8, <2>9, <2>10, <2>11 DEF Orderly
<1> QED BY <1>3, <1>4, <1>5 DEF IInv

\* The registered entry is cached and the flag cleared, or just cleared.
LEMMA RegisterEndKeeps ==
  ASSUME IInv, NEW t \in Tasks, RegisterEnd(t) PROVE IInv'
<1> USE InstallationsAssumption
<1>1. /\ TypeOK /\ FidsFit /\ FlagIsHeld /\ task[t] \in Activity
      /\ At(t, "registered") /\ (task[t].pc \in WithId => task[t].fid \in Fids)
      /\ UNCHANGED <<disk, live, count>>
  BY DEF IInv, TypeOK, RegisterEnd, At, FidsFit
<1>2. \/ /\ mem.entry # None /\ (Return(t) \/ GotoWith(t, "refresh", mem.entry))
         /\ past' = [past EXCEPT !.handed = @ \cup {mem.entry}] /\ mem' = [mem EXCEPT !.initializing = FALSE]
      \/ /\ mem.entry = None /\ task[t].fid = None /\ Return(t)
         /\ past' = past /\ mem' = [mem EXCEPT !.initializing = FALSE]
      \/ /\ mem.entry = None /\ task[t].fid \in Fids /\ Goto(t, "persist")
         /\ past' = past /\ mem' = [loaded |-> TRUE, initializing |-> FALSE, entry |-> task[t].fid]
  BY <1>1 DEF RegisterEnd, Ensured, Goto, GotoWith, Return, Becomes, Idle, TypeOK, Activity, Entry, WithId, At, FidsFit
<1>3. TypeOK' /\ FidsFit'
  <2>1. task' \in [Tasks -> Activity]
    BY <1>1, <1>2 DEF Goto, GotoWith, Return, Becomes, Idle, TypeOK, Activity, Entry
  <2>2. past' \in Histories
    BY <1>1, <1>2 DEF TypeOK, Histories, Entry, WithId, FidsFit, At
  <2>3. /\ mem' \in [loaded : BOOLEAN, initializing : BOOLEAN, entry : Entry]
        /\ disk' \in Entry \cup {Torn} /\ live' \subseteq Fids
        /\ count' \in [calls : 0 .. MaxCalls, crashes : 0 .. MaxCrashes, revoked : 0 .. MaxRevoked, fid : Nat]
    <3>1. [mem EXCEPT !.initializing = FALSE] \in [loaded : BOOLEAN, initializing : BOOLEAN, entry : Entry]
      BY <1>1 DEF TypeOK
    <3>2. ASSUME task[t].fid \in Fids
          PROVE  [loaded |-> TRUE, initializing |-> FALSE, entry |-> task[t].fid] \in [loaded : BOOLEAN, initializing : BOOLEAN, entry : Entry]
      BY <3>2 DEF Entry
    <3>3. mem' = [mem EXCEPT !.initializing = FALSE] \/ (task[t].fid \in Fids /\ mem' = [loaded |-> TRUE, initializing |-> FALSE, entry |-> task[t].fid])
      BY <1>2
    <3> QED BY <1>1, <3>1, <3>2, <3>3 DEF TypeOK
  <2>4. FidsFit'
    BY <1>1, <1>2, <2>1 DEF Goto, GotoWith, Return, Becomes, Idle, TypeOK, FidsFit, WithId, Entry, Activity, At
  <2> QED BY <2>1, <2>2, <2>3, <2>4 DEF TypeOK, Histories
<1>4. FlagIsHeld'
  BY <1>1, <1>2 DEF Goto, GotoWith, Return, Becomes, Idle, TypeOK, FlagIsHeld
<1>5. ASSUME ~Disordered' PROVE Orderly'
  <2>1. ~Disordered
    BY <1>1, <1>2, <1>5 DEF Disordered, TypeOK, Troubled
  <2>2. Orderly
    BY <2>1 DEF IInv
  <2>3. \/ /\ mem.entry # None /\ (Moves(t, "idle", None) \/ Moves(t, "refresh", mem.entry))
           /\ past' = [past EXCEPT !.handed = @ \cup {mem.entry}] /\ mem' = [mem EXCEPT !.initializing = FALSE]
        \/ /\ mem.entry = None /\ task[t].fid = None /\ Moves(t, "idle", None)
           /\ past' = past /\ mem' = [mem EXCEPT !.initializing = FALSE]
        \/ /\ mem.entry = None /\ task[t].fid \in Fids /\ Moves(t, "persist", task[t].fid)
           /\ past' = past /\ mem' = [loaded |-> TRUE, initializing |-> FALSE, entry |-> task[t].fid]
    BY <1>1, <1>2 DEF Goto, GotoWith, Return, Becomes, Idle, Moves, TypeOK
  <2>4. ResetsAreAlone'
    BY <1>1, <2>3, <2>2 DEF Orderly, Moves, ResetsAreAlone, Resetting, At
  <2>5. OneHolder'
    BY <1>1, <2>3, <2>2 DEF Orderly, Moves, OneHolder, ResetsAreAlone, Holding, Resetting, At
  <2>6. LoadedFirst'
    BY <1>1, <2>3, <2>2 DEF Orderly, Moves, TypeOK, Activity, LoadedFirst, Holding, Using, Entry
  <2>7. UsersHaveTheEntry'
    <3>1. CASE mem.entry # None /\ Moves(t, "idle", None) /\ past' = [past EXCEPT !.handed = @ \cup {mem.entry}] /\ mem' = [mem EXCEPT !.initializing = FALSE]
      BY <3>1, <1>1, <2>2 DEF Orderly, Moves, UsersHaveTheEntry, Using
    <3>2. CASE mem.entry # None /\ Moves(t, "refresh", mem.entry) /\ past' = [past EXCEPT !.handed = @ \cup {mem.entry}] /\ mem' = [mem EXCEPT !.initializing = FALSE]
      BY <3>2, <1>1, <2>2 DEF Orderly, Moves, UsersHaveTheEntry, Using
    <3>3. CASE mem.entry = None /\ task[t].fid = None /\ Moves(t, "idle", None) /\ past' = past /\ mem' = [mem EXCEPT !.initializing = FALSE]
      BY <3>3, <1>1, <2>2 DEF Orderly, Moves, UsersHaveTheEntry, Using
    <3>4. CASE mem.entry = None /\ task[t].fid \in Fids /\ Moves(t, "persist", task[t].fid) /\ past' = past /\ mem' = [loaded |-> TRUE, initializing |-> FALSE, entry |-> task[t].fid]
      BY <3>4, <1>1, <2>2 DEF Orderly, Moves, TypeOK, Activity, UsersHaveTheEntry, ResetsAreAlone, RegistersOnNothing, ReadsTheFile, Using, Resetting, At, Entry, Fids, Troubled, Reset
    <3> QED BY <2>3, <3>1, <3>2, <3>3, <3>4
  <2>8. RegistersOnNothing'
    BY <1>1, <2>3, <2>2 DEF Orderly, Moves, RegistersOnNothing, OneHolder, UsersHaveTheEntry, FileFollows, LoadedFirst, ReadsTheFile, Using, Holding, At
  <2>9. ReadsTheFile'
    BY <1>1, <2>3, <2>2 DEF Orderly, Moves, ReadsTheFile, UsersHaveTheEntry, ResetsAreAlone, RegistersOnNothing, OneHolder, FileFollows, Using, Holding, Resetting, At
  <2>10. FileFollows'
    BY <1>1, <2>3, <2>2 DEF Orderly, Moves, TypeOK, Activity, FileFollows, UsersHaveTheEntry, ResetsAreAlone, OneHolder, ReadsTheFile, RegistersOnNothing, LoadedFirst, Resetting, Holding, Using, At
  <2>11. OnlyOneId'
    <3>1. CASE mem.entry # None /\ Moves(t, "idle", None) /\ past' = [past EXCEPT !.handed = @ \cup {mem.entry}] /\ mem' = [mem EXCEPT !.initializing = FALSE]
      BY <3>1, <1>1, <2>2 DEF Orderly, Moves, OnlyOneId, At
    <3>2. CASE mem.entry # None /\ Moves(t, "refresh", mem.entry) /\ past' = [past EXCEPT !.handed = @ \cup {mem.entry}] /\ mem' = [mem EXCEPT !.initializing = FALSE]
      BY <3>2, <1>1, <2>2 DEF Orderly, Moves, OnlyOneId, At
    <3>3. CASE mem.entry = None /\ task[t].fid = None /\ Moves(t, "idle", None) /\ past' = past /\ mem' = [mem EXCEPT !.initializing = FALSE]
      BY <3>3, <1>1, <2>2 DEF Orderly, Moves, TypeOK, Activity, OnlyOneId, OneHolder, UsersHaveTheEntry, ResetsAreAlone, ReadsTheFile, RegistersOnNothing, FileFollows, Using, Holding, Resetting, At, Entry, Fids, Troubled, Reset
    <3>4. CASE mem.entry = None /\ task[t].fid \in Fids /\ Moves(t, "persist", task[t].fid) /\ past' = past /\ mem' = [loaded |-> TRUE, initializing |-> FALSE, entry |-> task[t].fid]
      BY <3>4, <1>1, <2>2 DEF Orderly, Moves, TypeOK, Activity, OnlyOneId, OneHolder, UsersHaveTheEntry, ResetsAreAlone, ReadsTheFile, RegistersOnNothing, FileFollows, Using, Holding, Resetting, At, Entry, Fids, Troubled, Reset
    <3> QED BY <2>3, <3>1, <3>2, <3>3, <3>4
  <2> QED BY <2>4, <2>5, <2>6, <2>7, <2>8, <2>9, <2>10, <2>11 DEF Orderly
<1> QED BY <1>3, <1>4, <1>5 DEF IInv

\* The new entry is written to the file.
LEMMA PersistKeeps ==
  ASSUME IInv, NEW t \in Tasks, Persist(t) PROVE IInv'
<1> USE InstallationsAssumption
<1>1. /\ TypeOK /\ FidsFit /\ FlagIsHeld /\ task[t] \in Activity
      /\ At(t, "persist") /\ (task[t].pc \in WithId => task[t].fid \in Fids)
      /\ UNCHANGED <<mem, live, count>>
  BY DEF IInv, TypeOK, Persist, At, FidsFit
<1>2. \/ /\ disk' = task[t].fid /\ (Return(t) \/ Goto(t, "refresh"))
         /\ past' = [past EXCEPT !.durable = IF @ = None THEN task[t].fid ELSE @, !.handed = @ \cup {task[t].fid}]
      \/ disk' \in {disk, Torn} /\ Return(t) /\ past' = Troubled(past, {"io"})
  BY <1>1 DEF Persist, Ensured, WriteFails, Goto, GotoWith, Return, Becomes, Idle, TypeOK
<1>3. TypeOK' /\ FidsFit'
  <2>1. task' \in [Tasks -> Activity]
    BY <1>1, <1>2 DEF Goto, GotoWith, Return, Becomes, Idle, TypeOK, Activity, Entry
  <2>2. past' \in Histories
    <3>1. CASE past' = Troubled(past, {"io"})
      BY <1>1, <3>1 DEF TypeOK, Troubled, Trouble, Histories
    <3>2. ASSUME NEW d \in Entry, past' = [past EXCEPT !.durable = d, !.handed = @ \cup {task[t].fid}]
          PROVE  past' \in Histories
      BY <1>1, <3>2 DEF TypeOK, At, WithId, Histories
    <3>3. past.durable \in Entry /\ task[t].fid \in Entry
      BY <1>1 DEF TypeOK, At, WithId, Entry
    <3> QED BY <1>2, <3>1, <3>2, <3>3
  <2>3. /\ mem' \in [loaded : BOOLEAN, initializing : BOOLEAN, entry : Entry]
        /\ disk' \in Entry \cup {Torn} /\ live' \subseteq Fids
        /\ count' \in [calls : 0 .. MaxCalls, crashes : 0 .. MaxCrashes, revoked : 0 .. MaxRevoked, fid : Nat]
    BY <1>1, <1>2 DEF TypeOK, Entry, WithId, At, Fids, Reset
  <2>4. FidsFit'
    BY <1>1, <1>2, <2>1 DEF Goto, GotoWith, Return, Becomes, Idle, TypeOK, FidsFit, WithId, Fids, At
  <2> QED BY <2>1, <2>2, <2>3, <2>4 DEF TypeOK, Histories
<1>4. FlagIsHeld'
  BY <1>1, <1>2 DEF Goto, GotoWith, Return, Becomes, Idle, TypeOK, FlagIsHeld, Activity, At
<1>5. ASSUME ~Disordered' PROVE Orderly'
  <2>1. ~Disordered
    BY <1>1, <1>2, <1>5 DEF Disordered, TypeOK, Troubled
  <2>2. Orderly
    BY <2>1 DEF IInv
  <2>0. /\ disk' = task[t].fid /\ (Return(t) \/ Goto(t, "refresh"))
        /\ past' = [past EXCEPT !.durable = IF @ = None THEN task[t].fid ELSE @, !.handed = @ \cup {task[t].fid}]
    <3>1. past' # Troubled(past, {"io"})
      BY <1>1, <1>5 DEF Disordered, TypeOK, Troubled
    <3> QED BY <1>2, <3>1
  <2>3. /\ disk' = task[t].fid /\ (Moves(t, "idle", None) \/ Moves(t, "refresh", task[t].fid))
       /\ past' = [past EXCEPT !.durable = IF @ = None THEN task[t].fid ELSE @, !.handed = @ \cup {task[t].fid}]
    BY <1>1, <2>0 DEF Goto, GotoWith, Return, Becomes, Idle, Moves, TypeOK
  <2>4. ResetsAreAlone'
    BY <1>1, <2>3, <2>2 DEF Orderly, Moves, ResetsAreAlone, Resetting, At
  <2>5. OneHolder'
    BY <1>1, <2>3, <2>2 DEF Orderly, Moves, OneHolder, Holding
  <2>6. LoadedFirst'
    BY <1>1, <2>3, <2>2 DEF Orderly, Moves, LoadedFirst, Holding, Using, At
  <2>7. UsersHaveTheEntry'
    BY <1>1, <2>3, <2>2 DEF Orderly, Moves, UsersHaveTheEntry, ResetsAreAlone, RegistersOnNothing, ReadsTheFile, Using, Resetting, At
  <2>8. RegistersOnNothing'
    BY <1>1, <2>3, <2>2 DEF Orderly, Moves, RegistersOnNothing, OneHolder, UsersHaveTheEntry, FileFollows, LoadedFirst, ReadsTheFile, Using, Holding, At
  <2>9. ReadsTheFile'
    BY <1>1, <2>3, <2>2 DEF Orderly, Moves, ReadsTheFile, UsersHaveTheEntry, ResetsAreAlone, RegistersOnNothing, OneHolder, FileFollows, Using, Holding, Resetting, At
  <2>10. FileFollows'
    BY <1>1, <2>3, <2>2 DEF Orderly, Moves, TypeOK, Activity, FileFollows, UsersHaveTheEntry, ResetsAreAlone, OneHolder, ReadsTheFile, RegistersOnNothing, LoadedFirst, Resetting, Holding, Using, At, Entry, Fids, Troubled, Reset
  <2>11. OnlyOneId'
    BY <1>1, <2>3, <2>2 DEF Orderly, Moves, OnlyOneId, OneHolder, UsersHaveTheEntry, ResetsAreAlone, ReadsTheFile, RegistersOnNothing, FileFollows, Using, Holding, Resetting, At
  <2> QED BY <2>4, <2>5, <2>6, <2>7, <2>8, <2>9, <2>10, <2>11 DEF Orderly
<1> QED BY <1>3, <1>4, <1>5 DEF IInv

\* The backend renews the token of an id it knows.
LEMMA RefreshKeeps ==
  ASSUME IInv, NEW t \in Tasks, Refresh(t) PROVE IInv'
<1> USE InstallationsAssumption
<1>1. /\ TypeOK /\ FidsFit /\ FlagIsHeld /\ task[t] \in Activity
      /\ At(t, "refresh") /\ (task[t].pc \in WithId => task[t].fid \in Fids)
      /\ UNCHANGED <<mem, disk, live, count>>
  BY DEF IInv, TypeOK, Refresh, At, FidsFit
<1>2. \/ Goto(t, "store") /\ past' = past
      \/ Goto(t, "forget") /\ past' = Troubled(past, Overlap(t))
      \/ Return(t) /\ past' = past
  BY <1>1 DEF Refresh, Goto, GotoWith, Return, Becomes, Idle, TypeOK
<1>3. TypeOK' /\ FidsFit'
  <2>1. task' \in [Tasks -> Activity]
    BY <1>1, <1>2 DEF Goto, GotoWith, Return, Becomes, Idle, TypeOK, Activity, Entry
  <2>2. past' \in Histories
    BY <1>1, <1>2 DEF TypeOK, Histories, Trouble, Troubled, Overlap
  <2>3. /\ mem' \in [loaded : BOOLEAN, initializing : BOOLEAN, entry : Entry]
        /\ disk' \in Entry \cup {Torn} /\ live' \subseteq Fids
        /\ count' \in [calls : 0 .. MaxCalls, crashes : 0 .. MaxCrashes, revoked : 0 .. MaxRevoked, fid : Nat]
    BY <1>1, <1>2 DEF TypeOK
  <2>4. FidsFit'
    BY <1>1, <1>2, <2>1 DEF Goto, GotoWith, Return, Becomes, Idle, TypeOK, FidsFit, WithId, Fids, At
  <2> QED BY <2>1, <2>2, <2>3, <2>4 DEF TypeOK, Histories
<1>4. FlagIsHeld'
  BY <1>1, <1>2 DEF Goto, GotoWith, Return, Becomes, Idle, TypeOK, FlagIsHeld, Activity, At
<1>5. ASSUME ~Disordered' PROVE Orderly'
  <2>1. ~Disordered
    BY <1>1, <1>2, <1>5 DEF Disordered, TypeOK, Troubled
  <2>2. Orderly
    BY <2>1 DEF IInv
  <2>0. \/ Goto(t, "store") /\ past' = past
        \/ Goto(t, "forget") /\ past' = Troubled(past, {}) /\ (\A u \in Tasks : u # t => At(u, "idle"))
        \/ Return(t) /\ past' = past
    <3>1. CASE past' = Troubled(past, Overlap(t))
      <4>1. Overlap(t) # {"overlap"}
        BY <1>1, <1>5, <3>1 DEF Disordered, TypeOK, Troubled
      <4>2. Overlap(t) = {} /\ \A u \in Tasks : u # t => At(u, "idle")
        BY <4>1 DEF Overlap
      <4> QED BY <1>2, <3>1, <4>2
    <3> QED BY <1>2, <3>1
  <2>3. \/ Moves(t, "store", task[t].fid) /\ past' = past
        \/ Moves(t, "forget", task[t].fid) /\ past' = Troubled(past, {}) /\ (\A u \in Tasks : u # t => At(u, "idle"))
        \/ Moves(t, "idle", None) /\ past' = past
    BY <1>1, <2>0 DEF Goto, GotoWith, Return, Becomes, Idle, Moves, TypeOK
  <2>4. ResetsAreAlone'
    BY <1>1, <2>3, <2>2 DEF Orderly, Moves, ResetsAreAlone, Resetting, At
  <2>5. OneHolder'
    BY <1>1, <2>3, <2>2 DEF Orderly, Moves, OneHolder, Holding
  <2>6. LoadedFirst'
    BY <1>1, <2>3, <2>2 DEF Orderly, Moves, LoadedFirst, Holding, Using, At
  <2>7. UsersHaveTheEntry'
    BY <1>1, <2>3, <2>2 DEF Orderly, Moves, UsersHaveTheEntry, ResetsAreAlone, RegistersOnNothing, ReadsTheFile, Using, Resetting, At
  <2>8. RegistersOnNothing'
    BY <1>1, <2>3, <2>2 DEF Orderly, Moves, RegistersOnNothing, At
  <2>9. ReadsTheFile'
    BY <1>1, <2>3, <2>2 DEF Orderly, Moves, ReadsTheFile, At
  <2>10. FileFollows'
    BY <1>1, <2>3, <2>2 DEF Orderly, Moves, TypeOK, Activity, FileFollows, UsersHaveTheEntry, ResetsAreAlone, OneHolder, ReadsTheFile, RegistersOnNothing, LoadedFirst, Resetting, Holding, Using, At, Entry, Fids, Troubled, Reset
  <2>11. OnlyOneId'
    BY <1>1, <2>3, <2>2 DEF Orderly, Moves, TypeOK, Activity, OnlyOneId, OneHolder, UsersHaveTheEntry, ResetsAreAlone, ReadsTheFile, RegistersOnNothing, FileFollows, Using, Holding, Resetting, At, Entry, Fids, Troubled, Reset
  <2> QED BY <2>4, <2>5, <2>6, <2>7, <2>8, <2>9, <2>10, <2>11 DEF Orderly
<1> QED BY <1>3, <1>4, <1>5 DEF IInv

\* The renewed token goes into the cached entry.
LEMMA StoreTokenKeeps ==
  ASSUME IInv, NEW t \in Tasks, StoreToken(t) PROVE IInv'
<1> USE InstallationsAssumption
<1>1. /\ TypeOK /\ FidsFit /\ FlagIsHeld /\ task[t] \in Activity
      /\ At(t, "store") /\ (task[t].pc \in WithId => task[t].fid \in Fids)
      /\ UNCHANGED <<disk, live, count, past>>
  BY DEF IInv, TypeOK, StoreToken, At, FidsFit
<1>2. mem' = [mem EXCEPT !.entry = task[t].fid] /\ Goto(t, "save")
  BY <1>1 DEF StoreToken, Goto, GotoWith, Becomes, TypeOK
<1>3. TypeOK' /\ FidsFit'
  <2>1. task' \in [Tasks -> Activity]
    BY <1>1, <1>2 DEF Goto, GotoWith, Becomes, TypeOK, Activity, Entry
  <2>2. past' \in Histories
    BY <1>1, <1>2 DEF TypeOK, Histories
  <2>3. /\ mem' \in [loaded : BOOLEAN, initializing : BOOLEAN, entry : Entry]
        /\ disk' \in Entry \cup {Torn} /\ live' \subseteq Fids
        /\ count' \in [calls : 0 .. MaxCalls, crashes : 0 .. MaxCrashes, revoked : 0 .. MaxRevoked, fid : Nat]
    BY <1>1, <1>2 DEF TypeOK, Entry, WithId, At, Fids, Reset
  <2>4. FidsFit'
    BY <1>1, <1>2, <2>1 DEF Goto, GotoWith, Becomes, TypeOK, FidsFit, WithId, Fids, At
  <2> QED BY <2>1, <2>2, <2>3, <2>4 DEF TypeOK, Histories
<1>4. FlagIsHeld'
  BY <1>1, <1>2 DEF Goto, GotoWith, Becomes, TypeOK, FlagIsHeld, Activity, At
<1>5. ASSUME ~Disordered' PROVE Orderly'
  <2>1. ~Disordered
    BY <1>1, <1>2, <1>5 DEF Disordered, TypeOK, Troubled
  <2>2. Orderly
    BY <2>1 DEF IInv
  <2>3. mem' = [mem EXCEPT !.entry = task[t].fid] /\ Moves(t, "save", task[t].fid)
    BY <1>1, <1>2 DEF Goto, GotoWith, Becomes, Moves, TypeOK
  <2>4. ResetsAreAlone'
    BY <1>1, <2>3, <2>2 DEF Orderly, Moves, ResetsAreAlone, Resetting, At
  <2>5. OneHolder'
    BY <1>1, <2>3, <2>2 DEF Orderly, Moves, OneHolder, Holding
  <2>6. LoadedFirst'
    BY <1>1, <2>3, <2>2 DEF Orderly, Moves, LoadedFirst, Holding, Using, At
  <2>7. UsersHaveTheEntry'
    BY <1>1, <2>3, <2>2 DEF Orderly, Moves, UsersHaveTheEntry, ResetsAreAlone, RegistersOnNothing, ReadsTheFile, Using, Resetting, At
  <2>8. RegistersOnNothing'
    BY <1>1, <2>3, <2>2 DEF Orderly, Moves, RegistersOnNothing, OneHolder, UsersHaveTheEntry, FileFollows, LoadedFirst, ReadsTheFile, Using, Holding, At
  <2>9. ReadsTheFile'
    BY <1>1, <2>3, <2>2 DEF Orderly, Moves, ReadsTheFile, UsersHaveTheEntry, ResetsAreAlone, RegistersOnNothing, OneHolder, FileFollows, Using, Holding, Resetting, At
  <2>10. FileFollows'
    BY <1>1, <2>3, <2>2 DEF Orderly, Moves, FileFollows, UsersHaveTheEntry, ResetsAreAlone, OneHolder, ReadsTheFile, RegistersOnNothing, LoadedFirst, Resetting, Holding, Using, At
  <2>11. OnlyOneId'
    BY <1>1, <2>3, <2>2 DEF Orderly, Moves, OnlyOneId, OneHolder, UsersHaveTheEntry, ResetsAreAlone, ReadsTheFile, RegistersOnNothing, FileFollows, Using, Holding, Resetting, At
  <2> QED BY <2>4, <2>5, <2>6, <2>7, <2>8, <2>9, <2>10, <2>11 DEF Orderly
<1> QED BY <1>3, <1>4, <1>5 DEF IInv

\* The entry to save is read from the cache.
LEMMA SaveBeginKeeps ==
  ASSUME IInv, NEW t \in Tasks, SaveBegin(t) PROVE IInv'
<1> USE InstallationsAssumption
<1>1. /\ TypeOK /\ FidsFit /\ FlagIsHeld /\ task[t] \in Activity
      /\ At(t, "save") /\ (task[t].pc \in WithId => task[t].fid \in Fids)
      /\ UNCHANGED <<mem, disk, live, count, past>>
  BY DEF IInv, TypeOK, SaveBegin, At, FidsFit
<1>2. \/ mem.entry # None /\ GotoWith(t, "write", mem.entry)
      \/ mem.entry = None /\ Return(t)
  BY <1>1 DEF SaveBegin, GotoWith, Return, Becomes, Idle, TypeOK
<1>3. TypeOK' /\ FidsFit'
  <2>1. task' \in [Tasks -> Activity]
    BY <1>1, <1>2 DEF GotoWith, Return, Becomes, Idle, TypeOK, Activity, Entry
  <2>2. past' \in Histories
    BY <1>1, <1>2 DEF TypeOK, Histories
  <2>3. /\ mem' \in [loaded : BOOLEAN, initializing : BOOLEAN, entry : Entry]
        /\ disk' \in Entry \cup {Torn} /\ live' \subseteq Fids
        /\ count' \in [calls : 0 .. MaxCalls, crashes : 0 .. MaxCrashes, revoked : 0 .. MaxRevoked, fid : Nat]
    BY <1>1, <1>2 DEF TypeOK
  <2>4. FidsFit'
    BY <1>1, <1>2, <2>1 DEF GotoWith, Return, Becomes, Idle, TypeOK, FidsFit, WithId, Entry, Activity, At
  <2> QED BY <2>1, <2>2, <2>3, <2>4 DEF TypeOK, Histories
<1>4. FlagIsHeld'
  BY <1>1, <1>2 DEF GotoWith, Return, Becomes, Idle, TypeOK, FlagIsHeld, Activity, At
<1>5. ASSUME ~Disordered' PROVE Orderly'
  <2>1. ~Disordered
    BY <1>1, <1>2, <1>5 DEF Disordered, TypeOK, Troubled
  <2>2. Orderly
    BY <2>1 DEF IInv
  <2>3. \/ mem.entry # None /\ Moves(t, "write", mem.entry)
        \/ mem.entry = None /\ Moves(t, "idle", None)
    BY <1>1, <1>2 DEF GotoWith, Return, Becomes, Idle, Moves, TypeOK
  <2>4. ResetsAreAlone'
    BY <1>1, <2>3, <2>2 DEF Orderly, Moves, ResetsAreAlone, Resetting, At
  <2>5. OneHolder'
    <3>1. task'[t].pc \notin Holding /\ mem' = mem
      BY <1>1, <2>3 DEF Moves, Holding
    <3> QED BY <2>2, <2>3, <3>1 DEF Orderly, OneHolder, Moves
  <2>6. LoadedFirst'
    BY <1>1, <2>3, <2>2 DEF Orderly, Moves, LoadedFirst, Holding, Using
  <2>7. UsersHaveTheEntry'
    BY <1>1, <2>3, <2>2 DEF Orderly, Moves, UsersHaveTheEntry, Using
  <2>8. RegistersOnNothing'
    BY <1>1, <2>3, <2>2 DEF Orderly, Moves, RegistersOnNothing, At
  <2>9. ReadsTheFile'
    BY <1>1, <2>3, <2>2 DEF Orderly, Moves, ReadsTheFile, At
  <2>10. FileFollows'
    BY <1>1, <2>3, <2>2 DEF Orderly, Moves, FileFollows, At
  <2>11. OnlyOneId'
    BY <1>1, <2>3, <2>2 DEF Orderly, Moves, OnlyOneId, At
  <2> QED BY <2>4, <2>5, <2>6, <2>7, <2>8, <2>9, <2>10, <2>11 DEF Orderly
<1> QED BY <1>3, <1>4, <1>5 DEF IInv

\* It is written to the file.
LEMMA SaveEndKeeps ==
  ASSUME IInv, NEW t \in Tasks, SaveEnd(t) PROVE IInv'
<1> USE InstallationsAssumption
<1>1. /\ TypeOK /\ FidsFit /\ FlagIsHeld /\ task[t] \in Activity
      /\ At(t, "write") /\ (task[t].pc \in WithId => task[t].fid \in Fids)
      /\ UNCHANGED <<mem, live, count>>
  BY DEF IInv, TypeOK, SaveEnd, At, FidsFit
<1>2. \/ disk' = task[t].fid /\ Return(t) /\ past' = past
      \/ disk' \in {disk, Torn} /\ Return(t) /\ past' = Troubled(past, {"io"})
  BY <1>1 DEF SaveEnd, WriteFails, Return, Becomes, Idle, TypeOK
<1>3. TypeOK' /\ FidsFit'
  <2>1. task' \in [Tasks -> Activity]
    BY <1>1, <1>2 DEF Return, Becomes, Idle, TypeOK, Activity, Entry
  <2>2. past' \in Histories
    BY <1>1, <1>2 DEF TypeOK, Histories, Trouble, Troubled
  <2>3. /\ mem' \in [loaded : BOOLEAN, initializing : BOOLEAN, entry : Entry]
        /\ disk' \in Entry \cup {Torn} /\ live' \subseteq Fids
        /\ count' \in [calls : 0 .. MaxCalls, crashes : 0 .. MaxCrashes, revoked : 0 .. MaxRevoked, fid : Nat]
    BY <1>1, <1>2 DEF TypeOK, Entry, WithId, At, Fids, Reset
  <2>4. FidsFit'
    BY <1>1, <1>2, <2>1 DEF Return, Becomes, Idle, TypeOK, FidsFit, WithId, Fids, At
  <2> QED BY <2>1, <2>2, <2>3, <2>4 DEF TypeOK, Histories
<1>4. FlagIsHeld'
  BY <1>1, <1>2 DEF Return, Becomes, Idle, TypeOK, FlagIsHeld, Activity, At
<1>5. ASSUME ~Disordered' PROVE Orderly'
  <2>1. ~Disordered
    BY <1>1, <1>2, <1>5 DEF Disordered, TypeOK, Troubled
  <2>2. Orderly
    BY <2>1 DEF IInv
  <2>0. disk' = task[t].fid /\ Return(t) /\ past' = past
    BY <1>1, <1>2, <1>5 DEF Disordered, TypeOK, Troubled, Overlap
  <2>3. disk' = task[t].fid /\ Moves(t, "idle", None) /\ past' = past
    BY <1>1, <2>0 DEF Return, Becomes, Idle, Moves, TypeOK
  <2>4. ResetsAreAlone'
    BY <1>1, <2>3, <2>2 DEF Orderly, Moves, ResetsAreAlone, Resetting, At
  <2>5. OneHolder'
    BY <1>1, <2>3, <2>2 DEF Orderly, Moves, OneHolder, Holding
  <2>6. LoadedFirst'
    BY <1>1, <2>3, <2>2 DEF Orderly, Moves, LoadedFirst, Holding, Using
  <2>7. UsersHaveTheEntry'
    BY <1>1, <2>3, <2>2 DEF Orderly, Moves, UsersHaveTheEntry, Using
  <2>8. RegistersOnNothing'
    BY <1>1, <2>3, <2>2 DEF Orderly, Moves, RegistersOnNothing, OneHolder, UsersHaveTheEntry, FileFollows, LoadedFirst, ReadsTheFile, Using, Holding, At
  <2>9. ReadsTheFile'
    BY <1>1, <2>3, <2>2 DEF Orderly, Moves, ReadsTheFile, UsersHaveTheEntry, ResetsAreAlone, RegistersOnNothing, OneHolder, FileFollows, Using, Holding, Resetting, At
  <2>10. FileFollows'
    BY <1>1, <2>3, <2>2 DEF Orderly, Moves, TypeOK, Activity, FileFollows, UsersHaveTheEntry, ResetsAreAlone, OneHolder, ReadsTheFile, RegistersOnNothing, LoadedFirst, Resetting, Holding, Using, At, Entry, Fids, Troubled, Reset
  <2>11. OnlyOneId'
    BY <1>1, <2>3, <2>2 DEF Orderly, Moves, OnlyOneId, OneHolder, UsersHaveTheEntry, ResetsAreAlone, ReadsTheFile, RegistersOnNothing, FileFollows, Using, Holding, Resetting, At
  <2> QED BY <2>4, <2>5, <2>6, <2>7, <2>8, <2>9, <2>10, <2>11 DEF Orderly
<1> QED BY <1>3, <1>4, <1>5 DEF IInv

\* An installation the backend does not know is forgotten: first its file.
LEMMA ForgetFileKeeps ==
  ASSUME IInv, NEW t \in Tasks, ForgetFile(t) PROVE IInv'
<1> USE InstallationsAssumption
<1>1. /\ TypeOK /\ FidsFit /\ FlagIsHeld /\ task[t] \in Activity
      /\ At(t, "forget") /\ (task[t].pc \in WithId => task[t].fid \in Fids)
      /\ UNCHANGED <<mem, live, count>>
  BY DEF IInv, TypeOK, ForgetFile, At, FidsFit
<1>2. \/ disk' = None /\ Goto(t, "forgotten") /\ past' = [Troubled(past, {"reset"}) EXCEPT !.durable = None]
      \/ disk' = disk /\ Return(t) /\ past' = Troubled(past, {"io"})
  BY <1>1 DEF ForgetFile, ClearFile, Goto, GotoWith, Return, Becomes, Idle, TypeOK
<1>3. TypeOK' /\ FidsFit'
  <2>1. task' \in [Tasks -> Activity]
    BY <1>1, <1>2 DEF Goto, GotoWith, Return, Becomes, Idle, TypeOK, Activity, Entry
  <2>2. past' \in Histories
    <3>1. \A what \in {{"reset"}, {"io"}} : Troubled(past, what) \in Histories
      BY <1>1 DEF TypeOK, Troubled, Trouble, Histories
    <3> DEFINE p == Troubled(past, {"reset"})
    <3>2. [p EXCEPT !.durable = None] \in Histories
      <4> HIDE DEF p
      <4>1. p \in Histories
        BY <3>1 DEF p
      <4> QED BY <4>1 DEF Entry, Histories
    <3> QED BY <1>2, <3>1, <3>2
  <2>3. /\ mem' \in [loaded : BOOLEAN, initializing : BOOLEAN, entry : Entry]
        /\ disk' \in Entry \cup {Torn} /\ live' \subseteq Fids
        /\ count' \in [calls : 0 .. MaxCalls, crashes : 0 .. MaxCrashes, revoked : 0 .. MaxRevoked, fid : Nat]
    BY <1>1, <1>2 DEF TypeOK, Entry
  <2>4. FidsFit'
    BY <1>1, <1>2, <2>1 DEF Goto, GotoWith, Return, Becomes, Idle, TypeOK, FidsFit, WithId, Fids, At
  <2> QED BY <2>1, <2>2, <2>3, <2>4 DEF TypeOK, Histories
<1>4. FlagIsHeld'
  BY <1>1, <1>2 DEF Goto, GotoWith, Return, Becomes, Idle, TypeOK, FlagIsHeld, Activity, At
<1>5. ASSUME ~Disordered' PROVE Orderly'
  <2>1. ~Disordered
    BY <1>1, <1>2, <1>5 DEF Disordered, TypeOK, Troubled
  <2>2. Orderly
    BY <2>1 DEF IInv
  <2>0. disk' = None /\ Goto(t, "forgotten") /\ past' = [Troubled(past, {"reset"}) EXCEPT !.durable = None]
    BY <1>1, <1>2, <1>5 DEF Disordered, TypeOK, Troubled, Overlap
  <2>3. disk' = None /\ Moves(t, "forgotten", task[t].fid) /\ past' = [Troubled(past, {"reset"}) EXCEPT !.durable = None]
    BY <1>1, <2>0 DEF Goto, GotoWith, Return, Becomes, Idle, Moves, TypeOK
  <2>4. ResetsAreAlone'
    BY <1>1, <2>3, <2>2 DEF Orderly, Moves, ResetsAreAlone, Resetting, At
  <2>5. OneHolder'
    BY <1>1, <2>3, <2>2 DEF Orderly, Moves, OneHolder, Holding
  <2>6. LoadedFirst'
    BY <1>1, <2>3, <2>2 DEF Orderly, Moves, LoadedFirst, Holding, Using
  <2>7. UsersHaveTheEntry'
    BY <1>1, <2>3, <2>2 DEF Orderly, Moves, UsersHaveTheEntry, Using
  <2>8. RegistersOnNothing'
    BY <1>1, <2>3, <2>2 DEF Orderly, Moves, RegistersOnNothing, At
  <2>9. ReadsTheFile'
    BY <1>1, <2>3, <2>2 DEF Orderly, Moves, ReadsTheFile, UsersHaveTheEntry, ResetsAreAlone, RegistersOnNothing, OneHolder, FileFollows, Using, Holding, Resetting, At
  <2>10. FileFollows'
    BY <1>1, <2>3, <2>2 DEF Orderly, Moves, FileFollows, UsersHaveTheEntry, ResetsAreAlone, OneHolder, ReadsTheFile, RegistersOnNothing, LoadedFirst, Resetting, Holding, Using, At, Entry, Troubled
  <2>11. OnlyOneId'
    BY <1>1, <2>3, <2>2 DEF Orderly, Moves, OnlyOneId, OneHolder, UsersHaveTheEntry, ResetsAreAlone, ReadsTheFile, RegistersOnNothing, FileFollows, Using, Holding, Resetting, At, Entry, Troubled
  <2> QED BY <2>4, <2>5, <2>6, <2>7, <2>8, <2>9, <2>10, <2>11 DEF Orderly
<1> QED BY <1>3, <1>4, <1>5 DEF IInv

\* Then the cached entry, and the call starts again.
LEMMA ForgetEntryKeeps ==
  ASSUME IInv, NEW t \in Tasks, ForgetEntry(t) PROVE IInv'
<1> USE InstallationsAssumption
<1>1. /\ TypeOK /\ FidsFit /\ FlagIsHeld /\ task[t] \in Activity
      /\ At(t, "forgotten") /\ (task[t].pc \in WithId => task[t].fid \in Fids)
      /\ UNCHANGED <<disk, live, count, past>>
  BY DEF IInv, TypeOK, ForgetEntry, At, FidsFit
<1>2. mem' = Reset /\ Becomes(t, "ensure", "reget", None)
  BY <1>1 DEF ForgetEntry, Becomes, TypeOK
<1>3. TypeOK' /\ FidsFit'
  <2>1. task' \in [Tasks -> Activity]
    BY <1>1, <1>2 DEF Becomes, TypeOK, Activity, Entry
  <2>2. past' \in Histories
    BY <1>1, <1>2 DEF TypeOK, Histories
  <2>3. /\ mem' \in [loaded : BOOLEAN, initializing : BOOLEAN, entry : Entry]
        /\ disk' \in Entry \cup {Torn} /\ live' \subseteq Fids
        /\ count' \in [calls : 0 .. MaxCalls, crashes : 0 .. MaxCrashes, revoked : 0 .. MaxRevoked, fid : Nat]
    BY <1>1, <1>2 DEF TypeOK, Entry, Fids, Reset
  <2>4. FidsFit'
    BY <1>1, <1>2, <2>1 DEF Becomes, TypeOK, FidsFit, WithId, Fids, At
  <2> QED BY <2>1, <2>2, <2>3, <2>4 DEF TypeOK, Histories
<1>4. FlagIsHeld'
  BY <1>1, <1>2 DEF Becomes, TypeOK, FlagIsHeld, At, Reset
<1>5. ASSUME ~Disordered' PROVE Orderly'
  <2>1. ~Disordered
    BY <1>1, <1>2, <1>5 DEF Disordered, TypeOK, Troubled
  <2>2. Orderly
    BY <2>1 DEF IInv
  <2>3. mem' = Reset /\ Moves(t, "ensure", None)
    BY <1>1, <1>2 DEF Becomes, Moves, TypeOK
  <2>4. ResetsAreAlone'
    BY <1>1, <2>3, <2>2 DEF Orderly, Moves, ResetsAreAlone, Resetting, At
  <2>5. OneHolder'
    <3>1. \A u \in Tasks : task'[u].pc \notin Holding
      BY <1>1, <2>2, <2>3 DEF Orderly, ResetsAreAlone, Resetting, Moves, At, Holding
    <3> QED BY <3>1 DEF OneHolder
  <2>6. LoadedFirst'
    BY <1>1, <2>3, <2>2 DEF Orderly, Moves, TypeOK, Activity, LoadedFirst, Holding, Using, At, Entry, Fids, Troubled, Reset
  <2>7. UsersHaveTheEntry'
    BY <1>1, <2>3, <2>2 DEF Orderly, Moves, UsersHaveTheEntry, ResetsAreAlone, RegistersOnNothing, ReadsTheFile, Using, Resetting, At
  <2>8. RegistersOnNothing'
    BY <1>1, <2>3, <2>2 DEF Orderly, Moves, TypeOK, Activity, RegistersOnNothing, OneHolder, UsersHaveTheEntry, FileFollows, LoadedFirst, ReadsTheFile, Using, Holding, At, Entry, Fids, Troubled, Reset
  <2>9. ReadsTheFile'
    BY <1>1, <2>3, <2>2 DEF Orderly, Moves, ReadsTheFile, UsersHaveTheEntry, ResetsAreAlone, RegistersOnNothing, OneHolder, FileFollows, Using, Holding, Resetting, At
  <2>10. FileFollows'
    BY <1>1, <2>3, <2>2 DEF Orderly, Moves, TypeOK, Activity, FileFollows, UsersHaveTheEntry, ResetsAreAlone, OneHolder, ReadsTheFile, RegistersOnNothing, LoadedFirst, Resetting, Holding, Using, At, Entry, Fids, Troubled, Reset
  <2>11. OnlyOneId'
    BY <1>1, <2>3, <2>2 DEF Orderly, Moves, OnlyOneId, OneHolder, UsersHaveTheEntry, ResetsAreAlone, ReadsTheFile, RegistersOnNothing, FileFollows, Using, Holding, Resetting, At
  <2> QED BY <2>4, <2>5, <2>6, <2>7, <2>8, <2>9, <2>10, <2>11 DEF Orderly
<1> QED BY <1>3, <1>4, <1>5 DEF IInv

\* A delete looks for an entry.
LEMMA DeleteLookKeeps ==
  ASSUME IInv, NEW t \in Tasks, DeleteLook(t) PROVE IInv'
<1> USE InstallationsAssumption
<1>1. /\ TypeOK /\ FidsFit /\ FlagIsHeld /\ task[t] \in Activity
      /\ At(t, "delete") /\ (task[t].pc \in WithId => task[t].fid \in Fids)
      /\ UNCHANGED <<mem, disk, live, count, past>>
  BY DEF IInv, TypeOK, DeleteLook, At, FidsFit
<1>2. \/ mem.entry = None /\ GotoWith(t, "clear", None)
      \/ mem.entry # None /\ GotoWith(t, "delete_rest", mem.entry)
  BY <1>1 DEF DeleteLook, GotoWith, Becomes, TypeOK
<1>3. TypeOK' /\ FidsFit'
  <2>1. task' \in [Tasks -> Activity]
    BY <1>1, <1>2 DEF GotoWith, Becomes, TypeOK, Activity, Entry
  <2>2. past' \in Histories
    BY <1>1, <1>2 DEF TypeOK, Histories
  <2>3. /\ mem' \in [loaded : BOOLEAN, initializing : BOOLEAN, entry : Entry]
        /\ disk' \in Entry \cup {Torn} /\ live' \subseteq Fids
        /\ count' \in [calls : 0 .. MaxCalls, crashes : 0 .. MaxCrashes, revoked : 0 .. MaxRevoked, fid : Nat]
    BY <1>1, <1>2 DEF TypeOK
  <2>4. FidsFit'
    BY <1>1, <1>2, <2>1 DEF GotoWith, Becomes, TypeOK, FidsFit, WithId, Entry, Activity, At
  <2> QED BY <2>1, <2>2, <2>3, <2>4 DEF TypeOK, Histories
<1>4. FlagIsHeld'
  BY <1>1, <1>2 DEF GotoWith, Becomes, TypeOK, FlagIsHeld, Activity, At
<1>5. ASSUME ~Disordered' PROVE Orderly'
  <2>1. ~Disordered
    BY <1>1, <1>2, <1>5 DEF Disordered, TypeOK, Troubled
  <2>2. Orderly
    BY <2>1 DEF IInv
  <2>3. \/ mem.entry = None /\ Moves(t, "clear", None)
        \/ mem.entry # None /\ Moves(t, "delete_rest", mem.entry)
    BY <1>1, <1>2 DEF GotoWith, Becomes, Moves, TypeOK
  <2>4. ResetsAreAlone'
    BY <1>1, <2>3, <2>2 DEF Orderly, Moves, ResetsAreAlone, Resetting, At
  <2>5. OneHolder'
    BY <1>1, <2>3, <2>2 DEF Orderly, Moves, OneHolder, Holding
  <2>6. LoadedFirst'
    BY <1>1, <2>3, <2>2 DEF Orderly, Moves, LoadedFirst, Holding, Using
  <2>7. UsersHaveTheEntry'
    BY <1>1, <2>3, <2>2 DEF Orderly, Moves, UsersHaveTheEntry, Using
  <2>8. RegistersOnNothing'
    BY <1>1, <2>3, <2>2 DEF Orderly, Moves, RegistersOnNothing, At
  <2>9. ReadsTheFile'
    BY <1>1, <2>3, <2>2 DEF Orderly, Moves, ReadsTheFile, At
  <2>10. FileFollows'
    BY <1>1, <2>3, <2>2 DEF Orderly, Moves, FileFollows, At
  <2>11. OnlyOneId'
    BY <1>1, <2>3, <2>2 DEF Orderly, Moves, OnlyOneId, At
  <2> QED BY <2>4, <2>5, <2>6, <2>7, <2>8, <2>9, <2>10, <2>11 DEF Orderly
<1> QED BY <1>3, <1>4, <1>5 DEF IInv

\* The backend deletes the installation, and its answer arrives or is lost.
LEMMA DeleteRemoteKeeps ==
  ASSUME IInv, NEW t \in Tasks, DeleteRemote(t) PROVE IInv'
<1> USE InstallationsAssumption
<1>1. /\ TypeOK /\ FidsFit /\ FlagIsHeld /\ task[t] \in Activity
      /\ At(t, "delete_rest") /\ (task[t].pc \in WithId => task[t].fid \in Fids)
      /\ UNCHANGED <<mem, disk, count>>
  BY DEF IInv, TypeOK, DeleteRemote, At, FidsFit
<1>2. /\ live' \subseteq live
      /\ \/ Goto(t, "clear") /\ past' = past
         \/ Return(t) /\ past' = Troubled(past, {"reply"})
  BY <1>1 DEF DeleteRemote, Goto, GotoWith, Return, Becomes, Idle, TypeOK
<1>3. TypeOK' /\ FidsFit'
  <2>1. task' \in [Tasks -> Activity]
    BY <1>1, <1>2 DEF Goto, GotoWith, Return, Becomes, Idle, TypeOK, Activity, Entry
  <2>2. past' \in Histories
    BY <1>1, <1>2 DEF TypeOK, Histories, Trouble, Troubled
  <2>3. /\ mem' \in [loaded : BOOLEAN, initializing : BOOLEAN, entry : Entry]
        /\ disk' \in Entry \cup {Torn} /\ live' \subseteq Fids
        /\ count' \in [calls : 0 .. MaxCalls, crashes : 0 .. MaxCrashes, revoked : 0 .. MaxRevoked, fid : Nat]
    BY <1>1, <1>2 DEF TypeOK
  <2>4. FidsFit'
    BY <1>1, <1>2, <2>1 DEF Goto, GotoWith, Return, Becomes, Idle, TypeOK, FidsFit, WithId, Entry, Activity, At
  <2> QED BY <2>1, <2>2, <2>3, <2>4 DEF TypeOK, Histories
<1>4. FlagIsHeld'
  BY <1>1, <1>2 DEF Goto, GotoWith, Return, Becomes, Idle, TypeOK, FlagIsHeld, Activity, At
<1>5. ASSUME ~Disordered' PROVE Orderly'
  <2>1. ~Disordered
    BY <1>1, <1>2, <1>5 DEF Disordered, TypeOK, Troubled
  <2>2. Orderly
    BY <2>1 DEF IInv
  <2>3. /\ live' \subseteq live
        /\ \/ Moves(t, "clear", task[t].fid) /\ past' = past
           \/ Moves(t, "idle", None) /\ past' = Troubled(past, {"reply"})
    BY <1>1, <1>2 DEF Goto, GotoWith, Return, Becomes, Idle, Moves, TypeOK
  <2>4. ResetsAreAlone'
    BY <1>1, <2>3, <2>2 DEF Orderly, Moves, ResetsAreAlone, Resetting, At
  <2>5. OneHolder'
    BY <1>1, <2>3, <2>2 DEF Orderly, Moves, OneHolder, Holding
  <2>6. LoadedFirst'
    BY <1>1, <2>3, <2>2 DEF Orderly, Moves, LoadedFirst, Holding, Using
  <2>7. UsersHaveTheEntry'
    BY <1>1, <2>3, <2>2 DEF Orderly, Moves, UsersHaveTheEntry, Using
  <2>8. RegistersOnNothing'
    BY <1>1, <2>3, <2>2 DEF Orderly, Moves, RegistersOnNothing, At
  <2>9. ReadsTheFile'
    BY <1>1, <2>3, <2>2 DEF Orderly, Moves, ReadsTheFile, At
  <2>10. FileFollows'
    BY <1>1, <2>3, <2>2 DEF Orderly, Moves, TypeOK, Activity, FileFollows, UsersHaveTheEntry, ResetsAreAlone, OneHolder, ReadsTheFile, RegistersOnNothing, LoadedFirst, Resetting, Holding, Using, At, Entry, Fids, Troubled, Reset
  <2>11. OnlyOneId'
    BY <1>1, <2>3, <2>2 DEF Orderly, Moves, TypeOK, Activity, OnlyOneId, OneHolder, UsersHaveTheEntry, ResetsAreAlone, ReadsTheFile, RegistersOnNothing, FileFollows, Using, Holding, Resetting, At, Entry, Fids, Troubled, Reset
  <2> QED BY <2>4, <2>5, <2>6, <2>7, <2>8, <2>9, <2>10, <2>11 DEF Orderly
<1> QED BY <1>3, <1>4, <1>5 DEF IInv

\* The file goes after it.
LEMMA DeleteFileKeeps ==
  ASSUME IInv, NEW t \in Tasks, DeleteFile(t) PROVE IInv'
<1> USE InstallationsAssumption
<1>1. /\ TypeOK /\ FidsFit /\ FlagIsHeld /\ task[t] \in Activity
      /\ At(t, "clear") /\ (task[t].pc \in WithId => task[t].fid \in Fids)
      /\ UNCHANGED <<mem, live, count>>
  BY DEF IInv, TypeOK, DeleteFile, At, FidsFit
<1>2. \/ disk' = None /\ Goto(t, "reset") /\ past' = [Troubled(past, {"reset"}) EXCEPT !.durable = None]
      \/ disk' = disk /\ Return(t) /\ past' = Troubled(past, {"io"})
  BY <1>1 DEF DeleteFile, ClearFile, Goto, GotoWith, Return, Becomes, Idle, TypeOK
<1>3. TypeOK' /\ FidsFit'
  <2>1. task' \in [Tasks -> Activity]
    BY <1>1, <1>2 DEF Goto, GotoWith, Return, Becomes, Idle, TypeOK, Activity, Entry
  <2>2. past' \in Histories
    <3>1. \A what \in {{"reset"}, {"io"}} : Troubled(past, what) \in Histories
      BY <1>1 DEF TypeOK, Troubled, Trouble, Histories
    <3> DEFINE p == Troubled(past, {"reset"})
    <3>2. [p EXCEPT !.durable = None] \in Histories
      <4> HIDE DEF p
      <4>1. p \in Histories
        BY <3>1 DEF p
      <4> QED BY <4>1 DEF Entry, Histories
    <3> QED BY <1>2, <3>1, <3>2
  <2>3. /\ mem' \in [loaded : BOOLEAN, initializing : BOOLEAN, entry : Entry]
        /\ disk' \in Entry \cup {Torn} /\ live' \subseteq Fids
        /\ count' \in [calls : 0 .. MaxCalls, crashes : 0 .. MaxCrashes, revoked : 0 .. MaxRevoked, fid : Nat]
    BY <1>1, <1>2 DEF TypeOK, Entry
  <2>4. FidsFit'
    BY <1>1, <1>2, <2>1 DEF Goto, GotoWith, Return, Becomes, Idle, TypeOK, FidsFit, WithId, Fids, At
  <2> QED BY <2>1, <2>2, <2>3, <2>4 DEF TypeOK, Histories
<1>4. FlagIsHeld'
  BY <1>1, <1>2 DEF Goto, GotoWith, Return, Becomes, Idle, TypeOK, FlagIsHeld, Activity, At
<1>5. ASSUME ~Disordered' PROVE Orderly'
  <2>1. ~Disordered
    BY <1>1, <1>2, <1>5 DEF Disordered, TypeOK, Troubled
  <2>2. Orderly
    BY <2>1 DEF IInv
  <2>0. disk' = None /\ Goto(t, "reset") /\ past' = [Troubled(past, {"reset"}) EXCEPT !.durable = None]
    BY <1>1, <1>2, <1>5 DEF Disordered, TypeOK, Troubled, Overlap
  <2>3. disk' = None /\ Moves(t, "reset", task[t].fid) /\ past' = [Troubled(past, {"reset"}) EXCEPT !.durable = None]
    BY <1>1, <2>0 DEF Goto, GotoWith, Return, Becomes, Idle, Moves, TypeOK
  <2>4. ResetsAreAlone'
    BY <1>1, <2>3, <2>2 DEF Orderly, Moves, ResetsAreAlone, Resetting, At
  <2>5. OneHolder'
    BY <1>1, <2>3, <2>2 DEF Orderly, Moves, OneHolder, Holding
  <2>6. LoadedFirst'
    BY <1>1, <2>3, <2>2 DEF Orderly, Moves, LoadedFirst, Holding, Using
  <2>7. UsersHaveTheEntry'
    BY <1>1, <2>3, <2>2 DEF Orderly, Moves, UsersHaveTheEntry, Using
  <2>8. RegistersOnNothing'
    BY <1>1, <2>3, <2>2 DEF Orderly, Moves, RegistersOnNothing, At
  <2>9. ReadsTheFile'
    BY <1>1, <2>3, <2>2 DEF Orderly, Moves, ReadsTheFile, UsersHaveTheEntry, ResetsAreAlone, RegistersOnNothing, OneHolder, FileFollows, Using, Holding, Resetting, At
  <2>10. FileFollows'
    BY <1>1, <2>3, <2>2 DEF Orderly, Moves, FileFollows, UsersHaveTheEntry, ResetsAreAlone, OneHolder, ReadsTheFile, RegistersOnNothing, LoadedFirst, Resetting, Holding, Using, At, Entry, Troubled
  <2>11. OnlyOneId'
    BY <1>1, <2>3, <2>2 DEF Orderly, Moves, OnlyOneId, OneHolder, UsersHaveTheEntry, ResetsAreAlone, ReadsTheFile, RegistersOnNothing, FileFollows, Using, Holding, Resetting, At, Entry, Troubled
  <2> QED BY <2>4, <2>5, <2>6, <2>7, <2>8, <2>9, <2>10, <2>11 DEF Orderly
<1> QED BY <1>3, <1>4, <1>5 DEF IInv

\* The cached entry goes last.
LEMMA DeleteEntryKeeps ==
  ASSUME IInv, NEW t \in Tasks, DeleteEntry(t) PROVE IInv'
<1> USE InstallationsAssumption
<1>1. /\ TypeOK /\ FidsFit /\ FlagIsHeld /\ task[t] \in Activity
      /\ At(t, "reset") /\ (task[t].pc \in WithId => task[t].fid \in Fids)
      /\ UNCHANGED <<disk, live, count>>
  BY DEF IInv, TypeOK, DeleteEntry, At, FidsFit
<1>2. mem' = Reset /\ Return(t) /\ past' = [past EXCEPT !.deleted = @ \cup ({task[t].fid} \ {None})]
  BY <1>1 DEF DeleteEntry, Return, Becomes, Idle, TypeOK
<1>3. TypeOK' /\ FidsFit'
  <2>1. task' \in [Tasks -> Activity]
    BY <1>1, <1>2 DEF Return, Becomes, Idle, TypeOK, Activity, Entry
  <2>2. past' \in Histories
    BY <1>1, <1>2 DEF TypeOK, Histories, Entry, WithId, FidsFit, At
  <2>3. /\ mem' \in [loaded : BOOLEAN, initializing : BOOLEAN, entry : Entry]
        /\ disk' \in Entry \cup {Torn} /\ live' \subseteq Fids
        /\ count' \in [calls : 0 .. MaxCalls, crashes : 0 .. MaxCrashes, revoked : 0 .. MaxRevoked, fid : Nat]
    BY <1>1, <1>2 DEF TypeOK, Entry, Fids, Reset
  <2>4. FidsFit'
    BY <1>1, <1>2, <2>1 DEF Return, Becomes, Idle, TypeOK, FidsFit, WithId, Fids, At
  <2> QED BY <2>1, <2>2, <2>3, <2>4 DEF TypeOK, Histories
<1>4. FlagIsHeld'
  BY <1>1, <1>2 DEF Return, Becomes, Idle, TypeOK, FlagIsHeld, At, Reset
<1>5. ASSUME ~Disordered' PROVE Orderly'
  <2>1. ~Disordered
    BY <1>1, <1>2, <1>5 DEF Disordered, TypeOK, Troubled
  <2>2. Orderly
    BY <2>1 DEF IInv
  <2>3. mem' = Reset /\ Moves(t, "idle", None) /\ past' = [past EXCEPT !.deleted = @ \cup ({task[t].fid} \ {None})]
    BY <1>1, <1>2 DEF Return, Becomes, Idle, Moves, TypeOK
  <2>4. ResetsAreAlone'
    BY <1>1, <2>3, <2>2 DEF Orderly, Moves, ResetsAreAlone, Resetting, At
  <2>5. OneHolder'
    BY <1>1, <2>3, <2>2 DEF Orderly, Moves, OneHolder, ResetsAreAlone, Holding, Resetting, At
  <2>6. LoadedFirst'
    BY <1>1, <2>3, <2>2 DEF Orderly, Moves, TypeOK, Activity, LoadedFirst, Holding, Using, At, Entry, Fids, Troubled, Reset
  <2>7. UsersHaveTheEntry'
    BY <1>1, <2>3, <2>2 DEF Orderly, Moves, UsersHaveTheEntry, ResetsAreAlone, RegistersOnNothing, ReadsTheFile, Using, Resetting, At
  <2>8. RegistersOnNothing'
    BY <1>1, <2>3, <2>2 DEF Orderly, Moves, TypeOK, Activity, RegistersOnNothing, OneHolder, UsersHaveTheEntry, FileFollows, LoadedFirst, ReadsTheFile, Using, Holding, At, Entry, Fids, Troubled, Reset
  <2>9. ReadsTheFile'
    BY <1>1, <2>3, <2>2 DEF Orderly, Moves, ReadsTheFile, UsersHaveTheEntry, ResetsAreAlone, RegistersOnNothing, OneHolder, FileFollows, Using, Holding, Resetting, At
  <2>10. FileFollows'
    BY <1>1, <2>3, <2>2 DEF Orderly, Moves, TypeOK, Activity, FileFollows, UsersHaveTheEntry, ResetsAreAlone, OneHolder, ReadsTheFile, RegistersOnNothing, LoadedFirst, Resetting, Holding, Using, At, Entry, Fids, Troubled, Reset
  <2>11. OnlyOneId'
    BY <1>1, <2>3, <2>2 DEF Orderly, Moves, OnlyOneId, OneHolder, UsersHaveTheEntry, ResetsAreAlone, ReadsTheFile, RegistersOnNothing, FileFollows, Using, Holding, Resetting, At
  <2> QED BY <2>4, <2>5, <2>6, <2>7, <2>8, <2>9, <2>10, <2>11 DEF Orderly
<1> QED BY <1>3, <1>4, <1>5 DEF IInv

\* A call begins; beginning one beside a reset, or a reset beside others, is an overlap.
\* A call begins, alone or beside others.
LEMMA CallKeeps ==
  ASSUME IInv, NEW t \in Tasks, Call(t) PROVE IInv'
<1> USE InstallationsAssumption
<1>1. /\ TypeOK /\ FidsFit /\ FlagIsHeld /\ At(t, "idle")
      /\ UNCHANGED <<mem, disk, live>>
      /\ count.calls < MaxCalls /\ count' = [count EXCEPT !.calls = @ + 1]
      /\ past' = Troubled(past, IF \E u \in Tasks : task'[u].pc \in Resetting THEN Overlap(t) ELSE {})
  BY DEF IInv, Call
<1>2. PICK op \in Ops : Becomes(t, IF op = "delete" THEN "delete" ELSE "ensure", op, None)
  BY DEF Call
<1>3. task' \in [Tasks -> Activity]
  BY <1>1, <1>2 DEF Becomes, TypeOK, Activity, Entry
<1>4. Moves(t, "delete", None) \/ Moves(t, "ensure", None)
  BY <1>1, <1>2 DEF Becomes, TypeOK, Moves
<1>5. TypeOK' /\ FidsFit'
  <2>1. past' \in Histories
    BY <1>1 DEF TypeOK, Histories, Trouble, Troubled, Overlap
  <2>2. count' \in [calls : 0 .. MaxCalls, crashes : 0 .. MaxCrashes, revoked : 0 .. MaxRevoked, fid : Nat]
    BY <1>1 DEF TypeOK
  <2>3. FidsFit'
    BY <1>1, <1>4 DEF Moves, FidsFit, WithId
  <2> QED BY <1>1, <1>3, <2>1, <2>2, <2>3 DEF TypeOK, Histories
<1>6. FlagIsHeld'
  BY <1>1, <1>4 DEF FlagIsHeld, Moves, At
<1>7. ASSUME ~Disordered' PROVE Orderly'
  <2>1. ~Disordered
    BY <1>1, <1>7 DEF Disordered, TypeOK, Troubled
  <2>2. Orderly
    BY <2>1 DEF IInv
  <2>3. /\ past'.durable = past.durable /\ past'.handed = past.handed /\ past'.boot = past.boot
        /\ past.trouble \subseteq past'.trouble
    BY <1>1 DEF TypeOK, Troubled
  <2>4. ResetsAreAlone'
    <3>1. ASSUME NEW r \in Tasks, task'[r].pc \in Resetting PROVE \A u \in Tasks : u # t => At(u, "idle")
      <4>1. past' = Troubled(past, Overlap(t))
        BY <1>1, <3>1
      <4>2. Overlap(t) # {"overlap"}
        BY <1>1, <1>7, <4>1 DEF Disordered, TypeOK, Troubled
      <4> QED BY <4>2 DEF Overlap
    <3> QED BY <1>1, <1>4, <2>2, <3>1 DEF Orderly, ResetsAreAlone, Moves, At, Resetting
  <2>5. OneHolder' /\ LoadedFirst'
    BY <1>1, <1>4, <2>2 DEF Orderly, OneHolder, LoadedFirst, Moves, At, Holding, Using
  <2>6. UsersHaveTheEntry' /\ RegistersOnNothing' /\ ReadsTheFile'
    BY <1>1, <1>4, <2>2 DEF Orderly, UsersHaveTheEntry, RegistersOnNothing, ReadsTheFile, Moves, At, Using
  <2>7. FileFollows'
    BY <1>1, <1>4, <2>2, <2>3 DEF Orderly, FileFollows, Moves, At
  <2>8. OnlyOneId'
    BY <1>1, <1>4, <2>2, <2>3 DEF Orderly, OnlyOneId, Moves, At
  <2> QED BY <2>4, <2>5, <2>6, <2>7, <2>8 DEF Orderly
<1> QED BY <1>5, <1>6, <1>7 DEF IInv

\* The backend forgets an id: the tasks and the file know nothing of it.
\* The backend forgets ids by itself: nothing the tasks rely on.
LEMMA RevokeKeeps == ASSUME IInv, Revoke PROVE IInv'
<1> USE InstallationsAssumption
<1>1. /\ TypeOK /\ UNCHANGED <<mem, disk, task, past>> /\ live' \subseteq live
      /\ count' = [count EXCEPT !.revoked = @ + 1] /\ count.revoked < MaxRevoked
  BY DEF IInv, Revoke
<1>2. count' \in [calls : 0 .. MaxCalls, crashes : 0 .. MaxCrashes, revoked : 0 .. MaxRevoked, fid : Nat]
  BY <1>1 DEF TypeOK
<1>3. TypeOK' /\ FidsFit' /\ FlagIsHeld'
  BY <1>1, <1>2 DEF IInv, TypeOK, FidsFit, FlagIsHeld
<1>4. ASSUME ~Disordered' PROVE Orderly'
  <2>1. Orderly
    BY <1>1, <1>4 DEF IInv, Disordered
  <2>2. OnlyOneId'
    BY <1>1, <2>1 DEF Orderly, OnlyOneId, At
  <2> QED BY <1>1, <2>1, <2>2
          DEF Orderly, ResetsAreAlone, OneHolder, LoadedFirst, UsersHaveTheEntry, RegistersOnNothing, ReadsTheFile, FileFollows, At
<1> QED BY <1>3, <1>4 DEF IInv

\* A crash leaves the file and an empty memory.
LEMMA CrashKeeps == ASSUME IInv, Crash PROVE IInv'
<1> USE InstallationsAssumption
<1>1. /\ TypeOK /\ mem' = CachedStateDefault /\ task' = [t \in Tasks |-> Idle] /\ live' = live
      /\ disk' \in {disk, Torn}
      /\ count' = [count EXCEPT !.crashes = @ + 1] /\ count.crashes < MaxCrashes
  BY DEF IInv, Crash
<1>2. past' = [past EXCEPT !.handed = {}, !.boot = disk',
                           !.trouble = @ \cup {"crash"} \cup (IF disk' # disk THEN {"tear"} ELSE {})]
  BY DEF Crash
<1>3. \A t \in Tasks : task'[t].pc = "idle"
  BY <1>1 DEF Idle
<1>4. TypeOK' /\ FidsFit' /\ FlagIsHeld'
  <2>1. past' \in Histories
    BY <1>1, <1>2 DEF TypeOK, Histories, Trouble
  <2>2. count' \in [calls : 0 .. MaxCalls, crashes : 0 .. MaxCrashes, revoked : 0 .. MaxRevoked, fid : Nat]
    BY <1>1 DEF TypeOK
  <2>3. task' \in [Tasks -> Activity]
    BY <1>1 DEF Idle, Activity, Entry
  <2>4. mem' \in [loaded : BOOLEAN, initializing : BOOLEAN, entry : Entry] /\ ~mem'.initializing
    BY <1>1 DEF CachedStateDefault, Entry
  <2> QED BY <1>1, <1>3, <2>1, <2>2, <2>3, <2>4 DEF TypeOK, Histories, FidsFit, FlagIsHeld, WithId
<1>5. ASSUME ~Disordered' PROVE Orderly'
  <2>1. disk' = disk /\ ~Disordered
    BY <1>1, <1>2, <1>5 DEF Disordered, TypeOK
  <2>2. FileFollows
    BY <2>1 DEF IInv, Orderly
  <2>3. past'.durable = past.durable /\ "crash" \in past'.trouble
    BY <1>1, <1>2 DEF TypeOK
  <2>4. mem'.entry = None /\ ~mem'.loaded /\ ~mem'.initializing
    BY <1>1 DEF CachedStateDefault
  <2>5. FileFollows' /\ OnlyOneId'
    BY <1>3, <2>1, <2>2, <2>3, <2>4 DEF FileFollows, OnlyOneId
  <2> QED BY <1>3, <2>4, <2>5
          DEF Orderly, ResetsAreAlone, OneHolder, LoadedFirst, UsersHaveTheEntry, RegistersOnNothing, ReadsTheFile,
              At, Resetting, Holding, Using
<1> QED BY <1>4, <1>5 DEF IInv
-----------------------------------------------------------------------------
\* A start finds the file of an earlier installation, or none.
LEMMA InitInv == Init => IInv
<1> SUFFICES ASSUME Init PROVE IInv
  OBVIOUS
<1> USE InstallationsAssumption
<1>1. /\ mem = CachedStateDefault /\ disk \in {None, OldFid} /\ task = [t \in Tasks |-> Idle]
      /\ live = IF disk = None THEN {} ELSE {OldFid}
      /\ count = [calls |-> 0, crashes |-> 0, revoked |-> 0, fid |-> 1]
      /\ past = [handed |-> {}, durable |-> disk, deleted |-> {}, trouble |-> {}, boot |-> disk]
  BY DEF Init
<1>2. /\ \A t \in Tasks : task[t].pc = "idle"
      /\ mem.entry = None /\ ~mem.loaded /\ ~mem.initializing
  BY <1>1 DEF Idle, CachedStateDefault
<1>3. TypeOK
  BY <1>1 DEF TypeOK, CachedStateDefault, Idle, Activity, Entry, Fids, OldFid, Trouble
<1>4. FidsFit /\ FlagIsHeld
  BY <1>2 DEF FidsFit, WithId, FlagIsHeld
<1>5. FileFollows /\ OnlyOneId
  BY <1>1, <1>2 DEF FileFollows, OnlyOneId, OldFid
<1> QED BY <1>2, <1>3, <1>4, <1>5
        DEF IInv, Orderly, ResetsAreAlone, OneHolder, LoadedFirst, UsersHaveTheEntry, RegistersOnNothing, ReadsTheFile,
            At, Resetting, Holding, Using

\* Tasks that share an instance stay in step: one at a time loads or registers, and
\* while nothing gets out of order they all have one id, which is the one on disk.
THEOREM OneIdIsShared == Spec => []IInv
<1>1. IInv /\ [Next]_vars => IInv'
  <2> SUFFICES ASSUME IInv, [Next]_vars PROVE IInv'
    OBVIOUS
  <2>1. CASE UNCHANGED vars
    BY <2>1 DEF vars, IInv, TypeOK, FidsFit, FlagIsHeld, Disordered, Orderly, ResetsAreAlone, OneHolder, LoadedFirst,
                UsersHaveTheEntry, RegistersOnNothing, ReadsTheFile, FileFollows, OnlyOneId, At
  <2>2. ASSUME NEW t \in Tasks, Step(t) PROVE IInv'
    BY <2>2, EnsureLookKeeps, LoadBeginKeeps, ReadFileKeeps, LoadEndKeeps, PublishKeeps, RegisterBeginKeeps,
       RegisterRemoteKeeps, RegisterEndKeeps, PersistKeeps, RefreshKeeps, StoreTokenKeeps, SaveBeginKeeps, SaveEndKeeps,
       ForgetFileKeeps, ForgetEntryKeeps, DeleteLookKeeps, DeleteRemoteKeeps, DeleteFileKeeps, DeleteEntryKeeps
       DEF Step
  <2> QED BY <2>1, <2>2, CallKeeps, RevokeKeeps, CrashKeeps DEF Next
<1> QED BY InitInv, <1>1, PTL DEF Spec

\* A first start registers once however many tasks ask, the registered id survives
\* refreshes, lost answers and restarts, the cache agrees with the file when nobody
\* calls, and `initializing` has an owner (ensure_entry, get_token, delete).
THEOREM InstallationStays == Spec => []InstallationIsKept
<1>1. IInv => InstallationIsKept
  <2> SUFFICES ASSUME IInv PROVE InstallationIsKept
    OBVIOUS
  <2> USE InstallationsAssumption
  <2>1. TypeOK /\ FlagIsHeld /\ (~Disordered => Orderly)
    BY DEF IInv
  <2>2. ASSUME past.trouble = {}, past.boot = None PROVE Cardinality(live \cup past.handed) <= 1
    <3>1. OnlyOneId
      BY <2>1, <2>2 DEF Disordered, Orderly
    <3>2. \E f : live \cup past.handed \subseteq {f}
      BY <2>2, <3>1 DEF OnlyOneId
    <3>3. PICK f : live \cup past.handed \subseteq {f}
      BY <3>2
    <3>4. IsFiniteSet({f}) /\ Cardinality({f}) = 1
      BY FS_Singleton
    <3>5. IsFiniteSet(live \cup past.handed) /\ Cardinality(live \cup past.handed) <= Cardinality({f})
      BY <3>3, <3>4, FS_Subset
    <3>6. Cardinality(live \cup past.handed) \in Nat
      BY <3>5, FS_CardinalityType
    <3> QED BY <3>4, <3>5, <3>6
  <2>3. ~Disordered /\ past.durable # None => disk = past.durable
    BY <2>1 DEF Orderly, FileFollows
  <2>4. ASSUME Quiet, ~Disordered PROVE mem.entry = disk \/ (~mem.loaded /\ mem.entry = None)
    <3>1. \A t \in Tasks : task[t].pc = "idle"
      BY <2>4 DEF Quiet, At
    <3>2. ~mem.initializing
      BY <2>1, <3>1 DEF FlagIsHeld
    <3> QED BY <2>1, <2>4, <3>1, <3>2 DEF Orderly, FileFollows, At
  <2> QED BY <2>1, <2>2, <2>3, <2>4 DEF InstallationIsKept, FirstStartRegistersOnce, RegisteredIdSurvives, CacheAgreesWithDisk
<1> QED BY <1>1, OneIdIsShared, PTL
-----------------------------------------------------------------------------
(***************************************************************************)
(* The app registry.  One thread goes on at a time: what it owed the apps  *)
(* it has done or owes still (OneGoesOn), then one lemma for each action.  *)
(***************************************************************************)
Containers == [Apps!Components -> [present : BOOLEAN, component : BOOLEAN, instance : BOOLEAN]]
JobFields == {"step", "id", "name", "comp", "todo", "then"}
OfApp == {"initLock", "initPublish", "initAttach", "serverBuild", "serverPublish", "attach", "get", "create", "teardown"}
IsJob(j) ==
  /\ j = [f \in JobFields |-> j[f]]
  /\ j.step \in Apps!Steps /\ j.id \in 0 .. MaxApps /\ j.comp \in Apps!Components
  /\ j.then = "attach" \/ j.step \in OfApp => j.id \in Apps!Ids
  /\ j.step \in {"initAttach", "teardown"} => j.todo \subseteq Apps!Components
  /\ j.step = "regAdd" => j.todo \subseteq Apps!Ids

\* The functions of the model, as far as the steps below look into them.
Shaped ==
  /\ registered \subseteq Apps!Components
  /\ apps \in [Names -> 0 .. MaxApps] /\ created \in 0 .. MaxApps
  /\ providers \in [Apps!Ids -> Containers]
  /\ locks = [l \in Apps!Locks |-> locks[l]]
  /\ job = [t \in Threads |-> job[t]] /\ \A t \in Threads : IsJob(job[t])

\* The locks whose holder other threads rely on.
Watched == {"global", "components", "apps"}

\* What a thread in this call has still to do for component c of app x.
Owed(j, x, c, lockedApps) ==
  \/ j.step = "initAttach" /\ j.id = x /\ c \in j.todo
  \/ j.step = "regApps" /\ j.comp = c
  \/ j.step = "regAdd" /\ lockedApps /\ j.comp = c /\ x \in j.todo
Owes(t, x, c) == Owed(job[t], x, c, locks["apps"] = t)

\* Registration holds the component map to its end; initialisation the global lock.
Holds(t, j, table) ==
  /\ j.step \in {"regApps", "regAdd"} => table["components"] = t
  /\ j.step \in {"initLock", "initPublish", "initAttach"} => table["global"] = t

\* A component is set in a provider that exists.
Finds(j) == j.step = "get" => providers[j.id][j.comp].component

ServicesInv ==
  /\ Shaped
  /\ \A x \in Apps!Ids, c \in Apps!Components : providers[x][c].component => providers[x][c].present
  /\ \A t \in Threads : Holds(t, job[t], locks) /\ job[t].step # "missing" /\ Finds(job[t])
  /\ \A x \in Apps!Live(apps), c \in registered : providers[x][c].component \/ \E t \in Threads : Owes(t, x, c)

ServersFit == servers \in [ServerNames -> 0 .. MaxApps]

\* No step unsets a component.
Grows ==
  /\ providers' \in [Apps!Ids -> Containers]
  /\ \A x \in Apps!Ids, c \in Apps!Components :
       /\ providers[x][c].component => providers'[x][c].component
       /\ providers'[x][c].component => providers'[x][c].present

\* A thread that takes and returns its own locks leaves those of the others.
Leaves(t) ==
  /\ locks' = [l \in Apps!Locks |-> locks'[l]]
  /\ \A l \in Watched, o \in Threads : o # t => (locks'[l] = o <=> locks[l] = o)

\* What finding a provider, and setting its component, leave and set.
LEMMA ContainerFacts ==
  ASSUME NEW container \in Containers, NEW c \in Apps!Components
  PROVE  /\ Apps!get_provider(container, c) \in Containers /\ Apps!add_component(container, c) \in Containers
         /\ Apps!add_component(container, c)[c].component
         /\ \A d \in Apps!Components : d # c => Apps!get_provider(container, c)[d] = container[d] /\ Apps!add_component(container, c)[d] = container[d]
         /\ Apps!get_provider(container, c)[c].present /\ Apps!add_component(container, c)[c].present
         /\ (container[c].component => container[c].present) =>
              (container[c].component => Apps!get_provider(container, c)[c].component)
         /\ Apps!get_provider(container, c)[c].component => container[c].component
<1>1. Apps!NewProvider \in [present : BOOLEAN, component : BOOLEAN, instance : BOOLEAN]
      /\ Apps!NewProvider.present = TRUE /\ Apps!NewProvider.component = FALSE
  BY DEF Apps!NewProvider
<1> DEFINE found == Apps!get_provider(container, c)
<1>2. /\ found \in Containers /\ found[c].present = TRUE
      /\ \A d \in Apps!Components : d # c => found[d] = container[d]
      /\ (container[c].component => container[c].present) => (container[c].component => found[c].component)
      /\ found[c].component => container[c].component
  BY <1>1 DEF Apps!get_provider, Containers
<1> HIDE DEF found
<1> DEFINE added == [found EXCEPT ![c].component = TRUE, ![c].instance = @ \/ c = Version]
<1>3. added \in Containers /\ added[c].component = TRUE /\ added[c].present = TRUE /\ \A d \in Apps!Components : d # c => added[d] = found[d]
  <2> DEFINE new == [[found[c] EXCEPT !.component = TRUE] EXCEPT !.instance = @ \/ c = Version]
  <2>1. new \in [present : BOOLEAN, component : BOOLEAN, instance : BOOLEAN] /\ new.component = TRUE /\ new.present = TRUE
    BY <1>2 DEF Containers
  <2>2. added = [found EXCEPT ![c] = new]
    BY <1>2 DEF Containers
  <2> HIDE DEF new, added
  <2> QED BY <1>2, <2>1, <2>2 DEF Containers
<1>4. Apps!add_component(container, c) = IF found[c].component THEN found ELSE added
  BY DEF Apps!add_component, found
<1> HIDE DEF added
<1> QED BY <1>2, <1>3, <1>4 DEF found

\* One thread goes on to the call j: what it owed is done, or owed still.
LEMMA OneGoesOn ==
  ASSUME Apps!ConstantsOK, ServicesInv, NEW t \in Threads, NEW j, IsJob(j), job' = [job EXCEPT ![t] = j], Leaves(t), Grows,
         registered' \subseteq Apps!Components, apps' \in [Names -> 0 .. MaxApps], created' \in 0 .. MaxApps,
         Holds(t, j, locks'), j.step # "missing", j.step = "get" => providers'[j.id][j.comp].component,
         \A x \in Apps!Live(apps'), c \in registered' :
           \/ x \in Apps!Live(apps) /\ c \in registered /\ ~Owes(t, x, c)
           \/ providers'[x][c].component \/ Owed(j, x, c, locks'["apps"] = t)
  PROVE  ServicesInv'
<1>1. Shaped'
  BY DEF ServicesInv, Shaped, Leaves, Grows
<1>2. job'[t] = j /\ \A o \in Threads : o # t => job'[o] = job[o]
  BY DEF ServicesInv, Shaped
<1>3. \A x \in Apps!Ids, c \in Apps!Components : providers'[x][c].component => providers'[x][c].present
  BY DEF Grows
<1>4. ASSUME NEW o \in Threads PROVE Holds(o, job'[o], locks') /\ job'[o].step # "missing" /\ (Finds(job[o]))'
  <2>1. CASE o = t
    BY <1>2, <2>1 DEF Finds
  <2>2. CASE o # t
    <3>1. Holds(o, job[o], locks) /\ job[o].step # "missing" /\ Finds(job[o]) /\ IsJob(job[o]) /\ job'[o] = job[o]
      BY <1>2, <2>2 DEF ServicesInv, Shaped
    <3>2. Holds(o, job[o], locks')
      BY <2>2, <3>1 DEF Holds, Leaves, Watched
    <3>3. job[o].step = "get" => providers'[job[o].id][job[o].comp].component
      BY <3>1 DEF Finds, Grows, IsJob, OfApp
    <3> QED BY <3>1, <3>2, <3>3 DEF Finds
  <2> QED BY <2>1, <2>2
<1>5. ASSUME NEW x \in Apps!Live(apps'), NEW c \in registered'
      PROVE  providers'[x][c].component \/ \E o \in Threads : (Owes(o, x, c))'
  <2>1. CASE Owed(j, x, c, locks'["apps"] = t)
    BY <1>2, <2>1 DEF Owes
  <2>2. CASE x \in Apps!Live(apps) /\ c \in registered /\ ~Owes(t, x, c)
    <3>1. x \in Apps!Ids /\ c \in Apps!Components
      BY <2>2 DEF ServicesInv, Shaped, Apps!Live, Apps!Ids, Apps!NoApp
    <3>2. CASE providers[x][c].component
      BY <3>1, <3>2 DEF Grows
    <3>3. CASE \E o \in Threads : Owes(o, x, c)
      <4>1. PICK o \in Threads : Owes(o, x, c)
        BY <3>3
      <4>2. o # t
        BY <2>2, <4>1
      <4>3. job'[o] = job[o] /\ (locks'["apps"] = o <=> locks["apps"] = o)
        BY <1>2, <4>2 DEF Leaves, Watched
      <4> QED BY <4>1, <4>3 DEF Owes, Owed
    <3> QED BY <2>2, <3>2, <3>3 DEF ServicesInv
  <2> QED BY <1>5, <2>1, <2>2
<1> QED BY <1>1, <1>3, <1>4, <1>5 DEF ServicesInv

\* What ServicesInv says of one thread, and of steps that touch no lock or provider.
LEMMA OneThread ==
  ASSUME Apps!ConstantsOK, ServicesInv, NEW t \in Threads
  PROVE  /\ IsJob(job[t]) /\ Holds(t, job[t], locks) /\ Finds(job[t])
         /\ Shaped
         /\ (locks' = locks => Leaves(t))
         /\ (providers' = providers => Grows)
<1>1. Shaped
  BY DEF ServicesInv
<1>2. IsJob(job[t]) /\ Holds(t, job[t], locks) /\ Finds(job[t])
  BY DEF ServicesInv, Shaped
<1>3. locks' = locks => Leaves(t)
  BY <1>1 DEF Shaped, Leaves
<1>4. providers' = providers => Grows
  BY <1>1 DEF ServicesInv, Shaped, Grows
<1> QED BY <1>1, <1>2, <1>3, <1>4

\* A free lock is nobody's.
LEMMA Takes ==
  ASSUME Apps!ConstantsOK, ServicesInv, NEW t \in Threads, NEW l \in Apps!Locks, Apps!acquire(t, l)
  PROVE  Leaves(t) /\ locks'[l] = t /\ \A k \in Apps!Locks : k # l => locks'[k] = locks[k]
<1>1. locks = [k \in Apps!Locks |-> locks[k]] /\ locks[l] = Apps!Free /\ locks' = [locks EXCEPT ![l] = t]
  BY DEF ServicesInv, Shaped, Apps!acquire
<1>2. Watched \subseteq Apps!Locks
  BY DEF Watched, Apps!Locks
<1> QED BY <1>1, <1>2 DEF Leaves, Apps!ConstantsOK

\* A thread returns what it holds.
LEMMA Returns ==
  ASSUME Apps!ConstantsOK, ServicesInv, NEW t \in Threads, locks' = Apps!release(t)
  PROVE  Leaves(t)
BY DEF Leaves, Apps!release, Watched, Apps!Locks, Apps!ConstantsOK

\* A set component stays, and one that is set is present.
LEMMA Fills ==
  ASSUME Apps!ConstantsOK, ServicesInv, NEW x \in Apps!Ids, NEW c \in Apps!Components
  PROVE  /\ providers' = [providers EXCEPT ![x] = Apps!add_component(@, c)] => Grows /\ providers'[x][c].component
         /\ providers' = [providers EXCEPT ![x] = Apps!get_provider(@, c)] =>
              Grows /\ (providers[x][c].component => providers'[x][c].component)
<1>1. /\ providers \in [Apps!Ids -> Containers] /\ providers[x] \in Containers
      /\ \A y \in Apps!Ids, d \in Apps!Components : providers[y][d].component => providers[y][d].present
  BY DEF ServicesInv, Shaped
<1>2. ASSUME providers' = [providers EXCEPT ![x] = Apps!add_component(@, c)]
      PROVE  Grows /\ providers'[x][c].component
  <2> DEFINE new == Apps!add_component(providers[x], c)
  <2>1. /\ new \in Containers /\ new[c].component /\ new[c].present
        /\ \A d \in Apps!Components : d # c => new[d] = providers[x][d]
    BY <1>1, ContainerFacts
  <2>2. providers' = [providers EXCEPT ![x] = new]
    BY <1>2
  <2> HIDE DEF new
  <2> QED BY <1>1, <2>1, <2>2 DEF Grows
<1>3. ASSUME providers' = [providers EXCEPT ![x] = Apps!get_provider(@, c)]
      PROVE  Grows /\ (providers[x][c].component => providers'[x][c].component)
  <2> DEFINE new == Apps!get_provider(providers[x], c)
  <2>1. /\ new \in Containers /\ (providers[x][c].component => new[c].component) /\ new[c].present
        /\ \A d \in Apps!Components : d # c => new[d] = providers[x][d]
    BY <1>1, ContainerFacts
  <2>2. providers' = [providers EXCEPT ![x] = new]
    BY <1>3
  <2> HIDE DEF new
  <2>3. providers' \in [Apps!Ids -> Containers] /\ providers'[x] = new /\ \A y \in Apps!Ids : y # x => providers'[y] = providers[y]
    BY <1>1, <2>1, <2>2
  <2>4. ASSUME NEW y \in Apps!Ids, NEW d \in Apps!Components
        PROVE  /\ providers[y][d].component => providers'[y][d].component
               /\ providers'[y][d].component => providers'[y][d].present
    BY <1>1, <2>1, <2>3
  <2> QED BY <2>1, <2>3, <2>4 DEF Grows
<1>4. providers' = [providers EXCEPT ![x] = Apps!add_component(@, c)] => Grows /\ providers'[x][c].component
  BY <1>2
<1>5. providers' = [providers EXCEPT ![x] = Apps!get_provider(@, c)] => Grows /\ (providers[x][c].component => providers'[x][c].component)
  BY <1>3
<1> QED BY <1>4, <1>5

\* An instance comes and goes beside its component.
LEMMA InstanceOnly ==
  ASSUME Apps!ConstantsOK, ServicesInv, NEW x \in Apps!Ids, NEW c \in Apps!Components, NEW b \in BOOLEAN,
         providers' = [providers EXCEPT ![x][c].instance = b]
  PROVE  Grows
<1>1. /\ providers \in [Apps!Ids -> Containers] /\ providers[x] \in [Apps!Components -> [present : BOOLEAN, component : BOOLEAN, instance : BOOLEAN]]
      /\ \A y \in Apps!Ids, d \in Apps!Components : providers[y][d].component => providers[y][d].present
  BY DEF ServicesInv, Shaped, Containers
<1> DEFINE set == [providers[x][c] EXCEPT !.instance = b]
           new == [providers[x] EXCEPT ![c] = set]
<1>2. /\ set \in [present : BOOLEAN, component : BOOLEAN, instance : BOOLEAN]
      /\ set.component = providers[x][c].component /\ set.present = providers[x][c].present
  BY <1>1
<1>3. providers' = [providers EXCEPT ![x] = new]
  OBVIOUS
<1> HIDE DEF set
<1>4. new \in Containers /\ new[c] = set /\ \A d \in Apps!Components : d # c => new[d] = providers[x][d]
  BY <1>1, <1>2 DEF Containers
<1> HIDE DEF new
<1>5. providers' \in [Apps!Ids -> Containers] /\ providers'[x] = new /\ \A y \in Apps!Ids : y # x => providers'[y] = providers[y]
  <2>1. providers \in [Apps!Ids -> Containers] /\ new \in Containers
    BY <1>1, <1>4
  <2> QED BY <1>3, <2>1
<1>6. ASSUME NEW y \in Apps!Ids, NEW d \in Apps!Components
      PROVE  /\ providers[y][d].component => providers'[y][d].component
             /\ providers'[y][d].component => providers'[y][d].present
  BY <1>1, <1>2, <1>4, <1>5
<1> QED BY <1>5, <1>6 DEF Grows

\* A thread in no call is in the shape of one.
LEMMA IdleJob ==
  ASSUME Apps!ConstantsOK PROVE IsJob(Apps!Idle) /\ Apps!Idle.step = "idle"
BY DEF IsJob, JobFields, OfApp, Apps!Idle, Apps!Steps, Apps!NoApp, Apps!Components, Apps!ConstantsOK

\* A call begins that is not yet under way: it holds nothing but what it took.
LEMMA BeginKeeps ==
  ASSUME Apps!ConstantsOK, ServicesInv, NEW t \in Threads, NEW j, Apps!starts(t, j), IsJob(j),
         j.step \in {"idle", "initLock", "serverBuild", "regLock", "teardown"}, j.step = "initLock" => locks'["global"] = t, Leaves(t),
         registered' = registered, providers' = providers, Apps!Live(apps') \subseteq Apps!Live(apps), apps' \in [Names -> 0 .. MaxApps],
         created' \in 0 .. MaxApps
  PROVE  ServicesInv'
<1>1. job[t].step = "idle" /\ job' = [job EXCEPT ![t] = j]
  BY IdleJob DEF Apps!starts
<1>2. /\ registered' \subseteq Apps!Components /\ Holds(t, j, locks') /\ Grows
      /\ \A x, c : ~Owes(t, x, c)
  BY <1>1, OneThread DEF ServicesInv, Shaped, Holds, Owes, Owed
<1>3. j.step # "missing" /\ (j.step = "get" => providers'[j.id][j.comp].component)
  OBVIOUS
<1> QED BY <1>1, <1>2, <1>3, OneGoesOn

\* The fields of a call that has gone one step.
LEMMA JobFacts ==
  ASSUME Apps!ConstantsOK, NEW j, IsJob(j), NEW step \in Apps!Steps \ {"initAttach", "regAdd", "teardown"}, step \in OfApp => j.id \in Apps!Ids
  PROVE  /\ IsJob([j EXCEPT !.step = step]) /\ [j EXCEPT !.step = step].step = step
         /\ [j EXCEPT !.step = step].id = j.id /\ [j EXCEPT !.step = step].comp = j.comp
         /\ [j EXCEPT !.step = step].todo = j.todo /\ [j EXCEPT !.step = step].name = j.name
BY DEF IsJob, JobFields, OfApp

\* initialize_app takes the global lock.
LEMMA InitializeKeeps ==
  ASSUME Apps!ConstantsOK, ServicesInv, NEW t \in Threads, NEW n \in Names, Apps!initialize_app(t, n) PROVE ServicesInv'
<1> DEFINE j == [Apps!Idle EXCEPT !.step = "initLock", !.id = created + 1, !.name = n]
<1>1. /\ Apps!acquire(t, "global") /\ created' = created + 1 /\ Apps!starts(t, j) /\ created < MaxApps
      /\ registered' = registered /\ apps' = apps /\ providers' = providers
  BY DEF Apps!initialize_app, Apps!begin
<1>2. Leaves(t) /\ locks'["global"] = t
  BY <1>1, Takes DEF Apps!Locks
<1>3. /\ created \in 0 .. MaxApps /\ apps \in [Names -> 0 .. MaxApps]
  BY DEF ServicesInv, Shaped
<1>4. j = [f \in JobFields |-> j[f]] /\ j.step = "initLock" /\ j.id = created + 1 /\ j.comp = Version /\ j.then = "return"
  BY DEF Apps!Idle, Apps!NoApp, JobFields
<1>5. IsJob(j) /\ created' \in 0 .. MaxApps
  BY <1>1, <1>3, <1>4 DEF Apps!ConstantsOK, IsJob, OfApp, Apps!Ids, Apps!Steps, Apps!Components
<1> HIDE DEF j
<1> QED BY <1>1, <1>2, <1>3, <1>4, <1>5, BeginKeeps DEF Apps!Live

\* initialize_server_app finds an app, or starts to build one.
LEMMA InitializeServerKeeps ==
  ASSUME Apps!ConstantsOK, ServicesInv, NEW t \in Threads, NEW n \in ServerNames, NEW r \in BOOLEAN, Apps!initialize_server_app(t, n, r) PROVE ServicesInv'
<1> DEFINE j == [Apps!Idle EXCEPT !.step = "serverBuild", !.id = created + 1, !.name = n]
<1>1. /\ registered' = registered /\ apps' = apps /\ providers' = providers /\ locks' = locks
      /\ \/ Apps!starts(t, Apps!Idle) /\ created' = created
         \/ Apps!starts(t, j) /\ created < MaxApps /\ created' = created + 1
  BY DEF Apps!initialize_server_app, Apps!begin
<1>2. Leaves(t)
  BY <1>1, OneThread
<1>3. /\ created \in 0 .. MaxApps /\ apps \in [Names -> 0 .. MaxApps]
  BY DEF ServicesInv, Shaped
<1>4. IsJob(Apps!Idle) /\ Apps!Idle.step = "idle"
  BY IdleJob
<1>5. CASE Apps!starts(t, Apps!Idle) /\ created' = created
  BY <1>1, <1>2, <1>3, <1>4, <1>5, BeginKeeps DEF Apps!Live
<1>6. CASE Apps!starts(t, j) /\ created < MaxApps /\ created' = created + 1
  <2>1. j = [f \in JobFields |-> j[f]] /\ j.step = "serverBuild" /\ j.id = created + 1 /\ j.comp = Version /\ j.then = "return"
    BY DEF Apps!Idle, Apps!NoApp, JobFields
  <2>2. IsJob(j) /\ created' \in 0 .. MaxApps
    BY <1>3, <1>6, <2>1 DEF Apps!ConstantsOK, IsJob, OfApp, Apps!Ids, Apps!Steps, Apps!Components
  <2> HIDE DEF j
  <2> QED BY <1>1, <1>2, <1>3, <1>6, <2>1, <2>2, BeginKeeps DEF Apps!Live
<1> QED BY <1>1, <1>5, <1>6

\* An accessor is called.
LEMMA GetServiceKeeps ==
  ASSUME Apps!ConstantsOK, ServicesInv, NEW t \in Threads, NEW x \in Apps!Ids, NEW c \in Services, Apps!get_service(t, x, c) PROVE ServicesInv'
<1> DEFINE j == [Apps!Idle EXCEPT !.step = "regLock", !.id = x, !.comp = c, !.then = "attach"]
<1>1. Apps!starts(t, j) /\ UNCHANGED <<registered, apps, providers, created, locks>>
  BY DEF Apps!get_service, Apps!begin
<1>2. j = [f \in JobFields |-> j[f]] /\ j.step = "regLock" /\ j.id = x /\ j.comp = c /\ j.then = "attach"
  BY DEF Apps!Idle, Apps!NoApp, JobFields
<1>3. IsJob(j)
  BY <1>2 DEF Apps!ConstantsOK, IsJob, OfApp, Apps!Ids, Apps!Steps, Apps!Components
<1> HIDE DEF j
<1>4. Leaves(t) /\ created' \in 0 .. MaxApps /\ apps' \in [Names -> 0 .. MaxApps]
  BY <1>1, OneThread DEF Shaped
<1> QED BY <1>1, <1>2, <1>3, <1>4, BeginKeeps DEF Apps!Live

\* A version is to be registered.
LEMMA RegisterVersionKeeps ==
  ASSUME Apps!ConstantsOK, ServicesInv, NEW t \in Threads, Apps!register_version(t) PROVE ServicesInv'
<1> DEFINE j == [Apps!Idle EXCEPT !.step = "regLock", !.comp = Version]
<1>1. Apps!starts(t, j) /\ UNCHANGED <<registered, apps, providers, created, locks>>
  BY DEF Apps!register_version, Apps!begin
<1>2. j = [f \in JobFields |-> j[f]] /\ j.step = "regLock" /\ j.id = 0 /\ j.comp = Version /\ j.then = "return"
  BY DEF Apps!Idle, Apps!NoApp, JobFields
<1>3. IsJob(j)
  BY <1>2 DEF Apps!ConstantsOK, IsJob, OfApp, Apps!Ids, Apps!Steps, Apps!Components
<1> HIDE DEF j
<1>4. Leaves(t) /\ created' \in 0 .. MaxApps /\ apps' \in [Names -> 0 .. MaxApps]
  BY <1>1, OneThread DEF Shaped
<1> QED BY <1>1, <1>2, <1>3, <1>4, BeginKeeps DEF Apps!Live

\* The services of an app are to be torn down, or not: there is one less to reach.
LEMMA TeardownBegins ==
  ASSUME Apps!ConstantsOK, ServicesInv, NEW t \in Threads, NEW x \in Apps!Ids, \E cleanup : Apps!teardown(t, x, cleanup),
         registered' = registered, providers' = providers, created' = created, locks["global"] = Apps!Free,
         apps' = apps \/ (app[x].name \in Names /\ apps' = [apps EXCEPT ![app[x].name] = Apps!NoApp])
  PROVE  ServicesInv'
<1> DEFINE j == [Apps!Idle EXCEPT !.step = "teardown", !.id = x, !.todo = {c \in Apps!Components : providers[x][c].present}]
<1>1. /\ registered' = registered /\ providers' = providers /\ created' = created
      /\ apps' = apps \/ (app[x].name \in Names /\ apps' = [apps EXCEPT ![app[x].name] = Apps!NoApp])
      /\ \E cleanup : Apps!teardown(t, x, cleanup)
      /\ locks["global"] = Apps!Free
  OBVIOUS
<1>2. /\ created \in 0 .. MaxApps /\ apps \in [Names -> 0 .. MaxApps]
  BY DEF ServicesInv, Shaped
<1>3. apps' \in [Names -> 0 .. MaxApps] /\ Apps!Live(apps') \subseteq Apps!Live(apps)
  BY <1>1, <1>2 DEF Apps!ConstantsOK, Apps!Live, Apps!NoApp
<1>4. CASE Apps!starts(t, j) /\ locks' = [locks EXCEPT !["global"] = t]
  <2>1. Leaves(t)
    BY <1>1, <1>4, Takes DEF Apps!acquire, Apps!Locks
  <2>2. j = [f \in JobFields |-> j[f]] /\ j.step = "teardown" /\ j.id = x /\ j.comp = Version /\ j.then = "return"
    BY DEF Apps!Idle, Apps!NoApp, JobFields
  <2>4. j.todo \subseteq Apps!Components
    BY DEF Apps!Idle
  <2> HIDE DEF j
  <2>3. IsJob(j)
    BY <2>2, <2>4 DEF Apps!ConstantsOK, IsJob, OfApp, Apps!Ids, Apps!Steps, Apps!Components
  <2> QED BY <1>1, <1>2, <1>3, <1>4, <2>1, <2>2, <2>3, BeginKeeps
<1>5. CASE Apps!starts(t, Apps!Idle) /\ UNCHANGED locks
  BY <1>1, <1>2, <1>3, <1>5, IdleJob, OneThread, BeginKeeps
<1>6. ASSUME NEW cleanup, Apps!teardown(t, x, cleanup) PROVE ServicesInv'
  BY <1>4, <1>5, <1>6 DEF Apps!teardown
<1> QED BY <1>1, <1>6

\* delete_app takes an app out of its map.
LEMMA DeleteKeeps ==
  ASSUME Apps!ConstantsOK, ServicesInv, NEW t \in Threads, NEW x \in Apps!Ids, Apps!delete_app(t, x) PROVE ServicesInv'
<1>1. registered' = registered /\ providers' = providers /\ created' = created /\ locks["global"] = Apps!Free
  BY DEF Apps!delete_app
<1>2. CASE app[x].name \in Names /\ Apps!deletes_app(t, x)
  BY <1>1, <1>2, TeardownBegins DEF Apps!deletes_app
<1>3. CASE Apps!deletes_server_app(t, x)
  BY <1>1, <1>3, TeardownBegins DEF Apps!deletes_server_app
<1> QED BY <1>2, <1>3 DEF Apps!delete_app

\* The task of a Drop takes one out of the other map.
LEMMA ReleaseKeeps ==
  ASSUME Apps!ConstantsOK, ServicesInv, NEW t \in Threads, NEW x \in Apps!Ids, Apps!Release(t, x) PROVE ServicesInv'
<1>1. /\ registered' = registered /\ providers' = providers /\ created' = created /\ locks["global"] = Apps!Free
      /\ Apps!deletes_server_app(t, x)
  BY DEF Apps!Release
<1> QED BY <1>1, TeardownBegins DEF Apps!deletes_server_app

\* A step that leaves the locks, the maps and the calls.
LEMMA StillServes ==
  ASSUME ServicesInv, UNCHANGED <<registered, apps, providers, created, locks, job>> PROVE ServicesInv'
<1>1. Shaped'
  BY DEF ServicesInv, Shaped
<1>2. \A t \in Threads : (Finds(job[t]))' /\ \A x \in Apps!Ids, c \in Apps!Components : (Owes(t, x, c))' <=> Owes(t, x, c)
  BY DEF ServicesInv, Finds, Owes
<1>3. \A x \in Apps!Live(apps), c \in registered : x \in Apps!Ids /\ c \in Apps!Components
  BY DEF ServicesInv, Shaped, Apps!Live, Apps!Ids, Apps!NoApp
<1>4. Apps!Live(apps') = Apps!Live(apps)
  OBVIOUS
<1> QED BY <1>1, <1>2, <1>3, <1>4 DEF ServicesInv

\* A call goes on to its next step.
LEMMA GoesTo ==
  ASSUME Apps!ConstantsOK, ServicesInv, NEW t \in Threads, NEW step \in Apps!Steps \ {"initAttach", "regAdd", "teardown"}, Apps!goto(t, step),
         step \in OfApp => job[t].id \in Apps!Ids
  PROVE  /\ job' = [job EXCEPT ![t] = [job[t] EXCEPT !.step = step]]
         /\ IsJob([job[t] EXCEPT !.step = step])
         /\ [job[t] EXCEPT !.step = step].step = step
         /\ [job[t] EXCEPT !.step = step].id = job[t].id /\ [job[t] EXCEPT !.step = step].comp = job[t].comp
         /\ [job[t] EXCEPT !.step = step].todo = job[t].todo
<1>1. job' = [job EXCEPT ![t] = [job[t] EXCEPT !.step = step]]
  BY DEF Apps!goto
<1> QED BY <1>1, OneThread, JobFacts

\* One that owes nothing before and after has only its locks to account for.
LEMMA FreeStep ==
  ASSUME Apps!ConstantsOK, ServicesInv, NEW t \in Threads, NEW j, IsJob(j), job' = [job EXCEPT ![t] = j],
         job[t].step \notin {"initAttach", "regApps", "regAdd"}, j.step \notin {"initAttach", "regApps", "regAdd", "missing"},
         j.step = "get" => providers'[j.id][j.comp].component, j.step \in {"initLock", "initPublish"} => locks'["global"] = t,
         Leaves(t), Grows, registered' = registered, apps' = apps, created' = created
  PROVE  ServicesInv'
<1>1. /\ registered' \subseteq Apps!Components /\ apps' \in [Names -> 0 .. MaxApps] /\ created' \in 0 .. MaxApps
      /\ Holds(t, j, locks') /\ \A x, c : ~Owes(t, x, c)
  BY DEF ServicesInv, Shaped, Holds, Owes, Owed
<1>2. Apps!Live(apps') = Apps!Live(apps)
  BY DEF Apps!Live
<1> QED BY <1>1, <1>2, OneGoesOn

\* The component map is locked.
LEMMA InitLockKeeps ==
  ASSUME Apps!ConstantsOK, ServicesInv, NEW t \in Threads, Apps!InitLock(t) PROVE ServicesInv'
<1>1. /\ job[t].step = "initLock" /\ Apps!acquire(t, "components") /\ Apps!goto(t, "initPublish")
      /\ UNCHANGED <<registered, apps, providers, created>>
  BY DEF Apps!InitLock, Apps!at
<1>2. Leaves(t) /\ locks'["global"] = t /\ Grows /\ IsJob(job[t])
  BY <1>1, Takes, OneThread DEF Apps!Locks, Holds
<1> DEFINE j == [job[t] EXCEPT !.step = "initPublish"]
<1>3. job' = [job EXCEPT ![t] = j] /\ IsJob(j) /\ j.step = "initPublish"
  BY <1>1, <1>2, GoesTo DEF Apps!Steps, OfApp, IsJob
<1> HIDE DEF j
<1> QED BY <1>1, <1>2, <1>3, FreeStep

\* The app is published owing itself all that is registered by then.
LEMMA InitPublishKeeps ==
  ASSUME Apps!ConstantsOK, ServicesInv, NEW t \in Threads, Apps!InitPublish(t) PROVE ServicesInv'
<1>1. /\ job[t].step = "initPublish" /\ UNCHANGED <<registered, providers, created>>
      /\ \/ Apps!returns(t) /\ locks' = Apps!release(t) /\ UNCHANGED apps
         \/ /\ apps' = [apps EXCEPT ![job[t].name] = job[t].id]
            /\ job' = [job EXCEPT ![t].step = "initAttach", ![t].todo = registered]
            /\ locks' = [Apps!release(t) EXCEPT !["global"] = t]
  BY DEF Apps!InitPublish, Apps!at
<1>2. /\ locks["global"] = t /\ IsJob(job[t]) /\ Grows
      /\ \A x, c : ~Owes(t, x, c)
  BY <1>1, OneThread DEF Holds, Owes, Owed
<1>3. CASE Apps!returns(t) /\ locks' = Apps!release(t) /\ UNCHANGED apps
  BY <1>1, <1>2, <1>3, IdleJob, Returns, FreeStep DEF Apps!returns
<1>4. CASE /\ apps' = [apps EXCEPT ![job[t].name] = job[t].id]
           /\ job' = [job EXCEPT ![t].step = "initAttach", ![t].todo = registered]
           /\ locks' = [Apps!release(t) EXCEPT !["global"] = t]
  <2> DEFINE j == [job[t] EXCEPT !.step = "initAttach", !.todo = registered]
  <2>1. /\ job' = [job EXCEPT ![t] = j] /\ j = [f \in JobFields |-> j[f]]
        /\ j.step = "initAttach" /\ j.todo = registered /\ j.id = job[t].id /\ j.comp = job[t].comp /\ j.then = job[t].then
    BY <1>2, <1>4 DEF IsJob, JobFields
  <2> HIDE DEF j
  <2>2. IsJob(j)
    BY <1>1, <1>2, <2>1 DEF IsJob, OfApp, Apps!Steps, ServicesInv, Shaped
  <2>3. locks' = [l \in Apps!Locks |-> locks'[l]] /\ locks'["global"] = t /\ \A l \in Apps!Locks : l # "global" => locks'[l] = Apps!release(t)[l]
    BY <1>4 DEF Apps!release, Apps!Locks
  <2>4. \A l \in Watched, o \in Threads : o # t => (locks'[l] = o <=> locks[l] = o)
    BY <1>2, <2>3 DEF Apps!release, Apps!Locks, Watched, Apps!ConstantsOK
  <2>5. Leaves(t)
    BY <2>3, <2>4 DEF Leaves
  <2>6. apps' \in [Names -> 0 .. MaxApps] /\ Apps!Live(apps') \subseteq Apps!Live(apps) \cup {job[t].id}
    <3>1. apps' \in [Names -> 0 .. MaxApps] /\ \A n \in Names : apps'[n] \in {apps[n], job[t].id}
      BY <1>2, <1>4 DEF ServicesInv, Shaped, IsJob
    <3>2. apps \in [Names -> 0 .. MaxApps]
      BY DEF ServicesInv, Shaped
    <3> QED BY <3>1, <3>2 DEF Apps!Live
  <2>7. registered' \subseteq Apps!Components /\ created' \in 0 .. MaxApps /\ Holds(t, j, locks')
    BY <1>1, <2>1, <2>3 DEF ServicesInv, Shaped, Holds
  <2>8. ASSUME NEW x \in Apps!Live(apps'), NEW c \in registered'
        PROVE  (x \in Apps!Live(apps) /\ c \in registered /\ ~Owes(t, x, c)) \/ Owed(j, x, c, locks'["apps"] = t)
    BY <1>1, <1>2, <2>1, <2>6, <2>8 DEF Owed
  <2> QED BY <1>2, <2>1, <2>2, <2>5, <2>6, <2>7, <2>8, OneGoesOn
<1> QED BY <1>1, <1>3, <1>4

\* It is given one component after the other.
LEMMA InitAttachKeeps ==
  ASSUME Apps!ConstantsOK, ServicesInv, NEW t \in Threads, Apps!InitAttach(t) PROVE ServicesInv'
<1>1. /\ job[t].step = "initAttach" /\ UNCHANGED <<registered, apps, created>> /\ IsJob(job[t]) /\ Holds(t, job[t], locks)
      /\ registered \subseteq Apps!Components /\ apps \in [Names -> 0 .. MaxApps] /\ created \in 0 .. MaxApps /\ Apps!Live(apps') = Apps!Live(apps)
  BY OneThread DEF Apps!InitAttach, Apps!at, Shaped, Apps!Live
<1>2. job[t].id \in Apps!Ids /\ job[t].todo \subseteq Apps!Components /\ \A x, c : Owes(t, x, c) => x = job[t].id /\ c \in job[t].todo
  BY <1>1 DEF IsJob, OfApp, Owes, Owed
<1>3. ASSUME NEW c \in job[t].todo, providers' = [providers EXCEPT ![job[t].id] = Apps!add_component(@, c)],
             job' = [job EXCEPT ![t].todo = @ \ {c}], UNCHANGED locks
      PROVE  ServicesInv'
  <2> DEFINE j == [job[t] EXCEPT !.todo = @ \ {c}]
  <2>1. Grows /\ providers'[job[t].id][c].component /\ Leaves(t)
    BY <1>2, <1>3, Fills, OneThread
  <2>2. /\ job' = [job EXCEPT ![t] = j] /\ j = [f \in JobFields |-> j[f]]
        /\ j.step = "initAttach" /\ j.id = job[t].id /\ j.comp = job[t].comp /\ j.then = job[t].then /\ j.todo = job[t].todo \ {c}
    BY <1>1, <1>3 DEF IsJob, JobFields
  <2> HIDE DEF j
  <2>3. IsJob(j) /\ Holds(t, j, locks')
    BY <1>1, <1>2, <1>3, <2>2 DEF IsJob, OfApp, Holds
  <2>4. ASSUME NEW x \in Apps!Live(apps'), NEW d \in registered'
        PROVE  (x \in Apps!Live(apps) /\ d \in registered /\ ~Owes(t, x, d)) \/ providers'[x][d].component \/ Owed(j, x, d, locks'["apps"] = t)
    BY <1>1, <1>2, <2>1, <2>2 DEF Owed
  <2> QED BY <1>1, <2>1, <2>2, <2>3, <2>4, OneGoesOn
<1>4. CASE job[t].todo = {} /\ locks' = Apps!release(t) /\ Apps!returns(t) /\ UNCHANGED providers
  <2>1. Leaves(t) /\ Grows /\ IsJob(Apps!Idle) /\ Apps!Idle.step = "idle" /\ Holds(t, Apps!Idle, locks') /\ job' = [job EXCEPT ![t] = Apps!Idle]
    BY <1>4, IdleJob, Returns, OneThread DEF Apps!returns, Holds
  <2>2. \A x \in Apps!Live(apps'), c \in registered' : x \in Apps!Live(apps) /\ c \in registered /\ ~Owes(t, x, c)
    BY <1>1, <1>2, <1>4
  <2> QED BY <1>1, <2>1, <2>2, OneGoesOn
<1> QED BY <1>3, <1>4 DEF Apps!InitAttach

\* A server app is given them all at once.
LEMMA ServerBuildKeeps ==
  ASSUME Apps!ConstantsOK, ServicesInv, NEW t \in Threads, Apps!ServerBuild(t) PROVE ServicesInv'
<1>1. /\ job[t].step = "serverBuild" /\ Apps!goto(t, "serverPublish") /\ UNCHANGED <<registered, apps, created, locks>>
      /\ providers' = [providers EXCEPT ![job[t].id] = [c \in Apps!Components |-> IF c \in registered THEN Apps!add_component(@, c)[c] ELSE @[c]]]
      /\ IsJob(job[t]) /\ Leaves(t) /\ job[t].id \in Apps!Ids
  BY OneThread DEF Apps!ServerBuild, Apps!at, IsJob, OfApp
<1> DEFINE new == [c \in Apps!Components |-> IF c \in registered THEN Apps!add_component(providers[job[t].id], c)[c] ELSE providers[job[t].id][c]]
<1>2. /\ providers \in [Apps!Ids -> Containers] /\ providers[job[t].id] \in Containers
      /\ \A x \in Apps!Ids, c \in Apps!Components : providers[x][c].component => providers[x][c].present
  BY <1>1 DEF ServicesInv, Shaped
<1>3. ASSUME NEW c \in Apps!Components
      PROVE  /\ new[c] \in [present : BOOLEAN, component : BOOLEAN, instance : BOOLEAN]
             /\ providers[job[t].id][c].component => new[c].component
             /\ new[c].component => new[c].present
  <2>1. /\ Apps!add_component(providers[job[t].id], c) \in Containers
        /\ Apps!add_component(providers[job[t].id], c)[c].component /\ Apps!add_component(providers[job[t].id], c)[c].present
    BY <1>2, ContainerFacts
  <2> QED BY <1>1, <1>2, <2>1 DEF Containers
<1>4. providers' = [providers EXCEPT ![job[t].id] = new] /\ new = [c \in Apps!Components |-> new[c]]
  BY <1>1
<1> HIDE DEF new
<1>5. new \in Containers
  BY <1>3, <1>4 DEF Containers
<1>6. Grows
  BY <1>1, <1>2, <1>3, <1>4, <1>5 DEF Grows
<1> DEFINE j == [job[t] EXCEPT !.step = "serverPublish"]
<1>7. job' = [job EXCEPT ![t] = j] /\ IsJob(j) /\ j.step = "serverPublish"
  BY <1>1, GoesTo DEF Apps!Steps, OfApp
<1> HIDE DEF j
<1> QED BY <1>1, <1>6, <1>7, FreeStep

\* It is published, and is in no map that register_component goes through first.
LEMMA ServerPublishKeeps ==
  ASSUME Apps!ConstantsOK, ServicesInv, NEW t \in Threads, Apps!ServerPublish(t) PROVE ServicesInv'
<1>1. /\ job[t].step = "serverPublish" /\ UNCHANGED <<registered, apps, created, providers, locks>>
      /\ \/ Apps!returns(t)
         \/ \E step \in {"serverArm", "regLock"} : job' = [job EXCEPT ![t].step = step, ![t].comp = Version]
      /\ IsJob(job[t]) /\ Leaves(t) /\ Grows
  BY OneThread DEF Apps!ServerPublish, Apps!at
<1>2. CASE Apps!returns(t)
  BY <1>1, <1>2, IdleJob, FreeStep DEF Apps!returns
<1>3. ASSUME NEW step \in {"serverArm", "regLock"}, job' = [job EXCEPT ![t].step = step, ![t].comp = Version] PROVE ServicesInv'
  <2> DEFINE j == [job[t] EXCEPT !.step = step, !.comp = Version]
  <2>1. /\ job' = [job EXCEPT ![t] = j] /\ j = [f \in JobFields |-> j[f]] /\ j.step = step /\ j.comp = Version
        /\ j.id = job[t].id /\ j.then = job[t].then
    BY <1>1, <1>3 DEF IsJob, JobFields
  <2> HIDE DEF j
  <2>2. IsJob(j)
    BY <1>1, <2>1 DEF IsJob, OfApp, Apps!Steps, Apps!Components
  <2> QED BY <1>1, <2>1, <2>2, FreeStep
<1> QED BY <1>1, <1>2, <1>3

\* An app is armed by who published it.
LEMMA ServerArmKeeps ==
  ASSUME Apps!ConstantsOK, ServicesInv, NEW t \in Threads, Apps!ServerArm(t) PROVE ServicesInv'
<1>1. /\ job[t].step = "serverArm" /\ UNCHANGED <<registered, apps, created, providers, locks>> /\ Apps!goto(t, "regLock")
      /\ Leaves(t) /\ Grows
  BY OneThread DEF Apps!ServerArm, Apps!at
<1> DEFINE j == [job[t] EXCEPT !.step = "regLock"]
<1>2. job' = [job EXCEPT ![t] = j] /\ IsJob(j) /\ j.step = "regLock"
  BY <1>1, GoesTo DEF Apps!Steps, OfApp
<1> HIDE DEF j
<1> QED BY <1>1, <1>2, FreeStep

\* A component is registered, and owed to every app.
LEMMA RegLockKeeps ==
  ASSUME Apps!ConstantsOK, ServicesInv, NEW t \in Threads, Apps!RegLock(t) PROVE ServicesInv'
<1>1. /\ job[t].step = "regLock" /\ Apps!goto(t, "regApps") /\ UNCHANGED <<apps, created, providers>>
      /\ locks["components"] = Apps!Free /\ (job[t].comp = Version => locks["global"] = Apps!Free)
      /\ locks' = [l \in Apps!Locks |-> IF l = "components" \/ (l = "global" /\ job[t].comp = Version) THEN t ELSE locks[l]]
      /\ registered' = registered \cup {job[t].comp}
      /\ IsJob(job[t]) /\ Grows /\ apps \in [Names -> 0 .. MaxApps] /\ created \in 0 .. MaxApps /\ registered \subseteq Apps!Components
  BY OneThread DEF Apps!RegLock, Apps!at, Shaped
<1>2. Leaves(t) /\ locks'["components"] = t
  BY <1>1 DEF Leaves, Apps!Locks, Watched, Apps!ConstantsOK
<1> DEFINE j == [job[t] EXCEPT !.step = "regApps"]
<1>3. job' = [job EXCEPT ![t] = j] /\ IsJob(j) /\ j.step = "regApps" /\ j.comp = job[t].comp
  BY <1>1, GoesTo DEF Apps!Steps, OfApp
<1> HIDE DEF j
<1>4. registered' \subseteq Apps!Components /\ Holds(t, j, locks')
  BY <1>1, <1>2, <1>3 DEF IsJob, Holds
<1>5. ASSUME NEW x \in Apps!Live(apps'), NEW c \in registered'
      PROVE  (x \in Apps!Live(apps) /\ c \in registered /\ ~Owes(t, x, c)) \/ Owed(j, x, c, locks'["apps"] = t)
  BY <1>1, <1>3 DEF Apps!Live, Owes, Owed
<1> QED BY <1>1, <1>2, <1>3, <1>4, <1>5, OneGoesOn

\* It is owed to the apps of the map, which is locked from now on.
LEMMA RegAppsKeeps ==
  ASSUME Apps!ConstantsOK, ServicesInv, NEW t \in Threads, Apps!RegApps(t) PROVE ServicesInv'
<1>1. /\ job[t].step = "regApps" /\ Apps!acquire(t, "apps") /\ UNCHANGED <<registered, apps, created, providers>>
      /\ job' = [job EXCEPT ![t].step = "regAdd", ![t].todo = Apps!Live(apps)]
      /\ IsJob(job[t]) /\ Grows /\ apps \in [Names -> 0 .. MaxApps] /\ created \in 0 .. MaxApps /\ registered \subseteq Apps!Components
      /\ Holds(t, job[t], locks)
  BY OneThread DEF Apps!RegApps, Apps!at, Shaped
<1>2. Leaves(t) /\ locks'["apps"] = t /\ locks'["components"] = t
  BY <1>1, Takes DEF Apps!Locks, Holds
<1> DEFINE j == [job[t] EXCEPT !.step = "regAdd", !.todo = Apps!Live(apps)]
<1>3. /\ job' = [job EXCEPT ![t] = j] /\ j = [f \in JobFields |-> j[f]] /\ j.step = "regAdd" /\ j.comp = job[t].comp
      /\ j.id = job[t].id /\ j.then = job[t].then /\ j.todo = Apps!Live(apps)
  BY <1>1 DEF IsJob, JobFields
<1> HIDE DEF j
<1>4. IsJob(j) /\ Holds(t, j, locks')
  BY <1>1, <1>2, <1>3 DEF IsJob, OfApp, Apps!Steps, Holds, Apps!Live, Apps!Ids, Apps!NoApp
<1>5. ASSUME NEW x \in Apps!Live(apps'), NEW c \in registered'
      PROVE  (x \in Apps!Live(apps) /\ c \in registered /\ ~Owes(t, x, c)) \/ Owed(j, x, c, locks'["apps"] = t)
  BY <1>1, <1>2, <1>3 DEF Apps!Live, Owes, Owed
<1> QED BY <1>1, <1>2, <1>3, <1>4, <1>5, OneGoesOn

\* One of them is given it.
LEMMA RegAddKeeps ==
  ASSUME Apps!ConstantsOK, ServicesInv, NEW t \in Threads, Apps!RegAdd(t) PROVE ServicesInv'
<1>1. PICK y \in job[t].todo : /\ providers' = [providers EXCEPT ![y] = Apps!add_component(@, job[t].comp)]
                              /\ job' = [job EXCEPT ![t].todo = @ \ {y}]
  BY DEF Apps!RegAdd
<1>2. /\ job[t].step = "regAdd" /\ UNCHANGED <<registered, apps, created, locks>>
      /\ IsJob(job[t]) /\ Leaves(t) /\ apps \in [Names -> 0 .. MaxApps] /\ created \in 0 .. MaxApps /\ registered \subseteq Apps!Components
      /\ Holds(t, job[t], locks) /\ y \in Apps!Ids /\ job[t].comp \in Apps!Components
  BY OneThread DEF Apps!RegAdd, Apps!at, Shaped, IsJob
<1>3. Grows /\ providers'[y][job[t].comp].component
  BY <1>1, <1>2, Fills
<1> DEFINE j == [job[t] EXCEPT !.todo = @ \ {y}]
<1>4. /\ job' = [job EXCEPT ![t] = j] /\ j = [f \in JobFields |-> j[f]] /\ j.step = "regAdd" /\ j.comp = job[t].comp
      /\ j.id = job[t].id /\ j.then = job[t].then /\ j.todo = job[t].todo \ {y}
  BY <1>1, <1>2 DEF IsJob, JobFields
<1> HIDE DEF j
<1>5. IsJob(j) /\ Holds(t, j, locks')
  BY <1>2, <1>4 DEF IsJob, OfApp, Apps!Steps, Holds
<1>6. ASSUME NEW x \in Apps!Live(apps'), NEW c \in registered'
      PROVE  (x \in Apps!Live(apps) /\ c \in registered /\ ~Owes(t, x, c)) \/ providers'[x][c].component \/ Owed(j, x, c, locks'["apps"] = t)
  BY <1>2, <1>3, <1>4 DEF Apps!Live, Owes, Owed
<1> QED BY <1>2, <1>3, <1>4, <1>5, <1>6, OneGoesOn

\* None of them is left without it.
LEMMA RegServersKeeps ==
  ASSUME Apps!ConstantsOK, ServicesInv, NEW t \in Threads, Apps!RegServers(t), ServersFit PROVE ServicesInv'
<1>1. /\ job[t].step = "regAdd" /\ UNCHANGED <<registered, apps, created, providers>>
      /\ job[t].todo = {} /\ locks["apps"] = t /\ locks["servers"] = Apps!Free
      /\ locks' = [locks EXCEPT !["apps"] = Apps!Free, !["servers"] = t]
      /\ job' = [job EXCEPT ![t].todo = Apps!Live(servers)]
      /\ IsJob(job[t]) /\ Grows /\ apps \in [Names -> 0 .. MaxApps] /\ created \in 0 .. MaxApps /\ registered \subseteq Apps!Components
      /\ Holds(t, job[t], locks)
  BY OneThread DEF Apps!RegServers, Apps!at, Shaped
<1>2. Leaves(t) /\ locks'["apps"] # t /\ locks'["components"] = locks["components"]
  BY <1>1 DEF Leaves, Apps!Locks, Watched, Apps!ConstantsOK, ServicesInv, Shaped
<1> DEFINE j == [job[t] EXCEPT !.todo = Apps!Live(servers)]
<1>3. /\ job' = [job EXCEPT ![t] = j] /\ j = [f \in JobFields |-> j[f]] /\ j.step = "regAdd" /\ j.comp = job[t].comp
      /\ j.id = job[t].id /\ j.then = job[t].then /\ j.todo = Apps!Live(servers)
  BY <1>1 DEF IsJob, JobFields
<1> HIDE DEF j
<1>4. IsJob(j) /\ Holds(t, j, locks')
  BY <1>1, <1>2, <1>3 DEF IsJob, OfApp, Apps!Steps, Holds, Apps!Live, Apps!Ids, Apps!NoApp, ServersFit
<1>5. ASSUME NEW x \in Apps!Live(apps'), NEW c \in registered'
      PROVE  x \in Apps!Live(apps) /\ c \in registered /\ ~Owes(t, x, c)
  BY <1>1 DEF Apps!Live, Owes, Owed
<1> QED BY <1>1, <1>2, <1>3, <1>4, <1>5, OneGoesOn

\* Nor when the component map is unlocked.
LEMMA RegEndsKeeps ==
  ASSUME Apps!ConstantsOK, ServicesInv, NEW t \in Threads, Apps!RegEnds(t) PROVE ServicesInv'
<1>1. /\ job[t].step = "regAdd" /\ UNCHANGED <<registered, apps, created, providers>>
      /\ job[t].todo = {} /\ locks' = Apps!release(t)
      /\ IF job[t].then = "attach" THEN Apps!goto(t, "attach") ELSE Apps!returns(t)
      /\ IsJob(job[t]) /\ Grows /\ apps \in [Names -> 0 .. MaxApps] /\ created \in 0 .. MaxApps /\ registered \subseteq Apps!Components
  BY OneThread DEF Apps!RegEnds, Apps!at, Shaped
<1>2. Leaves(t) /\ (job[t].then = "attach" => job[t].id \in Apps!Ids)
  BY <1>1, Returns DEF IsJob
<1>3. \A x \in Apps!Live(apps'), c \in registered' : x \in Apps!Live(apps) /\ c \in registered /\ ~Owes(t, x, c)
  BY <1>1 DEF Apps!Live, Owes, Owed
<1>4. ASSUME NEW j, IsJob(j), job' = [job EXCEPT ![t] = j], j.step \in {"idle", "attach"} PROVE ServicesInv'
  <2>1. Holds(t, j, locks') /\ j.step # "missing" /\ j.step # "get"
    BY <1>4 DEF Holds
  <2> QED BY <1>1, <1>2, <1>3, <1>4, <2>1, OneGoesOn
<1>5. CASE job[t].then = "attach"
  <2> DEFINE j == [job[t] EXCEPT !.step = "attach"]
  <2>1. job' = [job EXCEPT ![t] = j] /\ IsJob(j) /\ j.step = "attach"
    BY <1>1, <1>2, <1>5, GoesTo DEF Apps!Steps
  <2> HIDE DEF j
  <2> QED BY <1>4, <2>1
<1> QED BY <1>1, <1>4, <1>5, IdleJob DEF Apps!returns

\* attach_service sets the component that the accessor resolves next.
LEMMA AttachKeeps ==
  ASSUME Apps!ConstantsOK, ServicesInv, NEW t \in Threads, Apps!Attach(t) PROVE ServicesInv'
<1>1. /\ job[t].step = "attach" /\ UNCHANGED <<registered, apps, created, locks>> /\ Apps!goto(t, "get")
      /\ providers' = [providers EXCEPT ![job[t].id] = Apps!add_component(@, job[t].comp)]
      /\ IsJob(job[t]) /\ Leaves(t)
  BY OneThread DEF Apps!Attach, Apps!at
<1>2. job[t].id \in Apps!Ids /\ job[t].comp \in Apps!Components
  BY <1>1 DEF IsJob, OfApp
<1>3. Grows /\ providers'[job[t].id][job[t].comp].component
  BY <1>1, <1>2, Fills
<1> DEFINE j == [job[t] EXCEPT !.step = "get"]
<1>4. job' = [job EXCEPT ![t] = j] /\ IsJob(j) /\ j.step = "get" /\ j.id = job[t].id /\ j.comp = job[t].comp
  BY <1>1, <1>2, GoesTo DEF Apps!Steps
<1> HIDE DEF j
<1> QED BY <1>1, <1>3, <1>4, FreeStep

\* The component is there, so that the service is found or created.
LEMMA GetKeeps ==
  ASSUME Apps!ConstantsOK, ServicesInv, NEW t \in Threads, Apps!Get(t) PROVE ServicesInv'
<1> DEFINE container == Apps!get_provider(providers[job[t].id], job[t].comp)
           next == IF container[job[t].comp].instance THEN "found" ELSE IF container[job[t].comp].component THEN "create" ELSE "missing"
<1>1. /\ job[t].step = "get" /\ UNCHANGED <<registered, apps, created, locks>> /\ Apps!goto(t, next)
      /\ providers' = [providers EXCEPT ![job[t].id] = container]
      /\ IsJob(job[t]) /\ Leaves(t) /\ Finds(job[t])
  BY OneThread DEF Apps!Get, Apps!at
<1>2. /\ job[t].id \in Apps!Ids /\ job[t].comp \in Apps!Components /\ providers \in [Apps!Ids -> Containers]
      /\ providers[job[t].id][job[t].comp].component
  BY <1>1 DEF IsJob, OfApp, Finds, ServicesInv, Shaped
<1>3. Grows /\ providers'[job[t].id][job[t].comp].component
  BY <1>1, <1>2, Fills
<1>4. providers'[job[t].id] = container
  BY <1>1, <1>2
<1>5. next \in {"found", "create"}
  BY <1>3, <1>4
<1> HIDE DEF next, container
<1> DEFINE j == [job[t] EXCEPT !.step = next]
<1>6. job' = [job EXCEPT ![t] = j] /\ IsJob(j) /\ j.step = next
  BY <1>1, <1>2, <1>5, GoesTo DEF Apps!Steps
<1> HIDE DEF j
<1> QED BY <1>1, <1>3, <1>5, <1>6, FreeStep

\* The instance is stored beside the component.
LEMMA CreateKeeps ==
  ASSUME Apps!ConstantsOK, ServicesInv, NEW t \in Threads, Apps!Create(t) PROVE ServicesInv'
<1>1. /\ job[t].step = "create" /\ UNCHANGED <<registered, apps, created, locks>> /\ Apps!goto(t, "found")
      /\ providers' = [providers EXCEPT ![job[t].id][job[t].comp].instance = TRUE]
      /\ IsJob(job[t]) /\ Leaves(t)
  BY OneThread DEF Apps!Create, Apps!at
<1>2. Grows
  BY <1>1, InstanceOnly DEF IsJob, OfApp
<1> DEFINE j == [job[t] EXCEPT !.step = "found"]
<1>3. job' = [job EXCEPT ![t] = j] /\ IsJob(j) /\ j.step = "found"
  BY <1>1, GoesTo DEF Apps!Steps, OfApp
<1> HIDE DEF j
<1> QED BY <1>1, <1>2, <1>3, FreeStep

\* The accessor returns.
LEMMA ResolvedKeeps ==
  ASSUME Apps!ConstantsOK, ServicesInv, NEW t \in Threads, Apps!Resolved(t) PROVE ServicesInv'
<1>1. /\ job[t].step \in {"found", "missing"} /\ UNCHANGED <<registered, apps, created, locks, providers>>
      /\ job' = [job EXCEPT ![t] = Apps!Idle] /\ Leaves(t) /\ Grows
  BY OneThread DEF Apps!Resolved, Apps!at, Apps!returns
<1> QED BY <1>1, IdleJob, FreeStep

\* Deleted instances leave their components.
LEMMA TeardownKeeps ==
  ASSUME Apps!ConstantsOK, ServicesInv, NEW t \in Threads, Apps!Teardown(t) PROVE ServicesInv'
<1>1. /\ job[t].step = "teardown" /\ UNCHANGED <<registered, apps, created>>
      /\ IsJob(job[t]) /\ job[t].id \in Apps!Ids /\ job[t].todo \subseteq Apps!Components
  BY OneThread DEF Apps!Teardown, Apps!at, IsJob, OfApp
<1>2. ASSUME NEW c \in job[t].todo, providers' = [providers EXCEPT ![job[t].id][c].instance = FALSE],
             job' = [job EXCEPT ![t].todo = @ \ {c}], UNCHANGED locks
      PROVE  ServicesInv'
  <2>1. Grows /\ Leaves(t)
    BY <1>1, <1>2, InstanceOnly, OneThread
  <2> DEFINE j == [job[t] EXCEPT !.todo = @ \ {c}]
  <2>2. /\ job' = [job EXCEPT ![t] = j] /\ j = [f \in JobFields |-> j[f]] /\ j.step = "teardown" /\ j.comp = job[t].comp
        /\ j.id = job[t].id /\ j.then = job[t].then /\ j.todo = job[t].todo \ {c}
    BY <1>1, <1>2 DEF IsJob, JobFields
  <2> HIDE DEF j
  <2>3. IsJob(j)
    BY <1>1, <2>2 DEF IsJob, OfApp
  <2> QED BY <1>1, <2>1, <2>2, <2>3, FreeStep
<1>3. CASE locks' = Apps!release(t) /\ Apps!returns(t) /\ UNCHANGED providers
  BY <1>1, <1>3, IdleJob, Returns, OneThread, FreeStep DEF Apps!returns
<1> QED BY <1>2, <1>3 DEF Apps!Teardown

\* The map of server apps is one.
LEMMA ServersStayFit ==
  ASSUME Apps!ConstantsOK, ServicesInv, ServersFit, [Apps!Next]_Apps!vars PROVE ServersFit'
<1>1. ASSUME NEW t \in Threads, servers' # servers
      PROVE  /\ ~Apps!Continues(t) \/ Apps!ServerPublish(t) \/ \E x \in Apps!Ids : Apps!deletes_server_app(t, x)
             /\ ~Apps!Begins(t) \/ \E x \in Apps!Ids : Apps!deletes_server_app(t, x)
  <2>1. ~Apps!Continues(t) \/ Apps!ServerPublish(t) \/ \E x \in Apps!Ids : Apps!Release(t, x)
    BY <1>1 DEF Apps!Continues, Apps!InitLock, Apps!InitPublish, Apps!InitAttach, Apps!ServerBuild, Apps!ServerArm, Apps!RegLock, Apps!RegApps,
                Apps!RegAdd, Apps!RegServers, Apps!RegEnds, Apps!Attach, Apps!Get, Apps!Create, Apps!Resolved, Apps!Teardown
  <2>2. ~Apps!Begins(t) \/ \E x \in Apps!Ids : Apps!delete_app(t, x)
    BY <1>1 DEF Apps!Begins, Apps!initialize_app, Apps!initialize_server_app, Apps!get_service, Apps!register_version, Apps!DropHandle
  <2>3. ASSUME NEW x \in Apps!Ids, Apps!delete_app(t, x) PROVE Apps!deletes_server_app(t, x)
    BY <1>1, <2>3 DEF Apps!delete_app, Apps!deletes_app
  <2>4. ASSUME NEW x \in Apps!Ids, Apps!Release(t, x) PROVE Apps!deletes_server_app(t, x)
    BY <2>4 DEF Apps!Release
  <2> QED BY <2>1, <2>2, <2>3, <2>4
<1>2. ASSUME NEW t \in Threads, Apps!ServerPublish(t), servers' # servers PROVE ServersFit'
  <2>1. servers' = [servers EXCEPT ![job[t].name] = job[t].id] /\ IsJob(job[t])
    BY <1>2, OneThread DEF Apps!ServerPublish
  <2> QED BY <2>1 DEF ServersFit, IsJob
<1>3. ASSUME NEW t \in Threads, NEW x \in Apps!Ids, Apps!deletes_server_app(t, x), servers' # servers PROVE ServersFit'
  <2>1. servers' = [servers EXCEPT ![app[x].name] = Apps!NoApp]
    BY <1>3 DEF Apps!deletes_server_app
  <2>2. Apps!NoApp \in 0 .. MaxApps
    BY DEF Apps!NoApp, Apps!ConstantsOK
  <2> QED BY <2>1, <2>2 DEF ServersFit
<1>4. CASE servers' = servers
  BY <1>4 DEF ServersFit
<1> QED BY <1>1, <1>2, <1>3, <1>4 DEF Apps!Next, Apps!vars

\* Nothing is registered at first.
LEMMA InitServes == Apps!ConstantsOK /\ Apps!Init => ServicesInv /\ ServersFit
<1> SUFFICES ASSUME Apps!ConstantsOK, Apps!Init PROVE ServicesInv /\ ServersFit
  OBVIOUS
<1>1. /\ registered = {} /\ apps \in [Names -> 0 .. MaxApps] /\ created = 0 /\ 0 \in 0 .. MaxApps
      /\ locks = [l \in Apps!Locks |-> Apps!Free] /\ job = [t \in Threads |-> Apps!Idle] /\ ServersFit
  BY DEF Apps!Init, Apps!ConstantsOK, Apps!NoApp, ServersFit
<1>2. Apps!EmptyContainer \in Containers /\ \A c \in Apps!Components : ~Apps!EmptyContainer[c].component
  BY DEF Apps!EmptyContainer, Containers, Apps!NoProvider
<1>3. providers \in [Apps!Ids -> Containers] /\ \A x \in Apps!Ids, c \in Apps!Components : ~providers[x][c].component
  BY <1>2 DEF Apps!Init
<1>4. Shaped
  BY <1>1, <1>3, IdleJob DEF Shaped
<1>5. \A t \in Threads : Holds(t, job[t], locks) /\ job[t].step # "missing" /\ Finds(job[t])
  BY <1>1, IdleJob DEF Holds, Finds
<1> QED BY <1>1, <1>3, <1>4, <1>5 DEF ServicesInv

\* Every step keeps ServicesInv.
LEMMA StepServes ==
  ASSUME Apps!ConstantsOK, ServicesInv, ServersFit, [Apps!Next]_Apps!vars PROVE ServicesInv'
<1>1. ASSUME NEW t \in Threads, Apps!Begins(t) PROVE ServicesInv'
  <2>1. ASSUME NEW x \in Apps!Ids, Apps!DropHandle(t, x) PROVE ServicesInv'
    BY <2>1, StillServes DEF Apps!DropHandle
  <2> QED BY <1>1, <2>1, InitializeKeeps, InitializeServerKeeps, GetServiceKeeps, DeleteKeeps, RegisterVersionKeeps DEF Apps!Begins
<1>2. ASSUME NEW t \in Threads, Apps!Continues(t) PROVE ServicesInv'
  BY <1>2, InitLockKeeps, InitPublishKeeps, InitAttachKeeps, ServerBuildKeeps, ServerPublishKeeps, ServerArmKeeps, ReleaseKeeps,
     RegLockKeeps, RegAppsKeeps, RegAddKeeps, RegServersKeeps, RegEndsKeeps, AttachKeeps, GetKeeps, CreateKeeps, ResolvedKeeps,
     TeardownKeeps DEF Apps!Continues
<1>3. CASE UNCHANGED Apps!vars
  BY <1>3, StillServes DEF Apps!vars
<1> QED BY <1>1, <1>2, <1>3 DEF Apps!Next

\* What ServicesInv says holds in every execution (register_component, initialize_app,
\* attach_service and the locks they take).
THEOREM ServicesAreServed == Apps!ConstantsOK => (Apps!Spec => [](ServicesInv /\ ServersFit))
<1> SUFFICES ASSUME Apps!ConstantsOK PROVE Apps!Spec => [](ServicesInv /\ ServersFit)
  OBVIOUS
<1>1. Apps!Init => ServicesInv /\ ServersFit
  BY InitServes
<1>2. ServicesInv /\ ServersFit /\ [Apps!Next]_Apps!vars => (ServicesInv /\ ServersFit)'
  BY StepServes, ServersStayFit
<1> QED BY <1>1, <1>2, PTL DEF Apps!Spec

\* Outside both calls, every registered component is set on every app, whoever
\* registers and initialises at once (register_component, initialize_app).
THEOREM ComponentsReachApps == Apps!ConstantsOK => (Apps!Spec => []Apps!RegisteredReachesApps)
<1> SUFFICES ASSUME Apps!ConstantsOK PROVE Apps!Spec => []Apps!RegisteredReachesApps
  OBVIOUS
<1>1. ServicesInv => Apps!RegisteredReachesApps
  BY DEF Apps!ConstantsOK, ServicesInv, Shaped, Holds, Owes, Owed, Apps!RegisteredReachesApps, Apps!Initialising, Apps!at
<1> QED BY <1>1, ServicesAreServed, PTL

\* A product's accessor never finds its own service missing (Provider::get_immediate
\* after attach_service).
THEOREM ServicesAreFound == Apps!ConstantsOK => (Apps!Spec => []Apps!AccessorFindsService)
<1> SUFFICES ASSUME Apps!ConstantsOK PROVE Apps!Spec => []Apps!AccessorFindsService
  OBVIOUS
<1>1. ServicesInv => Apps!AccessorFindsService
  BY DEF ServicesInv, Apps!AccessorFindsService, Apps!at
<1> QED BY <1>1, ServicesAreServed, PTL
-----------------------------------------------------------------------------
AppFields == {"name", "refs", "ready", "deleted", "asked", "armed"}
Fit(a) == a = [x \in Apps!Ids |-> a[x]] /\ \A x \in Apps!Ids : a[x] = [f \in AppFields |-> a[x][f]]

\* A call that makes an app is of that app: one for the table of its kind.
Makes(t) ==
  /\ job[t].step \in {"initLock", "initPublish", "initAttach"} =>
       job[t].id \in 1 .. created /\ app[job[t].id].name = job[t].name /\ job[t].name \in Names
  /\ job[t].step = "initAttach" => apps[job[t].name] = job[t].id
  /\ job[t].step \in {"serverBuild", "serverPublish"} => job[t].id \in 1 .. created /\ app[job[t].id].name \in ServerNames

NamesInv ==
  /\ Fit(app)
  /\ \A t \in Threads : Makes(t)
  /\ Apps!OnlyDeletedAppsAreGone

\* What most steps do to an app: nothing that NamesInv speaks of.
Keeps(a, b) ==
  /\ Fit(b)
  /\ \A x \in Apps!Ids : b[x].name = a[x].name /\ b[x].ready = a[x].ready /\ (a[x].asked => b[x].asked)
SameApps == Keeps(app, app')

\* Other fields of one app are set.
LEMMA Replaced ==
  ASSUME NEW a, Fit(a), NEW x, NEW new,
         x \in Apps!Ids => /\ new = [f \in AppFields |-> new[f]] /\ new.name = a[x].name
                         /\ new.ready = a[x].ready /\ (a[x].asked => new.asked)
  PROVE  Keeps(a, [a EXCEPT ![x] = new])
BY DEF Fit, Keeps

\* A reference of x is counted, and x armed or not.
LEMMA Recounted ==
  ASSUME NEW a, Fit(a), NEW x, NEW refs, NEW armed
  PROVE  Keeps(a, [a EXCEPT ![x].refs = refs, ![x].armed = armed])
<1> DEFINE new == [a[x] EXCEPT !.refs = refs, !.armed = armed]
<1>1. [a EXCEPT ![x].refs = refs, ![x].armed = armed] = [a EXCEPT ![x] = new]
  BY DEF Fit
<1>2. x \in Apps!Ids => /\ new = [f \in AppFields |-> new[f]] /\ new.name = a[x].name
                      /\ new.ready = a[x].ready /\ new.asked = a[x].asked
  BY DEF Fit, AppFields
<1> HIDE DEF new
<1> QED BY <1>1, <1>2, Replaced

\* x is armed or not.
LEMMA Armed ==
  ASSUME NEW a, Fit(a), NEW x, NEW armed
  PROVE  Keeps(a, [a EXCEPT ![x].armed = armed])
<1> DEFINE new == [a[x] EXCEPT !.armed = armed]
<1>1. x \in Apps!Ids => /\ new = [f \in AppFields |-> new[f]] /\ new.name = a[x].name
                      /\ new.ready = a[x].ready /\ new.asked = a[x].asked
  BY DEF Fit, AppFields
<1>2. [a EXCEPT ![x].armed = armed] = [a EXCEPT ![x] = new]
  OBVIOUS
<1> HIDE DEF new
<1> QED BY <1>1, <1>2, Replaced

\* A thread goes on to j and the maps stay: it still makes the app it made.
LEMMA NamesStay ==
  ASSUME Apps!ConstantsOK, ServicesInv, NamesInv, NEW t \in Threads, NEW j, job' = [job EXCEPT ![t] = j], SameApps,
         apps' = apps, created' = created,
         \/ j.step \notin {"initLock", "initPublish", "initAttach", "serverBuild", "serverPublish"}
         \/ /\ j.id = job[t].id /\ j.name = job[t].name
            /\ \/ j.step = job[t].step
               \/ job[t].step = "initLock" /\ j.step = "initPublish"
               \/ job[t].step = "serverBuild" /\ j.step = "serverPublish"
  PROVE  NamesInv'
<1>1. job'[t] = j /\ (\A o \in Threads : o # t => job'[o] = job[o]) /\ created \in 0 .. MaxApps
  BY DEF ServicesInv, Shaped
<1>2. \A o \in Threads : job[o].id \in 1 .. created => job[o].id \in Apps!Ids
  BY <1>1 DEF Apps!Ids, Apps!ConstantsOK
<1>3. ASSUME NEW o \in Threads PROVE (Makes(o))'
  BY <1>1, <1>2 DEF NamesInv, Makes, SameApps, Keeps
<1>4. Apps!OnlyDeletedAppsAreGone'
  BY DEF NamesInv, Apps!OnlyDeletedAppsAreGone, SameApps, Keeps
<1> QED BY <1>3, <1>4 DEF NamesInv, SameApps, Keeps

\* A new app is not ready, and its number is nobody's.
LEMMA AppMade ==
  ASSUME Apps!ConstantsOK, ServicesInv, NamesInv, NEW t \in Threads, NEW j, job' = [job EXCEPT ![t] = j], NEW n, NEW new,
         new = [f \in AppFields |-> new[f]], new.name = n, new.ready = FALSE,
         created < MaxApps, created' = created + 1, app' = [app EXCEPT ![created + 1] = new], apps' = apps,
         j.id = created + 1, \/ j.step = "initLock" /\ j.name = n /\ n \in Names
                             \/ j.step = "serverBuild" /\ n \in ServerNames
  PROVE  NamesInv'
<1>1. /\ job'[t] = j /\ (\A o \in Threads : o # t => job'[o] = job[o]) /\ created \in 0 .. MaxApps
      /\ created + 1 \in Apps!Ids /\ created + 1 \in 1 .. created'
  BY DEF ServicesInv, Shaped, Apps!Ids, Apps!ConstantsOK
<1>2. \A o \in Threads : job[o].id \in 1 .. created => job[o].id \in Apps!Ids /\ job[o].id # created + 1 /\ job[o].id \in 1 .. created'
  BY <1>1 DEF Apps!Ids, Apps!ConstantsOK
<1>3. app'[created + 1] = new /\ \A x \in Apps!Ids : x # created + 1 => app'[x] = app[x]
  BY <1>1 DEF NamesInv, Fit
<1>4. Fit(app')
  BY <1>1 DEF NamesInv, Fit
<1>5. ASSUME NEW o \in Threads PROVE (Makes(o))'
  BY <1>1, <1>2, <1>3 DEF NamesInv, Makes
<1>6. Apps!OnlyDeletedAppsAreGone'
  BY <1>3 DEF NamesInv, Apps!OnlyDeletedAppsAreGone
<1> QED BY <1>4, <1>5, <1>6 DEF NamesInv

\* An app is made for initialize_app.
LEMMA InitializeNames ==
  ASSUME Apps!ConstantsOK, ServicesInv, NamesInv, NEW t \in Threads, NEW n \in Names, Apps!initialize_app(t, n) PROVE NamesInv'
<1> DEFINE j == [Apps!Idle EXCEPT !.step = "initLock", !.id = created + 1, !.name = n]
           new == Apps!NewApp(n)
<1>1. /\ created < MaxApps /\ created' = created + 1 /\ app' = [app EXCEPT ![created + 1] = new] /\ apps' = apps
      /\ job' = [job EXCEPT ![t] = j]
  BY DEF Apps!initialize_app, Apps!begin, Apps!starts
<1>2. j.id = created + 1 /\ j.step = "initLock" /\ j.name = n
  BY DEF Apps!Idle
<1>3. new = [f \in AppFields |-> new[f]] /\ new.name = n /\ new.ready = FALSE
  BY DEF Apps!NewApp, AppFields
<1> HIDE DEF j, new
<1> QED BY <1>1, <1>2, <1>3, AppMade

\* A server app is found or made.
LEMMA InitializeServerNames ==
  ASSUME Apps!ConstantsOK, ServicesInv, NamesInv, NEW t \in Threads, NEW n \in ServerNames, NEW r \in BOOLEAN,
         Apps!initialize_server_app(t, n, r)
  PROVE  NamesInv'
<1> DEFINE j == [Apps!Idle EXCEPT !.step = "serverBuild", !.id = created + 1, !.name = n]
           new == [Apps!NewApp(n) EXCEPT !.armed = r]
           found == servers[n]
<1>1. j.id = created + 1 /\ j.step = "serverBuild"
  BY DEF Apps!Idle
<1>2. CASE /\ created < MaxApps /\ created' = created + 1 /\ app' = [app EXCEPT ![created + 1] = new] /\ apps' = apps
           /\ job' = [job EXCEPT ![t] = j]
  <2>1. new = [f \in AppFields |-> new[f]] /\ new.name = n /\ new.ready = FALSE
    BY DEF Apps!NewApp, AppFields
  <2> HIDE DEF j, new
  <2> QED BY <1>1, <1>2, <2>1, AppMade
<1>3. CASE /\ app' = [app EXCEPT ![found].refs = @ + 1, ![found].armed = @ \/ r]
           /\ job' = [job EXCEPT ![t] = Apps!Idle] /\ apps' = apps /\ created' = created
  <2> DEFINE refs == app[found].refs + 1
             armed == [app EXCEPT ![found].refs = refs][found].armed \/ r
  <2>1. app' = [app EXCEPT ![found].refs = refs, ![found].armed = armed]
    BY <1>3
  <2> HIDE DEF refs, armed
  <2>2. SameApps
    BY <2>1, Recounted DEF NamesInv, SameApps
  <2> QED BY <1>3, <2>2, NamesStay, IdleJob
<1> QED BY <1>2, <1>3 DEF Apps!initialize_server_app, Apps!begin, Apps!starts

\* The app gets the name nobody has.
LEMMA InitPublishNames ==
  ASSUME Apps!ConstantsOK, ServicesInv, NamesInv, NEW t \in Threads, Apps!InitPublish(t) PROVE NamesInv'
<1>1. /\ job[t].step = "initPublish" /\ UNCHANGED <<app, created>> /\ IsJob(job[t]) /\ Holds(t, job[t], locks) /\ Makes(t)
      /\ created \in 0 .. MaxApps /\ apps \in [Names -> 0 .. MaxApps]
  BY OneThread DEF Apps!InitPublish, Apps!at, NamesInv, Shaped
<1>2. SameApps
  BY <1>1 DEF NamesInv, SameApps, Keeps
<1>3. CASE Apps!returns(t) /\ UNCHANGED apps
  BY <1>1, <1>2, <1>3, NamesStay, IdleJob DEF Apps!returns
<1>4. CASE /\ apps[job[t].name] = Apps!NoApp /\ apps' = [apps EXCEPT ![job[t].name] = job[t].id]
           /\ job' = [job EXCEPT ![t].step = "initAttach", ![t].todo = registered]
  <2> DEFINE j == [job[t] EXCEPT !.step = "initAttach", !.todo = registered]
  <2>1. job' = [job EXCEPT ![t] = j] /\ j.step = "initAttach" /\ j.id = job[t].id /\ j.name = job[t].name
    BY <1>1, <1>4 DEF IsJob, JobFields
  <2> HIDE DEF j
  <2>2. job'[t] = j /\ \A o \in Threads : o # t => job'[o] = job[o]
    BY <2>1 DEF ServicesInv, Shaped
  <2>3. \A o \in Threads : o # t => job[o].step # "initAttach"
    BY <1>1 DEF ServicesInv, Holds
  <2>4. ASSUME NEW o \in Threads PROVE (Makes(o))'
    BY <1>1, <1>4, <2>1, <2>2, <2>3 DEF NamesInv, Makes
  <2>5. \A n \in Names : n # job[t].name => apps'[n] = apps[n]
    BY <1>1, <1>4
  <2>6. Apps!OnlyDeletedAppsAreGone'
    BY <1>1, <1>4, <2>5 DEF NamesInv, Apps!OnlyDeletedAppsAreGone, Apps!NoApp, Apps!Ids
  <2> QED BY <1>1, <2>4, <2>6 DEF NamesInv
<1> QED BY <1>3, <1>4 DEF Apps!InitPublish

\* An app becomes ready when it is in its table.
LEMMA AppReady ==
  ASSUME Apps!ConstantsOK, ServicesInv, NamesInv, NEW t \in Threads, NEW j, job' = [job EXCEPT ![t] = j],
         app' = [app EXCEPT ![job[t].id].ready = TRUE], apps' = apps, created' = created,
         job[t].id \in Apps!Ids, app[job[t].id].name \in Names => apps[app[job[t].id].name] = job[t].id,
         j.step \in {"idle", "regLock", "serverArm"}
  PROVE  NamesInv'
<1> DEFINE new == [app[job[t].id] EXCEPT !.ready = TRUE]
<1>1. /\ app' = [app EXCEPT ![job[t].id] = new] /\ new = [f \in AppFields |-> new[f]] /\ new.name = app[job[t].id].name
      /\ new.asked = app[job[t].id].asked
  BY DEF NamesInv, Fit, AppFields
<1> HIDE DEF new
<1>2. app' = [x \in Apps!Ids |-> app'[x]] /\ app'[job[t].id] = new /\ \A x \in Apps!Ids : x # job[t].id => app'[x] = app[x]
  BY <1>1 DEF NamesInv, Fit
<1>3. job'[t] = j /\ (\A o \in Threads : o # t => job'[o] = job[o]) /\ created \in 0 .. MaxApps
  BY DEF ServicesInv, Shaped
<1>4. \A o \in Threads : job[o].id \in 1 .. created => job[o].id \in Apps!Ids
  BY <1>3 DEF Apps!Ids, Apps!ConstantsOK
<1>5. ASSUME NEW o \in Threads PROVE (Makes(o))'
  BY <1>1, <1>2, <1>3, <1>4 DEF NamesInv, Makes
<1>6. Apps!OnlyDeletedAppsAreGone'
  BY <1>1, <1>2 DEF NamesInv, Apps!OnlyDeletedAppsAreGone
<1>7. ASSUME NEW x \in Apps!Ids PROVE app'[x] = [f \in AppFields |-> app'[x][f]]
  <2>1. CASE x = job[t].id
    BY <1>1, <1>2, <2>1
  <2>2. CASE x # job[t].id
    BY <1>2, <2>2 DEF NamesInv, Fit
  <2> QED BY <2>1, <2>2
<1> QED BY <1>2, <1>5, <1>6, <1>7 DEF NamesInv, Fit

\* It has it still when it is handed out: the global lock was held.
LEMMA InitAttachNames ==
  ASSUME Apps!ConstantsOK, ServicesInv, NamesInv, NEW t \in Threads, Apps!InitAttach(t) PROVE NamesInv'
<1>1. /\ job[t].step = "initAttach" /\ UNCHANGED <<apps, created>> /\ IsJob(job[t]) /\ Makes(t) /\ job[t].id \in Apps!Ids
  BY OneThread DEF Apps!InitAttach, Apps!at, NamesInv, IsJob, OfApp
<1>2. ASSUME NEW c, job' = [job EXCEPT ![t].todo = @ \ {c}], UNCHANGED app PROVE NamesInv'
  <2> DEFINE j == [job[t] EXCEPT !.todo = @ \ {c}]
  <2>1. job' = [job EXCEPT ![t] = j] /\ j.step = job[t].step /\ j.id = job[t].id /\ j.name = job[t].name
    BY <1>1, <1>2 DEF IsJob, JobFields
  <2> HIDE DEF j
  <2>2. SameApps
    BY <1>2 DEF NamesInv, SameApps, Keeps
  <2> QED BY <1>1, <2>1, <2>2, NamesStay
<1>3. CASE app' = [app EXCEPT ![job[t].id].ready = TRUE] /\ Apps!returns(t)
  BY <1>1, <1>3, IdleJob, AppReady DEF Apps!returns, Makes
<1> QED BY <1>2, <1>3 DEF Apps!InitAttach

\* A server app is built.
LEMMA ServerBuildNames ==
  ASSUME Apps!ConstantsOK, ServicesInv, NamesInv, NEW t \in Threads, Apps!ServerBuild(t) PROVE NamesInv'
<1> DEFINE j == [job[t] EXCEPT !.step = "serverPublish"]
<1>1. /\ job[t].step = "serverBuild" /\ UNCHANGED <<app, apps, created>> /\ job' = [job EXCEPT ![t] = j] /\ IsJob(job[t])
  BY OneThread DEF Apps!ServerBuild, Apps!at, Apps!goto
<1>2. j.step = "serverPublish" /\ j.id = job[t].id /\ j.name = job[t].name
  BY <1>1 DEF IsJob, JobFields
<1> HIDE DEF j
<1>3. SameApps
  BY <1>1 DEF NamesInv, SameApps, Keeps
<1> QED BY <1>1, <1>2, <1>3, NamesStay

\* It is published under its own kind of name, or dropped for the one that was published.
LEMMA ServerPublishNames ==
  ASSUME Apps!ConstantsOK, ServicesInv, NamesInv, NEW t \in Threads, Apps!ServerPublish(t) PROVE NamesInv'
<1> DEFINE found == servers[job[t].name]
           built == job[t].id
<1>1. /\ job[t].step = "serverPublish" /\ UNCHANGED <<apps, created>> /\ IsJob(job[t]) /\ Makes(t) /\ built \in Apps!Ids
  BY OneThread DEF Apps!ServerPublish, Apps!at, NamesInv, IsJob, OfApp
<1>2. CASE /\ app' = [app EXCEPT ![found].refs = @ + 1, ![found].armed = @ \/ app[built].armed, ![built].armed = FALSE]
           /\ Apps!returns(t)
  <2> DEFINE refs == app[found].refs + 1
             armed == [app EXCEPT ![found].refs = refs][found].armed \/ app[built].armed
             reused == [app EXCEPT ![found].refs = refs, ![found].armed = armed]
  <2>1. app' = [reused EXCEPT ![built].armed = FALSE]
    BY <1>2
  <2> HIDE DEF refs, armed
  <2>2. Keeps(app, reused)
    BY Recounted DEF NamesInv
  <2> HIDE DEF reused
  <2>3. Fit(reused)
    BY <2>2 DEF Keeps
  <2>4. Keeps(reused, app')
    BY <2>1, <2>3, Armed
  <2>5. SameApps
    BY <2>2, <2>4 DEF Keeps, SameApps
  <2> QED BY <1>1, <1>2, <2>5, NamesStay, IdleJob DEF Apps!returns
<1>3. ASSUME NEW step \in {"serverArm", "regLock"}, app' = [app EXCEPT ![built].ready = TRUE],
             job' = [job EXCEPT ![t].step = step, ![t].comp = Version]
      PROVE  NamesInv'
  <2> DEFINE j == [job[t] EXCEPT !.step = step, !.comp = Version]
  <2>1. job' = [job EXCEPT ![t] = j] /\ j.step = step
    BY <1>1, <1>3 DEF IsJob, JobFields
  <2> HIDE DEF j
  <2>2. app[built].name \notin Names
    BY <1>1 DEF Makes, Apps!ConstantsOK, Apps!NamesAssumption
  <2> QED BY <1>1, <1>3, <2>1, <2>2, AppReady
<1> QED BY <1>2, <1>3 DEF Apps!ServerPublish

\* Its services are to be torn down, or the call is over.
LEMMA TeardownStarts ==
  ASSUME Apps!ConstantsOK, NEW t, NEW x, \E cleanup : Apps!teardown(t, x, cleanup)
  PROVE  \E j : job' = [job EXCEPT ![t] = j] /\ j.step \in {"idle", "teardown"}
<1> DEFINE gone == [Apps!Idle EXCEPT !.step = "teardown", !.id = x, !.todo = {c \in Apps!Components : providers[x][c].present}]
<1>1. job' = [job EXCEPT ![t] = gone] \/ job' = [job EXCEPT ![t] = Apps!Idle]
  BY DEF Apps!teardown, Apps!starts
<1>2. gone.step = "teardown" /\ Apps!Idle.step = "idle"
  BY DEF Apps!Idle
<1> QED BY <1>1, <1>2

\* A reference of a server app is taken back: no app of the other map is touched.
LEMMA ServerDeletedNames ==
  ASSUME Apps!ConstantsOK, ServicesInv, NamesInv, NEW t \in Threads, NEW x, Apps!deletes_server_app(t, x), created' = created
  PROVE  NamesInv'
<1> DEFINE found == servers[app[x].name]
           last == found # Apps!NoApp /\ app[found].refs = 1
           refs == app[found].refs - 1
           armed == [app EXCEPT ![found].refs = refs][found].armed /\ ~last
<1>1. app' = app \/ app' = [app EXCEPT ![found].refs = refs, ![found].armed = armed]
  BY DEF Apps!deletes_server_app
<1>2. apps' = apps /\ \E cleanup : Apps!teardown(t, x, cleanup)
  BY DEF Apps!deletes_server_app
<1> HIDE DEF last, refs, armed
<1>3. SameApps
  <2>1. Fit(app)
    BY DEF NamesInv
  <2>2. CASE app' = app
    BY <2>1, <2>2 DEF SameApps, Keeps
  <2>3. CASE app' = [app EXCEPT ![found].refs = refs, ![found].armed = armed]
    BY <2>1, <2>3, Recounted DEF SameApps
  <2> QED BY <1>1, <2>2, <2>3
<1>4. PICK j : job' = [job EXCEPT ![t] = j] /\ j.step \in {"idle", "teardown"}
  BY <1>2, TeardownStarts
<1> QED BY <1>2, <1>3, <1>4, NamesStay

\* With DeleteOnce, the app that is deleted is the one registered under its name.
LEMMA DeleteNames ==
  ASSUME Apps!ConstantsOK, DeleteOnce, ServicesInv, NamesInv, NEW t \in Threads, NEW x \in Apps!Ids, Apps!delete_app(t, x) PROVE NamesInv'
<1>1. created' = created /\ locks["global"] = Apps!Free /\ app[x].ready
  BY DEF Apps!delete_app
<1>2. CASE Apps!deletes_server_app(t, x)
  BY <1>1, <1>2, ServerDeletedNames
<1>3. CASE app[x].name \in Names /\ ~app[x].asked /\ Apps!deletes_app(t, x)
  <2>1. /\ apps' = [apps EXCEPT ![app[x].name] = Apps!NoApp] /\ app' = [app EXCEPT ![x].asked = TRUE]
        /\ \E cleanup : Apps!teardown(t, x, cleanup)
    BY <1>3 DEF Apps!deletes_app
  <2> DEFINE new == [app[x] EXCEPT !.asked = TRUE]
  <2>2. /\ app' = [app EXCEPT ![x] = new] /\ new = [f \in AppFields |-> new[f]]
        /\ new.name = app[x].name /\ new.ready = app[x].ready /\ new.asked = TRUE
    BY <2>1 DEF NamesInv, Fit, AppFields
  <2> HIDE DEF new
  <2>3. SameApps /\ app'[x].asked
    BY <2>2, Replaced DEF NamesInv, SameApps, Fit
  <2>4. PICK j : job' = [job EXCEPT ![t] = j] /\ j.step \in {"idle", "teardown"}
    BY <2>1, TeardownStarts
  <2>5. apps[app[x].name] = x
    BY <1>1, <1>3 DEF NamesInv, Apps!OnlyDeletedAppsAreGone
  <2>6. Apps!OnlyDeletedAppsAreGone'
    BY <2>1, <2>3, <2>5 DEF NamesInv, Apps!OnlyDeletedAppsAreGone, SameApps, Keeps, ServicesInv, Shaped
  <2>7. \A o \in Threads : job[o].step \notin {"initLock", "initPublish", "initAttach"}
    BY <1>1 DEF ServicesInv, Holds, Apps!ConstantsOK
  <2>8. job'[t] = j /\ (\A o \in Threads : o # t => job'[o] = job[o]) /\ created \in 0 .. MaxApps
    BY <2>4 DEF ServicesInv, Shaped
  <2>9. \A o \in Threads : job[o].id \in 1 .. created => job[o].id \in Apps!Ids
    BY <2>8 DEF Apps!Ids, Apps!ConstantsOK
  <2>10. ASSUME NEW o \in Threads PROVE (Makes(o))'
    BY <1>1, <2>3, <2>4, <2>7, <2>8, <2>9 DEF NamesInv, Makes, SameApps, Keeps
  <2> QED BY <2>3, <2>6, <2>10 DEF NamesInv, SameApps, Keeps
<1> QED BY <1>2, <1>3 DEF Apps!delete_app

\* A server app is armed or disarmed by its owner's Drop and by who published it.
LEMMA ArmNames ==
  ASSUME Apps!ConstantsOK, ServicesInv, NamesInv, NEW t \in Threads,
         Apps!ServerArm(t) \/ \E x \in Apps!Ids : Apps!DropHandle(t, x)
  PROVE  NamesInv'
<1>1. CASE Apps!ServerArm(t)
  <2>1. /\ app' = [app EXCEPT ![job[t].id].armed = TRUE] /\ UNCHANGED <<apps, created>> /\ IsJob(job[t])
        /\ Apps!goto(t, "regLock")
    BY <1>1, OneThread DEF Apps!ServerArm
  <2> DEFINE j == [job[t] EXCEPT !.step = "regLock"]
  <2>2. job' = [job EXCEPT ![t] = j] /\ j.step = "regLock"
    BY <2>1 DEF Apps!goto, IsJob, JobFields
  <2> HIDE DEF j
  <2>3. SameApps
    BY <2>1, Armed DEF NamesInv, SameApps
  <2> QED BY <2>1, <2>2, <2>3, NamesStay
<1>2. ASSUME NEW x \in Apps!Ids, Apps!DropHandle(t, x) PROVE NamesInv'
  <2>1. app' = [app EXCEPT ![x].armed = FALSE] /\ UNCHANGED <<apps, created, job>>
    BY <1>2 DEF Apps!DropHandle
  <2>2. SameApps
    BY <2>1, Armed DEF NamesInv, SameApps
  <2>3. job' = [job EXCEPT ![t] = job[t]]
    BY <2>1 DEF ServicesInv, Shaped
  <2> QED BY <2>1, <2>2, <2>3, NamesStay
<1> QED BY <1>1, <1>2

\* The other steps go from step to step, and change no app but to mark it deleted.
LEMMA OtherNames ==
  ASSUME Apps!ConstantsOK, ServicesInv, NamesInv, NEW t \in Threads,
         \/ Apps!InitLock(t) \/ Apps!RegLock(t) \/ Apps!RegApps(t) \/ Apps!RegAdd(t) \/ Apps!RegServers(t) \/ Apps!RegEnds(t)
         \/ Apps!Attach(t) \/ Apps!Get(t) \/ Apps!Create(t) \/ Apps!Resolved(t) \/ Apps!Teardown(t) \/ Apps!register_version(t)
         \/ \E x \in Apps!Ids, c \in Services : Apps!get_service(t, x, c)
  PROVE  NamesInv'
<1>1. IsJob(job[t])
  BY OneThread
<1>2. apps' = apps /\ created' = created
  BY DEF Apps!InitLock, Apps!RegLock, Apps!RegApps, Apps!RegAdd, Apps!RegServers, Apps!RegEnds, Apps!Attach, Apps!Get, Apps!Create, Apps!Resolved, Apps!Teardown, Apps!register_version, Apps!get_service
<1>3. SameApps
  <2>1. CASE app' = app
    BY <2>1 DEF NamesInv, SameApps, Keeps
  <2>2. CASE app' = [app EXCEPT ![job[t].id].deleted = TRUE]
    <3> DEFINE x == job[t].id
               new == [app[x] EXCEPT !.deleted = TRUE]
    <3>1. app' = [app EXCEPT ![x] = new]
      BY <2>2
    <3>2. x \in Apps!Ids => /\ new = [f \in AppFields |-> new[f]]
                       /\ new.name = app[x].name /\ new.ready = app[x].ready /\ new.asked = app[x].asked
      BY DEF NamesInv, Fit, AppFields
    <3> HIDE DEF x, new
    <3> QED BY <3>1, <3>2, Replaced DEF NamesInv, SameApps
  <2> QED BY <2>1, <2>2 DEF Apps!InitLock, Apps!RegLock, Apps!RegApps, Apps!RegAdd, Apps!RegServers, Apps!RegEnds, Apps!Attach, Apps!Get, Apps!Create, Apps!Resolved, Apps!Teardown,
                            Apps!register_version, Apps!get_service
<1>4. ASSUME NEW j, job' = [job EXCEPT ![t] = j],
             \/ j.step \notin {"initLock", "initPublish", "initAttach", "serverBuild", "serverPublish"}
             \/ job[t].step = "initLock" /\ j.step = "initPublish" /\ j.id = job[t].id /\ j.name = job[t].name
      PROVE  NamesInv'
  BY <1>2, <1>3, <1>4, NamesStay
<1>5. CASE Apps!InitLock(t)
  <2> DEFINE j == [job[t] EXCEPT !.step = "initPublish"]
  <2>1. /\ job' = [job EXCEPT ![t] = j] /\ job[t].step = "initLock" /\ j.step = "initPublish"
        /\ j.id = job[t].id /\ j.name = job[t].name
    BY <1>1, <1>5 DEF Apps!InitLock, Apps!goto, Apps!at, IsJob, JobFields
  <2> HIDE DEF j
  <2> QED BY <1>4, <2>1
<1>6. ASSUME NEW step, Apps!goto(t, step), step \notin {"initLock", "initPublish", "initAttach", "serverBuild", "serverPublish"} PROVE NamesInv'
  <2> DEFINE j == [job[t] EXCEPT !.step = step]
  <2>1. job' = [job EXCEPT ![t] = j] /\ j.step = step
    BY <1>1, <1>6 DEF Apps!goto, IsJob, JobFields
  <2> HIDE DEF j
  <2> QED BY <1>4, <1>6, <2>1
<1>7. CASE Apps!returns(t)
  BY <1>4, <1>7, IdleJob DEF Apps!returns
<1>8. ASSUME NEW todo, job' = [job EXCEPT ![t].todo = todo], job[t].step \in {"regAdd", "teardown"} PROVE NamesInv'
  <2> DEFINE j == [job[t] EXCEPT !.todo = todo]
  <2>1. job' = [job EXCEPT ![t] = j] /\ j.step = job[t].step
    BY <1>1, <1>8 DEF IsJob, JobFields
  <2> HIDE DEF j
  <2> QED BY <1>4, <1>8, <2>1
<1>9. CASE Apps!RegApps(t)
  <2> DEFINE j == [job[t] EXCEPT !.step = "regAdd", !.todo = Apps!Live(apps)]
  <2>1. job' = [job EXCEPT ![t] = j] /\ j.step = "regAdd"
    BY <1>1, <1>9 DEF Apps!RegApps, IsJob, JobFields
  <2> HIDE DEF j
  <2> QED BY <1>4, <2>1
<1>10. CASE Apps!register_version(t) \/ \E x \in Apps!Ids, c \in Services : Apps!get_service(t, x, c)
  <2>1. PICK j : job' = [job EXCEPT ![t] = j] /\ j.step = "regLock"
    <3>1. ASSUME NEW j, Apps!begin(t, j), j.step = "regLock" PROVE \E k : job' = [job EXCEPT ![t] = k] /\ k.step = "regLock"
      BY <3>1 DEF Apps!begin, Apps!starts
    <3>2. \A x, c : [Apps!Idle EXCEPT !.step = "regLock", !.id = x, !.comp = c, !.then = "attach"].step = "regLock"
      BY DEF Apps!Idle
    <3>3. [Apps!Idle EXCEPT !.step = "regLock", !.comp = Version].step = "regLock"
      BY DEF Apps!Idle
    <3> QED BY <1>10, <3>1, <3>2, <3>3 DEF Apps!register_version, Apps!get_service
  <2> QED BY <1>4, <2>1
<1>11. CASE Apps!RegAdd(t) \/ Apps!RegServers(t) \/ Apps!Teardown(t)
  BY <1>7, <1>8, <1>11 DEF Apps!RegAdd, Apps!RegServers, Apps!Teardown, Apps!at
<1>12. CASE Apps!RegLock(t) \/ Apps!RegEnds(t) \/ Apps!Attach(t) \/ Apps!Get(t) \/ Apps!Create(t) \/ Apps!Resolved(t)
  BY <1>6, <1>7, <1>12 DEF Apps!RegLock, Apps!RegEnds, Apps!Attach, Apps!Get, Apps!Create, Apps!Resolved
<1> QED BY <1>5, <1>9, <1>10, <1>11, <1>12

\* No app is handed out at first.
LEMMA InitNames == Apps!ConstantsOK /\ Apps!Init => NamesInv
<1> SUFFICES ASSUME Apps!ConstantsOK, Apps!Init PROVE NamesInv
  OBVIOUS
<1>1. Apps!Unused = [f \in AppFields |-> Apps!Unused[f]] /\ Apps!Unused.ready = FALSE
  BY DEF Apps!Unused, Apps!NewApp, AppFields
<1> QED BY <1>1, IdleJob DEF Apps!Init, NamesInv, Fit, Makes, Apps!OnlyDeletedAppsAreGone

\* Every step keeps NamesInv, if no caller deletes an app twice.
LEMMA StepNames ==
  ASSUME Apps!ConstantsOK, DeleteOnce, ServicesInv, NamesInv, [Apps!Next]_Apps!vars PROVE NamesInv'
<1>1. ASSUME NEW t \in Threads, Apps!Begins(t) PROVE NamesInv'
  BY <1>1, InitializeNames, InitializeServerNames, DeleteNames, ArmNames, OtherNames DEF Apps!Begins
<1>2. ASSUME NEW t \in Threads, Apps!Continues(t) PROVE NamesInv'
  <2>1. ASSUME NEW x \in Apps!Ids, Apps!Release(t, x) PROVE NamesInv'
    BY <2>1, ServerDeletedNames DEF Apps!Release
  <2> QED BY <1>2, <2>1, OtherNames, InitPublishNames, InitAttachNames, ServerBuildNames, ServerPublishNames, ArmNames DEF Apps!Continues
<1>3. CASE UNCHANGED Apps!vars
  BY <1>3 DEF Apps!vars, NamesInv, Fit, Makes, Apps!OnlyDeletedAppsAreGone
<1> QED BY <1>1, <1>2, <1>3 DEF Apps!Next

\* An app handed out stays registered until its deletion is asked for, if no caller
\* deletes an app twice (delete_app, which removes by name).
THEOREM AppsAreKept == Apps!ConstantsOK /\ DeleteOnce => (Apps!Spec => []Apps!OnlyDeletedAppsAreGone)
<1> SUFFICES ASSUME Apps!ConstantsOK, DeleteOnce PROVE Apps!Spec => []Apps!OnlyDeletedAppsAreGone
  OBVIOUS
<1>1. ServicesInv /\ NamesInv /\ [Apps!Next]_Apps!vars => NamesInv'
  BY StepNames
<1>2. Apps!Init => NamesInv
  BY InitNames
<1>3. NamesInv => Apps!OnlyDeletedAppsAreGone
  BY DEF NamesInv
<1> QED BY <1>1, <1>2, <1>3, ServicesAreServed, PTL DEF Apps!Spec
=============================================================================
