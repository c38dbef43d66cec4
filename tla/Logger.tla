------------------------------- MODULE Logger -------------------------------
(***************************************************************************)
(* The loggers of the SDK (logger/mod.rs): a global level, a list of weak  *)
(* references to every logger made, and setters that sweep the list under  *)
(* its lock, dropping the entries of dead loggers on the way.  A logger is *)
(* made in two steps, it reads the global level and then enters the list;  *)
(* a message is offered to the user's callback and then to the handler,    *)
(* each against the level it reads at that moment.                         *)
(***************************************************************************)
EXTENDS Integers, Sequences, FiniteSets

CONSTANTS Threads,     \* threads of the program
          Loggers,     \* loggers it may make
          LevelNames,  \* what set_log_level is given
          Emitted,     \* levels of the messages logged
          Handlers,    \* what on_log is given: callbacks, each with the level of its options
          MaxCalls     \* bound: calls begun

VARIABLES level,      \* GLOBAL_LOG_LEVEL
          instances,  \* INSTANCES, in its order
          loggers,    \* LoggerInner of each, and whether it is alive
          lock,       \* the thread that holds INSTANCES, or None
          job,        \* the call each thread is in
          begun,      \* calls begun
          own,        \* history: loggers whose own setter was the last to set their level
          told,       \* history: loggers the last on_log must have reached
          last,       \* history: what the last on_log installed
          overlapped  \* history: what was set by calls that overlapped

loggerVars == <<level, instances, loggers, lock, job, begun, own, told, last, overlapped>>

\* LogLevel as its u8.
Debug == 0
Verbose == 1
Info == 2
Warn == 3
Error == 4
Silent == 5
Levels == Debug .. Silent
Invalid == -1
None == "none"
NoLogger == 0

ConstantsOK == None \notin Threads /\ Loggers \subseteq Nat \ {NoLogger} /\ Emitted \subseteq Levels /\ MaxCalls \in Nat

\* FromStr for LogLevel: case is folded, anything else is LogError::InvalidLogLevel.
from_str(name) ==
  CASE name = "debug" -> Debug [] name = "verbose" -> Verbose [] name = "info" -> Info
    [] name \in {"warn", "warning"} -> Warn [] name = "error" -> Error [] name = "silent" -> Silent
    [] OTHER -> Invalid

\* A callback with the level of its LogOptions, or Invalid for the logger's own.
NoUser == [callback |-> None, level |-> Invalid]
Users == Handlers \cup {NoUser}

Idle == [op |-> "idle", logger |-> NoLogger, level |-> Invalid, user |-> NoUser, i |-> 0, pc |-> "", during |-> {},
         called |-> FALSE, printed |-> FALSE]

TypeOK ==
  /\ level \in Levels /\ \A n \in 1 .. Len(instances) : instances[n] \in Loggers
  /\ loggers \in [Loggers -> [state : {"unborn", "untracked", "live", "dropped"}, level : Levels, user : Users,
                              handler : {"default", "custom"}]]
  /\ lock \in Threads \cup {None}
  /\ \A t \in Threads : lock = t <=> job[t].pc = "visit"
  /\ own \subseteq Loggers /\ told \subseteq Loggers /\ last \in Users /\ overlapped \subseteq {"levels", "users"} /\ begun \in 0 .. MaxCalls

Init ==
  /\ level = Info /\ instances = <<>> /\ lock = None
  /\ loggers = [l \in Loggers |-> [state |-> "unborn", level |-> Info, user |-> NoUser, handler |-> "default"]]
  /\ job = [t \in Threads |-> Idle]
  /\ begun = 0 /\ own = {} /\ told = {} /\ last = NoUser /\ overlapped = {}

Begins(t, call) ==
  /\ job[t].op = "idle" /\ begun < MaxCalls
  /\ begun' = begun + 1
  /\ job' = [job EXCEPT ![t] = call]

Returns(t) == job' = [job EXCEPT ![t] = Idle]

Alive(l) == loggers[l].state = "live"

\* A message being logged remembers every level its logger had meanwhile.
Noted(l, value) ==
  [t \in Threads |-> IF job[t].op = "emit" /\ job[t].logger = l
                     THEN [job[t] EXCEPT !.during = @ \cup {value}] ELSE job[t]]

-----------------------------------------------------------------------------
\* LoggerInner::new reads the global level.
New(t) == \E l \in Loggers :
  /\ loggers[l].state = "unborn" /\ \A k \in Loggers : k < l => loggers[k].state # "unborn"
  /\ Begins(t, [Idle EXCEPT !.op = "new", !.logger = l])
  /\ loggers' = [loggers EXCEPT ![l] = [state |-> "untracked", level |-> level, user |-> NoUser, handler |-> "default"]]
  /\ UNCHANGED <<level, instances, lock, own, told, last, overlapped>>

track_instance(t) ==
  /\ job[t].op = "new" /\ lock = None
  /\ instances' = Append(instances, job[t].logger)
  /\ loggers' = [loggers EXCEPT ![job[t].logger].state = "live"]
  /\ Returns(t)
  /\ UNCHANGED <<level, lock, begun, own, told, last, overlapped>>

\* The last handle goes; a message being logged holds one.
Drop(l) ==
  /\ Alive(l) /\ \A t \in Threads : job[t].logger # l
  /\ loggers' = [loggers EXCEPT ![l].state = "dropped"]
  /\ UNCHANGED <<level, instances, lock, job, begun, own, told, last, overlapped>>

\* Logger::set_log_level.
SetOwnLevel(t, l) == \E name \in LevelNames :
  /\ Alive(l) /\ job[t].op = "idle" /\ begun < MaxCalls /\ begun' = begun + 1
  /\ IF from_str(name) = Invalid THEN UNCHANGED <<loggers, job, own>>
     ELSE /\ loggers' = [loggers EXCEPT ![l].level = from_str(name)]
          /\ job' = Noted(l, from_str(name)) /\ own' = own \cup {l}
  /\ UNCHANGED <<level, instances, lock, told, last, overlapped>>

\* Logger::set_log_handler, reset_log_handler.
SetOwnHandler(t, l) == \E handler \in {"default", "custom"} :
  /\ Alive(l) /\ job[t].op = "idle" /\ begun < MaxCalls /\ begun' = begun + 1
  /\ loggers' = [loggers EXCEPT ![l].handler = handler]
  /\ UNCHANGED <<level, instances, lock, job, own, told, last, overlapped>>

\* Logger::set_user_log_handler, clear_user_log_handler.
SetOwnUser(t, l) == \E user \in Users :
  /\ Alive(l) /\ job[t].op = "idle" /\ begun < MaxCalls /\ begun' = begun + 1
  /\ loggers' = [loggers EXCEPT ![l].user = user] /\ told' = told \ {l}
  /\ UNCHANGED <<level, instances, lock, job, own, last, overlapped>>

-----------------------------------------------------------------------------
\* A call that sets every logger begins: alone, it puts right what calls that
\* overlapped left.
Overlaps(what, calls) ==
  overlapped' = IF \E t \in Threads : job[t].op \in calls THEN overlapped \cup {what} ELSE overlapped \ {what}

\* set_log_level stores the global level first.
SetLogLevel(t) == \E name \in LevelNames :
  IF from_str(name) = Invalid
  THEN /\ job[t].op = "idle" /\ begun < MaxCalls /\ begun' = begun + 1
       /\ UNCHANGED <<level, instances, loggers, lock, job, own, told, last, overlapped>>
  ELSE /\ Begins(t, [Idle EXCEPT !.op = "levels", !.level = from_str(name), !.pc = "lock"])
       /\ level' = from_str(name)
       /\ Overlaps("levels", {"new", "levels"})
       /\ UNCHANGED <<instances, loggers, lock, own, told, last>>

\* on_log: a callback with its options, or none.
SetUserLogHandler(t) == \E user \in Users :
  /\ Begins(t, [Idle EXCEPT !.op = "users", !.user = user, !.pc = "lock"])
  /\ Overlaps("users", {"users"})
  /\ last' = user /\ told' = {l \in Loggers : Alive(l)}
  /\ UNCHANGED <<level, instances, loggers, lock, own>>

SweepLocks(t) ==
  /\ job[t].pc = "lock" /\ lock = None
  /\ lock' = t
  /\ job' = [job EXCEPT ![t].pc = "visit", ![t].i = 1]
  /\ UNCHANGED <<level, instances, loggers, begun, own, told, last, overlapped>>

\* Vec::swap_remove.
swap_remove(s, i) == [n \in 1 .. Len(s) - 1 |-> IF n = i THEN s[Len(s)] ELSE s[n]]

\* Mutant of after_removal: the entry moved into the gap is skipped.
after_removal_Skips(i) == i + 1

\* with_instances looks at the same index again.
after_removal(i) == i

\* One turn of with_instances: the closure is run on a live logger, a dead one
\* leaves the list.
Visit(t) ==
  LET i == job[t].i
      l == instances[i]
      levels == job[t].op = "levels" IN
  /\ job[t].pc = "visit" /\ i <= Len(instances)
  /\ IF loggers[l].state = "dropped"
     THEN /\ instances' = swap_remove(instances, i)
          /\ job' = [job EXCEPT ![t].i = after_removal(i)]
          /\ UNCHANGED <<loggers, own>>
     ELSE /\ loggers' = IF levels THEN [loggers EXCEPT ![l].level = job[t].level] ELSE [loggers EXCEPT ![l].user = job[t].user]
          /\ job' = [(IF levels THEN Noted(l, job[t].level) ELSE job) EXCEPT ![t].i = i + 1]
          /\ own' = IF levels THEN own \ {l} ELSE own
          /\ UNCHANGED instances
  /\ UNCHANGED <<level, lock, begun, told, last, overlapped>>

SweepEnds(t) ==
  /\ job[t].pc = "visit" /\ job[t].i > Len(instances)
  /\ lock' = None /\ Returns(t)
  /\ UNCHANGED <<level, instances, loggers, begun, own, told, last, overlapped>>

-----------------------------------------------------------------------------
\* debug, log, info, warn, error: dispatch reads the user handler.
Emit(t, l) == \E m \in Emitted :
  /\ Alive(l)
  /\ Begins(t, [Idle EXCEPT !.op = "emit", !.logger = l, !.level = m, !.during = {loggers[l].level},
                            !.user = loggers[l].user, !.pc = "call"])
  /\ UNCHANGED <<level, instances, loggers, lock, own, told, last, overlapped>>

\* The closure of set_user_log_handler: its own threshold or the logger's level.
passes(user, m, l) == m >= (IF user.level = Invalid THEN loggers[l].level ELSE user.level)

EmitCalls(t) ==
  /\ job[t].op = "emit" /\ job[t].pc = "call"
  /\ job' = [job EXCEPT ![t].pc = "print", ![t].called = job[t].user # NoUser /\ passes(job[t].user, job[t].level, job[t].logger)]
  /\ UNCHANGED <<level, instances, loggers, lock, begun, own, told, last, overlapped>>

\* default_log_handler; a handler of the program's own is given every message.
default_log_handler(m, l) == m >= loggers[l].level /\ m # Silent

EmitPrints(t) ==
  LET l == job[t].logger IN
  /\ job[t].op = "emit" /\ job[t].pc = "print"
  /\ job' = IF loggers[l].handler = "default"
             THEN [job EXCEPT ![t].pc = "ended", ![t].printed = default_log_handler(job[t].level, l)]
             ELSE [job EXCEPT ![t].pc = "handed"]
  /\ UNCHANGED <<level, instances, loggers, lock, begun, own, told, last, overlapped>>

EmitReturns(t) ==
  /\ job[t].pc \in {"ended", "handed"} /\ Returns(t)
  /\ UNCHANGED <<level, instances, loggers, lock, begun, own, told, last, overlapped>>

Next ==
  \/ \E l \in Loggers : Drop(l)
  \/ \E t \in Threads :
       \/ New(t) \/ track_instance(t) \/ SetLogLevel(t) \/ SetUserLogHandler(t)
       \/ SweepLocks(t) \/ Visit(t) \/ SweepEnds(t) \/ EmitCalls(t) \/ EmitPrints(t) \/ EmitReturns(t)
       \/ \E l \in Loggers : SetOwnLevel(t, l) \/ SetOwnHandler(t, l) \/ SetOwnUser(t, l) \/ Emit(t, l)

Spec == Init /\ [][Next]_loggerVars

-----------------------------------------------------------------------------
Quiet(calls) == \A t \in Threads : job[t].op \notin calls

\* Between calls, unless calls that set the same thing overlapped, a logger whose
\* level was not set on itself has the global level, and every logger alive at the
\* last on_log has its callback, however entries of dead loggers moved others about
\* in the list during a sweep.
SettersReachEveryLogger ==
  \A l \in Loggers : Alive(l) =>
    /\ Quiet({"levels"}) /\ "levels" \notin overlapped /\ l \notin own => loggers[l].level = level
    /\ Quiet({"users"}) /\ "users" \notin overlapped /\ l \in told => loggers[l].user = last

\* The list names every live logger once; entries of others are of dead ones.
EveryLoggerIsListed ==
  /\ \A l \in Loggers : Alive(l) => Cardinality({n \in 1 .. Len(instances) : instances[n] = l}) = 1
  /\ \A n \in 1 .. Len(instances) : loggers[instances[n]].state \in {"live", "dropped"}

\* A message is printed, or called back without a threshold of its own, only by a
\* level its logger had while the message was being logged, and left out only by such
\* a level.
MessagesMeetALevel ==
  \A t \in Threads : job[t].op = "emit" =>
    /\ job[t].called /\ job[t].user.level = Invalid => \E m \in job[t].during : job[t].level >= m
    /\ job[t].pc = "ended" => \E m \in job[t].during : job[t].printed = (job[t].level >= m /\ job[t].level # Silent)
=============================================================================
