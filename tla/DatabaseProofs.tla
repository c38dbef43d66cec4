--------------------------- MODULE DatabaseProofs ---------------------------
(***************************************************************************)
(* The Realtime Database: its transactions implement an atomic register,   *)
(* and the keys of push() grow.                                            *)
(***************************************************************************)
EXTENDS DatabaseTransaction, Sequences, NaturalsInduction, WellFoundedInduction, TLAPS

\* The generator of push ids, beside the transactions.
CONSTANTS Pushers, Digits, Base, MaxTime
VARIABLES clock, push, taken, late, disordered
Keys == INSTANCE PushId

-----------------------------------------------------------------------------
(***************************************************************************)
(* run_transaction implements the register, for any number of clients, any *)
(* number of attempts and any limit of the closure.                        *)
(***************************************************************************)
\* Before anything was read.
LEMMA InitInv == ASSUME ConstantsOK PROVE Init => IInv
  BY DEF ConstantsOK, Init, IInv, TypeOK, RequestsAreExact, At, Values, NoVersion

LEMMA ReadInv ==
  ASSUME ConstantsOK, IInv, NEW c \in Clients, ReadForUpdate(c) PROVE IInv'
  BY DEF ConstantsOK, IInv, TypeOK, RequestsAreExact, At, Values, NoVersion, ReadForUpdate, returns, version_tag

\* The closure leaves room for the value it adds one to.
LEMMA UpdateInv ==
  ASSUME ConstantsOK, IInv, NEW c \in Clients, Update(c) PROVE IInv'
<1>1. runs[c].attempts \in 0 .. MaxAttempts /\ runs[c].value \in Values /\ At(c, "update")
  BY DEF IInv, TypeOK, Update
<1>2. ASSUME NEW result \in {"aborted", "failed"}, returns(c, result) PROVE IInv'
  BY <1>1, <1>2 DEF ConstantsOK, IInv, TypeOK, RequestsAreExact, At, Values, NoVersion, Update, returns
<1>3. CASE runs[c].attempts = MaxAttempts
  <2>1. returns(c, "failed")
    BY <1>1, <1>3 DEF Update, ConstantsOK
  <2> QED BY <1>2, <2>1
<1>4. CASE runs[c].attempts < MaxAttempts /\ runs[c].value >= Limit
  <2>1. returns(c, "aborted")
    BY <1>1, <1>4 DEF Update, ConstantsOK
  <2> QED BY <1>2, <2>1
<1>5. CASE runs[c].attempts # MaxAttempts /\ ~(runs[c].attempts < MaxAttempts /\ runs[c].value >= Limit)
  BY <1>1, <1>5 DEF ConstantsOK, IInv, TypeOK, RequestsAreExact, At, Values, NoVersion, Update
<1> QED BY <1>3, <1>4, <1>5

LEMMA CompareAndSetInv ==
  ASSUME ConstantsOK, IInv, NEW c \in Clients, CompareAndSet(c) PROVE IInv'
  BY DEF ConstantsOK, IInv, TypeOK, RequestsAreExact, At, Values, NoVersion, CompareAndSet, returns, matches

LEMMA AnswerInv ==
  ASSUME ConstantsOK, IInv, NEW c \in Clients, Answer(c) PROVE IInv'
  BY DEF ConstantsOK, IInv, TypeOK, RequestsAreExact, At, Values, NoVersion, Answer, returns

LEMMA OthersInv == ASSUME ConstantsOK, IInv, OtherWrites PROVE IInv'
  BY DEF ConstantsOK, IInv, TypeOK, RequestsAreExact, At, Values, NoVersion, OtherWrites

LEMMA StepInv == ASSUME ConstantsOK, IInv, [Next]_txVars PROVE IInv'
<1>1. CASE OtherWrites
  BY <1>1, OthersInv
<1>2. CASE \E c \in Clients : ReadForUpdate(c) \/ Update(c) \/ CompareAndSet(c) \/ Answer(c)
  BY <1>2, ReadInv, UpdateInv, CompareAndSetInv, AnswerInv
<1>3. CASE UNCHANGED txVars
  BY <1>3 DEF IInv, TypeOK, RequestsAreExact, At, txVars
<1> QED BY <1>1, <1>2, <1>3 DEF Next

\* Before its request a transaction has had no effect, and the request in flight adds
\* one to the value whose version it carries (the loop of run_transaction).
THEOREM RequestsStayExact == ASSUME ConstantsOK PROVE Spec => []IInv
  BY InitInv, StepInv, PTL DEF Spec

-----------------------------------------------------------------------------
\* A write that the server takes is the register's Apply: the version it was made
\* from is the value there now.
LEMMA CompareAndSetRefines ==
  ASSUME ConstantsOK, IInv, NEW c \in Clients, CompareAndSet(c) PROVE [Register!Next]_(Register!regVars)
<1>1. runs[c].pc = "request" /\ outcome[c] = "running" /\ c \notin applied
  BY DEF IInv, RequestsAreExact, CompareAndSet, At, TypeOK
<1>2. CASE matches(runs[c].version) /\ stored' = runs[c].new /\ applied' = applied \cup {c} /\ UNCHANGED outcome
  <2>1. runs[c].version = runs[c].value /\ runs[c].value \in Values /\ runs[c].value < Limit /\ runs[c].new = runs[c].value + 1
    BY <1>1 DEF IInv, RequestsAreExact, At, TypeOK
  <2>2. stored = runs[c].value
    BY <1>2, <2>1 DEF ConstantsOK, matches, NoVersion, Values
  <2>3. Register!Apply(c)
    BY <1>1, <1>2, <2>1, <2>2 DEF Register!Apply
  <2> QED BY <2>3 DEF Register!Next
<1>3. CASE UNCHANGED <<stored, applied, outcome>>
  BY <1>3 DEF Register!regVars
<1>4. CASE returns(c, "failed") /\ UNCHANGED <<stored, applied>>
  <2>1. Register!Report(c, "failed")
    BY <1>1, <1>4 DEF Register!Report, returns
  <2> QED BY <2>1 DEF Register!Next, Register!Outcomes
<1> QED BY <1>2, <1>3, <1>4 DEF CompareAndSet

LEMMA ReportRefines ==
  ASSUME NEW c \in Clients, NEW result \in {"committed", "aborted", "failed"},
         outcome[c] = "running", result = "committed" => c \in applied, result = "aborted" => c \notin applied,
         returns(c, result), UNCHANGED <<stored, applied>>
  PROVE  Register!Next
<1>1. Register!Report(c, result)
  BY DEF Register!Report, returns
<1> QED BY <1>1 DEF Register!Next, Register!Outcomes

LEMMA StepRefines == ASSUME ConstantsOK, IInv, [Next]_txVars PROVE [Register!Next]_(Register!regVars)
<1>1. CASE OtherWrites
  <2>1. Register!Write(stored') /\ stored' \in 0 .. MaxValue
    BY <1>1 DEF OtherWrites, Register!Write, Values
  <2> QED BY <2>1 DEF Register!Next
<1>2. ASSUME NEW c \in Clients, ReadForUpdate(c) \/ Update(c) \/ CompareAndSet(c) \/ Answer(c)
      PROVE  [Register!Next]_(Register!regVars)
  <2>1. CASE ReadForUpdate(c)
    <3>1. outcome[c] = "running"
      BY <2>1 DEF IInv, RequestsAreExact, ReadForUpdate, At
    <3> QED BY <2>1, <3>1, ReportRefines DEF ReadForUpdate, Register!regVars
  <2>2. CASE Update(c)
    <3>1. outcome[c] = "running" /\ c \notin applied
      BY <2>2 DEF IInv, RequestsAreExact, Update, At
    <3>2. CASE runs[c].attempts = MaxAttempts
      BY <2>2, <3>1, <3>2, ReportRefines DEF Update
    <3>3. CASE runs[c].attempts < MaxAttempts /\ runs[c].value >= Limit
      <4>1. runs[c].attempts # MaxAttempts
        BY <3>3 DEF ConstantsOK, IInv, TypeOK
      <4> QED BY <2>2, <3>1, <3>3, <4>1, ReportRefines DEF Update
    <3>4. CASE runs[c].attempts # MaxAttempts /\ ~(runs[c].attempts < MaxAttempts /\ runs[c].value >= Limit)
      BY <2>2, <3>4 DEF Update, Register!regVars
    <3> QED BY <3>2, <3>3, <3>4
  <2>3. CASE CompareAndSet(c)
    BY <2>3, CompareAndSetRefines
  <2>4. CASE Answer(c)
    <3>1. outcome[c] = "running" /\ (runs[c].ok <=> c \in applied)
      BY <2>4 DEF IInv, RequestsAreExact, Answer, At
    <3> QED BY <2>4, <3>1, ReportRefines DEF Answer, Register!regVars
  <2> QED BY <1>2, <2>1, <2>2, <2>3, <2>4
<1>3. CASE UNCHANGED txVars
  BY <1>3 DEF txVars, Register!regVars
<1> QED BY <1>1, <1>2, <1>3 DEF Next

\* run_transaction implements the register: an update is applied to the value the
\* location has at that instant, at most once, `committed` is reported for nothing
\* else, and `aborted` only without effect.
THEOREM TransactionImplementsRegister == ASSUME ConstantsOK PROVE Spec => ImplementsRegister
<1>1. Init => Register!Init
  BY DEF Init, Register!Init
<1> QED BY <1>1, RequestsStayExact, StepRefines, PTL DEF Spec, ImplementsRegister, Register!Spec

-----------------------------------------------------------------------------
(***************************************************************************)
(* The keys of push() grow for every number of digits, every base and      *)
(* every clock: what TLC shows for three digits holds of the 12 digits of  *)
(* base 64 that push_id.rs uses.                                           *)
(***************************************************************************)
\* A set of positions has a last one: of the distances from the end, the least.
LEMMA LastPosition ==
  ASSUME NEW n \in Nat, NEW S \in SUBSET (1 .. n), S # {}
  PROVE  \E d \in S : \A e \in S : e <= d
<1> DEFINE T == {n - d : d \in S}
<1>1. \A d \in S : d \in 1 .. n /\ n - d \in Nat
  OBVIOUS
<1>2. T \subseteq Nat /\ T # {}
  BY <1>1
<1>3. PICK x \in T : \A y \in T : ~(<<y, x>> \in OpToRel(<, Nat))
  <2> HIDE DEF T
  <2> QED BY <1>2, NatLessThanWellFounded, WFMin
<1>4. \A y \in T : ~(y < x)
  <2> HIDE DEF T
  <2> QED BY <1>2, <1>3, Zenon DEF OpToRel
<1>5. PICK d \in S : x = n - d
  OBVIOUS
<1>6. ASSUME NEW e \in S PROVE e <= d
  <2>1. ~(n - e < n - d)
    BY <1>4, <1>5
  <2> QED BY <2>1, <1>1
<1> QED BY <1>6

\* While a digit can be raised, the raised digits are digits and come later in
\* the order of the characters (increment_rand).
LEMMA RaisedComesLater ==
  ASSUME Keys!ConstantsOK, NEW rand \in [1 .. Digits -> 0 .. Base - 1],
         ~ \A d \in 1 .. Digits : rand[d] = Base - 1
  PROVE  \E d \in 1 .. Digits :
            /\ rand[d] < Keys!increment_rand(rand)[d]
            /\ \A e \in 1 .. d - 1 : rand[e] = Keys!increment_rand(rand)[e]
<1> DEFINE room == {d \in 1 .. Digits : rand[d] < Base - 1}
           raised == CHOOSE d \in room : \A e \in room : e <= d
<1>1. room # {}
  BY DEF Keys!ConstantsOK
<1>2. raised \in room
  BY <1>1, LastPosition DEF Keys!ConstantsOK
<1>3. Keys!increment_rand(rand) =
        [d \in 1 .. Digits |-> IF d < raised THEN rand[d] ELSE IF d = raised THEN rand[d] + 1 ELSE 0]
  BY <1>1 DEF Keys!increment_rand
<1> HIDE DEF raised
<1>4. rand[raised] < Keys!increment_rand(rand)[raised]
  BY <1>2, <1>3 DEF Keys!ConstantsOK
<1>5. \A e \in 1 .. raised - 1 : rand[e] = Keys!increment_rand(rand)[e]
  BY <1>2, <1>3 DEF Keys!ConstantsOK
<1> QED BY <1>2, <1>4, <1>5

\* The digits stay digits, also when they start again.
LEMMA RaisedIsDigits ==
  ASSUME Keys!ConstantsOK, NEW rand \in [1 .. Digits -> 0 .. Base - 1]
  PROVE  Keys!increment_rand(rand) \in [1 .. Digits -> 0 .. Base - 1]
<1> DEFINE room == {d \in 1 .. Digits : rand[d] < Base - 1}
           raised == CHOOSE d \in room : \A e \in room : e <= d
<1>1. CASE room = {}
  BY <1>1 DEF Keys!increment_rand, Keys!ConstantsOK
<1>2. CASE room # {}
  <2>1. raised \in room
    BY <1>2, LastPosition DEF Keys!ConstantsOK
  <2>2. Keys!increment_rand(rand) =
          [d \in 1 .. Digits |-> IF d < raised THEN rand[d] ELSE IF d = raised THEN rand[d] + 1 ELSE 0]
    BY <1>2 DEF Keys!increment_rand
  <2> HIDE DEF raised
  <2> QED BY <2>1, <2>2 DEF Keys!ConstantsOK
<1> QED BY <1>1, <1>2

\* The key push() hands out is the one PushState remembers, and comes after the one
\* handed out before it (next_push_id).
LEMMA PushKeeps ==
  ASSUME Keys!ConstantsOK, Keys!IInv, NEW t \in Pushers, Keys!Push(t)
  PROVE  Keys!IInv'
<1> USE DEF Keys!ConstantsOK
<1> DEFINE now == taken[t]
           id(rand) == [time |-> now, rand |-> rand]
<1>1. PICK rand \in Keys!rand_digits(push, now) :
        push' = [time |-> now, rand |-> rand,
                 ids |-> <<[time |-> now, rand |-> rand]>> \o (IF push.ids = <<>> THEN <<>> ELSE <<Head(push.ids)>>)]
  BY DEF Keys!Push, Keys!next_push_id
<1>2. /\ push.rand \in [1 .. Digits -> 0 .. Base - 1]
      /\ push.time \in Nat /\ clock \in Nat /\ push.ids \in Seq(Keys!Ids)
      /\ taken \in [Pushers -> 0 .. MaxTime] /\ now \in Nat /\ now # 0
  BY DEF Keys!IInv, Keys!StateTyped, Keys!Push, Keys!None
<1>3. rand \in [1 .. Digits -> 0 .. Base - 1]
  BY <1>2, RaisedIsDigits DEF Keys!rand_digits
<1>4. id(rand) \in Keys!Ids
  BY <1>2, <1>3 DEF Keys!Ids
<1>5. /\ clock' = clock /\ taken' = [taken EXCEPT ![t] = 0]
      /\ late' = {u \in Pushers \ {t} : u \in late \/ (taken[u] # 0 /\ taken[u] < now)}
  BY DEF Keys!Push, Keys!None
<1>6. ~disordered' => ~disordered /\ t \notin late /\ ~(now = push.time /\ \A d \in 1 .. Digits : push.rand[d] = Base - 1)
  BY Zenon DEF Keys!Push, Keys!overflows
<1>7. push'.time = now /\ push'.rand = rand
  BY <1>1
<1>a. Keys!NotBehind'
  <2> SUFFICES ASSUME ~disordered'
               PROVE  /\ now <= clock
                      /\ \A u \in Pushers : taken'[u] # 0 => taken'[u] <= clock /\ (u \in late' \/ now <= taken'[u])
    BY <1>5, <1>7 DEF Keys!NotBehind, Keys!None
  <2>1. \A u \in Pushers : taken[u] \in Nat /\ (taken[u] # 0 => taken[u] <= clock)
    BY <1>2, <1>6 DEF Keys!IInv, Keys!NotBehind, Keys!None
  <2>2. ASSUME NEW u \in Pushers, taken'[u] # 0
        PROVE  taken'[u] <= clock /\ (u \in late' \/ now <= taken'[u])
    <3>1. u # t /\ taken'[u] = taken[u]
      BY <1>2, <1>5, <2>2
    <3> QED BY <1>2, <1>5, <2>1, <2>2, <3>1
  <2> QED BY <1>2, <2>1, <2>2
<1>b. taken' \in [Pushers -> 0 .. MaxTime] /\ late' \subseteq Pushers
  BY <1>2, <1>5
<1>8. CASE push.ids = <<>>
  <2>1. push' = [time |-> now, rand |-> rand, ids |-> <<id(rand)>>]
    BY <1>1, <1>8
  <2>2. Len(push'.ids) = 1 /\ push'.ids[1] = id(rand) /\ push'.ids \in Seq(Keys!Ids)
    BY <2>1, <1>4
  <2>3. Keys!StateTyped'
    BY <1>2, <1>3, <1>5, <1>b, <2>1, <2>2 DEF Keys!StateTyped, Keys!IInv
  <2>4. Keys!RemembersTheLast' /\ Keys!PushIdsIncrease'
    BY <1>7, <2>2 DEF Keys!RemembersTheLast, Keys!PushIdsIncrease
  <2> QED BY <1>a, <2>3, <2>4 DEF Keys!IInv
<1>9. CASE push.ids # <<>>
  <2>1. /\ push.ids[1] \in Keys!Ids /\ Head(push.ids) = push.ids[1]
        /\ push.ids[1] = [time |-> push.time, rand |-> push.rand]
    BY <1>2, <1>9 DEF Keys!IInv, Keys!RemembersTheLast
  <2>2. push' = [time |-> now, rand |-> rand, ids |-> <<id(rand), push.ids[1]>>]
    BY <1>1, <1>9, <2>1
  <2>3. Len(push'.ids) = 2 /\ push'.ids[1] = id(rand) /\ push'.ids[2] = push.ids[1] /\ push'.ids \in Seq(Keys!Ids)
    BY <2>1, <2>2, <1>4
  <2>4. Keys!StateTyped'
    BY <1>2, <1>3, <1>5, <1>b, <2>2, <2>3 DEF Keys!StateTyped, Keys!IInv
  <2>5. ASSUME ~disordered' PROVE Keys!Before([time |-> push.time, rand |-> push.rand], id(rand))
    <3>1. push.time <= now
      BY <1>2, <1>6, <2>5 DEF Keys!IInv, Keys!NotBehind, Keys!None
    <3>2. CASE push.time < now
      BY <3>2 DEF Keys!Before
    <3>3. CASE push.time = now
      <4>1. rand = Keys!increment_rand(push.rand)
        BY <3>3 DEF Keys!rand_digits
      <4>2. ~ \A d \in 1 .. Digits : push.rand[d] = Base - 1
        BY <1>6, <2>5, <3>3
      <4>3. \E d \in 1 .. Digits : push.rand[d] < rand[d] /\ \A e \in 1 .. d - 1 : push.rand[e] = rand[e]
        BY <4>1, <4>2, <1>2, RaisedComesLater
      <4> QED BY <3>3, <4>3 DEF Keys!Before
    <3> QED BY <1>2, <3>1, <3>2, <3>3
  <2>6. Keys!RemembersTheLast'
    BY <1>7, <2>3 DEF Keys!RemembersTheLast
  <2>7. Keys!PushIdsIncrease'
    BY <2>1, <2>3, <2>5 DEF Keys!PushIdsIncrease, Keys!Before
  <2> QED BY <1>a, <2>4, <2>6, <2>7 DEF Keys!IInv
<1> QED BY <1>8, <1>9

\* A thread that reads the clock is not late (current_time_millis).
LEMMA ReadKeeps ==
  ASSUME Keys!ConstantsOK, Keys!IInv, NEW t \in Pushers, Keys!ReadClock(t)
  PROVE  Keys!IInv'
<1>1. taken' = [taken EXCEPT ![t] = clock] /\ UNCHANGED <<clock, push, late, disordered>>
  BY DEF Keys!ReadClock
<1>2. clock \in 1 .. MaxTime /\ clock \in Nat /\ MaxTime \in Nat /\ taken \in [Pushers -> 0 .. MaxTime]
  BY DEF Keys!IInv, Keys!StateTyped, Keys!ConstantsOK
<1>3. taken' \in [Pushers -> 0 .. MaxTime] /\ \A u \in Pushers : taken'[u] = IF u = t THEN clock ELSE taken[u]
  BY <1>1, <1>2
<1>4. Keys!StateTyped'
  BY <1>1, <1>3 DEF Keys!IInv, Keys!StateTyped
<1>5. Keys!NotBehind'
  <2> SUFFICES ASSUME ~disordered
               PROVE  /\ push.time <= clock
                      /\ \A u \in Pushers : taken'[u] # 0 => taken'[u] <= clock /\ (u \in late \/ push.time <= taken'[u])
    BY <1>1 DEF Keys!NotBehind, Keys!None
  <2>1. /\ push.time <= clock
        /\ \A u \in Pushers : taken[u] # 0 => taken[u] <= clock /\ (u \in late \/ push.time <= taken[u])
    BY DEF Keys!IInv, Keys!NotBehind, Keys!None
  <2> QED BY <1>2, <1>3, <2>1
<1>6. Keys!RemembersTheLast' /\ Keys!PushIdsIncrease'
  BY <1>1 DEF Keys!IInv, Keys!RemembersTheLast, Keys!PushIdsIncrease, Keys!Before
<1> QED BY <1>4, <1>5, <1>6 DEF Keys!IInv

\* A clock that goes back is noted.
LEMMA ClockKeeps ==
  ASSUME Keys!ConstantsOK, Keys!IInv, Keys!Clock
  PROVE  Keys!IInv'
<1>1. clock' \in 1 .. MaxTime /\ push' = push /\ taken' = taken /\ late' = late
  BY DEF Keys!Clock
<1>2. ~disordered' => ~disordered /\ ~(clock' < clock)
  BY Zenon DEF Keys!Clock
<1>3. Keys!StateTyped'
  BY <1>1 DEF Keys!IInv, Keys!StateTyped
<1>4. Keys!NotBehind'
  <2> SUFFICES ASSUME ~disordered'
               PROVE  /\ push.time <= clock'
                      /\ \A t \in Pushers : taken[t] # 0 => taken[t] <= clock' /\ (t \in late \/ push.time <= taken[t])
    BY <1>1 DEF Keys!NotBehind, Keys!None
  <2>1. /\ push.time <= clock
        /\ \A t \in Pushers : taken[t] # 0 => taken[t] <= clock /\ (t \in late \/ push.time <= taken[t])
    BY <1>2 DEF Keys!IInv, Keys!NotBehind, Keys!None
  <2>2. /\ clock <= clock' /\ clock \in Nat /\ clock' \in Nat /\ push.time \in Nat
        /\ \A t \in Pushers : taken[t] \in Nat
    BY <1>1, <1>2 DEF Keys!IInv, Keys!StateTyped, Keys!ConstantsOK
  <2> QED BY <2>1, <2>2
<1>5. Keys!RemembersTheLast' /\ Keys!PushIdsIncrease'
  BY <1>1, <1>2 DEF Keys!IInv, Keys!RemembersTheLast, Keys!PushIdsIncrease, Keys!Before
<1> QED BY <1>3, <1>4, <1>5 DEF Keys!IInv

\* Whatever the clock does and in whichever order threads come, PushState holds the last key (next_push_id).
THEOREM PushStateIsTheLastKey == ASSUME Keys!ConstantsOK PROVE Keys!Spec => []Keys!IInv
<1>1. Keys!Init => Keys!IInv
  <2> SUFFICES ASSUME Keys!Init PROVE Keys!IInv
    OBVIOUS
  <2>1. push = [time |-> 0, rand |-> [d \in 1 .. Digits |-> 0], ids |-> <<>>]
        /\ clock = 1 /\ taken = [t \in Pushers |-> 0] /\ late = {}
    BY DEF Keys!Init, Keys!None
  <2>2. push.ids = <<>> /\ Len(push.ids) = 0 /\ push.ids \in Seq(Keys!Ids)
    BY <2>1
  <2>3. Keys!StateTyped
    BY <2>1, <2>2 DEF Keys!StateTyped, Keys!ConstantsOK
  <2> QED BY <2>1, <2>2, <2>3 DEF Keys!IInv, Keys!RemembersTheLast, Keys!NotBehind, Keys!PushIdsIncrease, Keys!None
<1>2. Keys!IInv /\ [Keys!Next]_(Keys!piVars) => Keys!IInv'
  <2> SUFFICES ASSUME Keys!IInv, [Keys!Next]_(Keys!piVars) PROVE Keys!IInv'
    OBVIOUS
  <2>1. CASE UNCHANGED Keys!piVars
    BY <2>1 DEF Keys!piVars, Keys!IInv, Keys!StateTyped, Keys!RemembersTheLast, Keys!NotBehind, Keys!PushIdsIncrease, Keys!Before
  <2> QED BY <2>1, PushKeeps, ReadKeeps, ClockKeeps DEF Keys!Next
<1> QED BY <1>1, <1>2, PTL DEF Keys!Spec

\* The keys push() makes, whichever threads make them, grow in the order of their
\* characters until the clock is set back, the random digits run out, or a thread takes
\* PUSH_STATE's lock with a timestamp older than one that went before it; for any number of
\* threads and of digits and every base.
THEOREM KeysGrow == ASSUME Keys!ConstantsOK PROVE Keys!Spec => [](Keys!TypeOK /\ Keys!PushIdsIncrease)
<1>1. Keys!IInv => Keys!TypeOK /\ Keys!PushIdsIncrease
  BY DEF Keys!IInv, Keys!StateTyped, Keys!TypeOK
<1> QED BY PushStateIsTheLastKey, <1>1, PTL
=============================================================================
