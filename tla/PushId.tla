------------------------------- MODULE PushId -------------------------------
(***************************************************************************)
(* The keys that push() makes (push_id.rs): a timestamp, and random digits *)
(* that are raised by one for the next key of the same millisecond.  A     *)
(* thread reads the clock before it waits for PUSH_STATE's lock.  The      *)
(* digits' number and base are small here.                                 *)
(***************************************************************************)
EXTENDS Naturals, Sequences

CONSTANTS Pushers,       \* threads that push
          Digits, Base,  \* the random part: how many digits, of which base
          MaxTime        \* bound: the clock in milliseconds

VARIABLES clock,       \* SystemTime
          push,        \* PushState, and the last two ids
          taken,       \* the timestamp each thread has read and not used, or none
          late,        \* history: threads whose timestamp another's later one went before
          disordered  \* history: the clock went back, the random part overflowed, or a late
                      \* thread made its key

piVars == <<clock, push, taken, late, disordered>>

None == 0

Init ==
  /\ clock = 1
  /\ push = [time |-> 0, rand |-> [d \in 1 .. Digits |-> 0], ids |-> <<>>]
  /\ taken = [t \in Pushers |-> None]
  /\ late = {}
  /\ disordered = FALSE

\* The clock may stand still, go on, or be set back.
Clock ==
  /\ clock' \in 1 .. MaxTime
  /\ disordered' = (disordered \/ clock' < clock)
  /\ UNCHANGED <<push, taken, late>>

\* The random digits of an id in the same millisecond: one more, with carry.
\* Without a digit left to raise they start again from the lowest.
increment_rand(rand) ==
  LET room == {d \in 1 .. Digits : rand[d] < Base - 1}
      raised == CHOOSE d \in room : \A e \in room : e <= d
  IN IF room = {} THEN [d \in 1 .. Digits |-> 0]
     ELSE [d \in 1 .. Digits |-> IF d < raised THEN rand[d] ELSE IF d = raised THEN rand[d] + 1 ELSE 0]

\* Mutant of rand_digits: drawn anew for every id.
rand_digits_Fresh(state, now) == [1 .. Digits -> 0 .. Base - 1]

rand_digits(state, now) ==
  IF now = state.time THEN {increment_rand(state.rand)} ELSE [1 .. Digits -> 0 .. Base - 1]

next_push_id(now) ==
  \E rand \in rand_digits(push, now) :
    push' = [time |-> now, rand |-> rand,
             ids |-> <<[time |-> now, rand |-> rand]>> \o (IF push.ids = <<>> THEN <<>> ELSE <<Head(push.ids)>>)]

overflows(now) == now = push.time /\ \A d \in 1 .. Digits : push.rand[d] = Base - 1

\* push_internal: current_time_millis, then, under PUSH_STATE's lock, the key.
ReadClock(t) ==
  /\ taken[t] = None
  /\ taken' = [taken EXCEPT ![t] = clock]
  /\ UNCHANGED <<clock, push, late, disordered>>

Push(t) ==
  /\ taken[t] # None
  /\ next_push_id(taken[t])
  /\ taken' = [taken EXCEPT ![t] = None]
  /\ late' = {u \in Pushers \ {t} : u \in late \/ (taken[u] # None /\ taken[u] < taken[t])}
  /\ disordered' = (disordered \/ overflows(taken[t]) \/ t \in late)
  /\ UNCHANGED clock

Next == Clock \/ \E t \in Pushers : ReadClock(t) \/ Push(t)

Spec == Init /\ [][Next]_piVars
-----------------------------------------------------------------------------
TypeOK ==
  /\ clock \in 1 .. MaxTime /\ push.rand \in [1 .. Digits -> 0 .. Base - 1] /\ Len(push.ids) <= 2
  /\ taken \in [Pushers -> 0 .. MaxTime] /\ late \subseteq Pushers

\* What the theorems below ask of the constants.
ConstantsOK == Digits \in Nat /\ Base \in Nat \ {0} /\ MaxTime \in Nat \ {0}

\* The order of two ids, character by character.
Before(a, b) ==
  \/ a.time < b.time
  \/ /\ a.time = b.time
     /\ \E d \in 1 .. Digits : a.rand[d] < b.rand[d] /\ \A e \in 1 .. d - 1 : a.rand[e] = b.rand[e]

\* Keys sort in the order they are made, also within a millisecond and whichever threads
\* make them (next_push_id), until the clock goes back, the random part is used up, or a
\* thread makes its key after another that has read the clock later.
PushIdsIncrease == ~disordered /\ Len(push.ids) = 2 => Before(push.ids[2], push.ids[1])

\* PushState remembers the last id, and neither the clock nor a timestamp read and not
\* overtaken is behind it: what PushIdsIncrease rests on.
Ids == [time : Nat, rand : [1 .. Digits -> 0 .. Base - 1]]

StateTyped ==
  /\ clock \in 1 .. MaxTime
  /\ push \in [time : Nat, rand : [1 .. Digits -> 0 .. Base - 1], ids : Seq(Ids)]
  /\ Len(push.ids) <= 2
  /\ taken \in [Pushers -> 0 .. MaxTime] /\ late \subseteq Pushers

RemembersTheLast == push.ids # <<>> => push.ids[1] = [time |-> push.time, rand |-> push.rand]

NotBehind ==
  ~disordered => /\ push.time <= clock
              /\ \A t \in Pushers : taken[t] # None => taken[t] <= clock /\ (t \in late \/ push.time <= taken[t])

IInv == StateTyped /\ RemembersTheLast /\ NotBehind /\ PushIdsIncrease
=============================================================================
