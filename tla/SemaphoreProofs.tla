--------------------------- MODULE SemaphoreProofs ---------------------------
(***************************************************************************)
(* Proofs about Semaphore, for every set of tasks and every initial count. *)
(***************************************************************************)
EXTENDS Semaphore, TLAPS

(* No entry occurs twice in a list. *)
NoDup(list) == \A i, j \in DOMAIN list : list[i] = list[j] => i = j

-----------------------------------------------------------------------------
(* The list primitives, for duplicate-free lists. *)

(* list_add_tail() adds one entry and keeps the list free of duplicates. *)
LEMMA AddTail ==
    ASSUME NEW S, NEW list \in Seq(S), NEW x \in S, NoDup(list), x \notin Range(list)
    PROVE  /\ Append(list, x) \in Seq(S)
           /\ Range(Append(list, x)) = Range(list) \cup {x}
           /\ NoDup(Append(list, x))
<1> DEFINE new == Append(list, x)
<1>1. /\ new \in Seq(S)
      /\ Len(new) = Len(list) + 1
      /\ \A i \in 1 .. Len(list) : new[i] = list[i]
      /\ new[Len(list) + 1] = x
      /\ DOMAIN new = 1 .. Len(list) + 1
      /\ DOMAIN list = 1 .. Len(list)
      /\ Len(list) \in Nat
  OBVIOUS
<1>2. Range(new) = Range(list) \cup {x}
  BY <1>1 DEF Range
<1>3. NoDup(new)
  BY <1>1 DEF NoDup, Range
<1> QED  BY <1>1, <1>2, <1>3

(* list_del() of the first entry removes that entry only. *)
LEMMA DelHead ==
    ASSUME NEW S, NEW list \in Seq(S), list # <<>>, NoDup(list)
    PROVE  /\ Tail(list) \in Seq(S)
           /\ Head(list) \in Range(list)
           /\ Head(list) \in S
           /\ Range(Tail(list)) = Range(list) \ {Head(list)}
           /\ NoDup(Tail(list))
<1> DEFINE new == Tail(list)
<1>1. /\ new \in Seq(S)
      /\ Head(list) = list[1]
      /\ 1 \in DOMAIN list
      /\ \A i \in 1 .. Len(list) - 1 : new[i] = list[i + 1]
      /\ DOMAIN new = 1 .. Len(list) - 1
      /\ DOMAIN list = 1 .. Len(list)
      /\ Len(list) \in Nat
  OBVIOUS
<1>2. Head(list) \in Range(list) /\ Head(list) \in S
  BY <1>1 DEF Range
<1>3. Range(new) = Range(list) \ {Head(list)}
  <2>1. ASSUME NEW i \in DOMAIN new  PROVE new[i] \in Range(list) \ {Head(list)}
    BY <1>1, <2>1 DEF Range, NoDup
  <2>2. ASSUME NEW i \in DOMAIN list, list[i] # Head(list)  PROVE list[i] \in Range(new)
    <3>1. i # 1 /\ i - 1 \in DOMAIN new /\ new[i - 1] = list[i]
      BY <1>1, <2>2
    <3> QED  BY <3>1 DEF Range
  <2> QED  BY <2>1, <2>2 DEF Range
<1>4. NoDup(new)
  BY <1>1 DEF NoDup
<1> QED  BY <1>1, <1>2, <1>3, <1>4

(* list_del() of an entry in the middle removes that entry only. *)
LEMMA DelEntry ==
    ASSUME NEW S, NEW list \in Seq(S), NEW k \in DOMAIN list, NoDup(list)
    PROVE  /\ list_del(list, k) \in Seq(S)
           /\ Range(list_del(list, k)) = Range(list) \ {list[k]}
           /\ NoDup(list_del(list, k))
<1> DEFINE new == list_del(list, k)
<1>1. /\ DOMAIN list = 1 .. Len(list)
      /\ Len(list) \in Nat
      /\ Len(list) # 0
      /\ k \in Nat
  OBVIOUS
<1>2. /\ DOMAIN new = 1 .. Len(list) - 1
      /\ \A i \in 1 .. Len(list) - 1 : new[i] = IF i < k THEN list[i] ELSE list[i + 1]
  BY DEF list_del
<1>3. new \in Seq(S)
  <2>1. \A i \in 1 .. Len(list) - 1 : list[i] \in S /\ list[i + 1] \in S
    BY <1>1
  <2> QED  BY <1>1, <2>1 DEF list_del
<1>4. Range(new) = Range(list) \ {list[k]}
  <2>1. ASSUME NEW i \in DOMAIN new  PROVE new[i] \in Range(list) \ {list[k]}
    BY <1>1, <1>2, <2>1 DEF Range, NoDup
  <2>2. ASSUME NEW i \in DOMAIN list, list[i] # list[k]  PROVE list[i] \in Range(new)
    <3>1. CASE i < k
      <4>1. i \in DOMAIN new /\ new[i] = list[i]
        BY <1>1, <1>2, <3>1
      <4> QED  BY <4>1 DEF Range
    <3>2. CASE i > k
      <4>1. i - 1 \in DOMAIN new /\ new[i - 1] = list[i]
        BY <1>1, <1>2, <3>2
      <4> QED  BY <4>1 DEF Range
    <3> QED  BY <1>1, <2>2, <3>1, <3>2
  <2> QED  BY <2>1, <2>2 DEF Range
<1>5. NoDup(new)
  <2> SUFFICES ASSUME NEW i \in DOMAIN new, NEW j \in DOMAIN new, new[i] = new[j]
               PROVE  i = j
    BY DEF NoDup
  <2> DEFINE source(n) == IF n < k THEN n ELSE n + 1
  <2>1. /\ source(i) \in DOMAIN list /\ new[i] = list[source(i)]
        /\ source(j) \in DOMAIN list /\ new[j] = list[source(j)]
    BY <1>1, <1>2
  <2>2. source(i) = source(j)
    BY <2>1 DEF NoDup
  <2> QED  BY <1>1, <1>2, <2>2
<1> QED  BY <1>3, <1>4, <1>5

-----------------------------------------------------------------------------
(* Type correctness. *)

(* Every variable keeps its type in every step of the semaphore code and of *)
(* its environment.                                                         *)
THEOREM TypeCorrect == Spec => []TypeOK
<1>1. Init => TypeOK
  BY SemaphoreAssumption DEF Init, TypeOK, Sleeps, Signals, Results
<1>2. TypeOK /\ [Next]_vars => TypeOK'
  <2> SUFFICES ASSUME TypeOK, [Next]_vars  PROVE TypeOK'
    OBVIOUS
  <2> USE DEF TypeOK, Sleeps, Signals, Results
  <2>1. ASSUME NEW t \in Tasks, Uncontended(t)  PROVE TypeOK'
    BY <2>1 DEF Uncontended
  <2>2. ASSUME NEW t \in Tasks, NEW m \in Sleeps, NEW noTime \in BOOLEAN,
               DownCommonEnter(t, m, noTime)
        PROVE  TypeOK'
    <3>1. CASE Fails("EINTR") \/ Fails("ETIME")
      BY <3>1 DEF Fails
    <3>2. CASE wait_list' = Append(wait_list, t) /\ ~noTime
      <4>1. wait_list' \in Seq(Tasks)
        BY <3>2
      <4> QED  BY <2>2, <3>1, <4>1 DEF DownCommonEnter
    <3> QED  BY <2>2, <3>1, <3>2 DEF DownCommonEnter
  <2>3. ASSUME NEW t \in Tasks, down_trylock(t)  PROVE TypeOK'
    BY <2>1, <2>3 DEF down_trylock, Fails
  <2>4. ASSUME NEW t \in Tasks, DownCommonResume(t)  PROVE TypeOK'
    <3>1. CASE Granted(t)
      BY <2>4, <3>1 DEF DownCommonResume, Granted, Return
    <3>2. CASE GivesUp(t)
      <4>1. PICK k \in DOMAIN wait_list : wait_list' = list_del(wait_list, k)
        BY <3>2 DEF GivesUp
      <4>2. wait_list' \in Seq(Tasks)
        <5>1. \A i \in 1 .. Len(wait_list) - 1 :
                 wait_list[i] \in Tasks /\ wait_list[i + 1] \in Tasks
          OBVIOUS
        <5>2. Len(wait_list) - 1 \in Nat
          BY <4>1
        <5> QED  BY <4>1, <5>1, <5>2 DEF list_del
      <4> QED  BY <2>4, <3>2, <4>2 DEF DownCommonResume, GivesUp, Return
    <3>3. CASE SleepsAgain(t)
      BY <2>4, <3>3 DEF DownCommonResume, SleepsAgain
    <3> QED  BY <2>4, <3>1, <3>2, <3>3 DEF DownCommonResume
  <2>5. ASSUME HandOver
        PROVE  /\ count' \in Nat /\ wait_list' \in Seq(Tasks)
               /\ up' \in [Tasks -> BOOLEAN] /\ running' \in [Tasks -> BOOLEAN]
    <3>1. CASE wait_list = <<>>
      BY <2>5, <3>1 DEF HandOver, __up
    <3>2. CASE wait_list # <<>>
      <4>1. Tail(wait_list) \in Seq(Tasks) /\ Head(wait_list) \in Tasks
        BY <3>2
      <4> QED  BY <2>5, <3>2, <4>1 DEF HandOver, __up
    <3> QED  BY <3>1, <3>2
  <2>6. ASSUME NEW t \in Tasks, up_by_holder(t)  PROVE TypeOK'
    BY <2>5, <2>6 DEF up_by_holder
  <2>7. CASE up_by_other
    BY <2>5, <2>7 DEF up_by_other
  <2>8. ASSUME NEW t \in Tasks, NEW s \in Signals, signal_wake_up(t, s)  PROVE TypeOK'
    BY <2>8 DEF signal_wake_up, signal_pending_state
  <2>9. ASSUME NEW t \in Tasks, process_timeout(t)  PROVE TypeOK'
    BY <2>9 DEF process_timeout
  <2>10. ASSUME NEW t \in Tasks, spurious_wake_up(t)  PROVE TypeOK'
    BY <2>10 DEF spurious_wake_up
  <2>11. ASSUME NEW t \in Tasks, do_signal(t)  PROVE TypeOK'
    BY <2>11 DEF do_signal
  <2>12. ASSUME NEW t \in Tasks, Call(t)  PROVE TypeOK'
    BY <2>1, <2>2, <2>3, <2>12
       DEF Call, down, down_interruptible, down_killable, down_timeout
  <2>13. CASE UNCHANGED vars
    BY <2>13 DEF vars
  <2> QED
    BY <2>4, <2>6, <2>7, <2>8, <2>9, <2>10, <2>11, <2>12, <2>13 DEF Next
<1> QED  BY <1>1, <1>2, PTL DEF Spec

-----------------------------------------------------------------------------
(* The wait list, the hand-over and the count. *)

(* The three parts of WaitListOK are inductive together: the list           *)
(* membership of NoDanglingWaiter needs GrantIsAwake where a sleeper leaves *)
(* the list, and the uniqueness of entries where one is deleted.            *)

(* up() takes the first waiter off the list, sets its flag and wakes it, or *)
(* counts if nobody waits.                                                  *)
LEMMA HandOverPreserves ==
    ASSUME TypeOK, WaitListOK, HandOver, UNCHANGED call
    PROVE  WaitListOK'
<1> USE DEF WaitListOK, NoDanglingWaiter, NoIdlePermit, GrantIsAwake, TypeOK
<1>1. CASE wait_list = <<>>
  BY <1>1 DEF HandOver, __up, Range
<1>2. CASE wait_list # <<>>
  <2> DEFINE first == Head(wait_list)
  <2>1. /\ first \in Range(wait_list)
        /\ first \in Tasks
        /\ Range(Tail(wait_list)) = Range(wait_list) \ {first}
        /\ NoDup(Tail(wait_list))
    BY <1>2, DelHead DEF NoDup
  <2>2. /\ wait_list' = Tail(wait_list)
        /\ up' = [up EXCEPT ![first] = TRUE]
        /\ running' = [running EXCEPT ![first] = TRUE]
        /\ UNCHANGED <<count, call>>
    BY <1>2 DEF HandOver, __up
  <2> HIDE DEF first
  <2>3. Range(wait_list') = Range(wait_list) \ {first} /\ NoDup(wait_list')
    BY <2>1, <2>2
  <2>4. (\A t \in Tasks : t \in Range(wait_list) <=> call[t] # "none" /\ ~up[t])'
    BY <2>1, <2>2, <2>3 DEF Range
  <2>5. NoIdlePermit'
    BY <1>2, <2>2
  <2>6. GrantIsAwake'
    BY <2>1, <2>2
  <2> QED  BY <2>3, <2>4, <2>5, <2>6 DEF NoDup
<1> QED  BY <1>1, <1>2

(* Steps that touch neither the list nor a waiter's flag or task state. *)
LEMMA QuietPreserves ==
    ASSUME WaitListOK, UNCHANGED <<wait_list, up, call, running>>,
           count' = count \/ wait_list = <<>>
    PROVE  WaitListOK'
BY DEF WaitListOK, NoDanglingWaiter, NoIdlePermit, GrantIsAwake, Range

(* Steps that only wake tasks up. *)
LEMMA WakePreserves ==
    ASSUME WaitListOK, UNCHANGED <<count, wait_list, up, call>>,
           \A t \in Tasks : running[t] => running'[t]
    PROVE  WaitListOK'
BY DEF WaitListOK, NoDanglingWaiter, NoIdlePermit, GrantIsAwake, Range

(* Every down*() preserves the invariant, whether it gets a permit, queues  *)
(* or fails at once.                                                        *)
LEMMA EnterPreserves ==
    ASSUME TypeOK, WaitListOK, NEW t \in Tasks, NEW m \in Sleeps, NEW noTime \in BOOLEAN,
           call[t] = "none", DownCommonEnter(t, m, noTime)
    PROVE  WaitListOK'
<1>1. CASE Fails("EINTR") \/ Fails("ETIME")
  BY <1>1, QuietPreserves DEF Fails
<1>2. CASE /\ wait_list' = Append(wait_list, t)
           /\ up' = [up EXCEPT ![t] = FALSE]
           /\ call' = [call EXCEPT ![t] = m]
           /\ running' = [running EXCEPT ![t] = FALSE]
           /\ count = 0 /\ UNCHANGED count
  <2> USE DEF WaitListOK, NoDanglingWaiter, NoIdlePermit, GrantIsAwake, TypeOK
  <2>1. t \notin Range(wait_list) /\ ~up[t] /\ m # "none"
    BY DEF Sleeps
  <2>2. Range(wait_list') = Range(wait_list) \cup {t} /\ NoDup(wait_list')
    <3>1. NoDup(wait_list) /\ wait_list \in Seq(Tasks)
      BY DEF NoDup
    <3> QED  BY <1>2, <2>1, <3>1, AddTail
  <2>3. (\A u \in Tasks : u \in Range(wait_list) <=> call[u] # "none" /\ ~up[u])'
    BY <1>2, <2>1, <2>2 DEF Range
  <2>4. GrantIsAwake'
    BY <1>2, <2>1
  <2> QED  BY <1>2, <2>2, <2>3, <2>4 DEF NoDup
<1> QED  BY <1>1, <1>2 DEF DownCommonEnter

(* So does a task that comes back from schedule_timeout(). *)
LEMMA ResumePreserves ==
    ASSUME TypeOK, WaitListOK, NEW t \in Tasks, DownCommonResume(t)
    PROVE  WaitListOK'
<1> USE DEF WaitListOK, NoDanglingWaiter, NoIdlePermit, GrantIsAwake, TypeOK
<1>1. call[t] # "none" /\ running[t] /\ UNCHANGED count
  BY DEF DownCommonResume
<1>2. CASE Granted(t)
  <2>1. /\ up[t] /\ up' = [up EXCEPT ![t] = FALSE]
        /\ call' = [call EXCEPT ![t] = "none"]
        /\ UNCHANGED <<wait_list, running>>
    BY <1>2 DEF Granted, Return
  <2> QED  BY <1>1, <2>1 DEF Range
<1>3. CASE GivesUp(t)
  <2>1. /\ ~up[t] /\ up' = [up EXCEPT ![t] = FALSE]
        /\ call' = [call EXCEPT ![t] = "none"]
        /\ UNCHANGED running
    BY <1>3 DEF GivesUp, Return
  <2>2. PICK k \in DOMAIN wait_list :
           wait_list[k] = t /\ wait_list' = list_del(wait_list, k)
    BY <1>3 DEF GivesUp
  <2>3. Range(wait_list') = Range(wait_list) \ {t} /\ NoDup(wait_list')
    BY <2>2, DelEntry DEF NoDup
  <2>4. (\A u \in Tasks : u \in Range(wait_list) <=> call[u] # "none" /\ ~up[u])'
    BY <2>1, <2>3 DEF Range
  <2>5. NoIdlePermit'
    BY <1>1, <2>2
  <2> QED  BY <2>1, <2>3, <2>4, <2>5 DEF NoDup
<1>4. CASE SleepsAgain(t)
  <2>1. ~up[t] /\ running' = [running EXCEPT ![t] = FALSE]
        /\ UNCHANGED <<wait_list, up, call>>
    BY <1>4 DEF SleepsAgain
  <2> QED  BY <1>1, <2>1 DEF Range
<1> QED  BY <1>2, <1>3, <1>4 DEF DownCommonResume

(* The invariant is inductive. *)
LEMMA StepPreserves == TypeOK /\ WaitListOK /\ [Next]_vars => WaitListOK'
<1> SUFFICES ASSUME TypeOK, WaitListOK, [Next]_vars  PROVE WaitListOK'
  OBVIOUS
<1>1. ASSUME NEW t \in Tasks, Uncontended(t)  PROVE WaitListOK'
  <2>1. wait_list = <<>>
    BY <1>1 DEF Uncontended, WaitListOK, NoIdlePermit
  <2> QED  BY <1>1, <2>1, QuietPreserves DEF Uncontended
<1>2. ASSUME NEW t \in Tasks, Call(t)  PROVE WaitListOK'
  <2>1. CASE down_trylock(t)
    BY <1>1, <2>1, QuietPreserves DEF down_trylock, Fails
  <2>2. ASSUME NEW m \in Sleeps, NEW noTime \in BOOLEAN, MayCall(t),
               Uncontended(t) \/ DownCommonEnter(t, m, noTime)
        PROVE  WaitListOK'
    BY <1>1, <2>2, EnterPreserves DEF MayCall
  <2> QED  BY <1>2, <2>1, <2>2
              DEF Call, down, down_interruptible, down_killable, down_timeout, Sleeps
<1>3. ASSUME NEW t \in Tasks, up_by_holder(t)  PROVE WaitListOK'
  BY <1>3, HandOverPreserves DEF up_by_holder
<1>4. CASE up_by_other
  BY <1>4, HandOverPreserves DEF up_by_other
<1>5. ASSUME NEW t \in Tasks, NEW s \in Signals, signal_wake_up(t, s)  PROVE WaitListOK'
  <2>1. \A u \in Tasks : running[u] => running'[u]
    BY <1>5 DEF signal_wake_up, TypeOK
  <2> QED  BY <1>5, <2>1, WakePreserves DEF signal_wake_up
<1>6. ASSUME NEW t \in Tasks, process_timeout(t) \/ spurious_wake_up(t)  PROVE WaitListOK'
  <2>1. \A u \in Tasks : running[u] => running'[u]
    BY <1>6 DEF process_timeout, spurious_wake_up, TypeOK
  <2> QED  BY <1>6, <2>1, WakePreserves DEF process_timeout, spurious_wake_up
<1>7. ASSUME NEW t \in Tasks, do_signal(t)  PROVE WaitListOK'
  BY <1>7, QuietPreserves DEF do_signal
<1>8. CASE UNCHANGED vars
  BY <1>8, QuietPreserves DEF vars
<1> QED
  BY <1>2, <1>3, <1>4, <1>5, <1>6, <1>7, <1>8, ResumePreserves DEF Next

(* Whatever the order of hand-over, signal and timeout: the list holds      *)
(* exactly the waiters still to be served, nobody waits while a permit is   *)
(* free, and whoever was handed the semaphore is awake.                     *)
THEOREM WaitListCorrect == Spec => []WaitListOK
<1>1. Init => WaitListOK
  BY DEF Init, WaitListOK, NoDanglingWaiter, NoIdlePermit, GrantIsAwake, Range
<1> QED  BY <1>1, TypeCorrect, StepPreserves, PTL DEF Spec

-----------------------------------------------------------------------------
(* The order of service and the permits. *)

(* The number of permits a task owns grows only by the grant of up() or by  *)
(* an uncontended down; the first serves the head of the list, the second   *)
(* finds the list empty.                                                    *)
THEOREM FirstComeFirstServed == Spec => FifoHandOver
<1>1. ASSUME TypeOK, TypeOK', WaitListOK, [Next]_vars, NEW t \in Tasks, owned'[t] > owned[t]
      PROVE  wait_list = <<>> \/ Head(wait_list) = t
  <2> USE <1>1
  <2> SUFFICES ASSUME wait_list # <<>>  PROVE Head(wait_list) = t
    OBVIOUS
  <2>0. count = 0 /\ Head(wait_list) \in Tasks
    BY DEF WaitListOK, NoIdlePermit, TypeOK
  <2>1. ASSUME NEW u \in Tasks, Call(u)  PROVE FALSE
    <3>1. UNCHANGED held /\ up'[t] = up[t]
      <4>1. call[u] = "none" => ~up[u]
        BY DEF WaitListOK, GrantIsAwake
      <4>2. ~Uncontended(u)
        BY <2>0 DEF Uncontended
      <4>3. ASSUME NEW m, NEW noTime, call[u] = "none", DownCommonEnter(u, m, noTime)
            PROVE  UNCHANGED held /\ up'[t] = up[t]
        BY <4>1, <4>3 DEF DownCommonEnter, Fails, TypeOK
      <4> QED
        BY <2>1, <4>2, <4>3 DEF Call, MayCall, down, down_interruptible, down_killable,
                                down_timeout, down_trylock, Fails
    <3> QED  BY <1>1, <3>1 DEF owned, TypeOK
  <2>2. ASSUME NEW u \in Tasks, DownCommonResume(u)  PROVE FALSE
    <3>1. CASE Granted(u)
      BY <1>1, <3>1 DEF Granted, Return, owned, TypeOK
    <3>2. CASE GivesUp(u) \/ SleepsAgain(u)
      <4>1. UNCHANGED held /\ up'[t] = up[t]
        BY <3>2 DEF GivesUp, SleepsAgain, Return, TypeOK
      <4> QED  BY <1>1, <4>1 DEF owned, TypeOK
    <3> QED  BY <2>2, <3>1, <3>2 DEF DownCommonResume
  <2>3. ASSUME HandOver, held'[t] <= held[t]  PROVE Head(wait_list) = t
    <3>1. up' = [up EXCEPT ![Head(wait_list)] = TRUE]
      BY <2>3 DEF HandOver, __up
    <3>2. owned[t] = held[t] + (IF up[t] THEN 1 ELSE 0)
      BY DEF owned
    <3>3. owned'[t] = held'[t] + (IF up'[t] THEN 1 ELSE 0)
      BY DEF owned
    <3>4. held[t] \in Nat /\ held'[t] \in Nat
      BY DEF TypeOK
    <3>5. up'[t] # up[t]
      BY <2>3, <3>2, <3>3, <3>4
    <3> QED  BY <3>1, <3>5 DEF TypeOK
  <2>4. ASSUME NEW u \in Tasks, up_by_holder(u)  PROVE Head(wait_list) = t
    <3>1. held'[t] <= held[t]
      BY <2>4 DEF up_by_holder, TypeOK
    <3> QED  BY <2>3, <2>4, <3>1 DEF up_by_holder
  <2>5. CASE up_by_other
    <3>1. held'[t] <= held[t]
      BY <2>5 DEF up_by_other, TypeOK
    <3> QED  BY <2>3, <2>5, <3>1 DEF up_by_other
  <2>6. CASE UNCHANGED <<held, up>>
    BY <1>1, <2>6 DEF owned, TypeOK
  <2> QED
    BY <1>1, <2>1, <2>2, <2>4, <2>5, <2>6
       DEF Next, vars, signal_wake_up, process_timeout, spurious_wake_up, do_signal
<1>2. TypeOK /\ TypeOK' /\ WaitListOK /\ [Next]_vars =>
        [\A t \in Tasks : owned'[t] > owned[t] => wait_list = <<>> \/ Head(wait_list) = t]_vars
  BY <1>1
<1> QED
  BY <1>2, TypeCorrect, WaitListCorrect, PTL DEF Spec, FifoHandOver

(* Every step of the semaphore is a step of the lock that only counts       *)
(* permits, or leaves the permits alone: none is lost when a hand-over      *)
(* races with a signal or a timeout, none is granted twice, and only an     *)
(* up() without a down() adds one.                                          *)
THEOREM ImplementsPermitLock == Spec => PermitSpec
<1> DEFINE PermitStep == Permit!LockNext \/ Permit!Create
                           \/ \E u \in Tasks : Permit!CreateFor(u)
<1>1. Init => Permit!LockInit
  BY DEF Init, Permit!LockInit, owned
<1>2. ASSUME TypeOK, TypeOK', WaitListOK, [Next]_vars
      PROVE  PermitStep \/ UNCHANGED <<count, owned, extra>>
  <2> USE <1>2
  <2>0. /\ \A t \in Tasks : held[t] \in Nat /\ up[t] \in BOOLEAN
        /\ \A t \in Tasks : owned[t] = held[t] + (IF up[t] THEN 1 ELSE 0)
        /\ owned = [t \in Tasks |-> owned[t]]
        /\ owned' = [t \in Tasks |-> held'[t] + (IF up'[t] THEN 1 ELSE 0)]
    BY DEF owned, TypeOK
  <2>1. ASSUME UNCHANGED <<count, held, up, extra>>  PROVE UNCHANGED <<count, owned, extra>>
    BY <2>1 DEF owned
  <2>2. ASSUME NEW t \in Tasks, Uncontended(t)  PROVE PermitStep
    <3>1. count > 0 /\ count' = count - 1 /\ UNCHANGED extra
      BY <2>2 DEF Uncontended
    <3>2. held' = [held EXCEPT ![t] = @ + 1] /\ up' = up
      BY <2>2 DEF Uncontended
    <3>3. owned' = [owned EXCEPT ![t] = @ + 1]
      <4>1. \A v \in Tasks : held'[v] = IF v = t THEN held[t] + 1 ELSE held[v]
        BY <3>2 DEF TypeOK
      <4>2. \A v \in Tasks : owned'[v] = IF v = t THEN owned[t] + 1 ELSE owned[v]
        BY <2>0, <3>2, <4>1
      <4> QED  BY <2>0, <4>2
    <3> QED  BY <3>1, <3>3 DEF Permit!Take, Permit!LockNext
  <2>3. ASSUME NEW t \in Tasks, NEW m, NEW noTime, call[t] = "none",
               DownCommonEnter(t, m, noTime)
        PROVE  UNCHANGED <<count, owned, extra>>
    <3>1. ~up[t]
      BY <2>3 DEF WaitListOK, GrantIsAwake
    <3>2. UNCHANGED <<count, held, extra>> /\ (up' = up \/ up' = [up EXCEPT ![t] = FALSE])
      BY <2>3 DEF DownCommonEnter, Fails
    <3>3. ASSUME NEW u \in Tasks  PROVE up'[u] = up[u]
      BY <3>1, <3>2 DEF TypeOK
    <3> QED  BY <2>0, <3>2, <3>3
  <2>4. ASSUME NEW t \in Tasks, Call(t)
        PROVE  PermitStep \/ UNCHANGED <<count, owned, extra>>
    <3>1. Fails("1") => UNCHANGED <<count, owned, extra>>
      BY <2>1 DEF Fails
    <3> HIDE DEF PermitStep
    <3> QED
      BY <2>2, <2>3, <2>4, <3>1 DEF Call, MayCall, down, down_interruptible,
                                    down_killable, down_timeout, down_trylock
  <2>5. ASSUME NEW t \in Tasks, DownCommonResume(t)  PROVE UNCHANGED <<count, owned, extra>>
    <3>0. UNCHANGED <<count, extra>>
      BY <2>5 DEF DownCommonResume
    <3>1. CASE Granted(t)
      <4>1. up[t] /\ held' = [held EXCEPT ![t] = @ + 1] /\ up' = [up EXCEPT ![t] = FALSE]
        BY <3>1 DEF Granted, Return
      <4>2. \A u \in Tasks : held'[u] + (IF up'[u] THEN 1 ELSE 0) = owned[u]
        BY <2>0, <4>1 DEF TypeOK
      <4> QED  BY <2>0, <3>0, <4>2
    <3>2. CASE GivesUp(t) \/ SleepsAgain(t)
      <4>1. UNCHANGED <<held, up>>
        BY <3>2 DEF GivesUp, SleepsAgain, Return, TypeOK
      <4> QED  BY <2>1, <3>0, <4>1
    <3> QED  BY <2>5, <3>1, <3>2 DEF DownCommonResume
  <2>6. ASSUME NEW t \in Tasks, up_by_holder(t)  PROVE PermitStep
    <3>0. /\ call[t] = "none" /\ held[t] > 0 /\ HandOver
          /\ held' = [held EXCEPT ![t] = @ - 1] /\ UNCHANGED extra
      BY <2>6 DEF up_by_holder
    <3>1. ~up[t]
      BY <3>0 DEF WaitListOK, GrantIsAwake
    <3>2. CASE wait_list = <<>>
      <4>1. count' = count + 1 /\ up' = up
        BY <3>0, <3>2 DEF HandOver, __up
      <4>2. owned' = [owned EXCEPT ![t] = @ - 1]
        <5>1. owned[t] = held[t] /\ held'[t] = held[t] - 1
          BY <2>0, <3>0, <3>1 DEF TypeOK
        <5>2. \A v \in Tasks : v # t => held'[v] = held[v]
          BY <3>0 DEF TypeOK
        <5>3. \A v \in Tasks : owned'[v] = IF v = t THEN owned[t] - 1 ELSE owned[v]
          BY <2>0, <3>1, <4>1, <5>1, <5>2
        <5> QED  BY <2>0, <5>3
      <4>3. owned[t] > 0
        BY <2>0, <3>0, <3>1
      <4> QED  BY <3>0, <4>1, <4>2, <4>3 DEF Permit!Give, Permit!LockNext
    <3>3. CASE wait_list # <<>>
      <4> DEFINE u == Head(wait_list)
      <4>1. u \in Tasks /\ u \in Range(wait_list)
        BY <3>3 DEF TypeOK, Range
      <4>2. ~up[u] /\ u # t
        BY <3>0, <4>1 DEF WaitListOK, NoDanglingWaiter
      <4>3. count' = count /\ up' = [up EXCEPT ![u] = TRUE]
        BY <3>0, <3>3 DEF HandOver, __up
      <4> HIDE DEF u
      <4>4. owned' = [owned EXCEPT ![t] = @ - 1, ![u] = @ + 1]
        <5>1. /\ owned[t] = held[t] /\ held'[t] = held[t] - 1 /\ ~up'[t]
              /\ owned[u] = held[u] /\ held'[u] = held[u] /\ up'[u]
          BY <2>0, <3>0, <3>1, <4>1, <4>2, <4>3 DEF TypeOK
        <5>2. \A v \in Tasks : v # t /\ v # u => held'[v] = held[v] /\ up'[v] = up[v]
          BY <3>0, <4>3 DEF TypeOK
        <5>3. \A v \in Tasks : owned'[v] = IF v = t THEN owned[t] - 1
                                          ELSE IF v = u THEN owned[u] + 1 ELSE owned[v]
          BY <2>0, <5>1, <5>2
        <5> QED  BY <2>0, <4>1, <4>2, <5>3
      <4>5. owned[t] > 0
        BY <2>0, <3>0, <3>1
      <4> QED  BY <3>0, <4>1, <4>2, <4>3, <4>4, <4>5 DEF Permit!Pass, Permit!LockNext
    <3> QED  BY <3>2, <3>3
  <2>7. ASSUME up_by_other  PROVE PermitStep
    <3>0. HandOver /\ held' = held /\ extra' = extra + 1
      BY <2>7 DEF up_by_other
    <3>1. CASE wait_list = <<>>
      <4>1. count' = count + 1 /\ up' = up
        BY <3>0, <3>1 DEF HandOver, __up
      <4> QED  BY <3>0, <4>1 DEF owned, Permit!Create
    <3>2. CASE wait_list # <<>>
      <4> DEFINE u == Head(wait_list)
      <4>1. u \in Tasks /\ u \in Range(wait_list)
        BY <3>2 DEF TypeOK, Range
      <4>2. ~up[u]
        BY <4>1 DEF WaitListOK, NoDanglingWaiter
      <4>3. count' = count /\ up' = [up EXCEPT ![u] = TRUE]
        BY <3>0, <3>2 DEF HandOver, __up
      <4> HIDE DEF u
      <4>4. owned' = [owned EXCEPT ![u] = @ + 1]
        <5>1. owned[u] = held[u] /\ held'[u] = held[u] /\ up'[u]
          BY <2>0, <3>0, <4>1, <4>2, <4>3 DEF TypeOK
        <5>2. \A v \in Tasks : v # u => held'[v] = held[v] /\ up'[v] = up[v]
          BY <3>0, <4>3 DEF TypeOK
        <5>3. \A v \in Tasks : owned'[v] = IF v = u THEN owned[u] + 1 ELSE owned[v]
          BY <2>0, <5>1, <5>2
        <5> QED  BY <2>0, <5>3
      <4> QED  BY <3>0, <4>1, <4>3, <4>4 DEF Permit!CreateFor
    <3> QED  BY <3>1, <3>2
  <2> HIDE DEF PermitStep
  <2> QED
    BY <2>1, <2>4, <2>5, <2>6, <2>7
       DEF Next, vars, signal_wake_up, process_timeout, spurious_wake_up, do_signal
<1>3. TypeOK /\ TypeOK' /\ WaitListOK /\ [Next]_vars => [PermitStep]_<<count, owned, extra>>
  BY <1>2
<1> QED
  BY <1>1, <1>3, TypeCorrect, WaitListCorrect, PTL
     DEF Spec, PermitSpec, Permit!SharedSpec, Permit!lockVars
=============================================================================
