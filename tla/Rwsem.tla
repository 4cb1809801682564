-------------------------------- MODULE Rwsem --------------------------------
(***************************************************************************)
(* Reader/writer semaphores: lib/rwsem.c with the fast paths of            *)
(* include/asm-generic/rwsem.h, called through kernel/rwsem.c.             *)
(*                                                                         *)
(* The fast paths and the slow path meet in sem->count, which is changed   *)
(* without sem->wait_lock: every access to it is a step of its own.  The   *)
(* wait list is only touched under the wait_lock, so that taking the lock  *)
(* is part of the first step under it and releasing it part of the last.   *)
(* A waiter reads its waiter.task without any lock.                        *)
(***************************************************************************)
EXTENDS Integers, Sequences, FiniteSets, Functions

CONSTANTS
    Tasks,
    RWSEM_ACTIVE_MASK,  \* 2^k - 1: the low bits of count, active lockers
    Nobody              \* the wait_lock is free, no task is to be woken

ASSUME RwsemAssumption ==
    /\ RWSEM_ACTIVE_MASK \in Nat
    /\ IsFiniteSet(Tasks) /\ Cardinality(Tasks) < RWSEM_ACTIVE_MASK
    /\ Nobody \notin Tasks

VARIABLES
    count,        \* sem->count
    wait_list,    \* sem->wait_list: the tasks whose waiters are queued
    wait_lock,    \* the task that holds sem->wait_lock
    task,         \* is waiter.task of the waiter on t's stack still set?
    running,      \* is the task's state TASK_RUNNING?
    call,         \* the operation a task is in the slow path of
    pc,           \* where in it
    woken,        \* __rwsem_do_wake(): waiters granted and not yet told
    tsk,          \* __rwsem_do_wake(): the task to be woken next
    holds         \* what the task has acquired and not released

local == <<wait_lock, woken, tsk>>
vars == <<count, wait_list, task, running, call, pc, holds, local>>

RWSEM_ACTIVE_BIAS == 1
RWSEM_WAITING_BIAS == -RWSEM_ACTIVE_MASK - 1

(* Mutant: the sign of the waiting part is wrong. *)
WriteBiasPositive == RWSEM_ACTIVE_BIAS - RWSEM_WAITING_BIAS

RWSEM_ACTIVE_WRITE_BIAS == RWSEM_WAITING_BIAS + RWSEM_ACTIVE_BIAS

(* c & RWSEM_ACTIVE_MASK, in two's complement. *)
Active(c) == c % (RWSEM_ACTIVE_MASK + 1)

Init ==
    /\ count = 0
    /\ wait_list = <<>>
    /\ wait_lock = Nobody
    /\ task = [t \in Tasks |-> FALSE]
    /\ running = [t \in Tasks |-> TRUE]
    /\ call = [t \in Tasks |-> "none"]
    /\ pc = [t \in Tasks |-> "out"]
    /\ woken = <<>>
    /\ tsk = Nobody
    /\ holds = [t \in Tasks |-> "none"]

-----------------------------------------------------------------------------
(* The fast paths: one atomic operation on count, and the slow path when    *)
(* its result asks for it.                                                  *)

Idle(t) == pc[t] = "out" /\ holds[t] = "none"

(* The operation is complete and t now holds h. *)
Finish(t, h) ==
    /\ holds' = [holds EXCEPT ![t] = h]
    /\ UNCHANGED <<call, pc, running>>

(* rwsem_down_{read,write}_failed(): the task declares itself asleep, and   *)
(* the wait_lock comes next.                                                *)
DownFailed(t, op) ==
    /\ call' = [call EXCEPT ![t] = op]
    /\ pc' = [pc EXCEPT ![t] = "queue"]
    /\ running' = [running EXCEPT ![t] = FALSE]
    /\ UNCHANGED holds

(* rwsem_wake() or rwsem_downgrade_wake() is called; t now holds h. *)
CallWake(t, op, h) ==
    /\ holds' = [holds EXCEPT ![t] = h]
    /\ call' = [call EXCEPT ![t] = op]
    /\ pc' = [pc EXCEPT ![t] = "wake"]
    /\ UNCHANGED running

FastPath == UNCHANGED <<wait_list, task, local>>

down_read(t) ==
    /\ Idle(t)
    /\ count' = count + RWSEM_ACTIVE_BIAS
    /\ IF count' <= 0 THEN DownFailed(t, "read") ELSE Finish(t, "read")
    /\ FastPath

(* The cmpxchg loop: it ends with the exchange of a count that was not      *)
(* negative, or without effect.                                             *)
down_read_trylock(t) ==
    /\ Idle(t)
    /\ count >= 0
    /\ count' = count + RWSEM_ACTIVE_BIAS
    /\ Finish(t, "read")
    /\ FastPath

down_write(t) ==
    /\ Idle(t)
    /\ count' = count + RWSEM_ACTIVE_WRITE_BIAS
    /\ IF count' # RWSEM_ACTIVE_WRITE_BIAS
       THEN DownFailed(t, "write") ELSE Finish(t, "write")
    /\ FastPath

down_write_trylock(t) ==
    /\ Idle(t)
    /\ count = 0
    /\ count' = RWSEM_ACTIVE_WRITE_BIAS
    /\ Finish(t, "write")
    /\ FastPath

(* Mutant: off by one bias. *)
LastReaderOutLate(c) == c < RWSEM_WAITING_BIAS /\ Active(c) = 0

(* Does up_read() leave nobody active and somebody waiting? *)
LastReaderOut(c) == c < -1 /\ Active(c) = 0

up_read(t) ==
    /\ pc[t] = "out" /\ holds[t] = "read"
    /\ count' = count - RWSEM_ACTIVE_BIAS
    /\ IF LastReaderOut(count') THEN CallWake(t, "up", "none") ELSE Finish(t, "none")
    /\ FastPath

up_write(t) ==
    /\ pc[t] = "out" /\ holds[t] = "write"
    /\ count' = count - RWSEM_ACTIVE_WRITE_BIAS
    /\ IF count' < 0 THEN CallWake(t, "up", "none") ELSE Finish(t, "none")
    /\ FastPath

downgrade_write(t) ==
    /\ pc[t] = "out" /\ holds[t] = "write"
    /\ count' = count - RWSEM_WAITING_BIAS
    /\ IF count' < 0 THEN CallWake(t, "downgrade", "read") ELSE Finish(t, "read")
    /\ FastPath

-----------------------------------------------------------------------------
(* The slow path, under sem->wait_lock. *)

(* The wait_lock is released: a locker goes on to wait, others return. *)
Unlock(t) ==
    /\ wait_lock' = Nobody
    /\ pc' = [pc EXCEPT ![t] = IF call[t] \in {"read", "write"} THEN "test" ELSE "out"]
    /\ call' = [call EXCEPT ![t] = IF @ \in {"read", "write"} THEN @ ELSE "none"]

Keep(t, where) ==
    /\ wait_lock' = t
    /\ pc' = [pc EXCEPT ![t] = where]
    /\ UNCHANGED call

(* The start of __rwsem_do_wake() on the given list: what the head of the   *)
(* list and the wake type call for.                                         *)
do_wake(t, list, type) ==
    IF call[Head(list)] = "write"
    THEN IF type = "READ_OWNED" THEN Unlock(t) ELSE Keep(t, "try_write")
    ELSE Keep(t, IF type = "ANY" THEN "check_readers" ELSE "grant_readers")

(* Mutant: the newest waiter comes first. *)
list_add(list, t) == <<t>> \o list

list_add_tail(list, t) == Append(list, t)

Bias(op) == IF op = "read" THEN RWSEM_ACTIVE_BIAS ELSE RWSEM_ACTIVE_WRITE_BIAS

(* rwsem_down_failed_common() up to its wait: the waiter is queued, the     *)
(* bias of the fast path taken back, and the front of the queue woken if    *)
(* that leaves nobody active, or if a writer finds the lock read-owned and  *)
(* others queued before it.                                                 *)
rwsem_down_failed_common(t) ==
    LET adjustment == -Bias(call[t])
                      + (IF wait_list = <<>> THEN RWSEM_WAITING_BIAS ELSE 0)
    IN  /\ pc[t] = "queue"
        /\ wait_lock = Nobody
        /\ task' = [task EXCEPT ![t] = TRUE]
        /\ wait_list' = list_add_tail(wait_list, t)
        /\ count' = count + adjustment
        /\ IF count' = RWSEM_WAITING_BIAS
           THEN do_wake(t, wait_list', "NO_ACTIVE")
           ELSE IF count' > RWSEM_WAITING_BIAS /\ adjustment = -RWSEM_ACTIVE_WRITE_BIAS
           THEN do_wake(t, wait_list', "READ_OWNED")
           ELSE Unlock(t)
        /\ UNCHANGED <<running, holds, woken, tsk>>

(* rwsem_wake() and rwsem_downgrade_wake() up to their first access to the  *)
(* count.                                                                   *)
rwsem_wake(t) ==
    /\ pc[t] = "wake"
    /\ wait_lock = Nobody
    /\ IF wait_list = <<>> THEN Unlock(t)
       ELSE do_wake(t, wait_list, IF call[t] = "up" THEN "ANY" ELSE "READ_OWNED")
    /\ UNCHANGED <<count, wait_list, task, running, holds, woken, tsk>>

(* Mutant: the mark of the queue is left behind. *)
WriteAdjustmentPlain == RWSEM_ACTIVE_WRITE_BIAS

(* What grants the lock to the writer at the head of the list. *)
WriteAdjustment ==
    RWSEM_ACTIVE_WRITE_BIAS - (IF Len(wait_list) = 1 THEN RWSEM_WAITING_BIAS ELSE 0)

(* try_again_write: make the writer active, if nobody else is. *)
TryWrite(t) ==
    /\ pc[t] = "try_write"
    /\ count' = count + WriteAdjustment
    /\ IF Active(count) # 0
       THEN Keep(t, "undo_write") /\ UNCHANGED <<wait_list, woken>>
       ELSE /\ Keep(t, "tell")
            /\ woken' = <<Head(wait_list)>>
            /\ wait_list' = Tail(wait_list)
    /\ UNCHANGED <<task, running, holds, tsk>>

(* Mutant: the attempt is repeated in any case. *)
NeverActive(c) == FALSE

StillActive(c) == Active(c) # 0

(* undo_write: take the change back, and try again if the others left. *)
UndoWrite(t) ==
    /\ pc[t] = "undo_write"
    /\ count' = count - WriteAdjustment
    /\ IF StillActive(count') THEN Unlock(t) ELSE Keep(t, "try_write")
    /\ UNCHANGED <<wait_list, task, running, holds, woken, tsk>>

(* Mutant: off by one bias. *)
WriterGotInTwice == count < 2 * RWSEM_WAITING_BIAS

WriterGotIn == count < RWSEM_WAITING_BIAS

(* readers_only: has a writer been granted the lock meanwhile? *)
CheckReaders(t) ==
    /\ pc[t] = "check_readers"
    /\ IF WriterGotIn THEN Unlock(t) ELSE Keep(t, "grant_readers")
    /\ UNCHANGED <<count, wait_list, task, running, holds, woken, tsk>>

(* The number of readers at the front of the list. *)
FrontReaders ==
    CHOOSE n \in 0 .. Len(wait_list) :
       /\ \A i \in 1 .. n : call[wait_list[i]] = "read"
       /\ n = Len(wait_list) \/ call[wait_list[n + 1]] = "write"

(* All readers at the front are made active by one addition. *)
GrantReaders(t) ==
    /\ pc[t] = "grant_readers"
    /\ count' = count + FrontReaders * RWSEM_ACTIVE_BIAS
                - (IF FrontReaders = Len(wait_list) THEN RWSEM_WAITING_BIAS ELSE 0)
    /\ woken' = SubSeq(wait_list, 1, FrontReaders)
    /\ wait_list' = SubSeq(wait_list, FrontReaders + 1, Len(wait_list))
    /\ Keep(t, "tell")
    /\ UNCHANGED <<task, running, holds, tsk>>

(* One waiter is told: its list.next is read and its waiter.task cleared.   *)
(* From here on its stack frame may be gone.                                *)
TellWaiter(t) ==
    /\ pc[t] = "tell"
    /\ tsk' = Head(woken)
    /\ woken' = Tail(woken)
    /\ task' = [task EXCEPT ![Head(woken)] = FALSE]
    /\ Keep(t, "kick")
    /\ UNCHANGED <<count, wait_list, running, holds>>

(* Mutant: the task is left as it is. *)
wake_up_nobody(t) == running

wake_up_process(t) == [running EXCEPT ![t] = TRUE]

(* wake_up_process(tsk), and the next waiter or the end. *)
WakeUp(t) ==
    /\ pc[t] = "kick"
    /\ running' = wake_up_process(tsk)
    /\ tsk' = Nobody
    /\ IF woken = <<>> THEN Unlock(t) ELSE Keep(t, "tell")
    /\ UNCHANGED <<count, wait_list, task, holds, woken>>

(* The wait loop: the lock has been granted, or schedule(). *)
TestWaiter(t) ==
    /\ pc[t] = "test"
    /\ IF task[t]
       THEN /\ pc' = [pc EXCEPT ![t] = "schedule"]
            /\ UNCHANGED <<call, running, holds>>
       ELSE /\ pc' = [pc EXCEPT ![t] = "out"]
            /\ running' = [running EXCEPT ![t] = TRUE]
            /\ holds' = [holds EXCEPT ![t] = call[t]]
            /\ call' = [call EXCEPT ![t] = "none"]
    /\ UNCHANGED <<count, wait_list, task, local>>

(* schedule() returns once the task's state is TASK_RUNNING again; the      *)
(* state is set back before the next test.                                  *)
Schedule(t) ==
    /\ pc[t] = "schedule"
    /\ running[t]
    /\ running' = [running EXCEPT ![t] = FALSE]
    /\ pc' = [pc EXCEPT ![t] = "test"]
    /\ UNCHANGED <<count, wait_list, task, call, holds, local>>

(* Someone else wakes the sleeper. *)
spurious_wake_up(t) ==
    /\ pc[t] = "schedule"
    /\ ~running[t]
    /\ running' = [running EXCEPT ![t] = TRUE]
    /\ UNCHANGED <<count, wait_list, task, call, pc, holds, local>>

(* The steps of __rwsem_do_wake(). *)
do_wake_step(t) ==
    \/ TryWrite(t)
    \/ UndoWrite(t)
    \/ CheckReaders(t)
    \/ GrantReaders(t)
    \/ TellWaiter(t)
    \/ WakeUp(t)

Next ==
    \E t \in Tasks :
       \/ down_read(t) \/ down_read_trylock(t)
       \/ down_write(t) \/ down_write_trylock(t)
       \/ up_read(t) \/ up_write(t) \/ downgrade_write(t)
       \/ rwsem_down_failed_common(t) \/ rwsem_wake(t)
       \/ do_wake_step(t)
       \/ TestWaiter(t) \/ Schedule(t) \/ spurious_wake_up(t)

Spec == Init /\ [][Next]_vars

(* Runnable tasks run, spinlocks are handed out fairly (tickets), and who   *)
(* holds the semaphore releases it.                                         *)
Fairness ==
    \A t \in Tasks :
       /\ SF_vars(rwsem_down_failed_common(t) \/ rwsem_wake(t))
       /\ WF_vars(do_wake_step(t))
       /\ WF_vars(TestWaiter(t) \/ Schedule(t))
       /\ WF_vars(up_read(t) \/ up_write(t))

FairSpec == Spec /\ Fairness

-----------------------------------------------------------------------------
(* Properties *)

(* Where a task is inside __rwsem_do_wake(). *)
InDoWake == {"try_write", "undo_write", "check_readers", "grant_readers", "tell", "kick"}

(* The shape of struct rw_semaphore, its waiters and the tasks that wait;   *)
(* the count stays within what its two fields can hold.                     *)
TypeOK ==
    /\ count \in (Cardinality(Tasks) + 2) * RWSEM_WAITING_BIAS .. Cardinality(Tasks)
    /\ wait_list \in Seq(Tasks)
    /\ wait_lock \in Tasks \cup {Nobody}
    /\ task \in [Tasks -> BOOLEAN]
    /\ running \in [Tasks -> BOOLEAN]
    /\ call \in [Tasks -> {"none", "read", "write", "up", "downgrade"}]
    /\ pc \in [Tasks -> {"out", "queue", "wake", "test", "schedule"} \cup InDoWake]
    /\ woken \in Seq(Tasks)
    /\ tsk \in Tasks \cup {Nobody}
    /\ holds \in [Tasks -> {"none", "read", "write"}]

(* How a task owns the semaphore: what it holds, or what it has been        *)
(* granted while it still waits.                                            *)
own == [t \in Tasks |->
          IF /\ call[t] \in {"read", "write"}
             /\ pc[t] # "queue"
             /\ t \notin Range(wait_list)
          THEN call[t] ELSE holds[t]]

With(mode) == {t \in Tasks : own[t] = mode}
Queueing(op) == {t \in Tasks : pc[t] = "queue" /\ call[t] = op}

(* The count is at every moment the sum of what each task has contributed:  *)
(* owners, lockers on their way to the queue, a waker that is about to undo *)
(* its attempt, and one mark for a queue that is not empty.  All decisions  *)
(* of the fast paths rest on this sum.                                      *)
CountAccounts ==
    count = Cardinality(With("read") \cup Queueing("read")) * RWSEM_ACTIVE_BIAS
            + Cardinality(With("write") \cup Queueing("write")) * RWSEM_ACTIVE_WRITE_BIAS
            + (IF wait_list # <<>> THEN RWSEM_WAITING_BIAS ELSE 0)
            + (IF \E t \in Tasks : pc[t] = "undo_write" THEN WriteAdjustment ELSE 0)

(* A queue is never left to itself: while somebody waits, the lock is owned *)
(* or a task is on its way to look at the queue, whatever the fast paths    *)
(* did to the count in between.                                             *)
NoLostWakeup ==
    wait_list # <<>> =>
       \E t \in Tasks : own[t] # "none" \/ pc[t] \in {"queue", "wake"} \cup InDoWake

(* The waiter structures __rwsem_do_wake() still reads belong to tasks that *)
(* cannot have returned, so that their stack frames exist; and whoever is   *)
(* asleep has not been told, or is about to be woken.                       *)
WaitersAreLive ==
    /\ \A t \in Range(wait_list) \cup Range(woken) :
          task[t] /\ pc[t] \in {"test", "schedule"} \cup InDoWake
    /\ \A t \in Tasks :
          pc[t] = "schedule" /\ ~task[t] => running[t] \/ tsk = t

(* The semaphore implements the reader/writer lock: writers exclude         *)
(* everybody, and downgrade_write() lets no other writer in.                *)
Lock == INSTANCE RwLock

LockSpec == Lock!LockSpec

(* Nobody overtakes the queue: a task becomes an owner when nobody is       *)
(* queued, from the head of the queue, or as one of the readers in front of *)
(* the first writer; and nobody gets in front of a task already queued.     *)
NoOvertaking ==
    [][/\ \A t \in Tasks :
             own[t] = "none" /\ own'[t] # "none" /\ wait_list # <<>> =>
                \E n \in DOMAIN wait_list :
                   /\ wait_list[n] = t
                   /\ n = 1 \/ \A i \in 1 .. n : call[wait_list[i]] = "read"
       /\ \E n \in 0 .. Len(wait_list) :
             /\ \A i \in 1 .. n : own'[wait_list[i]] # "none"
             /\ \A i \in n + 1 .. Len(wait_list) :
                   i - n \in DOMAIN wait_list' /\ wait_list'[i - n] = wait_list[i]]_vars

(* Every down_read() and down_write() gets the semaphore, if holders        *)
(* release it.                                                              *)
EveryLockIsGranted == \A t \in Tasks : pc[t] = "queue" ~> holds[t] # "none"
=============================================================================
