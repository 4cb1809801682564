------------------------------ MODULE Semaphore ------------------------------
(***************************************************************************)
(* Counting semaphores: kernel/semaphore.c.                                *)
(*                                                                         *)
(* Everything the functions do between raw_spin_lock_irqsave(&sem->lock)   *)
(* and the matching unlock is one step: count, wait_list and the waiters'  *)
(* up flags are only touched under that lock.  __down_common() gives the   *)
(* lock up around schedule_timeout(), so a contended down is one step up   *)
(* to the sleep and one step for each time the task gets to run again.     *)
(***************************************************************************)
EXTENDS Naturals, Sequences

CONSTANTS
    Tasks,        \* tasks that call down*() and up()
    InitCount,    \* sema_init(sem, val)
    MaxHeld,      \* bound: permits one task holds at a time
    MaxExtra      \* bound: up() calls by contexts that hold no permit

ASSUME SemaphoreAssumption ==
    /\ InitCount \in Nat
    /\ MaxHeld \in Nat \ {0}
    /\ MaxExtra \in Nat

VARIABLES
    count,        \* sem->count
    wait_list,    \* sem->wait_list, first waiter first
    up,           \* waiter.up of the semaphore_waiter on each task's stack
    call,         \* the down*() a task sleeps in, "none" outside them
    running,      \* is the task's state TASK_RUNNING?
    expired,      \* has the timeout of that call run out (timeout <= 0)?
    sig,          \* signals pending for the task
    ret,          \* what the call that ended in the last step returned
    held,         \* permits the task has acquired and not yet released
    extra         \* permits added by releases that had no acquisition

vars == <<count, wait_list, up, call, running, expired, sig, ret, held, extra>>

Sleeps == {"down", "down_interruptible", "down_killable", "down_timeout"}
Signals == {"none", "signal", "fatal"}
Results == {"none", "0", "1", "EINTR", "ETIME"}

Init ==
    /\ count = InitCount
    /\ wait_list = <<>>
    /\ up = [t \in Tasks |-> FALSE]
    /\ call = [t \in Tasks |-> "none"]
    /\ running = [t \in Tasks |-> TRUE]
    /\ expired = [t \in Tasks |-> FALSE]
    /\ sig = [t \in Tasks |-> "none"]
    /\ ret = "none"
    /\ held = [t \in Tasks |-> 0]
    /\ extra = 0

-----------------------------------------------------------------------------

(* Would a signal end a sleep of this kind?  TASK_INTERRUPTIBLE takes any   *)
(* signal, TASK_KILLABLE a fatal one, TASK_UNINTERRUPTIBLE none.            *)
signal_pending_state(m, s) ==
    \/ m = "down_interruptible" /\ s # "none"
    \/ m = "down_killable" /\ s = "fatal"

(* list_del() of the k-th entry. *)
list_del(list, k) ==
    [i \in 1 .. Len(list) - 1 |-> IF i < k THEN list[i] ELSE list[i + 1]]

(* The uncontended path shared by the down*() functions. *)
Uncontended(t) ==
    /\ count > 0
    /\ count' = count - 1
    /\ held' = [held EXCEPT ![t] = @ + 1]
    /\ ret' = "0"
    /\ UNCHANGED <<wait_list, up, call, running, expired, sig, extra>>

(* A call that ends without the semaphore and leaves no trace of itself. *)
Fails(result) ==
    /\ ret' = result
    /\ UNCHANGED <<count, wait_list, up, call, running, expired, sig, held, extra>>

(* __down_common() up to its first sleep.  With a signal pending, or no     *)
(* time left, the waiter is queued and taken off again in the same hold of  *)
(* the lock, so that only the result shows.                                 *)
DownCommonEnter(t, m, noTime) ==
    /\ count = 0
    /\ \/ signal_pending_state(m, sig[t]) /\ Fails("EINTR")
       \/ ~signal_pending_state(m, sig[t]) /\ noTime /\ Fails("ETIME")
       \/ /\ ~signal_pending_state(m, sig[t])
          /\ ~noTime
          /\ wait_list' = Append(wait_list, t)
          /\ up' = [up EXCEPT ![t] = FALSE]
          /\ call' = [call EXCEPT ![t] = m]
          /\ running' = [running EXCEPT ![t] = FALSE]
          /\ ret' = "none"
          /\ UNCHANGED <<count, expired, sig, held, extra>>

MayCall(t) == call[t] = "none" /\ held[t] < MaxHeld

down(t) ==
    MayCall(t) /\ (Uncontended(t) \/ DownCommonEnter(t, "down", FALSE))

down_interruptible(t) ==
    MayCall(t) /\ (Uncontended(t) \/ DownCommonEnter(t, "down_interruptible", FALSE))

down_killable(t) ==
    MayCall(t) /\ (Uncontended(t) \/ DownCommonEnter(t, "down_killable", FALSE))

(* noTime: the caller passed jiffies <= 0. *)
down_timeout(t, noTime) ==
    MayCall(t) /\ (Uncontended(t) \/ DownCommonEnter(t, "down_timeout", noTime))

down_trylock(t) ==
    MayCall(t) /\ (Uncontended(t) \/ (count = 0 /\ Fails("1")))

(* __down_common() after schedule_timeout(): the lock is taken again and    *)
(* the waiter finds out, in this order, whether it was handed the           *)
(* semaphore, was interrupted, or ran out of time; else it sleeps again.    *)
(* The waiter structure goes out of scope with the call.                    *)
Return(t, result) ==
    /\ call' = [call EXCEPT ![t] = "none"]
    /\ up' = [up EXCEPT ![t] = FALSE]
    /\ expired' = [expired EXCEPT ![t] = FALSE]
    /\ ret' = result
    /\ UNCHANGED running

(* Mutant: a hand-over is not noticed while a signal or timeout is. *)
GrantedUndisturbed(t) ==
    /\ up[t]
    /\ ~signal_pending_state(call[t], sig[t])
    /\ ~expired[t]
    /\ held' = [held EXCEPT ![t] = @ + 1]
    /\ Return(t, "0")
    /\ UNCHANGED wait_list

Granted(t) ==
    /\ up[t]
    /\ held' = [held EXCEPT ![t] = @ + 1]
    /\ Return(t, "0")
    /\ UNCHANGED wait_list

(* Mutant: the waiter is left on the list. *)
GivesUpQueued(t) ==
    /\ ~up[t]
    /\ signal_pending_state(call[t], sig[t]) \/ expired[t]
    /\ Return(t, "EINTR")
    /\ UNCHANGED <<wait_list, held>>

GivesUp(t) ==
    /\ ~up[t]
    /\ signal_pending_state(call[t], sig[t]) \/ expired[t]
    /\ \E k \in DOMAIN wait_list :
          wait_list[k] = t /\ wait_list' = list_del(wait_list, k)
    /\ Return(t, IF signal_pending_state(call[t], sig[t]) THEN "EINTR" ELSE "ETIME")
    /\ UNCHANGED held

SleepsAgain(t) ==
    /\ ~up[t]
    /\ ~signal_pending_state(call[t], sig[t])
    /\ ~expired[t]
    /\ running' = [running EXCEPT ![t] = FALSE]
    /\ ret' = "none"
    /\ UNCHANGED <<wait_list, up, call, expired, held>>

DownCommonResume(t) ==
    /\ call[t] # "none"
    /\ running[t]
    /\ Granted(t) \/ GivesUp(t) \/ SleepsAgain(t)
    /\ UNCHANGED <<count, sig, extra>>

(* Mutant: the last waiter is served. *)
HandOverToLast ==
    LET last == Len(wait_list) IN
    IF wait_list = <<>>
    THEN count' = count + 1 /\ UNCHANGED <<wait_list, up, running>>
    ELSE /\ wait_list' = list_del(wait_list, last)
         /\ up' = [up EXCEPT ![wait_list[last]] = TRUE]
         /\ running' = [running EXCEPT ![wait_list[last]] = TRUE]
         /\ UNCHANGED count

(* Mutant: a permit that is handed over is counted as well. *)
HandOverCounted ==
    /\ count' = count + 1
    /\ IF wait_list = <<>>
       THEN UNCHANGED <<wait_list, up, running>>
       ELSE /\ wait_list' = Tail(wait_list)
            /\ up' = [up EXCEPT ![Head(wait_list)] = TRUE]
            /\ running' = [running EXCEPT ![Head(wait_list)] = TRUE]

(* Hand the semaphore to the first waiter and wake it. *)
__up ==
    /\ wait_list' = Tail(wait_list)
    /\ up' = [up EXCEPT ![Head(wait_list)] = TRUE]
    /\ running' = [running EXCEPT ![Head(wait_list)] = TRUE]
    /\ UNCHANGED count

HandOver ==
    IF wait_list = <<>>
    THEN count' = count + 1 /\ UNCHANGED <<wait_list, up, running>>
    ELSE __up

up_by_holder(t) ==
    /\ call[t] = "none"
    /\ held[t] > 0
    /\ held' = [held EXCEPT ![t] = @ - 1]
    /\ HandOver
    /\ ret' = "none"
    /\ UNCHANGED <<call, expired, sig, extra>>

(* "up() may be called from any context and even by tasks which have never  *)
(* called down()".                                                          *)
up_by_other ==
    /\ extra < MaxExtra
    /\ extra' = extra + 1
    /\ HandOver
    /\ ret' = "none"
    /\ UNCHANGED <<call, expired, sig, held>>

-----------------------------------------------------------------------------
(* The scheduler, timers and signals, as semaphore.c relies on them. *)

(* A signal arrives; it wakes a sleeper whose state admits it. *)
signal_wake_up(t, s) ==
    /\ sig[t] # s
    /\ s # "none"
    /\ sig[t] # "fatal"
    /\ sig' = [sig EXCEPT ![t] = s]
    /\ running' = [running EXCEPT ![t] = @ \/ signal_pending_state(call[t], s)]
    /\ ret' = "none"
    /\ UNCHANGED <<count, wait_list, up, call, expired, held, extra>>

(* The timer armed by schedule_timeout() fires. *)
process_timeout(t) ==
    /\ call[t] = "down_timeout"
    /\ ~expired[t]
    /\ expired' = [expired EXCEPT ![t] = TRUE]
    /\ running' = [running EXCEPT ![t] = TRUE]
    /\ ret' = "none"
    /\ UNCHANGED <<count, wait_list, up, call, sig, held, extra>>

(* Someone else wakes the sleeper. *)
spurious_wake_up(t) ==
    /\ call[t] # "none"
    /\ ~running[t]
    /\ running' = [running EXCEPT ![t] = TRUE]
    /\ ret' = "none"
    /\ UNCHANGED <<count, wait_list, up, call, expired, sig, held, extra>>

(* The task acts on its signals once it is out of the semaphore code. *)
do_signal(t) ==
    /\ call[t] = "none"
    /\ sig[t] # "none"
    /\ sig' = [sig EXCEPT ![t] = "none"]
    /\ ret' = "none"
    /\ UNCHANGED <<count, wait_list, up, call, running, expired, held, extra>>

Call(t) ==
    \/ down(t)
    \/ down_interruptible(t)
    \/ down_killable(t)
    \/ \E noTime \in BOOLEAN : down_timeout(t, noTime)
    \/ down_trylock(t)

Next ==
    \/ up_by_other
    \/ \E t \in Tasks :
          \/ Call(t)
          \/ DownCommonResume(t)
          \/ up_by_holder(t)
          \/ \E s \in Signals : signal_wake_up(t, s)
          \/ process_timeout(t)
          \/ spurious_wake_up(t)
          \/ do_signal(t)

Spec == Init /\ [][Next]_vars

(* A runnable task is eventually scheduled, a timer eventually fires, and a *)
(* task that acquired the semaphore eventually releases it.                 *)
Fairness ==
    \A t \in Tasks :
       /\ WF_vars(DownCommonResume(t))
       /\ WF_vars(process_timeout(t))
       /\ WF_vars(up_by_holder(t))

FairSpec == Spec /\ Fairness

-----------------------------------------------------------------------------
(* Properties *)

Range(s) == {s[i] : i \in DOMAIN s}

(* The shape of the semaphore, its waiters and the tasks that wait          *)
(* (struct semaphore, struct semaphore_waiter).                             *)
TypeOK ==
    /\ count \in Nat
    /\ wait_list \in Seq(Tasks)
    /\ up \in [Tasks -> BOOLEAN]
    /\ call \in [Tasks -> Sleeps \cup {"none"}]
    /\ running \in [Tasks -> BOOLEAN]
    /\ expired \in [Tasks -> BOOLEAN]
    /\ sig \in [Tasks -> Signals]
    /\ ret \in Results
    /\ held \in [Tasks -> Nat]
    /\ extra \in Nat

(* The waiters on the list are exactly the tasks inside __down_common()     *)
(* that have not been handed the semaphore, each queued once.  A task that  *)
(* has returned has left no pointer to its stack behind, and up() never     *)
(* wakes a task whose waiter structure is gone, whichever of hand-over,     *)
(* signal and timeout came first.                                           *)
NoDanglingWaiter ==
    /\ \A t \in Tasks : t \in Range(wait_list) <=> call[t] # "none" /\ ~up[t]
    /\ \A i, j \in DOMAIN wait_list : wait_list[i] = wait_list[j] => i = j

(* Nobody waits while a permit is free: down*() queues only when the count  *)
(* is zero, and up() counts only when nobody is queued.                     *)
NoIdlePermit == wait_list # <<>> => count = 0

(* A semaphore handed to a sleeper is never abandoned: whoever has been     *)
(* given it is awake and about to return 0.                                 *)
GrantIsAwake == \A t \in Tasks : up[t] => call[t] # "none" /\ running[t]

(* Together they say that a race of hand-over, signal and timeout leaves    *)
(* neither a stale waiter nor an idle permit nor an abandoned grant behind; *)
(* each is needed to show that the others are preserved.                    *)
WaitListOK == NoDanglingWaiter /\ NoIdlePermit /\ GrantIsAwake

(* The permit each task owns: acquired, or handed over while it still       *)
(* sleeps.                                                                  *)
owned == [t \in Tasks |-> held[t] + (IF up[t] THEN 1 ELSE 0)]

(* Requests are served in order of arrival: a step that makes t the owner   *)
(* of one more permit finds t first in the list or the list empty, so that  *)
(* no down_trylock() and no fast path overtakes a queued task.              *)
FifoHandOver ==
    [][\A t \in Tasks :
          owned'[t] > owned[t] => wait_list = <<>> \/ Head(wait_list) = t]_vars

(* The semaphore implements the lock that only counts permits: none is      *)
(* lost when a hand-over races with a signal or a timeout, none is granted  *)
(* twice, and none is added but by an up() that had no down().              *)
Permit == INSTANCE PermitLock WITH
            Permits <- InitCount, free <- count, holding <- owned, created <- extra

PermitSpec == Permit!SharedSpec

(* Every down() is eventually granted and every down_timeout() eventually   *)
(* returns, if holders release: the first-come order prevents starvation.   *)
EventuallyReturns ==
    \A t \in Tasks :
       /\ call[t] = "down" ~> held[t] > 0
       /\ call[t] = "down_timeout" ~> call[t] = "none"
=============================================================================
