-------------------------------- MODULE Mutex --------------------------------
(***************************************************************************)
(* Sleeping mutexes: kernel/mutex.c over the three generic fast paths      *)
(* include/asm-generic/mutex-{dec,xchg,null}.h, with the optimistic spin   *)
(* on a running owner of CONFIG_MUTEX_SPIN_ON_OWNER.                       *)
(*                                                                         *)
(* One atomic access to lock->count or lock->owner is one step.  The wait  *)
(* list is only touched under wait_lock, so that a step may take that lock *)
(* and do the first access under it, or do the last access and release it. *)
(***************************************************************************)
EXTENDS Integers, Sequences

CONSTANTS
    Tasks,        \* tasks that use the mutex
    NULL,         \* no task
    Builds,       \* the kernels considered: pairs of arch and spin
    Calls         \* which of the locking functions each task uses

ASSUME MutexAssumption ==
    /\ NULL \notin Tasks
    /\ Builds \subseteq {"dec", "xchg", "null"} \X BOOLEAN
    /\ <<"null", TRUE>> \notin Builds      \* depends on !DEBUG_MUTEXES
    /\ Calls \in [Tasks -> SUBSET {"lock", "interruptible", "killable", "trylock"}]

VARIABLES
    arch,         \* the fast path: "dec", "xchg", or "null" (CONFIG_DEBUG_MUTEXES)
    spin,         \* CONFIG_MUTEX_SPIN_ON_OWNER
    count,        \* lock->count: 1 unlocked, 0 locked, < 0 locked with waiters
    wait_lock,    \* the holder of lock->wait_lock, or NULL
    wait_list,    \* lock->wait_list, first waiter first
    owner,        \* lock->owner
    pc,           \* where each task is
    state,        \* the task state its call sleeps in
    running,      \* is the task TASK_RUNNING?
    sig,          \* signals pending for the task
    seen,         \* __mutex_lock_common()'s local copy of owner
    prev          \* __mutex_fastpath_trylock()'s first xchg gave a negative count

vars == <<arch, spin, count, wait_lock, wait_list, owner, pc, state, running, sig, seen, prev>>

States == {"uninterruptible", "interruptible", "killable"}
Signals == {"none", "signal", "fatal"}
Labels == {"idle", "spin", "spin_on_owner", "spin_cmpxchg", "slow_lock", "xchg",
           "sleep", "done", "done_count", "set_owner", "critical",
           "fastpath_unlock", "unlock_slow", "trylock_again"}

(* __mutex_init() *)
Init ==
    /\ \E b \in Builds : arch = b[1] /\ spin = b[2]
    /\ count = 1
    /\ wait_lock = NULL
    /\ wait_list = <<>>
    /\ owner = NULL
    /\ pc = [t \in Tasks |-> "idle"]
    /\ state = [t \in Tasks |-> "uninterruptible"]
    /\ running = [t \in Tasks |-> TRUE]
    /\ sig = [t \in Tasks |-> "none"]
    /\ seen = [t \in Tasks |-> NULL]
    /\ prev = [t \in Tasks |-> 0]

-----------------------------------------------------------------------------

Goto(t, label) == pc' = [pc EXCEPT ![t] = label]

signal_pending_state(st, s) ==
    \/ st = "interruptible" /\ s # "none"
    \/ st = "killable" /\ s = "fatal"

(* list_del() of the k-th entry. *)
list_del(list, k) ==
    [i \in 1 .. Len(list) - 1 |-> IF i < k THEN list[i] ELSE list[i + 1]]

mutex_remove_waiter(t) ==
    \E k \in DOMAIN wait_list :
       wait_list[k] = t /\ wait_list' = list_del(wait_list, k)

needs_to_unlock == arch # "xchg"

(* Mutant: zero is taken for unlocked. *)
NotLocked == count >= 0

(* atomic_xchg(&lock->count, -1) == 1 *)
XchgTook == count = 1

(* Mutant: the owner is not cleared. *)
mutex_keep_owner == owner

mutex_clear_owner == NULL

(* Mutant: no wake_up_process(). *)
WakeNobody == running

(* The first waiter is woken. *)
WakeFirst ==
    IF wait_list = <<>> THEN running ELSE [running EXCEPT ![Head(wait_list)] = TRUE]

(* __mutex_lock_common() starts with the spin if that is configured. *)
LockCommon == IF spin THEN "spin" ELSE "slow_lock"

-----------------------------------------------------------------------------
(* mutex_lock() and its variants *)

__mutex_fastpath_lock(t) ==
    \/ /\ arch = "dec"
       /\ count' = count - 1
       /\ Goto(t, IF count - 1 < 0 THEN LockCommon ELSE "set_owner")
    \/ /\ arch = "xchg"
       /\ count' = 0
       /\ Goto(t, IF count # 1 THEN LockCommon ELSE "set_owner")
    \/ /\ arch = "null"
       /\ Goto(t, LockCommon)
       /\ UNCHANGED count

Lock(t, st) ==
    /\ pc[t] = "idle"
    /\ state' = [state EXCEPT ![t] = st]
    /\ __mutex_fastpath_lock(t)
    /\ UNCHANGED <<arch, spin, wait_lock, wait_list, owner, running, sig, seen, prev>>

mutex_lock(t) == Lock(t, "uninterruptible")
mutex_lock_interruptible(t) == Lock(t, "interruptible")
mutex_lock_killable(t) == Lock(t, "killable")

(* mutex_set_owner() when the fast path, the spin or the slow path has got  *)
(* the lock.  The critical section is the caller's.                         *)
mutex_set_owner(t) ==
    /\ pc[t] = "set_owner"
    /\ owner' = t
    /\ Goto(t, "critical")
    /\ state' = [state EXCEPT ![t] = "uninterruptible"]
    /\ UNCHANGED <<arch, spin, count, wait_lock, wait_list, running, sig, seen, prev>>

(* The optimistic spin: read the owner ... *)
SpinReadOwner(t) ==
    /\ pc[t] = "spin"
    /\ seen' = [seen EXCEPT ![t] = owner]
    /\ Goto(t, IF owner = NULL THEN "spin_cmpxchg" ELSE "spin_on_owner")
    /\ UNCHANGED <<arch, spin, count, wait_lock, wait_list, owner, state, running, sig, prev>>

(* ... wait for it, until it has changed, is off its CPU, or this task      *)
(* should be rescheduled: the last two may be the case at any time ...      *)
mutex_spin_on_owner(t) ==
    /\ pc[t] = "spin_on_owner"
    /\ Goto(t, IF owner = NULL THEN "spin_cmpxchg" ELSE "slow_lock")
    /\ seen' = IF owner = NULL THEN seen ELSE [seen EXCEPT ![t] = NULL]
    /\ UNCHANGED <<arch, spin, count, wait_lock, wait_list, owner, state, running, sig, prev>>

(* ... try to take the lock, and without an owner to wait for give up on    *)
(* need_resched() || rt_task(task).                                         *)
SpinCmpxchg(t) ==
    /\ pc[t] = "spin_cmpxchg"
    /\ \/ /\ count = 1
          /\ count' = 0
          /\ Goto(t, "set_owner")
       \/ /\ count # 1
          /\ \/ Goto(t, "spin")
             \/ seen[t] = NULL /\ Goto(t, "slow_lock")
          /\ UNCHANGED count
    /\ seen' = [seen EXCEPT ![t] = NULL]
    /\ UNCHANGED <<arch, spin, wait_lock, wait_list, owner, state, running, sig, prev>>

(* Queue behind the waiters, and exchange for the first time. *)
SlowLock(t) ==
    /\ pc[t] = "slow_lock"
    /\ wait_lock = NULL
    /\ wait_lock' = t
    /\ wait_list' = Append(wait_list, t)
    /\ count' = -1
    /\ Goto(t, IF XchgTook THEN "done" ELSE "xchg")
    /\ UNCHANGED <<arch, spin, owner, state, running, sig, seen, prev>>

(* One round of the loop, under wait_lock: take the lock, or leave on a     *)
(* signal, or sleep.                                                        *)
LoopRound(t) ==
    /\ count' = -1
    /\ \/ /\ XchgTook
          /\ wait_lock' = t
          /\ Goto(t, "done")
          /\ UNCHANGED <<wait_list, running, state>>
       \/ /\ ~XchgTook
          /\ signal_pending_state(state[t], sig[t])
          /\ mutex_remove_waiter(t)
          /\ wait_lock' = NULL
          /\ state' = [state EXCEPT ![t] = "uninterruptible"]
          /\ Goto(t, "idle")
          /\ UNCHANGED running
       \/ /\ ~XchgTook
          /\ ~signal_pending_state(state[t], sig[t])
          /\ running' = [running EXCEPT ![t] = FALSE]
          /\ wait_lock' = NULL
          /\ Goto(t, "sleep")
          /\ UNCHANGED <<wait_list, state>>
    /\ UNCHANGED <<arch, spin, owner, sig, seen, prev>>

FirstRound(t) == pc[t] = "xchg" /\ LoopRound(t)

NextRound(t) ==
    pc[t] = "sleep" /\ running[t] /\ wait_lock = NULL /\ LoopRound(t)

(* "got the lock - rejoice!" *)
Done(t) ==
    /\ pc[t] = "done"
    /\ mutex_remove_waiter(t)
    /\ owner' = t
    /\ Goto(t, "done_count")
    /\ UNCHANGED <<arch, spin, count, wait_lock, state, running, sig, seen, prev>>

(* "set it to 0 if there are no waiters left" *)
DoneCount(t) ==
    /\ pc[t] = "done_count"
    /\ count' = IF wait_list = <<>> THEN 0 ELSE count
    /\ wait_lock' = NULL
    /\ Goto(t, "set_owner")
    /\ UNCHANGED <<arch, spin, wait_list, owner, state, running, sig, seen, prev>>

-----------------------------------------------------------------------------
(* mutex_unlock() *)

(* With debugging the owner is cleared by the slow path only. *)
mutex_unlock(t) ==
    /\ pc[t] = "critical"
    /\ owner' = IF arch = "null" THEN owner ELSE mutex_clear_owner
    /\ Goto(t, "fastpath_unlock")
    /\ UNCHANGED <<arch, spin, count, wait_lock, wait_list, state, running, sig, seen, prev>>

__mutex_fastpath_unlock(t) ==
    /\ pc[t] = "fastpath_unlock"
    /\ \/ /\ arch = "dec"
          /\ count' = count + 1
          /\ Goto(t, IF count + 1 <= 0 THEN "unlock_slow" ELSE "idle")
       \/ /\ arch = "xchg"
          /\ count' = 1
          /\ Goto(t, IF count # 0 THEN "unlock_slow" ELSE "idle")
       \/ /\ arch = "null"
          /\ Goto(t, "unlock_slow")
          /\ UNCHANGED count
    /\ UNCHANGED <<arch, spin, wait_lock, wait_list, owner, state, running, sig, seen, prev>>

__mutex_unlock_slowpath(t) ==
    /\ pc[t] = "unlock_slow"
    /\ wait_lock = NULL
    /\ owner' = IF arch = "null" THEN mutex_clear_owner ELSE owner
    /\ count' = IF needs_to_unlock THEN 1 ELSE count
    /\ running' = WakeFirst
    /\ Goto(t, "idle")
    /\ UNCHANGED <<arch, spin, wait_lock, wait_list, state, sig, seen, prev>>

-----------------------------------------------------------------------------
(* mutex_trylock() *)

__mutex_trylock_slowpath(t) ==
    /\ wait_lock = NULL
    /\ count' = IF wait_list = <<>> THEN 0 ELSE -1
    /\ owner' = IF count = 1 THEN t ELSE owner
    /\ Goto(t, IF count = 1 THEN "set_owner" ELSE "idle")
    /\ UNCHANGED prev

__mutex_fastpath_trylock(t) ==
    \/ /\ arch = "dec"                                     \* cmpxchg(count, 1, 0)
       /\ count' = IF count = 1 THEN 0 ELSE count
       /\ Goto(t, IF count = 1 THEN "set_owner" ELSE "idle")
       /\ UNCHANGED <<owner, prev>>
    \/ /\ arch = "xchg"
       /\ count' = 0
       /\ prev' = [prev EXCEPT ![t] = IF count < 0 THEN count ELSE 0]
       /\ Goto(t, IF count < 0 THEN "trylock_again"
                  ELSE IF count = 1 THEN "set_owner" ELSE "idle")
       /\ UNCHANGED owner
    \/ arch = "null" /\ __mutex_trylock_slowpath(t)

mutex_trylock(t) ==
    /\ pc[t] = "idle"
    /\ __mutex_fastpath_trylock(t)
    /\ UNCHANGED <<arch, spin, wait_lock, wait_list, state, running, sig, seen>>

(* "The lock was marked contended so we must restore that state." *)
TrylockAgain(t) ==
    /\ pc[t] = "trylock_again"
    /\ count' = prev[t]
    /\ prev' = [prev EXCEPT ![t] = 0]
    /\ Goto(t, IF count = 1 THEN "set_owner" ELSE "idle")
    /\ UNCHANGED <<arch, spin, wait_lock, wait_list, owner, state, running, sig, seen>>

-----------------------------------------------------------------------------
(* The scheduler and signals, as mutex.c relies on them. *)

(* Signals to a task that never sleeps interruptibly change nothing here.   *)
signal_wake_up(t, s) ==
    /\ Calls[t] \cap {"interruptible", "killable"} # {}
    /\ sig[t] # s
    /\ s # "none"
    /\ sig[t] # "fatal"
    /\ sig' = [sig EXCEPT ![t] = s]
    /\ running' = [running EXCEPT ![t] =
                     @ \/ (pc[t] = "sleep" /\ signal_pending_state(state[t], s))]
    /\ UNCHANGED <<arch, spin, count, wait_lock, wait_list, owner, pc, state, seen, prev>>

do_signal(t) ==
    /\ pc[t] = "idle"
    /\ sig[t] # "none"
    /\ sig' = [sig EXCEPT ![t] = "none"]
    /\ UNCHANGED <<arch, spin, count, wait_lock, wait_list, owner, pc, state, running, seen, prev>>

spurious_wake_up(t) ==
    /\ pc[t] = "sleep"
    /\ ~running[t]
    /\ running' = [running EXCEPT ![t] = TRUE]
    /\ UNCHANGED <<arch, spin, count, wait_lock, wait_list, owner, pc, state, sig, seen, prev>>

-----------------------------------------------------------------------------

Call(t) ==
    \/ "lock" \in Calls[t] /\ mutex_lock(t)
    \/ "interruptible" \in Calls[t] /\ mutex_lock_interruptible(t)
    \/ "killable" \in Calls[t] /\ mutex_lock_killable(t)
    \/ "trylock" \in Calls[t] /\ mutex_trylock(t)

(* A step inside mutex.c, or the end of the caller's critical section. *)
Proceed(t) ==
    \/ mutex_set_owner(t)
    \/ SpinReadOwner(t) \/ mutex_spin_on_owner(t) \/ SpinCmpxchg(t)
    \/ SlowLock(t) \/ FirstRound(t) \/ NextRound(t) \/ Done(t) \/ DoneCount(t)
    \/ mutex_unlock(t) \/ __mutex_fastpath_unlock(t) \/ __mutex_unlock_slowpath(t)
    \/ TrylockAgain(t)

Environment(t) ==
    \/ \E s \in Signals : signal_wake_up(t, s)
    \/ do_signal(t)
    \/ spurious_wake_up(t)

Next == \E t \in Tasks : Call(t) \/ Proceed(t) \/ Environment(t)

Spec == Init /\ [][Next]_vars

(* A task that can run does run, and a spinlock is handed out fairly.       *)
FairSpec ==
    /\ Spec
    /\ \A t \in Tasks :
          /\ WF_vars(Proceed(t))
          /\ SF_vars(SlowLock(t)) /\ SF_vars(NextRound(t))
          /\ SF_vars(__mutex_unlock_slowpath(t))

-----------------------------------------------------------------------------
(* Properties *)

Range(s) == {s[i] : i \in DOMAIN s}

(* The shape of struct mutex and of what each task keeps inside the calls. *)
TypeOK ==
    /\ <<arch, spin>> \in Builds
    /\ count \in Int
    /\ wait_lock \in Tasks \cup {NULL}
    /\ wait_list \in Seq(Tasks)
    /\ owner \in Tasks \cup {NULL}
    /\ pc \in [Tasks -> Labels]
    /\ state \in [Tasks -> States]
    /\ running \in [Tasks -> BOOLEAN]
    /\ sig \in [Tasks -> Signals]
    /\ seen \in [Tasks -> Tasks \cup {NULL}]
    /\ prev \in [Tasks -> Int]

(* Where a task holds the mutex: from the atomic operation that took it to  *)
(* the one that lets others take it, which is the unlock fast path or, if   *)
(* __mutex_slowpath_needs_to_unlock(), the slow path.                       *)
Holds(t) ==
    \/ pc[t] \in {"done", "done_count", "set_owner", "critical", "fastpath_unlock"}
    \/ pc[t] = "unlock_slow" /\ needs_to_unlock

(* Two tasks never hold the mutex, on any of the fast paths, and the count  *)
(* is 1 exactly when nobody does: the mutex is neither taken twice nor left *)
(* locked when the last holder is gone.                                     *)
MutualExclusion ==
    /\ \A t, u \in Tasks : Holds(t) /\ Holds(u) => t = u
    /\ count = 1 <=> \A t \in Tasks : ~Holds(t)

(* While the mutex is free and tasks are queued for it, one of them is      *)
(* awake, or a step that wakes one is under way: the unlocker on its way to *)
(* the wake-up, or a task that will take the lock and mark it contended.    *)
NoLostWakeup ==
    count = 1 /\ wait_list # <<>> =>
       \E t \in Tasks :
          \/ t \in Range(wait_list) /\ running[t]
          \/ pc[t] \in {"unlock_slow", "slow_lock", "trylock_again"}

(* The owner field, written outside any lock, names nobody or the holder:   *)
(* a spinner never waits for a task that has released the mutex.            *)
OwnerIsHolder == \A t \in Tasks : owner = t => Holds(t)

(* The mutex implements a lock with one permit that only its owner returns. *)
Permit == INSTANCE PermitLock WITH
            Permits <- 1,
            free <- IF count = 1 THEN 1 ELSE 0,
            holding <- [t \in Tasks |-> IF Holds(t) THEN 1 ELSE 0],
            created <- 0
PermitSpec == Permit!OwnedSpec

(* Once nobody makes new calls, every call made returns: no waiter is left  *)
(* asleep on a mutex that everybody has released.                           *)
EveryCallReturns ==
    <>[][\A t \in Tasks : pc[t] = "idle" => pc'[t] = "idle"]_vars
      => \A t \in Tasks : <>[](pc[t] = "idle")
=============================================================================
