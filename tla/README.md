# Synchronisation primitives of Linux 3.5 in TLA+

The repository holds the sources of the Linux kernel 3.5 (`src/linux-3.5`).
This project models the kernel's self-contained synchronisation and deferral
primitives: the code whose correctness depends on interleavings
and lost wake-ups rather than on hardware or on the size of its data. Each
component is one module that is model-checked with TLC; the
central safety properties of each are also proved with TLAPS, for any number of tasks,
CPUs, works or calls.

## The system and its parts

The kernel is some forty thousand files. Most of them are drivers, file systems,
protocols and architecture code, each a system of its own that depends on a
device, a disk format or a wire format. What they share is `kernel/` and the
concurrency part of `lib/` and `include/`. The inventory below covers these;
everything else is listed in `PROJECT.json` with the reason it is left out. The
fourteen million lines of the repository cannot be covered by one development;
measured against them the modelled part is a fraction of a per cent, and the
project aims at depth in the primitives everything else is built on.

| Part | State | Operations | Interacts with | What is hard | What makes it correct |
|---|---|---|---|---|---|
| semaphores `kernel/semaphore.c` | count, FIFO list of waiters on the callers' stacks, an `up` flag in each | `down*`, `up` | scheduler, signals, timers | hand-over racing with signal and timeout | no permit lost, no dangling waiter, FIFO |
| mutexes `kernel/mutex.c`, `include/asm-generic/mutex-*.h` | count (1, 0, negative), wait list under `wait_lock`, `owner` outside any lock | `mutex_lock*`, `mutex_trylock`, `mutex_unlock` | scheduler, signals | lock-free fast paths against the slow path, optimistic spin | exclusion, no lost wake-up |
| async calls `kernel/async.c` | cookies, pending list, running list of each domain, `entry_count` | `async_schedule*`, `async_synchronize_*`, the work item | unbound workqueue, wait queue | work items start in any order; lists tested without the lock | a wait covers the calls made before it |
| irq_work `kernel/irq_work.c`, `include/linux/llist.h` | flags of each work, lock-less list of each CPU | `irq_work_queue`, `irq_work_run`, `irq_work_sync` | NMIs, self-interrupt, timer tick | requeue during the callback, NMIs inside every step | a node is on one list; no published work is missed |
| SRCU `kernel/srcu.c` | two ranks of per-CPU counters, four batches of callbacks, `running` | `srcu_read_lock/unlock`, `call_srcu`, `synchronize_srcu`, `process_srcu`, `cleanup` | workqueue, completions | sums taken while readers migrate, delayed readers, stealing of the state machine | grace period, order, one driver |
| rwsem `lib/rwsem.c`, `include/asm-generic/rwsem.h` | one count shared by lockers, waiters and wakers, wait list under `wait_lock` | `down_read`, `down_write`, trylocks, `up_*`, `downgrade_write` | scheduler | the count changes under the waker's hands; waking groups of readers | exclusion, the count adds up, no lost wake-up, no overtaking |
| softirqs and tasklets `kernel/softirq.c` | SCHED and RUN bits, disable count, per-CPU lists with tail pointers, pending bits, ksoftirqd | schedule, run, kill, disable, `local_bh_*`, hotplug takeover | interrupts, hotplug | rescheduling while running, test-then-sleep of ksoftirqd, a CPU that goes away | at exactly one place if scheduled, never concurrent with itself, never stranded |
| stop_machine `kernel/stop_machine.c`, with `kernel/cpu.c` | work list and thread of each CPU, completion counts and lock-step state on the callers' stacks | `stop_one_cpu*`, `stop_cpus`, `try_stop_cpus`, `stop_machine*`, hotplug notifier | all CPUs, hotplug | everyone waits for everyone; a CPU goes away under its works | nothing else runs while the function does, no stack is used after its call, every call returns |
| kthreads `kernel/kthread.c` | stop flag, work list of a worker | create, stop, flush | scheduler | stop against sleep | stop always returns |
| kfifo `kernel/kfifo.c` | wrapping in and out indices | put, get | one producer, one consumer | wrap-around | nothing lost or duplicated |
| SMP calls `kernel/smp.c` | csd flags, per-CPU queues | single and many calls | interrupts | re-use of a csd | called once, then unlocked |
| workqueues, futexes, rt-mutexes, System V IPC, res_counter, padata | see the sources | | | flush colours, requeue, priority chains, lock-less wake-ups, roll-back, reordering | |

## Modules

| Module | Role |
|---|---|
| `PermitLock` | what a sleeping lock promises: permits that are free or held, taken, given back, or passed on, and created only by a release without acquisition, which `created` counts |
| `Semaphore` | `kernel/semaphore.c` |
| `SemaphoreProofs` | theorems about `Semaphore` |
| `Mutex` | `kernel/mutex.c` over the `dec`, `xchg` and `null` fast paths, with or without spinning |
| `MutexProofs` | theorems about `Mutex` |
| `RwLock` | what a reader/writer semaphore promises: free, shared, or owned by one writer, who may become a reader |
| `Rwsem` | `lib/rwsem.c` with the fast paths of `include/asm-generic/rwsem.h` |
| `RwsemProofs` | theorems about `Rwsem` |
| `Softirq` | `kernel/softirq.c` and the tasklet operations of `include/linux/interrupt.h` |
| `SoftirqProofs` | theorems about `Softirq` |
| `StopMachine` | `kernel/stop_machine.c`, and what `kernel/cpu.c` does to the stoppers |
| `StopMachineProofs` | theorems about `StopMachine` |
| `Async` | `kernel/async.c` |
| `AsyncProofs` | theorems about `Async` |
| `IrqWork` | `kernel/irq_work.c` and the two `llist` operations it uses |
| `IrqWorkProofs` | theorems about `IrqWork` |
| `Srcu` | `kernel/srcu.c` for one `srcu_struct` |
| `SrcuProofs` | theorems about `Srcu` |
| `MC*` | instances for TLC |

Definitions carry the names of the functions they model; parts of a function
have a name of their own (`SpinCmpxchg`, `CountEntry`). `PROJECT.json` maps
every definition to its lines. Definitions marked *Mutant* change one definition
the way a mistake in the code would; they belong to no specification and only
document what each property is able to notice.

### Semaphore

Everything between taking and releasing `sem->lock` is one step. `__down_common`
gives the lock up in `schedule_timeout()`, so a contended call is the step that
queues the caller, then one `DownCommonResume` each time the task runs again; it
tests, in the order of the code, the `up` flag, the signal, the timeout. A call
that finds a signal pending or no time left queues itself and leaves under the
same hold of the lock, so only its result shows. `up()` may come from a holder
(`up_by_holder`) or from anybody (`up_by_other`), as its comment allows. Signals,
timer expiry and wake-ups by third parties may come at any moment. `held` and
`extra` are history: they count acquisitions and releases without acquisition.
`extra` is what the refinement gives for `created`, so every permit beyond the
initial ones has such an `up()` to account for it.

### Mutex

One atomic access to `count` or `owner` is one step, the `cmpxchg` of the spin and
the `mutex_set_owner()` after it included. `Calls` says which operations a task
uses; the theorems hold for any. `wait_list` is touched only
under `wait_lock`, so taking or releasing that lock is merged with the access
next to it. `arch` is the fast path and `spin` the optimistic spin; the two are
fixed at the start to one of `Builds`, so that one run checks them all. `null` is
the debugging build, which excludes the spin; `xchg` with spinning is the
combination of the disagreement below and has a run of its own. `mutex_spin_on_owner`
may end at any time: the owner may leave its CPU, or the spinner be due for
rescheduling, whenever the scheduler likes. Assumed of callers: a task
unlocks only what it holds and does not lock recursively.

### Rwsem

Every access to `sem->count` is a step, and so is the clearing of a waiter's
`task` pointer, after which the waiter's stack may be gone, and its wake-up. The
wait list is only touched under `wait_lock`. Failed trylocks change nothing and
are left out; the `cmpxchg` loop of the read trylock is the iteration that
succeeds. `holds` is what a task has acquired by its own account, and `own`, the
refinement mapping to `RwLock`, adds what it has been granted and not yet
noticed. The `ANY`, `NO_ACTIVE` and `READ_OWNED` wake types are parameters of the
first step of `__rwsem_do_wake()`. A reader that failed while a writer held the
semaphore and queues only after `downgrade_write()` waits for the next wake-up
although the semaphore is read-owned; `EveryLockIsGranted` shows that this ends.

### Softirq

A CPU is processing softirqs (`soft`), or runs a task that has bottom halves
disabled (`bh`), ksoftirqd, or any other task. Interrupts may come between any
two steps; a handler schedules at most one tasklet, and `irq_exit()` belongs to
the same step. The lists are local to a CPU and only touched with interrupts
disabled; they carry whether `tail` still points at the head, which is what
`__tasklet_hi_schedule_first()` does not maintain. Setting, testing and clearing
the SCHED and RUN bits and reading the disable count are steps of their own,
because other CPUs do the same. `tasklet_unlock()` and the requeueing of a
disabled tasklet are one step: nobody else can see the list in between. The loop
of `tasklet_kill()` is the iteration whose `test_and_set_bit()` succeeds. The
tasklet with `Vec` `"FIRST"` is used the way its only user, kmemcheck, does: it is
never disabled nor killed. A CPU goes down when it processes no softirq and comes
up with a new ksoftirqd. `lost` is history: the tasklets that a store through a tail
left at the head has cut off their list. `restart` counts the passes that are left,
so `__do_softirq()` restarts at most `MAX_SOFTIRQ_RESTART - 1` times.

### StopMachine

Each stopper is a thread with its place in `cpu_stopper_thread()` and in
`stop_machine_cpu_stop()`; while it executes a function nothing else runs on its
CPU (`Busy`), and tasks need a CPU that is not. A task that queues works has a
CPU and has preemption disabled there (`Preemptible`). `done` and `smdata` are
the structures on the callers' stacks; when a call returns they are wiped, and
`NoUseAfterReturn` watches over who still points at them. `ran` is history: how often
the function of a call has been executed on each CPU. The drain of
`cpu_stop_cpu_callback()` holds the stopper's lock and signals one work per step;
what it has signalled stays linked (`drained`), as in the code. The caller of a
drained work needs no lock to return, and `DrainedIsUnlinked` is what then fails; the
model goes on as if the memory were still intact. `BUG_ON(!list_empty())` of
`CPU_UP_PREPARE` is an action (`BugOn`) after which the task never runs again and keeps
its locks.
Hotplug is included as far as it makes and removes stoppers: mutual exclusion
with `get_online_cpus()`, `take_cpu_down()` and its failure, the busy-wait for
the idle CPU, `cpu_hotplug_done()` before the stopper is killed, a bring-up that
is cancelled, and one during which the new CPU calls
`stop_machine_from_inactive_cpu()` (the x86 MTRR code does). Works given to a
CPU that is down or going down are part of the model, because `stop_one_cpu()`
explicitly allows them. Functions of works other than `stop_machine()` wait for
nobody and, when nobody waits for them, return 0, as those of the scheduler do.
`set_state()` writes the counter and the state in one step: nobody reads the
counter before it has seen the new state, which is what the barrier is for.

### Async

What happens under `async_lock` is a step; the unlocked reads of `entry_count`,
`next_cookie` and the two lists are steps of their own. A scheduled function may
call `async_synchronize_cookie_domain()` with its own cookie before it returns,
as the head comment of the file recommends, and so may one that is called
synchronously. Work items reach the running list in any order, since the unbound
workqueue promises none; `passed` is history and holds the pairs of calls of which
the newer started while the older was pending. A call made synchronously has a
cookie and no entry, so no wait covers it.

### IrqWork

Every access to the flags, a list head or a next pointer is a step. The list is
kept as next pointers, so that a node linked twice really corrupts it; `Chain(x)`
is what can be reached from `x` by them, the least set that is closed under the
successor, which also makes sense of a corrupted list. An NMI
suspends whatever else runs on its CPU, and `irq_work_run()` suspends the task.
`Publish` is the caller's side of the contract: data is made visible and then
the work is queued; the callback handles what it finds. `twice` is history: the CPUs
whose present callback has met another callback of the same work. Every access
takes effect at once, so the delay of the plain store of the BUSY flag in a store
buffer is not covered. Contexts do not change CPUs.

### Srcu

A reader's lock is three steps (fetch the rank, count itself, count the entry)
with preemption disabled, so one reader per CPU is in there at a time; it unlocks
on any CPU. The driver of the state machine reads one counter per step: the
sequence counts, the reader counts, the sequence counts again. `ULONG` is the
number of values of a counter; the assumption that it exceeds the number of CPUs
and of readers is what the comment at `srcu.c:233` argues from, and the checked
instances make it as tight as it can be. `srcu_reschedule` is two steps, one for each
time it looks whether the batches are empty: without the lock, and again with it
(`StopRunning`) before `running` is cleared. The unlocked emptiness test of
`srcu_collect_new` is merged with the locked move behind it: `batch_queue` can only
grow in between, which the locked step then sees. `waitfor` and `ahead` are history. `cleanup_srcu_struct`
is called when the user is finished: no reader inside, every callback invoked
and every `synchronize_srcu()` returned.

## What is checked

| Run | Instance | Shows |
|---|---|---|
| `semaphore` | 3 tasks, 1 permit, 1 release from outside, fairness | wait list and permits are consistent, FIFO, refinement of `PermitLock`, no starvation |
| `mutex` | 3 tasks, `dec` with and without spinning, `xchg`, `null`; fairness | exclusion, no lost wake-up, owner field, no call sleeps or spins for ever |
| `rwsem` | 3 tasks, fairness | the count adds up at every access, refinement of `RwLock`, live waiters, no overtaking, no starvation |
| `softirq` | 2 CPUs, either of which may go down, an ordinary tasklet and one put first, 1 task | a scheduled tasklet is at one place unless it was cut off, is serialised, is not stranded |
| `stop_machine` | 2 CPUs that come and go; a task that calls `stop_machine()` and does hotplug, another that uses the rest; fairness | the machine stands still, no use after return, true results, every call returns |
| `async` | 2 threads, 3 calls, limit 0, work items started in any order, fairness | lists, count and limit; waits cover every earlier entry that was not overtaken; no deadlock between waiting functions |
| `irq_work` | 2 works, a task and an NMI on 2 CPUs, `irq_work_sync()` | list integrity, no lost work, meaning of failure and of the return of `irq_work_sync()` |
| `srcu` | 2 readers that enter on CPU 1 and leave on either CPU, 2 callbacks, `ULONG` 3 | grace period, also of two callbacks that overlap; nothing leaks |
| `srcu_batches` | 1 reader, 2 callbacks, 1 synchroniser, fairness | order with the `BUG_ON`, one driver, no use after cleanup, callbacks are invoked |

A run asks all the questions that one instance can answer, liveness together
with safety, so that a component needs few of them. Three more runs,
`mutex_xchg_spin`, `async_out_of_order` and `stop_machine_drain`, show disagreements
and are described below.

Bounds. Three tasks are what a lock needs for its hard cases: a holder, a queued
waiter, and a third that comes through the fast path. In `mutex` two of them lock
without regard to signals or only try, and one can be interrupted. `MaxHeld` and `MaxExtra`
bound the permits; `MaxCookie` bounds the calls of a behaviour, and three
suffice for an older, a middle and a newer one. The unstable zero of SRCU needs
two readers and two CPUs, the wrap of its counters a width just above those;
`EntryCPUs` makes the readers enter on the CPU that is summed first and leave on
either, which is the direction in which a sum can miss them.
`SRCU_CALLBACK_BATCH` is 1 so that a round leaves callbacks behind, and
`MAX_WORK` 0 so that the limit is met. The run of `async` has one domain, which is
what its promises are about: with a second one the instance is too large for its
liveness property. Three tasks give `rwsem` an owner, a queued waiter and a waker
whose attempt the third can disturb; its active mask of 7 leaves room for all of
them. In `softirq` two CPUs are what a tasklet needs to be found running elsewhere
and to be taken over, and `MAX_SOFTIRQ_RESTART` 2 is the smallest limit that both
restarts and gives up. In `stop_machine` two CPUs already wait for each other, and
the second task can catch the first in any step of a hotplug operation. Symmetry
is used in `softirq` and `srcu` only, which have no liveness property.

Fairness. Weak fairness of a task's or work item's own steps is the scheduler's
promise that runnable tasks run. Strong fairness is assumed where a step waits
for a spinlock (ticket locks and bounded critical sections), and for a reader's
unlock, which only has to find a moment when its CPU is free. `semaphore`
and `rwsem` assume that holders release, `srcu_batches` that readers leave. In
`stop_machine` stoppers and tasks have strong fairness. A stopper waits for its CPU to
be preemptible; tasks disable preemption again and again, each time for a bounded
stretch, and as it has the highest priority it runs the next time it
can. Tasks wait for CPUs, a mutex, a stopper's spinlock and hotplug in turn. The
busy-wait of `cpu_down()` for the idle CPU is exempt, because others may keep
giving works to that CPU, and so is a `cpu_up()` that has ended in `BUG_ON()`. `softirq` claims no liveness: a tasklet that is disabled
for ever stays on its list, which is what its interface says. `EveryCallReturns` of the mutex speaks of
behaviours without new calls from some point on, because a mutex may be taken past
its waiters for ever. No liveness is claimed for `irq_work`: `irq_work_claim()` is
lock-free but not wait-free, and an NMI that is overtaken for ever in it keeps its
CPU from running the list.

### Disagreements between code and comments

| Run | Property | What happens |
|---|---|---|
| `mutex_xchg_spin` | `NoLostWakeup` | On an exchange-based architecture with spinning (hexagon SMP), a lock call wipes the waiters' mark out, spins, takes the mutex by `cmpxchg`, and its unlock wakes nobody. |
| `async_out_of_order` | `SyncCookieWaits` | The head of the running list is taken for the oldest call; if a newer work item starts first, a wait returns early. |
| `stop_machine_drain` | `DrainedIsUnlinked` | The drain of `cpu_stop_cpu_callback()` (`stop_machine.c:345-346`) completes the works that are left and does not take them off the list; it reads `work->list.next` of each after signalling it, when its `stop_one_cpu()` may have returned. The list stays as it is, so the next `CPU_UP_PREPARE` for that CPU meets `BUG_ON(!list_empty())` at `:311`. |

What `async_out_of_order` shows is the whole of it: the run `async` checks, and
`CookieWaitCorrect` proves, that a wait returns early only for an entry that one no
older than the awaited cookie has overtaken (`WaitsUnlessOvertaken`).

Others were met while modelling; they are not runs of their own. Where a property
would fail for one of them, it names the exact case with a history variable and
claims everything else.

- `__tasklet_hi_schedule_first()` (`softirq.c:433-434`) puts the tasklet in front
  and leaves `tail` alone. If the list was empty, `tail` still points at the head,
  and the next `tasklet_hi_schedule()` on that CPU overwrites it: the tasklet is
  lost with its SCHED bit set, so that it is never scheduled again.
  `interrupt.h:494-495` says that a scheduled tasklet "is guaranteed to be
  executed on some cpu at least once after this". `ScheduledAtOnePlace` says that a
  tasklet is nowhere if it is in `lost`, and otherwise at one place exactly when its
  SCHED bit is set; only that overwriting store adds to `lost`.
- The comment at `softirq.c:196-197` says that processing restarts
  `MAX_SOFTIRQ_RESTART` times. The code counts down before it tests (`:258`), so it
  makes that many passes and one restart fewer.
- `async_synchronize_full()` "waits until all asynchronous function calls have been
  done" (`async.c:235`) but tests the running list of the default domain only: it
  ignores functions of other domains that are already running.
- It can return early in the default domain too. An entry made after it has read
  `next_cookie` starts first, so the wait for the cookie ends although an older entry is
  pending; the newer one finishes, the running list is found empty, the older entry
  moves to it, and the pending list is found empty. `FullWaitsUnlessOvertaken` says
  that it takes an entry overtaken by one made since the call began.
- `irq_work_sync()` "ensures the entry is not currently in use" (`irq_work.c:135`).
  A work that is requeued on a second CPU while its callback runs has its BUSY flag
  cleared by the first to finish, and the call returns while the second is still in
  the callback. `SyncMeansUnused` excepts the callbacks in `twice` and no others.

## What is proved

The theorems hold for every value of the constants that satisfies the assumptions
named in the modules, and the assumptions are what the code relies on: more values
of the active count than tasks (`RwsemAssumption`), more values of a counter than CPUs
and readers, of which there are finitely many (`SrcuAssumption`), finitely many callers (`SoftirqAssumption`,
`AsyncAssumption`), finitely many CPUs, which are numbers (`StopMachineAssumption`), a
value `NULL` that is nobody and no operation. Every invariant is proved as a
conjunct of an inductive one: true at the start, kept by each action. The inductive
ones were checked by TLC on the instances of the runs before they were proved.

`SemaphoreProofs`:

- `TypeCorrect`: `Spec => []TypeOK`.
- `WaitListCorrect`: the list holds exactly the waiting tasks, once each; nobody
  waits while a permit is free; whoever has been handed the semaphore is awake.
  The three parts of `WaitListOK` are inductive together and not alone: that `up()` wakes a
  live waiter needs the list to be exact, and that stays exact only because a
  granted task cannot give up.
- `FirstComeFirstServed`: no acquisition overtakes the list.
- `ImplementsPermitLock`: with `count` as the free permits, the acquired or
  handed-over ones as holdings and `extra` as the created ones, every step is a step of
  `PermitLock` or a stutter. There a permit moves between the free ones and a holder,
  or from one holder to another; a new one appears only together with `created`. So
  none is lost and none duplicated.

`MutexProofs`, for every fast path, spinning or not:

- `TypeCorrect`: `Spec => []TypeOK`.
- `Exclusion`: at most one holder, and the count is 1 exactly when there is none.
  The inductive invariant `MutexInv` adds that the count never exceeds 1, that
  the value `__mutex_fastpath_trylock` restores is negative, and where a task
  that is named by `owner` can be.
- `OwnerCorrect`: the owner field names nobody or the holder.
- `ImplementsPermitLock`: the mutex is a lock with one permit.
- `WakeupCorrect`: `NoLostWakeup`, under the hypothesis that the exchange fast path is
  not combined with spinning; there it is false, which is the run `mutex_xchg_spin`.
  `QueueInv` says that the list holds exactly the tasks between `list_add_tail()` and
  `mutex_remove_waiter()`; `NotStranded` that while the list is not empty the count is
  negative or a task is on its way to mend it (`Coming`): a count that does not tell of
  the waiters is dangerous already while the mutex is held, because the next unlock
  takes the fast path.

Note that exclusion is proved for the combination in which a wake-up is lost: that
defect costs progress, not exclusion.

`RwsemProofs`:

- `StructureCorrect`, `WaitersLive`: `Structure` says which places of the slow path
  only the holder of `wait_lock` can be at, that a task is on at most one of
  `wait_list` and `woken`, once, and what its waiter then looks like. The liveness of
  the waiters is part of it: a waiter whose `task` has been cleared may be gone, and
  `__rwsem_do_wake()` has taken what it needs before that.
- `CountCorrect`: `CountAccounts`. The count is a sum over sets of tasks, and every
  decision of the code is a comparison of that sum, so the proof first turns the
  comparisons into facts about the sets (`CountView`): the count is
  `nActive - nBelow * (mask + 1)`, and with fewer tasks than the mask the two parts
  can be told apart. `RwsemInv` joins the sum with exclusion, with what a waker that
  has found no writer may grant (`GrantOK`), and with `NotStranded`; none of them is
  inductive without the others.
- `TypeCorrect`: the count stays within its two fields, which follows from the sum.
- `WakeupCorrect`: `NoLostWakeup`. `QueueCorrect`: `NoOvertaking`, an action property.
- `ImplementsRwLock`: every step is a step of `RwLock` or a stutter, under the
  mapping `own` that counts a grant from the moment the waker makes it.

`SoftirqProofs`:

- `StructureCorrect`: types, and where each context can be (`SoftOK`, `UserOK`).
- `OnePlace`: `ScheduledAtOnePlace`. The places a tasklet can be at are a relation
  (`Has`) between tasklets, kinds of places and owners; `Homes` says that it relates
  a tasklet to at most one place, only with the SCHED bit set, and with the bit set to
  one unless the tasklet is in `lost`, to none if it is; `ListsOK` that
  the lists repeat nothing, without which removing a tasklet would not remove it, and
  that what a tail left at the head would lose was put first.
- `SerializedCorrect`: `Serialized`. `RunOK` says that the RUN bit is set for every
  tasklet a CPU has locked, and that no two CPUs have the same one; `QuietOK` that no CPU
  gets to the function once a caller has seen the bit clear, because that caller
  holds the disable count up or the SCHED bit.
- `TypeCorrect`: the disable count is the number of callers that have the tasklet disabled
  (`CountOK`), hence bounded.
- `NotStranded`: `NothingStranded`, by `Looked`: whatever adds to a list of a CPU leaves
  its pending bit set, and whatever ends processing leaves ksoftirqd woken if a bit is.

`SrcuProofs`, for any number of CPUs, readers, callbacks and synchronisers:

- `TypeCorrect`: `Spec => []TypeOK`.
- `DriverCorrect`: `OneDriver`. `DriverOK` adds which places the work item and a
  `synchronize_srcu()` can be at, since the hand-over in `srcu_reschedule()` is done by either.
- `OrderCorrect`: `InOrder`. `PipeOK` says that the four batches, read from the last to
  the first, hold each callback once in the order of `ahead`; that they are empty when
  nobody drives and not empty while somebody is queued or counting; and that a
  synchroniser that drives is at their head, because it found them empty. The last is what
  the `BUG_ON` in `__synchronize_srcu()` asserts.
- `FreeCorrect`: `NoUseAfterFree`, a consequence of the two: when the user is finished
  the pipeline is empty, and whoever drives then has nothing left to count.
- `LeakCorrect`: `NothingLeaks`. By `CountsOK` the counters of a rank add up to the number of
  readers inside on it, modulo `ULONG`, on whichever CPUs these came and left. A sum
  over the CPUs is a recursive function; that it exists, and what a change of one
  counter does to its partial sums (`SumChange`), is shown by the least CPU for
  which it would fail (`CpuInduction`).
- `GraceCorrect`: `GracePeriod`, the promise of the component. A driver adds the counters
  up one CPU at a time, so `CheckOK` says by how much its sum may be off: in the
  sums of `seq` by the entries counted at CPUs it has passed; in the sum of `c` by the
  readers that have come (`I`) and gone (`e`) there. Since a rank being checked is not
  the one new readers take, each reader can be off once, and these numbers stay
  below `ULONG`. While no entry has been counted the readers in `I` are ones that no callback
  waits for, so a sum of zero leaves nobody to wait for; and if an entry has been
  counted, the second sum of `seq` differs. `BatchOK` carries the outcome of the two checks:
  what is in `batch_check1` waits for readers of one rank only, what is done
  for none.

`IrqWorkProofs`, for any number of works, contexts and CPUs:

- `TypeCorrect`: `Spec => []TypeOK`.
- `NodeCorrect`: `NodeOnce`. `UsersOK` says that a work has at most one claimant, list
  or walker, at most one of the three, and one exactly when it is marked pending;
  that every list ends is inductive with it. The lemmas about lists (what is reachable
  after a node is put in front, after a link elsewhere changes, from the rest of
  a list) all follow from the chain being the least closed set, without
  induction.
- `NothingLost`: `NoLostWork`, with `RaiseOK` (a list that is not empty has its interrupt
  raised) and `DataOK` (while data is unseen the work is pending, its callback about to
  begin, or somebody still queueing it).
- `FailureCorrect`: `FailureMeansEnqueued`, an action property: a claim fails only
  on a flag that `UsersOK` explains by a user.
- `SyncCorrect`: `SyncMeansUnused`, an action property. `BusyOK` says that a work whose
  callback runs has a flag set, unless that callback is in `twice`: a callback clears
  BUSY when it ends, which hurts only another one of the same work that was running
  then.

`AsyncProofs`, for any number of threads, domains, calls and any limit:

- `TypeCorrect`, `ListsCorrect`: `ListsHoldLiveEntries`. `CallsOK` says that cookies are given in
  turn and never run out under the bound, and that each call not yet handed to the workqueue
  belongs to one thread; `EntriesOK` that the lists hold the live entries, once each, and
  that the count together with the threads already past the check of the limit
  exceeds the limit by at most the number of threads.
- `CookieWaitCorrect`: `WaitsUnlessOvertaken`, and `FullWaitCorrect`:
  `FullWaitsUnlessOvertaken`, for every order in which the work items start. `OrderOK`
  says that the pending list is sorted and that wherever a call is ahead of an older one
  of its domain, in the running list or by running while the other is pending, it has
  passed it; from it whatever is live is not below what `__lowest_in_progress()` returns, or
  that has passed it (`LowestIsLowest`). `SyncOK` says of each caller of
  `async_synchronize_full()` that it waits for a cookie no smaller than the one it began
  with, and that once it has waited, the calls before it stay done or overtaken.

`StopMachineProofs`, for any number of CPUs and of tasks that make calls. The invariant
`Inv` says where calls and stoppers can be and which locks are held there (`TaskOK`,
`LockOK`, `StopperOK`, `HotOK`), and of each call (`CallOK`):

- `OpenOK`: `nr_todo` is the number of CPUs whose work is yet to be queued, is on a list of
  an enabled stopper, or is being executed (`Open`), and each CPU is one of these at
  most once. `NoUseCorrect`: `NoUseAfterReturn` follows for whatever a stopper executes,
  has on its list, or a drain has yet to signal, since a call returns only when the number is
  zero, and a stopper that is not enabled has no such works (`CurOK`). What a drain has
  signalled and left linked is not covered; it is the subject of `stop_machine_drain`. That a
  work is not stranded when its CPU goes away needs `HotOK`: the stopper stays enabled
  until the drain has signalled them all.
- `StateOK`: `ack` is the number of participants (`Part`) that have not acknowledged the
  state (`Lag`), and a CPU that steps through the states is in the current one or has
  not yet seen it change (`At`), so no two are more than one state apart. The one that
  finds `ack` zero is therefore alone in `set_state()`. `FrozenCorrect`: `Frozen`, since
  RUN is entered only when all have acknowledged DISABLE_IRQ and left only when all have
  acknowledged RUN. `num_threads` stays right because the mask of online CPUs
  cannot change under a call, except by the function of the call itself: `Part`
  keeps the CPU that takes itself offline.
- `RanOK`: `ran` is once for each active CPU that is past the function and never for
  another. `ResultCorrect`:
  `ResultIsTrue`, because a call that is open nowhere has left RUN behind (`AllRan`).
- `DownOK`: the CPU that `take_cpu_down()` was run on is offline unless it failed, and the
  failure is with a CPU on its way to `cpu_stop_signal_done()` or already in `done->ret`.
  `DownCorrect`: when `cpu_down()` gets its result, `ret` is set if and only if the CPU is
  still online (`DownTrue`).

None of these is inductive alone: `Lag` counts works that are not yet taken, which
`OpenOK` accounts for, and `OpenOK` needs the last CPU to leave the states only after all
have, which is `StateOK`. `OneMachineCorrect`: all CPUs that step through states belong to
one call (`OneMachine`), by `stop_cpus_mutex`. `TypeCorrect`: `TypeOK`, whose bounds on
`nr_todo`, `ack` and `state` follow from the counts, and `CurOK`, a small invariant on top of `Inv`.

Only proved: type correctness of the semaphore, the mutex and `Srcu`, the structure of
`Rwsem` and `Softirq`, the mutex's refinement of `PermitLock`, and `DownTrue` and `OneMachine`, which no run
repeats.

Only model-checked: all liveness, which is out of the prover's reach. That is
`semaphore`, `mutex`, `rwsem`, `stop_machine`, `async` and `srcu_batches`, each under the
fairness described above.

## Not modelled

- `atomic_dec_and_mutex_lock()` and `mutex_destroy()`; lockdep annotations.
- Overflow of the mutex count (it would take 2^31 contending tasks), of cookies
  (64 bits) and of the semaphore count.
- Memory order: every access takes effect at once. Semaphores, async calls and
  the mutex slow paths rely on locks, the fast paths and `irq_work.c` on atomic
  operations, SRCU on the barriers A to D of the code, `stop_machine` on
  `smp_wmb()` and atomic operations. The one place where this
  hides something is the plain store of BUSY at `irq_work.c:123`.
- Allocation failure other than in `async.c`, hotplug beyond what the stoppers and
  the softirqs see of it (it is exclusive in the model, and the notifiers of other
  subsystems are absent), and the workqueue itself, which appears as "a queued work item runs, and not twice at once".
- The lifetime of the `srcu_struct` after `cleanup_srcu_struct()`:
  `process_srcu()` may still read it, and nothing in the code waits for that.
- Softirq vectors other than the two of the tasklets, which have no list of their
  own in `softirq.c`; `tasklet_kill_immediate()` and `send_remote_softirq()`, which
  nobody in the repository calls; the `tasklet_hrtimer` wrapper; booting with
  `threadirqs`.
- The synchronous path of `__stop_machine()` before `cpu_stop_init()`.
- `lib/rwsem-spinlock.c`, the alternative without atomic fast paths.
- The components `PROJECT.json` lists as not modelled.

## Plan

1. Done: `PermitLock`, `Semaphore`, `Mutex`, `RwLock`, `Rwsem`, `Softirq`, `StopMachine`,
   `Async`, `IrqWork`, `Srcu` with runs and proofs. Every invariant and every action
   property of a passing run is a theorem, under the hypotheses named above.
2. Modules that would follow: `lib/rwsem-spinlock.c` against `RwLock`,
   `atomic_dec_and_mutex_lock` in `Mutex`, `Kthread` with completions, `Kfifo`,
   `SmpCall`, `ResCounter`, the System V semaphore wake-up, futex wait and requeue,
   and an abstract grace-period specification that `Srcu` refines.
