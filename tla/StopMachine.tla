----------------------------- MODULE StopMachine -----------------------------
(***************************************************************************)
(* Stopping CPUs: kernel/stop_machine.c, and what kernel/cpu.c does to the *)
(* stoppers when a CPU goes down or comes up.                              *)
(*                                                                         *)
(* Each online CPU has a stopper, a thread that no task can preempt and    *)
(* that takes works from a list.  Calls sleep until their works are done.  *)
(* stop_machine() gives one work to every CPU, and these step together     *)
(* through a sequence of states.  The list and the enabled flag are        *)
(* touched under the stopper's lock; of the shared counters only the last  *)
(* decrement is ever looked at.                                            *)
(***************************************************************************)
EXTENDS Naturals, Sequences, FiniteSets

CONSTANTS
    Cpus,         \* the possible CPUs, numbers
    Tasks,        \* tasks that make the calls
    Calls,        \* which of them each task makes
    NULL

ASSUME StopMachineAssumption ==
    /\ Cpus \subseteq Nat /\ Cpus # {} /\ IsFiniteSet(Cpus)
    /\ NULL \notin Tasks \cup Cpus
    /\ NULL \notin {"one", "machine", "try", "down", "up", "inactive"}
    /\ Calls \in [Tasks -> SUBSET {"one", "nowait", "machine", "try", "hotplug"}]

VARIABLES
    online,       \* cpu_online_mask
    hotplug,      \* the task between cpu_hotplug_begin() and cpu_hotplug_done()
    mutex,        \* the holder of stop_cpus_mutex
    stopper,      \* per CPU: struct cpu_stopper, its thread, what that executes
    drained,      \* per CPU: works at the head of its list that have been drained
    task,         \* per task: the call it makes, and where it is
    done,         \* per task: the struct cpu_stop_done on its stack
    smdata,       \* per task: the struct stop_machine_data on its stack
    ran           \* history, per task and CPU: executions of the call's function

vars == <<online, hotplug, mutex, stopper, drained, task, done, smdata, ran>>

(* enum stopmachine_state *)
NONE == 0
PREPARE == 1
DISABLE_IRQ == 2
RUN == 3
EXIT == 4

First(S) == CHOOSE c \in S : \A d \in S : c <= d

(* A struct cpu_stop_work: whose it is, its function, and whether there is  *)
(* a cpu_stop_done for it.                                                  *)
Work(t, fn, d) == [by |-> t, fn |-> fn, done |-> d]
NoWork == Work(NULL, "plain", FALSE)

NoStopper ==
    [enabled |-> FALSE, works |-> <<>>, pc |-> "none", awake |-> FALSE,
     should_stop |-> FALSE, work |-> NoWork, curstate |-> NONE, err |-> FALSE]

NotCalling == [op |-> NULL, pc |-> "idle", cpu |-> NULL, todo |-> {}]
NoDone == [nr_todo |-> 0, executed |-> FALSE, ret |-> FALSE]
NoData == [state |-> NONE, ack |-> 0, num |-> 0, active |-> {}]

(* One execution on each CPU of S, and no other. *)
OnceOn(S) == [c \in Cpus |-> IF c \in S THEN 1 ELSE 0]

(* cpu_stop_init(), and the CPUs brought up after it. *)
Init ==
    /\ online = Cpus
    /\ hotplug = NULL
    /\ mutex = NULL
    /\ stopper = [c \in Cpus |-> [NoStopper EXCEPT !.enabled = TRUE, !.pc = "sleep"]]
    /\ drained = [c \in Cpus |-> <<>>]
    /\ task = [t \in Tasks |-> NotCalling]
    /\ done = [t \in Tasks |-> NoDone]
    /\ smdata = [t \in Tasks |-> NoData]
    /\ ran = [t \in Tasks |-> OnceOn({})]

-----------------------------------------------------------------------------
(* Who can run. *)

(* The stopper is executing a function: nothing else runs on the CPU. *)
Busy(c) == stopper[c].pc \in {"plain", "loop", "fn", "ack", "set_state", "signal"}

(* Mutant: preemption stays enabled in queue_stop_cpus_work(). *)
PreemptEnabled(c) == TRUE

(* No task on c is queueing or draining works with preemption disabled. *)
Preemptible(c) == \A t \in Tasks : ~(task[t].pc \in {"queue", "drain"} /\ task[t].cpu = c)

(* A task that is neither of these can run on c. *)
Free(c) == c \in online /\ ~Busy(c) /\ Preemptible(c)

CanRun == \E c \in Cpus : Free(c)

-----------------------------------------------------------------------------
(* Works. *)

cpu_stop_signal_done(w, executed, ret) ==
    done' = [t \in Tasks |->
               IF w.done /\ w.by = t
               THEN [nr_todo |-> done[t].nr_todo - 1,
                     executed |-> done[t].executed \/ executed,
                     ret |-> done[t].ret \/ ret]
               ELSE done[t]]

(* The CPU that goes down, or comes up. *)
Cpu(t) == First(smdata[t].active)

(* The lock of the stopper is held for more than one step. *)
Locked(c) == \E t \in Tasks : task[t].pc = "drain" /\ Cpu(t) = c

Enqueue(c, w) ==
    [stopper EXCEPT ![c].works = Append(@, w), ![c].awake = TRUE]

(* cpu_stop_queue_work(), with the done of its caller as it then is. *)
cpu_stop_queue_work(c, w, mine) ==
    /\ ~Locked(c)
    /\ IF stopper[c].enabled
       THEN /\ stopper' = Enqueue(c, w)
            /\ done' = mine
       ELSE /\ done' = [mine EXCEPT ![w.by].nr_todo = IF w.done THEN @ - 1 ELSE @]
            /\ UNCHANGED stopper

(* Mutant: one too few. *)
nr_but_one(S) == Cardinality(S) - 1

cpumask_weight(S) == Cardinality(S)

cpu_stop_init_done(t, nr) ==
    [done EXCEPT ![t] = [NoDone EXCEPT !.nr_todo = nr]]

MayCall(t, op) == task[t].pc = "idle" /\ CanRun /\ op \in Calls[t]

stop_one_cpu(t, c) ==
    /\ MayCall(t, "one")
    /\ task' = [task EXCEPT ![t].op = "one", ![t].pc = "wait"]
    /\ ran' = [ran EXCEPT ![t] = OnceOn({})]
    /\ cpu_stop_queue_work(c, Work(t, "plain", TRUE), cpu_stop_init_done(t, 1))
    /\ UNCHANGED <<online, hotplug, mutex, drained, smdata>>

(* What is linked from stopper->works. *)
List(c) == drained[c] \o stopper[c].works

InUse(w) ==
    \E c \in Cpus : \/ Busy(c) /\ stopper[c].work = w
                    \/ \E i \in DOMAIN List(c) : List(c)[i] = w

(* "The caller is responsible for ensuring @work_buf is currently unused". *)
stop_one_cpu_nowait(t, c) ==
    /\ MayCall(t, "nowait")
    /\ ~InUse(Work(t, "plain", FALSE))
    /\ cpu_stop_queue_work(c, Work(t, "plain", FALSE), done)
    /\ UNCHANGED <<online, hotplug, mutex, drained, task, smdata, ran>>

-----------------------------------------------------------------------------
(* stop_cpus() and stop_machine(). *)

(* Mutant: one acknowledgement is not waited for. *)
num_but_one == Cardinality(online) - 1

num_online_cpus == Cardinality(online)

Data(num, active) == [state |-> PREPARE, ack |-> num, num |-> num, active |-> active]

(* __stop_machine() up to stop_cpus(). *)
__stop_machine(t, op, c, active) ==
    /\ task' = [task EXCEPT ![t].op = op, ![t].pc = "mutex", ![t].cpu = c]
    /\ smdata' = [smdata EXCEPT ![t] = Data(num_online_cpus, active)]

(* get_online_cpus() waits for a hotplug operation to end.  The function is *)
(* run on one CPU or on all of them.                                        *)
stop_machine(t) ==
    /\ MayCall(t, "machine")
    /\ hotplug = NULL
    /\ \E active \in {{First(online)}, online} :
          __stop_machine(t, "machine", NULL, active)
    /\ UNCHANGED <<online, hotplug, mutex, stopper, drained, done, ran>>

(* __stop_cpus() up to the first work, on CPU c. *)
__stop_cpus(t, c) ==
    /\ mutex = NULL
    /\ mutex' = t
    /\ done' = cpu_stop_init_done(t, cpumask_weight(online))
    /\ ran' = [ran EXCEPT ![t] = OnceOn({})]

stop_cpus(t) ==
    /\ task[t].pc = "mutex"
    /\ \E c \in online :
          /\ Free(c)
          /\ __stop_cpus(t, c)
          /\ task' = [task EXCEPT ![t].pc = "queue", ![t].cpu = c, ![t].todo = online]
    /\ UNCHANGED <<online, hotplug, stopper, drained, smdata>>

(* With -EAGAIN nothing is done.  RCU calls it between get_online_cpus()    *)
(* and put_online_cpus() for a function that waits for nobody.              *)
try_stop_cpus(t) ==
    /\ MayCall(t, "try")
    /\ hotplug = NULL
    /\ \E c \in online :
          /\ Free(c)
          /\ __stop_cpus(t, c)
          /\ task' = [task EXCEPT ![t] = [op |-> "try", pc |-> "queue", cpu |-> c,
                                          todo |-> online]]
    /\ UNCHANGED <<online, hotplug, stopper, drained, smdata>>

(* One round of the loop of queue_stop_cpus_work(). *)
queue_stop_cpus_work(t) ==
    LET c == First(task[t].todo)
        rest == task[t].todo \ {c}
    IN  /\ task[t].pc = "queue" /\ ~Busy(task[t].cpu)
        /\ cpu_stop_queue_work(c, Work(t, IF task[t].op = "try" THEN "plain" ELSE "sm", TRUE),
                               done)
        /\ task' = [task EXCEPT ![t].todo = rest, ![t].pc = IF rest = {} THEN "wait" ELSE @]
        /\ UNCHANGED <<online, hotplug, mutex, drained, smdata, ran>>

(* The call returns, and what is on its stack is gone. *)
Leave(t) ==
    /\ task' = [task EXCEPT ![t] = NotCalling]
    /\ smdata' = [smdata EXCEPT ![t] = NoData]

Forget(t) ==
    /\ done' = [done EXCEPT ![t] = NoDone]
    /\ ran' = [ran EXCEPT ![t] = OnceOn({})]

(* wait_for_completion() returns, and with it a call that has no more to    *)
(* do.                                                                      *)
Completed(t) == task[t].pc = "wait" /\ done[t].nr_todo = 0

Return(t) ==
    /\ Completed(t) /\ CanRun
    /\ task[t].op \in {"one", "machine", "try"}
    /\ Leave(t) /\ Forget(t)
    /\ mutex' = IF mutex = t THEN NULL ELSE mutex
    /\ UNCHANGED <<online, hotplug, stopper, drained>>

-----------------------------------------------------------------------------
(* cpu_stopper_thread() and stop_machine_cpu_stop(). *)

SGoto(c, where) == stopper' = [stopper EXCEPT ![c].pc = where]

(* set_current_state(TASK_INTERRUPTIBLE) when the thread has been woken. *)
Repeat(c) ==
    /\ stopper[c].pc = "sleep" /\ stopper[c].awake
    /\ Preemptible(c)
    /\ stopper' = [stopper EXCEPT ![c].pc = "test", ![c].awake = FALSE]
    /\ UNCHANGED <<online, hotplug, mutex, drained, task, done, smdata, ran>>

kthread_should_stop(c) ==
    /\ stopper[c].pc = "test"
    /\ Preemptible(c)
    /\ SGoto(c, IF stopper[c].should_stop THEN "exited" ELSE "next")
    /\ UNCHANGED <<online, hotplug, mutex, drained, task, done, smdata, ran>>

(* The next work, or schedule(). *)
NextWork(c) ==
    /\ stopper[c].pc = "next"
    /\ Preemptible(c)
    /\ IF stopper[c].works = <<>> THEN SGoto(c, "sleep")
       ELSE LET w == Head(stopper[c].works) IN
               stopper' = [stopper EXCEPT ![c].works = Tail(@), ![c].awake = TRUE,
                             ![c].work = w,
                             ![c].pc = IF w.fn = "sm" THEN "loop" ELSE "plain"]
    /\ UNCHANGED <<online, hotplug, mutex, drained, task, done, smdata, ran>>

(* A function that waits for nobody. *)
PlainFn(c) ==
    /\ stopper[c].pc = "plain"
    /\ SGoto(c, "signal")
    /\ ran' = IF stopper[c].work.done THEN [ran EXCEPT ![stopper[c].work.by][c] = @ + 1]
              ELSE ran
    /\ UNCHANGED <<online, hotplug, mutex, drained, task, done, smdata>>

(* Mutant: one of the CPUs asked for is enough. *)
RunsOnFirst(d, c) == d.state = RUN /\ c = First(d.active)

RunsFn(d, c) == d.state = RUN /\ c \in d.active

(* A new state is seen: interrupts are disabled from DISABLE_IRQ on. *)
NewState(c) ==
    LET d == smdata[stopper[c].work.by]
    IN  /\ stopper[c].pc = "loop"
        /\ d.state # stopper[c].curstate
        /\ stopper' = [stopper EXCEPT
                         ![c].curstate = d.state,
                         ![c].pc = IF RunsFn(d, c) THEN "fn" ELSE "ack"]
        /\ UNCHANGED <<online, hotplug, mutex, drained, task, done, smdata, ran>>

(* smdata->fn returns, perhaps with an error.  That of cpu_down() is        *)
(* take_cpu_down(), which removes the CPU unless it fails.                  *)
Fn(c, err) ==
    LET t == stopper[c].work.by
    IN  /\ stopper[c].pc = "fn"
        /\ stopper' = [stopper EXCEPT ![c].pc = "ack", ![c].err = err]
        /\ online' = IF task[t].op = "down" /\ ~err THEN online \ {c} ELSE online
        /\ ran' = [ran EXCEPT ![t][c] = @ + 1]
        /\ UNCHANGED <<hotplug, mutex, drained, task, done, smdata>>

AfterAck(c) == IF stopper[c].curstate = EXIT THEN "signal" ELSE "loop"

ack_state(c) ==
    LET t == stopper[c].work.by
    IN  /\ stopper[c].pc = "ack"
        /\ smdata' = [smdata EXCEPT ![t].ack = @ - 1]
        /\ SGoto(c, IF smdata[t].ack = 1 THEN "set_state" ELSE AfterAck(c))
        /\ UNCHANGED <<online, hotplug, mutex, drained, task, done, ran>>

(* Mutant: the counter is not reset. *)
NoReset(d) == d.ack

ResetAck(d) == d.num

(* The last one moves all to the next state.  Nobody looks at the counter   *)
(* before the new state is seen.                                            *)
set_state(c) ==
    LET t == stopper[c].work.by
    IN  /\ stopper[c].pc = "set_state"
        /\ smdata' = [smdata EXCEPT ![t].ack = ResetAck(smdata[t]), ![t].state = @ + 1]
        /\ SGoto(c, AfterAck(c))
        /\ UNCHANGED <<online, hotplug, mutex, drained, task, done, ran>>

(* The work is done.  What stop_machine_from_inactive_cpu() executes itself *)
(* is no work.                                                              *)
SignalDone(c) ==
    LET w == stopper[c].work
    IN  /\ stopper[c].pc = "signal"
        /\ stopper' = [stopper EXCEPT ![c].pc = "sleep", ![c].work = NoWork,
                                     ![c].curstate = NONE, ![c].err = FALSE]
        /\ cpu_stop_signal_done(w, TRUE, stopper[c].err)
        /\ UNCHANGED <<online, hotplug, mutex, drained, task, smdata, ran>>

StopperStep(c) ==
    \/ Repeat(c) \/ kthread_should_stop(c) \/ NextWork(c) \/ PlainFn(c)
    \/ NewState(c) \/ (\E err \in BOOLEAN : Fn(c, err)) \/ ack_state(c) \/ set_state(c)
    \/ SignalDone(c)

-----------------------------------------------------------------------------
(* CPU hotplug.  cpu_add_remove_lock admits one operation at a time, and    *)
(* cpu_hotplug_begin() waits for the users of get_online_cpus().            *)

MayHotplug ==
    /\ hotplug = NULL
    /\ \A t \in Tasks : task[t].op \notin {"machine", "try", "down", "up", "inactive"}

cpu_down(t, c) ==
    /\ MayCall(t, "hotplug")
    /\ MayHotplug
    /\ c \in online /\ online # {c}
    /\ hotplug' = t
    /\ __stop_machine(t, "down", c, {c})
    /\ UNCHANGED <<online, mutex, stopper, drained, done, ran>>

HGoto(t, where) == task' = [task EXCEPT ![t].pc = where]

(* cpu_down() is told whether take_cpu_down() has succeeded. *)
Down(t) ==
    /\ Completed(t) /\ CanRun
    /\ task[t].op = "down"
    /\ mutex' = NULL
    /\ Forget(t)
    /\ IF done[t].ret THEN Leave(t) /\ hotplug' = NULL
       ELSE /\ HGoto(t, "dying")
            /\ smdata' = [smdata EXCEPT ![t] = Data(0, @.active)]
            /\ UNCHANGED hotplug
    /\ UNCHANGED <<online, stopper, drained>>

(* "Wait for the stop thread to go away." *)
Dead(t) ==
    /\ task[t].pc = "dying"
    /\ stopper[Cpu(t)].pc = "sleep" /\ ~stopper[Cpu(t)].awake
    /\ HGoto(t, "post_dead")
    /\ hotplug' = NULL
    /\ UNCHANGED <<online, mutex, stopper, drained, done, smdata, ran>>

(* CPU_POST_DEAD: kthread_stop() ... *)
kthread_stop(t) ==
    /\ task[t].pc = "post_dead"
    /\ CanRun
    /\ stopper' = [stopper EXCEPT ![Cpu(t)].should_stop = TRUE, ![Cpu(t)].awake = TRUE]
    /\ HGoto(t, "join")
    /\ UNCHANGED <<online, hotplug, mutex, drained, done, smdata, ran>>

(* ... and, when the thread has exited, "drain remaining works", from CPU d *)
(* and under the stopper's lock.                                            *)
DrainLock(t) ==
    /\ task[t].pc = "join"
    /\ stopper[Cpu(t)].pc = "exited"
    /\ \E d \in online :
          /\ Free(d)
          /\ task' = [task EXCEPT ![t].pc = "drain", ![t].cpu = d]
    /\ UNCHANGED <<online, hotplug, mutex, stopper, drained, done, smdata, ran>>

(* One round of the loop.  The work stays on the list, and the next round   *)
(* begins with a read of its list.next, wherever its owner has got to.      *)
DrainOne(t) ==
    LET s == stopper[Cpu(t)]
    IN  /\ task[t].pc = "drain" /\ s.works # <<>>
        /\ cpu_stop_signal_done(Head(s.works), FALSE, FALSE)
        /\ stopper' = [stopper EXCEPT ![Cpu(t)].works = Tail(s.works)]
        /\ drained' = [drained EXCEPT ![Cpu(t)] = Append(@, Head(s.works))]
        /\ UNCHANGED <<online, hotplug, mutex, task, smdata, ran>>

DrainEnd(t) ==
    /\ task[t].pc = "drain" /\ stopper[Cpu(t)].works = <<>>
    /\ stopper' = [stopper EXCEPT ![Cpu(t)] = NoStopper]
    /\ Leave(t)
    /\ hotplug' = IF hotplug = t THEN NULL ELSE hotplug
    /\ UNCHANGED <<online, mutex, drained, done, ran>>

(* CPU_UP_PREPARE: a new thread, not yet woken, ... *)
cpu_up(t, c) ==
    /\ MayCall(t, "hotplug")
    /\ MayHotplug
    /\ c \notin online
    /\ List(c) = <<>>
    /\ hotplug' = t
    /\ task' = [task EXCEPT ![t].op = "up", ![t].pc = "prepared"]
    /\ smdata' = [smdata EXCEPT ![t] = Data(0, {c})]
    /\ stopper' = [stopper EXCEPT ![c].pc = "sleep"]
    /\ UNCHANGED <<online, mutex, drained, done, ran>>

(* ... or BUG_ON(!list_empty(&stopper->works)): the task is killed, and the *)
(* locks it holds are never given back.                                     *)
BugOn(t, c) ==
    /\ MayCall(t, "hotplug")
    /\ MayHotplug
    /\ c \notin online
    /\ List(c) # <<>>
    /\ hotplug' = t
    /\ task' = [task EXCEPT ![t].op = "up", ![t].pc = "BUG"]
    /\ UNCHANGED <<online, mutex, stopper, drained, done, smdata, ran>>

(* CPU_UP_CANCELED *)
UpCanceled(t) ==
    /\ task[t].pc = "prepared"
    /\ CanRun
    /\ HGoto(t, "post_dead")
    /\ UNCHANGED <<online, hotplug, mutex, stopper, drained, done, smdata, ran>>

(* The CPU that comes up calls stop_machine_from_inactive_cpu(): it stops   *)
(* the others, ...                                                          *)
stop_machine_from_inactive_cpu(t) ==
    LET c == Cpu(t)
    IN  /\ task[t].pc = "prepared"
        /\ __stop_cpus(t, c)
        /\ smdata' = [smdata EXCEPT ![t] = Data(num_online_cpus + 1, @.active \cup online)]
        /\ task' = [task EXCEPT ![t] = [op |-> "inactive", pc |-> "queue", cpu |-> c,
                                        todo |-> online]]
        /\ UNCHANGED <<online, hotplug, stopper, drained>>

(* ... takes part itself, ... *)
TakePart(t) ==
    LET c == task[t].cpu
    IN  /\ task[t].op = "inactive" /\ task[t].pc = "wait"
        /\ HGoto(t, "part")
        /\ stopper' = [stopper EXCEPT ![c].pc = "loop", ![c].work = Work(t, "sm", FALSE)]
        /\ UNCHANGED <<online, hotplug, mutex, drained, done, smdata, ran>>

(* ... and busy-waits for the others. *)
AllStopped(t) ==
    LET c == task[t].cpu
    IN  /\ task[t].pc = "part"
        /\ stopper[c].pc = "sleep" /\ done[t].nr_todo = 0
        /\ mutex' = NULL
        /\ Forget(t)
        /\ task' = [task EXCEPT ![t] = [NotCalling EXCEPT !.op = "up", !.pc = "starting"]]
        /\ smdata' = [smdata EXCEPT ![t] = Data(0, {c})]
        /\ UNCHANGED <<online, hotplug, stopper, drained>>

(* The CPU is online, and the notifier called with CPU_ONLINE. *)
Up(t) ==
    /\ task[t].pc \in {"prepared", "starting"}
    /\ online' = online \cup {Cpu(t)}
    /\ HGoto(t, "up")
    /\ UNCHANGED <<hotplug, mutex, stopper, drained, done, smdata, ran>>

Online(t) ==
    /\ task[t].pc = "up"
    /\ CanRun
    /\ stopper' = [stopper EXCEPT ![Cpu(t)].enabled = TRUE, ![Cpu(t)].awake = TRUE]
    /\ Leave(t)
    /\ hotplug' = NULL
    /\ UNCHANGED <<online, mutex, drained, done, ran>>

HotplugStep(t) ==
    \/ Down(t) \/ Dead(t) \/ kthread_stop(t) \/ DrainLock(t) \/ DrainOne(t) \/ DrainEnd(t)
    \/ UpCanceled(t) \/ TakePart(t) \/ AllStopped(t) \/ Up(t) \/ Online(t)

-----------------------------------------------------------------------------

Call(t) ==
    \/ stop_machine(t) \/ try_stop_cpus(t)
    \/ \E c \in Cpus : \/ stop_one_cpu(t, c) \/ stop_one_cpu_nowait(t, c)
                       \/ cpu_down(t, c) \/ cpu_up(t, c) \/ BugOn(t, c)

TaskStep(t) == stop_cpus(t) \/ queue_stop_cpus_work(t) \/ Return(t) \/ HotplugStep(t)

Next ==
    \/ \E t \in Tasks : Call(t) \/ TaskStep(t) \/ stop_machine_from_inactive_cpu(t)
    \/ \E c \in Cpus : StopperStep(c)

Spec == Init /\ [][Next]_vars

(* A stopper runs if its CPU can be preempted again and again, and a task   *)
(* if CPUs are free again and again.                                        *)
FairSpec ==
    /\ Spec
    /\ \A c \in Cpus : SF_vars(StopperStep(c))
    /\ \A t \in Tasks : SF_vars(TaskStep(t))

-----------------------------------------------------------------------------
(* Properties *)

(* The shape of the stoppers, the calls and what is on the callers' stacks. *)
TypeOK ==
    /\ online \subseteq Cpus /\ online # {}
    /\ {hotplug, mutex} \subseteq Tasks \cup {NULL}
    /\ \A c \in Cpus :
          /\ {stopper[c].enabled, stopper[c].awake, stopper[c].should_stop} \subseteq BOOLEAN
          /\ stopper[c].curstate \in NONE .. EXIT
          /\ stopper[c].pc \in {"none", "sleep", "test", "next", "exited", "plain", "loop",
                                "fn", "ack", "set_state", "signal"}
    /\ \A t \in Tasks :
          /\ task[t].todo \subseteq Cpus
          /\ done[t].nr_todo \in 0 .. Cardinality(Cpus)
          /\ smdata[t].state \in NONE .. EXIT + 1
          /\ smdata[t].ack \in 0 .. Cardinality(Cpus)
    /\ ran \in [Tasks -> [Cpus -> Nat]]

(* While the function of stop_machine() runs anywhere, every CPU that is    *)
(* online, and one that is going down or coming up, sits in the same call   *)
(* with its interrupts disabled, and none has left the state RUN.           *)
Frozen ==
    \A c \in Cpus : stopper[c].pc = "fn" =>
       \A d \in online \cup {c, task[stopper[c].work.by].cpu} :
          /\ Busy(d) /\ stopper[d].work.by = stopper[c].work.by
          /\ stopper[d].curstate \in {DISABLE_IRQ, RUN}

(* What a work points at, and mostly the work itself, is on the stack of a  *)
(* call.  Whoever executes, signals or is going to take a work, be it a     *)
(* stopper or the drain of a CPU that is gone, finds a call that has not    *)
(* returned and still waits for it.  The works that a drain has signalled   *)
(* and left on the list are the only ones this is not said of:              *)
(* DrainedIsUnlinked is.                                                    *)
Waiting(t) == task[t].pc \in {"queue", "wait", "part"}
NoUseAfterReturn ==
    \A c \in Cpus :
       LET ws == {stopper[c].works[i] : i \in DOMAIN stopper[c].works}
                 \cup (IF Busy(c) THEN {stopper[c].work} ELSE {})
       IN  \A w \in ws : w.done => Waiting(w.by) /\ done[w.by].nr_todo > 0

(* "drain remaining works", and the BUG_ON() that later relies on an empty  *)
(* list: no list leads to a work on the stack of a stop_one_cpu() that has  *)
(* returned.  It does: the loop signals a work, does not unlink it, and     *)
(* then reads its list.next.                                                *)
DrainedIsUnlinked ==
    \A c \in Cpus : \A i \in DOMAIN List(c) : List(c)[i].done => Waiting(List(c)[i].by)

(* The result tells what has happened: stop_one_cpu() gives -ENOENT if the  *)
(* function has been executed nowhere, and otherwise it has been, once, on  *)
(* one CPU; stop_machine() and try_stop_cpus() have executed theirs exactly *)
(* once on each CPU they were asked to, and on no other, whatever CPUs come *)
(* and go.                                                                  *)
ResultIsTrue ==
    \A t \in Tasks : Completed(t) =>
       CASE task[t].op = "one" -> IF done[t].executed THEN \E c \in Cpus : ran[t] = OnceOn({c})
                                  ELSE ran[t] = OnceOn({})
         [] task[t].op = "try" -> ran[t] = OnceOn(online)
         [] task[t].op \in {"machine", "down"} -> ran[t] = OnceOn(smdata[t].active)
         [] OTHER -> TRUE

(* Every call returns: stoppers that wait for each other are always all on  *)
(* their way, and nobody waits for a work on the list of a CPU that is      *)
(* gone.  Only the busy-wait of cpu_down() for the idle CPU may go on, as   *)
(* long as others keep giving works to it, and a cpu_up() ends in BUG_ON(). *)
EveryCallReturns ==
    \A t \in Tasks : task[t].pc # "idle" ~> task[t].pc \in {"idle", "dying", "BUG"}
=============================================================================
