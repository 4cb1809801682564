------------------------------- MODULE Softirq -------------------------------
(***************************************************************************)
(* Softirqs and tasklets: kernel/softirq.c and the inline functions of     *)
(* include/linux/interrupt.h.                                              *)
(*                                                                         *)
(* On each CPU a softirq runs on top of a task, when an interrupt returns  *)
(* or bottom halves are enabled again, or in the thread ksoftirqd.  A      *)
(* hardware interrupt may come at any moment at which interrupts are       *)
(* enabled; what the code does with interrupts disabled touches only its   *)
(* own CPU and is one step.  The two bits of a tasklet's state and its     *)
(* count are shared between CPUs: each access to them is a step.  The      *)
(* kernel was booted without threadirqs.                                   *)
(***************************************************************************)
EXTENDS Naturals, Sequences, FiniteSets

CONSTANTS
    Cpus,
    Users,                \* tasks that call the tasklet functions
    Tasklets,
    Vec,                  \* how each tasklet is scheduled: "HI" and "TASKLET" by
                          \* task or interrupt, "FIRST" by tasklet_hi_schedule_first()
                          \* and, as kmemcheck's, in no other way
    MAX_SOFTIRQ_RESTART,
    NULL

ASSUME SoftirqAssumption ==
    /\ Vec \in [Tasklets -> {"HI", "TASKLET", "FIRST"}]
    /\ MAX_SOFTIRQ_RESTART \in Nat \ {0}
    /\ IsFiniteSet(Users)
    /\ NULL \notin Users \cup Tasklets

VARIABLES
    sched,        \* tasklets whose TASKLET_STATE_SCHED is set
    run,          \* tasklets whose TASKLET_STATE_RUN is set
    count,        \* t->count: how often each tasklet is disabled
    vec,          \* per CPU: tasklet_hi_vec and tasklet_vec
    pending,      \* per CPU: the bits of local_softirq_pending()
    soft,         \* per CPU: the __do_softirq() in progress
    bh,           \* per CPU: the user that has bottom halves disabled
    kstate,       \* per CPU: is ksoftirqd's state TASK_RUNNING?
    kpc,          \* per CPU: where ksoftirqd is
    online,       \* the CPUs that are online
    upc, uarg,    \* per user: what it is doing, and to which tasklet
    lost          \* ghost: tasklets that a store through tail has cut off

taskletVars == <<sched, run, count>>
kVars == <<kstate, kpc>>
userVars == <<upc, uarg>>
vars == <<taskletVars, vec, pending, soft, bh, kVars, online, userVars, lost>>

Bits == {"HI", "TASKLET"}
Bit(k) == IF Vec[k] = "TASKLET" THEN "TASKLET" ELSE "HI"

(* A struct tasklet_head: the list, and whether tail points at head. *)
EmptyHead == [seq |-> <<>>, atHead |-> TRUE]

AtRest == [pc |-> "none", bits |-> {}, list |-> <<>>, t |-> NULL, restart |-> 0]

Init ==
    /\ sched = {}
    /\ run = {}
    /\ count = [k \in Tasklets |-> 0]
    /\ vec = [c \in Cpus |-> [b \in Bits |-> EmptyHead]]
    /\ pending = [c \in Cpus |-> {}]
    /\ soft = [c \in Cpus |-> AtRest]
    /\ bh = [c \in Cpus |-> NULL]
    /\ kstate = [c \in Cpus |-> FALSE]
    /\ kpc = [c \in Cpus |-> "test"]
    /\ online = Cpus
    /\ upc = [u \in Users |-> "idle"]
    /\ uarg = [u \in Users |-> NULL]
    /\ lost = {}

-----------------------------------------------------------------------------
(* Raising and queueing, with interrupts disabled on the CPU. *)

(* Mutant: tail stays where it is. *)
AddTailStale(h, s) == [h EXCEPT !.seq = IF h.atHead THEN s ELSE @ \o s]

(* *tail = t; tail = &t->next.  A tail that points at head replaces what    *)
(* hangs there.                                                             *)
AddTail(h, s) ==
    [seq |-> IF h.atHead THEN s ELSE h.seq \o s, atHead |-> FALSE]

(* t->next = head; head = t. *)
AddFirst(h, k) == [h EXCEPT !.seq = <<k>> \o @]

in_interrupt(c) == soft[c].pc # "none" \/ bh[c] # NULL

(* Mutant: nobody is woken. *)
wakeup_nobody(c) == UNCHANGED kstate

wakeup_softirqd(c) == kstate' = [kstate EXCEPT ![c] = TRUE]

raise_softirq_irqoff(c, bits) ==
    /\ pending' = [pending EXCEPT ![c] = @ \cup bits]
    /\ IF in_interrupt(c) THEN UNCHANGED kstate ELSE wakeup_softirqd(c)

Queue(c, k) == vec' = [vec EXCEPT ![c][Bit(k)] = AddTail(@, <<k>>)]

(* __do_softirq() starts on c: the pending bits are taken over. *)
Start(c, bits, restart) ==
    /\ soft' = [soft EXCEPT ![c] = [AtRest EXCEPT !.pc = "walk", !.bits = bits,
                                                 !.restart = restart]]
    /\ pending' = [pending EXCEPT ![c] = {}]

-----------------------------------------------------------------------------
(* __do_softirq() and tasklet_action().  A list that is being walked, and   *)
(* the list a tasklet goes back to, belong to the CPU: what is done to them *)
(* is part of the step that looks at the tasklet before.                    *)

(* The next pending vector, HI before TASKLET: its list is taken over. *)
tasklet_action(c) ==
    LET b == IF "HI" \in soft[c].bits THEN "HI" ELSE "TASKLET"
    IN  /\ soft[c].pc = "walk" /\ soft[c].list = <<>>
        /\ soft[c].bits # {}
        /\ soft' = [soft EXCEPT ![c].bits = @ \ {b}, ![c].list = vec[c][b].seq]
        /\ vec' = [vec EXCEPT ![c][b] = EmptyHead]
        /\ UNCHANGED <<taskletVars, pending, bh, kVars, online, userVars>>

(* All vectors done: start again if more was raised, else leave the rest to *)
(* ksoftirqd.  "pending && --max_restart" counts down before it tests, so   *)
(* there are at most MAX_SOFTIRQ_RESTART - 1 restarts, one fewer than the   *)
(* comment above the constant says.                                         *)
MayRestart(c) == soft[c].restart > 1

EndOfSoftirq(c) ==
    /\ soft[c].pc = "walk" /\ soft[c].list = <<>>
    /\ soft[c].bits = {}
    /\ IF pending[c] # {} /\ MayRestart(c)
       THEN /\ Start(c, pending[c], soft[c].restart - 1)
            /\ UNCHANGED kstate
       ELSE /\ soft' = [soft EXCEPT ![c] = AtRest]
            /\ IF pending[c] # {} THEN wakeup_softirqd(c) ELSE UNCHANGED kstate
            /\ UNCHANGED pending
    /\ UNCHANGED <<taskletVars, vec, bh, kpc, online, userVars>>

(* A tasklet that runs elsewhere or is disabled goes back on the list, and  *)
(* the softirq is raised again.                                             *)
Requeue(c, k) ==
    /\ Queue(c, k)
    /\ pending' = [pending EXCEPT ![c] = @ \cup {Bit(k)}]

(* Mutant: the definition for one CPU. *)
trylock_up(k) == TRUE

tasklet_trylock(k) == k \notin run

(* The next tasklet of the list. *)
Trylock(c) ==
    /\ soft[c].pc = "walk" /\ soft[c].list # <<>>
    /\ LET k == Head(soft[c].list) IN
          IF tasklet_trylock(k)
          THEN /\ soft' = [soft EXCEPT ![c].list = Tail(@), ![c].t = k, ![c].pc = "count"]
               /\ run' = run \cup {k}
               /\ UNCHANGED <<vec, pending>>
          ELSE /\ soft' = [soft EXCEPT ![c].list = Tail(@)]
               /\ Requeue(c, k)
               /\ UNCHANGED run
    /\ UNCHANGED <<sched, count, bh, kVars, online, userVars>>

(* atomic_read(&t->count) *)
ReadCount(c) ==
    /\ soft[c].pc = "count"
    /\ soft' = [soft EXCEPT ![c].pc = IF count[soft[c].t] = 0 THEN "clear" ELSE "unlock"]
    /\ UNCHANGED <<taskletVars, vec, pending, bh, kVars, online, userVars>>

(* test_and_clear_bit(TASKLET_STATE_SCHED), and the call of t->func. *)
ClearSched(c) ==
    /\ soft[c].pc = "clear"
    /\ sched' = sched \ {soft[c].t}
    /\ soft' = [soft EXCEPT ![c].pc = "func"]
    /\ UNCHANGED <<run, count, vec, pending, bh, kVars, online, userVars>>

(* tasklet_unlock() when t->func has returned, or the tasklet is disabled. *)
tasklet_unlock(c) ==
    /\ soft[c].pc \in {"func", "unlock"}
    /\ run' = run \ {soft[c].t}
    /\ soft' = [soft EXCEPT ![c].pc = "walk", ![c].t = NULL]
    /\ IF soft[c].pc = "unlock" THEN Requeue(c, soft[c].t) ELSE UNCHANGED <<vec, pending>>
    /\ UNCHANGED <<sched, count, bh, kVars, online, userVars>>

(* t->func schedules a tasklet, perhaps itself. *)
FuncSchedules(c, k) ==
    /\ soft[c].pc = "func"
    /\ Vec[k] # "FIRST"
    /\ k \notin sched
    /\ sched' = sched \cup {k}
    /\ Queue(c, k)
    /\ raise_softirq_irqoff(c, {Bit(k)})
    /\ UNCHANGED <<run, count, soft, bh, kpc, online, userVars>>

do_softirq_step(c) ==
    \/ tasklet_action(c) \/ EndOfSoftirq(c)
    \/ Trylock(c) \/ ReadCount(c) \/ ClearSched(c) \/ tasklet_unlock(c)

-----------------------------------------------------------------------------
(* Interrupts. *)

(* Interrupt handlers that schedule the tasklets of S, one or none, and     *)
(* irq_exit(): softirqs are processed unless one was interrupted or bottom  *)
(* halves are disabled.                                                     *)
Interrupt(c, S) ==
    LET new == S \ sched
        raised == pending[c] \cup {Bit(k) : k \in new}
    IN  /\ c \in online
        /\ \A k \in S : Vec[k] # "FIRST"
        /\ sched' = sched \cup S
        /\ vec' = [vec EXCEPT ![c] = [b \in Bits |->
                     IF \E k \in new : Bit(k) = b
                     THEN AddTail(@[b], <<CHOOSE k \in new : TRUE>>) ELSE @[b]]]
        /\ IF raised = {} \/ in_interrupt(c)
           THEN pending' = [pending EXCEPT ![c] = raised] /\ UNCHANGED soft
           ELSE Start(c, raised, MAX_SOFTIRQ_RESTART)
        /\ UNCHANGED <<run, count, bh, kVars, online, userVars>>

(* tasklet_hi_schedule_first(), in a trap with interrupts disabled.         *)
(* ksoftirqd is not woken and no irq_exit() follows.                        *)
tasklet_hi_schedule_first(c, k) ==
    /\ c \in online
    /\ Vec[k] = "FIRST"
    /\ k \notin sched
    /\ sched' = sched \cup {k}
    /\ vec' = [vec EXCEPT ![c]["HI"] = AddFirst(@, k)]
    /\ pending' = [pending EXCEPT ![c] = @ \cup {"HI"}]
    /\ UNCHANGED <<run, count, soft, bh, kVars, online, userVars>>

-----------------------------------------------------------------------------
(* ksoftirqd: run_ksoftirqd(). *)

MayRun(c) == c \in online /\ ~in_interrupt(c)

(* With its state TASK_INTERRUPTIBLE it looks for work before it sleeps. *)
KTest(c) ==
    /\ kpc[c] = "test"
    /\ MayRun(c)
    /\ kpc' = [kpc EXCEPT ![c] = IF pending[c] = {} THEN "sleep" ELSE "work"]
    /\ kstate' = [kstate EXCEPT ![c] = @ \/ pending[c] # {}]
    /\ UNCHANGED <<taskletVars, vec, pending, soft, bh, online, userVars>>

KWakes(c) ==
    /\ kpc[c] = "sleep"
    /\ MayRun(c)
    /\ kstate[c]
    /\ kpc' = [kpc EXCEPT ![c] = "work"]
    /\ UNCHANGED <<taskletVars, vec, pending, soft, bh, kstate, online, userVars>>

KWork(c) ==
    /\ kpc[c] = "work"
    /\ MayRun(c)
    /\ IF pending[c] # {}
       THEN Start(c, pending[c], MAX_SOFTIRQ_RESTART) /\ UNCHANGED kpc
       ELSE kpc' = [kpc EXCEPT ![c] = "again"] /\ UNCHANGED <<soft, pending>>
    /\ UNCHANGED <<taskletVars, vec, bh, kstate, online, userVars>>

(* set_current_state(TASK_INTERRUPTIBLE) *)
KAgain(c) ==
    /\ kpc[c] = "again"
    /\ MayRun(c)
    /\ kstate' = [kstate EXCEPT ![c] = FALSE]
    /\ kpc' = [kpc EXCEPT ![c] = "test"]
    /\ UNCHANGED <<taskletVars, vec, pending, soft, bh, online, userVars>>

ksoftirqd_step(c) == KTest(c) \/ KWakes(c) \/ KWork(c) \/ KAgain(c)

-----------------------------------------------------------------------------
(* Tasks. *)

(* May user u be running on CPU c now? *)
On(u, c) ==
    /\ c \in online
    /\ soft[c].pc = "none"
    /\ bh[c] \in {u, NULL}
    /\ \A d \in Cpus : bh[d] = u => d = c

UGoto(u, where, k) ==
    /\ upc' = [upc EXCEPT ![u] = where]
    /\ uarg' = [uarg EXCEPT ![u] = k]

local_bh_disable(u, c) ==
    /\ upc[u] = "idle"
    /\ On(u, c) /\ bh[c] = NULL
    /\ bh' = [bh EXCEPT ![c] = u]
    /\ UNCHANGED <<taskletVars, vec, pending, soft, kVars, online, userVars>>

(* local_bh_enable() runs what was raised meanwhile. *)
local_bh_enable(u, c) ==
    /\ upc[u] = "idle"
    /\ bh[c] = u /\ soft[c].pc = "none"
    /\ bh' = [bh EXCEPT ![c] = NULL]
    /\ IF pending[c] # {} THEN Start(c, pending[c], MAX_SOFTIRQ_RESTART)
       ELSE UNCHANGED <<soft, pending>>
    /\ UNCHANGED <<taskletVars, vec, kVars, online, userVars>>

(* tasklet_schedule() and tasklet_hi_schedule(): who sets the bit queues    *)
(* the tasklet.                                                             *)
tasklet_schedule(u, k) ==
    /\ upc[u] = "idle"
    /\ Vec[k] # "FIRST"
    /\ k \notin sched
    /\ sched' = sched \cup {k}
    /\ UGoto(u, "add", k)
    /\ UNCHANGED <<run, count, vec, pending, soft, bh, kVars, online>>

__tasklet_schedule(u, c) ==
    /\ upc[u] = "add"
    /\ On(u, c)
    /\ Queue(c, uarg[u])
    /\ raise_softirq_irqoff(c, {Bit(uarg[u])})
    /\ UGoto(u, "idle", NULL)
    /\ UNCHANGED <<taskletVars, soft, bh, kpc, online>>

tasklet_disable_nosync(u, k) ==
    /\ upc[u] = "idle"
    /\ count' = [count EXCEPT ![k] = @ + 1]
    /\ UGoto(u, "disabled_nosync", k)
    /\ UNCHANGED <<sched, run, vec, pending, soft, bh, kVars, online>>

(* tasklet_disable() goes on to tasklet_unlock_wait(). *)
tasklet_disable(u) ==
    /\ upc[u] = "disabled_nosync"
    /\ uarg[u] \notin run
    /\ UGoto(u, "disabled", uarg[u])
    /\ UNCHANGED <<taskletVars, vec, pending, soft, bh, kVars, online>>

(* Mutant: the count is not taken back. *)
CountKept(k) == count

(* atomic_dec(&t->count) *)
CountDown(k) == [count EXCEPT ![k] = @ - 1]

tasklet_enable(u) ==
    /\ upc[u] \in {"disabled", "disabled_nosync"}
    /\ count' = CountDown(uarg[u])
    /\ UGoto(u, "idle", NULL)
    /\ UNCHANGED <<sched, run, vec, pending, soft, bh, kVars, online>>

(* tasklet_kill() waits for the SCHED bit to clear and sets it itself, then *)
(* waits for the RUN bit, then clears the SCHED bit.                        *)
tasklet_kill(u, k) ==
    /\ upc[u] = "idle"
    /\ \A c \in Cpus : bh[c] # u
    /\ k \notin sched
    /\ sched' = sched \cup {k}
    /\ UGoto(u, "kill_wait", k)
    /\ UNCHANGED <<run, count, vec, pending, soft, bh, kVars, online>>

KillWaited(u) ==
    /\ upc[u] = "kill_wait"
    /\ uarg[u] \notin run
    /\ UGoto(u, "kill_clear", uarg[u])
    /\ UNCHANGED <<taskletVars, vec, pending, soft, bh, kVars, online>>

KillClear(u) ==
    /\ upc[u] = "kill_clear"
    /\ sched' = sched \ {uarg[u]}
    /\ UGoto(u, "idle", NULL)
    /\ UNCHANGED <<run, count, vec, pending, soft, bh, kVars, online>>

user_step(u) ==
    \/ \E c \in Cpus : __tasklet_schedule(u, c) \/ local_bh_enable(u, c)
    \/ tasklet_disable(u) \/ tasklet_enable(u)
    \/ KillWaited(u) \/ KillClear(u)

-----------------------------------------------------------------------------
(* CPU hotplug: cpu_callback(). *)

(* The CPU stops: no softirq is in progress, nobody has bottom halves       *)
(* disabled on it.                                                          *)
cpu_offline(c) ==
    /\ online \ {c} # {}
    /\ MayRun(c)
    /\ online' = online \ {c}
    /\ UNCHANGED <<taskletVars, vec, pending, soft, bh, kVars, userVars>>

(* CPU_DEAD, on CPU d: the thread is stopped and takeover_tasklets() moves  *)
(* the lists.                                                               *)
takeover_tasklets(c, d) ==
    /\ c \notin online /\ kpc[c] # "dead"
    /\ MayRun(d)
    /\ vec' = [vec EXCEPT
                 ![d] = [b \in Bits |-> IF vec[c][b].atHead THEN @[b]
                                        ELSE AddTail(@[b], vec[c][b].seq)],
                 ![c] = [b \in Bits |-> IF @[b].atHead THEN @[b] ELSE EmptyHead]]
    /\ pending' = [pending EXCEPT ![d] = Bits]
    /\ kstate' = [kstate EXCEPT ![d] = TRUE, ![c] = FALSE]
    /\ kpc' = [kpc EXCEPT ![c] = "dead"]
    /\ UNCHANGED <<taskletVars, soft, bh, online, userVars>>

(* CPU_UP_PREPARE and CPU_ONLINE: a new thread is created and woken. *)
cpu_up(c) ==
    /\ kpc[c] = "dead"
    /\ online' = online \cup {c}
    /\ kpc' = [kpc EXCEPT ![c] = "test"]
    /\ kstate' = [kstate EXCEPT ![c] = FALSE]
    /\ UNCHANGED <<taskletVars, vec, pending, soft, bh, userVars>>

-----------------------------------------------------------------------------

(* What may begin at any time. *)
Begin(u, k) ==
    \/ tasklet_schedule(u, k)
    \/ tasklet_disable_nosync(u, k)
    \/ tasklet_kill(u, k)

Step ==
    \/ \E c \in Cpus :
          \/ do_softirq_step(c)
          \/ ksoftirqd_step(c)
          \/ \E k \in Tasklets : FuncSchedules(c, k) \/ tasklet_hi_schedule_first(c, k)
          \/ \E S \in {{}} \cup {{k} : k \in Tasklets} : Interrupt(c, S)
          \/ \E u \in Users : local_bh_disable(u, c)
          \/ cpu_offline(c) \/ cpu_up(c)
          \/ \E d \in Cpus : takeover_tasklets(c, d)
    \/ \E u \in Users :
          \/ user_step(u)
          \/ \E k \in Tasklets : Vec[k] # "FIRST" /\ Begin(u, k)

(* What hung from a head that tail pointed at when something was put behind *)
(* tail: no pointer leads to it any more.                                   *)
CutOff ==
    {k \in Tasklets : \E c \in Cpus, b \in Bits :
        /\ vec[c][b].atHead /\ ~vec'[c][b].atHead
        /\ \E i \in DOMAIN vec[c][b].seq : vec[c][b].seq[i] = k}

Next == Step /\ lost' = lost \cup CutOff

Spec == Init /\ [][Next]_vars

-----------------------------------------------------------------------------
(* Properties *)

(* The shape of the tasklets, the per-CPU lists and the contexts. *)
TypeOK ==
    /\ sched \subseteq Tasklets /\ run \subseteq Tasklets
    /\ count \in [Tasklets -> 0 .. Cardinality(Users)]
    /\ \A c \in Cpus, b \in Bits :
          vec[c][b].seq \in Seq(Tasklets) /\ vec[c][b].atHead \in BOOLEAN
    /\ pending \in [Cpus -> SUBSET Bits]
    /\ \A c \in Cpus :
          /\ soft[c].pc \in {"none", "walk", "count", "clear", "func", "unlock"}
          /\ soft[c].bits \subseteq Bits
          /\ soft[c].list \in Seq(Tasklets)
          /\ soft[c].restart \in IF soft[c].pc = "none" THEN {0}
                                ELSE 1 .. MAX_SOFTIRQ_RESTART
    /\ bh \in [Cpus -> Users \cup {NULL}]
    /\ kstate \in [Cpus -> BOOLEAN]
    /\ kpc \in [Cpus -> {"test", "sleep", "work", "again", "dead"}]
    /\ online \subseteq Cpus
    /\ uarg \in [Users -> Tasklets \cup {NULL}]
    /\ lost \subseteq Tasklets

(* The places at which tasklet k waits to be run: on the list of a CPU, on  *)
(* a list that is being walked, in the hands of the code that will run or   *)
(* requeue it, or about to be queued; or its bit is held by tasklet_kill(). *)
At(list, k) == {i \in DOMAIN list : list[i] = k}
Queued(k) == UNION {{<<"vec", c, b, i>> : i \in At(vec[c][b].seq, k)} : c \in Cpus, b \in Bits}
Walked(k) == UNION {{<<"list", c, i>> : i \in At(soft[c].list, k)} : c \in Cpus}
Taken(k) == {<<"soft", c>> : c \in {d \in Cpus : soft[d].t = k
                                      /\ soft[d].pc \in {"count", "clear", "unlock"}}}
Held(k) == {<<"user", u>> : u \in {w \in Users : uarg[w] = k
                                      /\ upc[w] \in {"add", "kill_wait", "kill_clear"}}}
Places(k) == Queued(k) \cup Walked(k) \cup Taken(k) \cup Held(k)

(* The SCHED bit says that a tasklet is at exactly one place, so that it is *)
(* neither lost nor run twice for one tasklet_schedule(), whatever CPUs,    *)
(* interrupts, tasklet_kill() and hotplug do to it: in particular the BUG() *)
(* of tasklet_action() is never reached.  There is one way to be lost, and  *)
(* this is exactly it: tasklet_hi_schedule_first() on an empty list leaves  *)
(* tail at the head, the next tasklet that is put behind tail cuts off what *)
(* is there, and the bit of a tasklet cut off stays set for ever.           *)
ScheduledAtOnePlace ==
    \A k \in Tasklets :
       IF k \in lost THEN Vec[k] = "FIRST" /\ k \in sched /\ Places(k) = {}
       ELSE Cardinality(Places(k)) = IF k \in sched THEN 1 ELSE 0

(* "Tasklet is strictly serialized wrt itself": a function is never running *)
(* on two CPUs, and not at all once tasklet_disable() has returned or       *)
(* tasklet_kill() has seen it idle.                                         *)
Running(k) == {c \in Cpus : soft[c].t = k /\ soft[c].pc \in {"clear", "func"}}
Serialized ==
    /\ \A k \in Tasklets : Cardinality(Running(k)) <= 1
    /\ \A u \in Users :
          upc[u] \in {"disabled", "kill_clear"} => Running(uarg[u]) = {}

(* Nothing queued is left to itself: a queued tasklet has its pending bit   *)
(* set or about to be looked at, and pending bits have somebody to look at  *)
(* them: a softirq in progress, local_bh_enable(), ksoftirqd on its way, or *)
(* the hotplug notifier.  A tasklet put first is left out: a trap has no    *)
(* irq_exit(), so it waits for the next interrupt.                          *)
Attended(c) ==
    \/ in_interrupt(c)
    \/ c \notin online
    \/ kstate[c] \/ kpc[c] = "test"
NothingStranded ==
    \A k \in Tasklets, c \in Cpus :
       Vec[k] # "FIRST" /\ (\E i \in DOMAIN vec[c][Bit(k)].seq : vec[c][Bit(k)].seq[i] = k) =>
          /\ Attended(c)
          /\ c \in online => Bit(k) \in pending[c] \cup soft[c].bits
=============================================================================
