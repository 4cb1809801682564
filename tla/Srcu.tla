-------------------------------- MODULE Srcu --------------------------------
(***************************************************************************)
(* Sleepable RCU: kernel/srcu.c, for one srcu_struct.                      *)
(*                                                                         *)
(* Readers count themselves in per-CPU counters of the rank that           *)
(* ->completed selects.  Callbacks travel through four batches, driven by  *)
(* one state machine at a time: the work item process_srcu() or a          *)
(* synchronize_srcu() that has stolen it.  The state machine sums the      *)
(* counters one CPU at a time while readers come, go and migrate, so a     *)
(* sum is no snapshot.  The barriers A-D of the code order the accesses as *)
(* they are written, and every access to a counter is a step here.         *)
(***************************************************************************)
EXTENDS Naturals, Sequences, FiniteSets, Functions

CONSTANTS
    Readers,      \* tasks that read
    Callbacks,    \* rcu_heads given to call_srcu()
    Syncers,      \* tasks that call synchronize_srcu() or srcu_barrier()
    WORK,         \* the work item sp->work
    NR_CPUS,
    EntryCPUs,    \* the CPUs on which readers enter; they leave on any
    ULONG,        \* the number of values of an unsigned long
    Trycounts,    \* SYNCHRONIZE_SRCU_TRYCOUNT, SYNCHRONIZE_SRCU_EXP_TRYCOUNT
    SRCU_CALLBACK_BATCH

ASSUME SrcuAssumption ==
    /\ NR_CPUS \in Nat \ {0}
    /\ EntryCPUs \subseteq 1 .. NR_CPUS
    /\ IsFiniteSet(Readers)
    /\ ULONG \in Nat /\ ULONG > NR_CPUS /\ ULONG > Cardinality(Readers)
    /\ Trycounts \subseteq Nat \ {0}
    /\ SRCU_CALLBACK_BATCH \in Nat \ {0}
    /\ WORK \notin Syncers
    /\ Callbacks \cap Syncers = {}

VARIABLES
    completed,    \* sp->completed & 1: the rank new readers use
    c, seq,       \* per_cpu_ref->c[cpu][idx], ->seq[cpu][idx]
    rpc, rcpu, ridx,   \* each reader: place, CPU while preemption is off, rank
    running,      \* sp->running
    queued,       \* is sp->work queued?
    batch_queue, batch_check0, batch_check1, batch_done,
    m,            \* each possible driver of the state machine: place and locals
    freed,        \* has cleanup_srcu_struct() freed per_cpu_ref?
    waitfor,      \* ghost: readers a callback has still to wait for
    ahead         \* ghost: callbacks queued before it and not yet invoked

counterVars == <<c, seq>>
readerVars == <<rpc, rcpu, ridx>>
batches == <<batch_queue, batch_check0, batch_check1, batch_done>>
ghosts == <<waitfor, ahead>>
vars == <<completed, counterVars, readerVars, running, queued, batches, m, freed, ghosts>>

CPUs == 1 .. NR_CPUS
Heads == Callbacks \cup Syncers
Actors == Syncers \cup {WORK}

(* All callbacks in flight, the first to be invoked first. *)
Pipeline == batch_done \o batch_check1 \o batch_check0 \o batch_queue
InFlight == Range(Pipeline)

AtRest == [pc |-> "idle", trycount |-> 0, tries |-> 0, stage |-> 0, idx |-> 0,
           phase |-> "seq", cpu |-> 1, sum |-> 0, seq |-> 0, i |-> 0]

init_srcu_struct_fields ==
    [completed |-> 0, running |-> FALSE, batch |-> <<>>,
     count |-> [cpu \in CPUs |-> [idx \in 0 .. 1 |-> 0]]]

Init ==
    LET new == init_srcu_struct_fields IN
    /\ completed = new.completed
    /\ c = new.count /\ seq = new.count
    /\ rpc = [r \in Readers |-> "idle"]
    /\ rcpu = [r \in Readers |-> 1]
    /\ ridx = [r \in Readers |-> 0]
    /\ running = new.running
    /\ queued = FALSE
    /\ batch_queue = new.batch /\ batch_check0 = new.batch
    /\ batch_check1 = new.batch /\ batch_done = new.batch
    /\ m = [a \in Actors |-> AtRest]
    /\ freed = FALSE
    /\ waitfor = [h \in Heads |-> {}]
    /\ ahead = [h \in Heads |-> {}]

-----------------------------------------------------------------------------
(* Readers.  Preemption is off inside srcu_read_lock(), so a CPU has at     *)
(* most one reader there, and nobody else touches its counters meanwhile.   *)

CpuFree(cpu) == \A r \in Readers : rpc[r] \in {"fetched", "counted"} => rcpu[r] # cpu


Plus(count, cpu, idx, n) == [count EXCEPT ![cpu][idx] = (@ + n) % ULONG]

ReadIndex(r, cpu) ==
    /\ ~freed
    /\ cpu \in EntryCPUs
    /\ rpc[r] = "idle" /\ CpuFree(cpu)
    /\ rpc' = [rpc EXCEPT ![r] = "fetched"]
    /\ rcpu' = [rcpu EXCEPT ![r] = cpu]
    /\ ridx' = [ridx EXCEPT ![r] = completed]
    /\ UNCHANGED <<completed, counterVars, running, queued, batches, m, freed, ghosts>>

CountReader(r) ==
    /\ rpc[r] = "fetched"
    /\ c' = Plus(c, rcpu[r], ridx[r], 1)
    /\ rpc' = [rpc EXCEPT ![r] = "counted"]
    /\ UNCHANGED <<completed, seq, rcpu, ridx, running, queued, batches, m, freed, ghosts>>

CountEntry(r) ==
    /\ rpc[r] = "counted"
    /\ seq' = Plus(seq, rcpu[r], ridx[r], 1)
    /\ rpc' = [rpc EXCEPT ![r] = "reading"]
    /\ rcpu' = [rcpu EXCEPT ![r] = 1]
    /\ UNCHANGED <<completed, c, ridx, running, queued, batches, m, freed, ghosts>>

(* Mutant: a count does not go below zero. *)
MinusSaturating(count, cpu, idx) == [count EXCEPT ![cpu][idx] = IF @ = 0 THEN 0 ELSE @ - 1]

Minus(count, cpu, idx) == Plus(count, cpu, idx, ULONG - 1)

(* "This may well be a different CPU than that which was incremented." *)
__srcu_read_unlock(r, cpu) ==
    /\ rpc[r] = "reading" /\ CpuFree(cpu)
    /\ c' = Minus(c, cpu, ridx[r])
    /\ rpc' = [rpc EXCEPT ![r] = "idle"]
    /\ ridx' = [ridx EXCEPT ![r] = 0]
    /\ waitfor' = [h \in Heads |-> waitfor[h] \ {r}]
    /\ UNCHANGED <<completed, seq, rcpu, running, queued, batches, m, freed, ahead>>

-----------------------------------------------------------------------------
(* Queueing, under ->queue_lock. *)

(* The readers a new callback has to wait for are those past barrier B.     *)
Enqueued(h) ==
    /\ waitfor' = [waitfor EXCEPT ![h] = {r \in Readers : rpc[r] \in {"counted", "reading"}}]
    /\ ahead' = [ahead EXCEPT ![h] = InFlight]

(* Mutant: the work is queued although someone is running. *)
AlwaysQueue == TRUE

NobodyRuns == ~running

call_srcu(h) ==
    /\ ~freed
    /\ h \in Callbacks \ InFlight
    /\ batch_queue' = Append(batch_queue, h)
    /\ running' = TRUE
    /\ queued' = (queued \/ NobodyRuns)
    /\ Enqueued(h)
    /\ UNCHANGED <<completed, counterVars, readerVars, batch_check0, batch_check1,
                   batch_done, m, freed>>

(* Steal the processing if nobody does it, otherwise queue and wait. *)
__synchronize_srcu(s, trycount) ==
    /\ ~freed
    /\ m[s].pc = "idle"
    /\ \/ /\ ~running
          /\ running' = TRUE
          /\ batch_check0' = Append(batch_check0, s)
          /\ m' = [m EXCEPT ![s].pc = "advance", ![s].trycount = trycount]
          /\ UNCHANGED batch_queue
       \/ /\ running
          /\ batch_queue' = Append(batch_queue, s)
          /\ m' = [m EXCEPT ![s].pc = "wait"]
          /\ UNCHANGED <<running, batch_check0>>
    /\ Enqueued(s)
    /\ UNCHANGED <<completed, counterVars, readerVars, queued, batch_check1, batch_done, freed>>

-----------------------------------------------------------------------------
(* The state machine, as driven by actor a. *)

process_srcu ==
    /\ queued /\ m[WORK].pc = "idle"
    /\ queued' = FALSE
    /\ m' = [m EXCEPT ![WORK].pc = "collect", ![WORK].trycount = 1]
    /\ UNCHANGED <<completed, counterVars, readerVars, running, batches, freed, ghosts>>


rcu_batch_move(to, from) == to \o from

srcu_collect_new ==
    /\ m[WORK].pc = "collect"
    /\ batch_check0' = rcu_batch_move(batch_check0, batch_queue)
    /\ batch_queue' = <<>>
    /\ m' = [m EXCEPT ![WORK].pc = "advance"]
    /\ UNCHANGED <<completed, counterVars, readerVars, running, queued, batch_check1,
                   batch_done, freed, ghosts>>

(* What follows srcu_advance_batches() in its two callers. *)
Advanced(a) == [AtRest EXCEPT !.pc = IF a = WORK THEN "invoke" ELSE "steal"]

(* The start of try_check_zero() for a rank. *)
StartCheck(a, stage, idx, tries) ==
    [m[a] EXCEPT !.pc = "check", !.stage = stage, !.idx = idx, !.tries = tries,
                 !.phase = "seq", !.cpu = 1, !.sum = 0, !.seq = 0]

(* Mutant: the rank that new readers take is checked first. *)
CurrentRank == completed

OldRank == 1 - completed

srcu_advance_batches(a) ==
    /\ m[a].pc = "advance"
    /\ m' = [m EXCEPT ![a] =
               IF batch_check0 = <<>> /\ batch_check1 = <<>> THEN Advanced(a)
               ELSE StartCheck(a, 1, OldRank, m[a].trycount)]
    /\ UNCHANGED <<completed, counterVars, readerVars, running, queued, batches, freed, ghosts>>

(* The last addition of the three sums of srcu_readers_active_idx_check()   *)
(* decides; the others go on to the next CPU.                               *)
Reads(a) == IF m[a].phase = "sum" THEN c[m[a].cpu][m[a].idx] ELSE seq[m[a].cpu][m[a].idx]
Total(a) == (m[a].sum + Reads(a)) % ULONG
Last(a) == m[a].cpu = NR_CPUS

ReadCounter(a) ==
    /\ m[a].pc = "check" /\ ~Last(a)
    /\ m' = [m EXCEPT ![a].sum = Total(a), ![a].cpu = @ + 1]
    /\ UNCHANGED <<completed, counterVars, readerVars, running, queued, batches, freed, ghosts>>

NextSum(a) ==
    /\ m[a].pc = "check" /\ Last(a)
    /\ \/ m[a].phase = "seq"
          /\ m' = [m EXCEPT ![a].phase = "sum", ![a].cpu = 1, ![a].sum = 0, ![a].seq = Total(a)]
       \/ m[a].phase = "sum" /\ Total(a) = 0
          /\ m' = [m EXCEPT ![a].phase = "seq2", ![a].cpu = 1, ![a].sum = 0]
    /\ UNCHANGED <<completed, counterVars, readerVars, running, queued, batches, freed, ghosts>>

(* Mutant: a zero sum is not validated. *)
AnySeq(a) == TRUE

SameSeq(a) == Total(a) = m[a].seq

FoundReaders(a) ==
    /\ m[a].pc = "check" /\ Last(a)
    /\ \/ m[a].phase = "sum" /\ Total(a) # 0
       \/ m[a].phase = "seq2" /\ ~SameSeq(a)

FoundZero(a) ==
    /\ m[a].pc = "check" /\ Last(a)
    /\ m[a].phase = "seq2" /\ SameSeq(a)

(* try_check_zero() tries again or gives up. *)
CheckFails(a) ==
    /\ FoundReaders(a)
    /\ m' = [m EXCEPT ![a] =
               IF m[a].tries <= 1 THEN Advanced(a)
               ELSE StartCheck(a, m[a].stage, m[a].idx, m[a].tries - 1)]
    /\ UNCHANGED <<completed, counterVars, readerVars, running, queued, batches, freed, ghosts>>

(* The first check: what waited for the second one is done; the rest moves  *)
(* on after a flip and is checked for the other rank.                       *)
FirstCheckPasses(a) ==
    /\ FoundZero(a) /\ m[a].stage = 1
    /\ batch_done' = rcu_batch_move(batch_done, batch_check1)
    /\ batch_check1' = rcu_batch_move(<<>>, batch_check0)
    /\ batch_check0' = <<>>
    /\ IF batch_check0 = <<>>
       THEN /\ m' = [m EXCEPT ![a] = Advanced(a)]
            /\ UNCHANGED completed
       ELSE /\ completed' = 1 - completed                     \* srcu_flip()
            /\ m' = [m EXCEPT ![a] = StartCheck(a, 2, 1 - m[a].idx,
                                       IF m[a].trycount < 2 THEN 2 ELSE m[a].trycount)]
    /\ UNCHANGED <<counterVars, readerVars, running, queued, batch_queue, freed, ghosts>>

SecondCheckPasses(a) ==
    /\ FoundZero(a) /\ m[a].stage = 2
    /\ batch_done' = rcu_batch_move(batch_done, batch_check1)
    /\ batch_check1' = <<>>
    /\ m' = [m EXCEPT ![a] = Advanced(a)]
    /\ UNCHANGED <<completed, counterVars, readerVars, running, queued, batch_queue,
                   batch_check0, freed, ghosts>>

(* Taking the first callback off ->batch_done. *)
Dequeue ==
    /\ batch_done' = Tail(batch_done)
    /\ ahead' = [h \in Heads |-> ahead[h] \ {Head(batch_done)}]

(* One round of the loop of srcu_invoke_callbacks(); the callback of a      *)
(* synchronize_srcu() is wakeme_after_rcu(), which lets it return.          *)
srcu_invoke_callbacks ==
    /\ m[WORK].pc = "invoke"
    /\ \/ /\ m[WORK].i < SRCU_CALLBACK_BATCH /\ batch_done # <<>>
          /\ Dequeue
          /\ m' = [a \in Actors |->
                     IF a = WORK THEN [m[a] EXCEPT !.i = @ + 1]
                     ELSE IF a = Head(batch_done) THEN AtRest ELSE m[a]]
       \/ /\ m[WORK].i = SRCU_CALLBACK_BATCH \/ batch_done = <<>>
          /\ m' = [m EXCEPT ![WORK].pc = "reschedule"]
          /\ UNCHANGED <<batch_done, ahead>>
    /\ UNCHANGED <<completed, counterVars, readerVars, running, queued, batch_queue,
                   batch_check0, batch_check1, freed, waitfor>>

(* The thief takes its own callback, if that is done (the BUG_ON of the     *)
(* code is part of InOrder).                                                *)
TakeOwn(s) ==
    /\ m[s].pc = "steal"
    /\ \/ /\ batch_done # <<>>
          /\ Dequeue
          /\ m' = [m EXCEPT ![s].pc = "reschedule", ![s].i = 1]
       \/ /\ batch_done = <<>>
          /\ m' = [m EXCEPT ![s].pc = "reschedule"]
          /\ UNCHANGED <<batch_done, ahead>>
    /\ UNCHANGED <<completed, counterVars, readerVars, running, queued, batch_queue,
                   batch_check0, batch_check1, freed, waitfor>>

(* Mutant: the work is queued again whatever there is to do. *)
NeverStop == FALSE

NothingToDo == Pipeline = <<>>

(* Where the driver goes; a thief that has not got its callback waits. *)
Leave(a) ==
    m' = [m EXCEPT ![a] =
            IF a = WORK \/ m[a].i = 1 THEN AtRest ELSE [AtRest EXCEPT !.pc = "wait"]]

(* The batches are looked at without ->queue_lock first: hand over to the   *)
(* work item, or prepare to stop.                                           *)
srcu_reschedule(a) ==
    /\ m[a].pc = "reschedule"
    /\ IF NothingToDo
       THEN m' = [m EXCEPT ![a].pc = "stop"] /\ UNCHANGED queued
       ELSE queued' = TRUE /\ Leave(a)
    /\ UNCHANGED <<completed, counterVars, readerVars, running, batches, freed, ghosts>>

(* Mutant: what was seen without the lock is not looked at again. *)
StillNothing == TRUE

(* The second look, under the lock. *)
StillNothingToDo == NothingToDo

(* Stop, unless a callback was queued in between. *)
StopRunning(a) ==
    /\ m[a].pc = "stop"
    /\ IF StillNothingToDo
       THEN running' = FALSE /\ UNCHANGED queued
       ELSE queued' = TRUE /\ UNCHANGED running
    /\ Leave(a)
    /\ UNCHANGED <<completed, counterVars, readerVars, batches, freed, ghosts>>

-----------------------------------------------------------------------------
(* The user is finished: no reader, no synchronize_srcu() and no callback   *)
(* is left, but process_srcu() may still be on its way out.  The readers    *)
(* are counted once more, and found to be none.                             *)

Finished == (\A r \in Readers : rpc[r] = "idle") /\ InFlight = {}
               /\ \A s \in Syncers : m[s].pc = "idle"

SumOver(f) == LET to[cpu \in 0 .. NR_CPUS] ==
                    IF cpu = 0 THEN 0 ELSE (to[cpu - 1] + f[cpu]) % ULONG
              IN  to[NR_CPUS]

srcu_readers_active ==
    (SumOver([cpu \in CPUs |-> c[cpu][0]]) + SumOver([cpu \in CPUs |-> c[cpu][1]])) % ULONG

cleanup_srcu_struct ==
    /\ ~freed /\ Finished
    /\ srcu_readers_active = 0
    /\ freed' = TRUE
    /\ UNCHANGED <<completed, counterVars, readerVars, running, queued, batches, m, ghosts>>

(* The structure is set up for another use, not before the work item is at  *)
(* rest.                                                                    *)
init_srcu_struct ==
    /\ freed /\ ~queued /\ m[WORK].pc = "idle"
    /\ LET new == init_srcu_struct_fields IN
          /\ completed' = new.completed
          /\ c' = new.count /\ seq' = new.count
          /\ running' = new.running
          /\ batch_queue' = new.batch /\ batch_check0' = new.batch
          /\ batch_check1' = new.batch /\ batch_done' = new.batch
    /\ freed' = FALSE
    /\ UNCHANGED <<readerVars, queued, m, ghosts>>

-----------------------------------------------------------------------------

Drive(a) ==
    \/ srcu_advance_batches(a) \/ ReadCounter(a) \/ NextSum(a)
    \/ CheckFails(a) \/ FirstCheckPasses(a) \/ SecondCheckPasses(a)
    \/ srcu_reschedule(a) \/ StopRunning(a)
    \/ a = WORK /\ (process_srcu \/ srcu_collect_new \/ srcu_invoke_callbacks)
    \/ a \in Syncers /\ TakeOwn(a)

Lock(r) == CountReader(r) \/ CountEntry(r)

Next ==
    \/ \E r \in Readers :
          Lock(r) \/ \E cpu \in CPUs : ReadIndex(r, cpu) \/ __srcu_read_unlock(r, cpu)
    \/ \E h \in Callbacks : call_srcu(h)
    \/ \E s \in Syncers, n \in Trycounts : __synchronize_srcu(s, n)
    \/ \E a \in Actors : Drive(a)
    \/ cleanup_srcu_struct
    \/ init_srcu_struct

Spec == Init /\ [][Next]_vars

(* Tasks and the workqueue run, and readers leave (they may sleep, but not  *)
(* for ever): srcu_read_unlock() only has to find a moment at which it is   *)
(* scheduled.                                                               *)
FairSpec ==
    /\ Spec
    /\ \A r \in Readers :
          WF_vars(Lock(r)) /\ SF_vars(\E cpu \in CPUs : __srcu_read_unlock(r, cpu))
    /\ \A a \in Actors : WF_vars(Drive(a))

-----------------------------------------------------------------------------
(* Properties *)

Places == {"idle", "collect", "advance", "check", "invoke", "steal", "reschedule", "stop", "wait"}

(* The shape of srcu_struct, of its counters, and of the readers and        *)
(* drivers.                                                                 *)
TypeOK ==
    /\ completed \in 0 .. 1
    /\ c \in [CPUs -> [0 .. 1 -> 0 .. ULONG - 1]]
    /\ seq \in [CPUs -> [0 .. 1 -> 0 .. ULONG - 1]]
    /\ rpc \in [Readers -> {"idle", "fetched", "counted", "reading"}]
    /\ rcpu \in [Readers -> CPUs]
    /\ ridx \in [Readers -> 0 .. 1]
    /\ running \in BOOLEAN /\ queued \in BOOLEAN /\ freed \in BOOLEAN
    /\ Range(Pipeline) \subseteq Heads
    /\ \A a \in Actors : m[a].pc \in Places
    /\ waitfor \in [Heads -> SUBSET Readers]
    /\ ahead \in [Heads -> SUBSET Heads]

(* "A full SRCU grace period": a callback that is done has seen all readers *)
(* leave that were inside when it was queued, on whichever rank they count  *)
(* themselves, although the sums are taken while readers come and migrate.  *)
GracePeriod == \A h \in Range(batch_done) : waitfor[h] = {}

(* Callbacks are invoked in the order in which they were queued, whichever  *)
(* batches and drivers they pass: srcu_barrier(), which is just one more    *)
(* callback, relies on it to wait for "all in-flight call_srcu() callbacks",*)
(* and synchronize_srcu(), when it drives, to find its own callback done    *)
(* before any other: BUG_ON(sp->batch_done.head != head).                   *)
InOrder ==
    /\ \A i \in 1 .. Len(Pipeline) :
          ahead[Pipeline[i]] = {Pipeline[j] : j \in 1 .. i - 1}
    /\ \A s \in Syncers :
          m[s].pc = "steal" /\ batch_done # <<>> => Head(batch_done) = s

(* The state machine has one driver, a synchronize_srcu() or the work item  *)
(* running or queued, exactly as long as ->running is set: the batches need *)
(* no lock.                                                                 *)
OneDriver ==
    LET drivers == {a \in Actors : m[a].pc \notin {"idle", "wait"}}
    IN  Cardinality(drivers) + (IF queued THEN 1 ELSE 0) = IF running THEN 1 ELSE 0

(* cleanup_srcu_struct() does not wait for process_srcu().  When the user   *)
(* is finished, that has only to leave: it will not count readers in the    *)
(* freed per-CPU counters and is not queued again.                          *)
NoUseAfterFree == freed => ~queued /\ m[WORK].pc \in {"idle", "invoke", "reschedule", "stop"}

(* When the user is finished, no count of a reader is left behind, however  *)
(* the readers have migrated: cleanup_srcu_struct() does not refuse.        *)
NothingLeaks == Finished => srcu_readers_active = 0

(* Every callback is invoked and every synchronize_srcu() returns, however  *)
(* many new readers come.                                                   *)
CallbacksAreInvoked ==
    /\ \A h \in Heads : h \in InFlight ~> h \notin InFlight
    /\ \A s \in Syncers : m[s].pc # "idle" ~> m[s].pc = "idle"
=============================================================================
