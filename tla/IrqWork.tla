------------------------------- MODULE IrqWork -------------------------------
(***************************************************************************)
(* Callbacks run from hard interrupt context: kernel/irq_work.c over the   *)
(* lock-less list of include/linux/llist.h.                                *)
(*                                                                         *)
(* Every access to a work's flags, to a list head or to a node's next      *)
(* pointer is a step.  A context that queues work first publishes the data *)
(* its callback is to handle, as the users of irq_work do.  A processor    *)
(* runs one context at a time: an NMI suspends everything else on its CPU  *)
(* and irq_work_run() suspends the task.  Every access takes effect at     *)
(* once: store buffers are left out.                                       *)
(***************************************************************************)
EXTENDS Naturals, FiniteSets

CONSTANTS
    Works,        \* struct irq_work objects
    NULL,
    CPUs,
    Queuers,      \* contexts that call irq_work_queue()
    home,         \* the CPU each of them runs on
    Nmi,          \* those that are NMIs; the others are tasks
    Syncs         \* the works irq_work_sync() is called for

ASSUME IrqWorkAssumption ==
    /\ NULL \notin Works \cup CPUs
    /\ home \in [Queuers -> CPUs]
    /\ Nmi \subseteq Queuers
    /\ Syncs \subseteq Works

VARIABLES
    flags,        \* work->flags: bit 0 PENDING, bit 1 BUSY
    next,         \* work->llnode.next
    first,        \* irq_work_list of each CPU
    raised,       \* is the self-interrupt pending on the CPU?
    rpc, cur, llnode,  \* irq_work_run() on each CPU: place, work, next node
    pc, work, old, \* irq_work_queue() in each context: place, argument, flags read
    data,         \* published data the callback has not handled
    sync,         \* the work irq_work_sync() waits for, or NULL
    twice         \* history: CPUs whose callback has met one of the same work

runVars == <<rpc, cur, llnode>>
queueVars == <<pc, work, old>>
vars == <<flags, next, first, raised, runVars, queueVars, data, sync, twice>>

IRQ_WORK_BUSY == 2
IRQ_WORK_FLAGS == 3
Pending(f) == f % 2 = 1
Busy(f) == f \div 2 = 1

Init ==
    /\ flags = [w \in Works |-> 0]
    /\ next = [w \in Works |-> NULL]
    /\ first = [c \in CPUs |-> NULL]
    /\ raised = [c \in CPUs |-> FALSE]
    /\ rpc = [c \in CPUs |-> "idle"]
    /\ cur = [c \in CPUs |-> NULL]
    /\ llnode = [c \in CPUs |-> NULL]
    /\ pc = [q \in Queuers |-> "idle"]
    /\ work = [q \in Queuers |-> NULL]
    /\ old = [q \in Queuers |-> 0]
    /\ data = [w \in Works |-> FALSE]
    /\ sync = NULL
    /\ twice = {}

-----------------------------------------------------------------------------
(* What runs on a processor. *)

InNmi(c) == \E q \in Nmi : home[q] = c /\ pc[q] # "idle"

MayRun(q) ==
    LET c == home[q]
    IN  IF q \in Nmi THEN \A p \in Nmi \ {q} : home[p] = c => pc[p] = "idle"
        ELSE ~InNmi(c) /\ rpc[c] = "idle"

-----------------------------------------------------------------------------
(* irq_work_queue() *)

(* The caller's part: publish the data, then call. *)
Publish(q, w) ==
    /\ MayRun(q)
    /\ pc[q] = "idle"
    /\ pc' = [pc EXCEPT ![q] = "claim"]
    /\ work' = [work EXCEPT ![q] = w]
    /\ data' = [data EXCEPT ![w] = TRUE]
    /\ UNCHANGED <<flags, next, first, raised, runVars, old, sync>>

Return(q) ==
    /\ pc' = [pc EXCEPT ![q] = "idle"]
    /\ work' = [work EXCEPT ![q] = NULL]
    /\ old' = [old EXCEPT ![q] = 0]

(* Mutant: a work whose callback runs cannot be claimed. *)
InAnyUse(f) == f # 0

(* "Already enqueued, can't do!" *)
Enqueued(f) == Pending(f)

(* irq_work_claim(): read the flags. *)
ClaimRead(q) ==
    /\ MayRun(q)
    /\ pc[q] = "claim"
    /\ LET f == flags[work[q]] IN
          \/ Enqueued(f) /\ Return(q)
          \/ /\ ~Enqueued(f)
             /\ old' = [old EXCEPT ![q] = f]
             /\ pc' = [pc EXCEPT ![q] = "cmpxchg"]
             /\ UNCHANGED work
    /\ UNCHANGED <<flags, next, first, raised, runVars, data, sync>>

(* Mutants: the flags are added, not or-ed, lack BUSY, or are stored        *)
(* without a comparison.                                                    *)
FlagsAdded(f) == f + IRQ_WORK_FLAGS
FlagsPending(f) == 1
AnyFlags(f, o) == TRUE

NewFlags(f) == IRQ_WORK_FLAGS
SameFlags(f, o) == f = o

ClaimCmpxchg(q) ==
    /\ MayRun(q)
    /\ pc[q] = "cmpxchg"
    /\ IF SameFlags(flags[work[q]], old[q])
       THEN /\ flags' = [flags EXCEPT ![work[q]] = NewFlags(old[q])]
            /\ pc' = [pc EXCEPT ![q] = "add"]
       ELSE /\ pc' = [pc EXCEPT ![q] = "claim"]
            /\ UNCHANGED flags
    /\ old' = [old EXCEPT ![q] = 0]
    /\ UNCHANGED <<next, first, raised, runVars, work, data, sync>>

(* llist_add(): link the node before the first one, ... *)
AddRead(q) ==
    /\ MayRun(q)
    /\ pc[q] = "add"
    /\ next' = [next EXCEPT ![work[q]] = first[home[q]]]
    /\ pc' = [pc EXCEPT ![q] = "add_cmpxchg"]
    /\ UNCHANGED <<flags, first, raised, runVars, work, old, data, sync>>

(* Mutant: no interrupt is raised. *)
NeverRaise(w) == FALSE

WasEmpty(w) == next[w] = NULL

(* ... make it the first one unless that has changed, and raise the         *)
(* interrupt if the list was empty.                                         *)
AddCmpxchg(q) ==
    /\ MayRun(q)
    /\ pc[q] = "add_cmpxchg"
    /\ LET c == home[q]  w == work[q] IN
          IF first[c] = next[w]
          THEN /\ first' = [first EXCEPT ![c] = w]
               /\ raised' = [raised EXCEPT ![c] = @ \/ WasEmpty(w)]
               /\ Return(q)
               /\ UNCHANGED next
          ELSE /\ next' = [next EXCEPT ![w] = first[c]]
               /\ UNCHANGED <<first, raised, pc, work, old>>
    /\ UNCHANGED <<flags, runVars, data, sync>>

-----------------------------------------------------------------------------
(* irq_work_run() *)

(* The self-interrupt, or the timer tick, finds work on the list. *)
irq_work_run(c, ipi) ==
    /\ ~InNmi(c)
    /\ rpc[c] = "idle"
    /\ ipi => raised[c]
    /\ raised' = IF ipi THEN [raised EXCEPT ![c] = FALSE] ELSE raised
    /\ \/ first[c] = NULL /\ ipi /\ UNCHANGED <<first, llnode, rpc>>
       \/ /\ first[c] # NULL
          /\ llnode' = [llnode EXCEPT ![c] = first[c]]        \* llist_del_all()
          /\ first' = [first EXCEPT ![c] = NULL]
          /\ rpc' = [rpc EXCEPT ![c] = "next"]
    /\ UNCHANGED <<flags, next, cur, queueVars, data, sync>>

(* while (llnode != NULL): take the node and, before the work can be        *)
(* re-used, its successor.                                                  *)
RunNext(c) ==
    /\ ~InNmi(c)
    /\ rpc[c] = "next"
    /\ \/ /\ llnode[c] = NULL
          /\ rpc' = [rpc EXCEPT ![c] = "idle"]
          /\ UNCHANGED <<cur, llnode>>
       \/ /\ llnode[c] # NULL
          /\ cur' = [cur EXCEPT ![c] = llnode[c]]
          /\ llnode' = [llnode EXCEPT ![c] = next[llnode[c]]]
          /\ rpc' = [rpc EXCEPT ![c] = "flags"]
    /\ UNCHANGED <<flags, next, first, raised, queueVars, data, sync>>

(* work->flags = IRQ_WORK_BUSY *)
RunBusy(c) ==
    /\ ~InNmi(c)
    /\ rpc[c] = "flags"
    /\ flags' = [flags EXCEPT ![cur[c]] = IRQ_WORK_BUSY]
    /\ rpc' = [rpc EXCEPT ![c] = "func"]
    /\ UNCHANGED <<next, first, raised, cur, llnode, queueVars, data, sync>>

(* work->func(work) handles what has been published. *)
RunFunc(c) ==
    /\ ~InNmi(c)
    /\ rpc[c] = "func"
    /\ data' = [data EXCEPT ![cur[c]] = FALSE]
    /\ rpc' = [rpc EXCEPT ![c] = "clear"]
    /\ UNCHANGED <<flags, next, first, raised, cur, llnode, queueVars, sync>>

(* cmpxchg(&work->flags, IRQ_WORK_BUSY, 0) *)
RunClear(c) ==
    /\ ~InNmi(c)
    /\ rpc[c] = "clear"
    /\ flags' = [flags EXCEPT ![cur[c]] = IF @ = IRQ_WORK_BUSY THEN 0 ELSE @]
    /\ cur' = [cur EXCEPT ![c] = NULL]
    /\ rpc' = [rpc EXCEPT ![c] = "next"]
    /\ UNCHANGED <<next, first, raised, llnode, queueVars, data, sync>>

-----------------------------------------------------------------------------
(* irq_work_sync() *)

irq_work_sync(w) ==
    /\ sync = NULL
    /\ sync' = w
    /\ UNCHANGED <<flags, next, first, raised, runVars, queueVars, data>>

SyncReturns ==
    /\ sync # NULL
    /\ ~Busy(flags[sync])
    /\ sync' = NULL
    /\ UNCHANGED <<flags, next, first, raised, runVars, queueVars, data>>

-----------------------------------------------------------------------------

Queue(q) == ClaimRead(q) \/ ClaimCmpxchg(q) \/ AddRead(q) \/ AddCmpxchg(q)
Run(c) ==
    irq_work_run(c, TRUE) \/ RunNext(c) \/ RunBusy(c) \/ RunFunc(c) \/ RunClear(c)

Step ==
    \/ \E q \in Queuers : (\E w \in Works : Publish(q, w)) \/ Queue(q)
    \/ \E c \in CPUs : Run(c) \/ irq_work_run(c, FALSE)
    \/ \E w \in Syncs : irq_work_sync(w)
    \/ SyncReturns

(* The callback of a work runs on c. *)
InFunc(c, w) == cur[c] = w /\ rpc[c] \in {"func", "clear"}

(* Those that have run together are remembered for as long as they run. *)
Meets(c) == \E d \in CPUs \ {c} : \E w \in Works : InFunc(c, w) /\ InFunc(d, w)
Next ==
    /\ Step
    /\ twice' = {c \in CPUs : Meets(c)' \/ (c \in twice /\ \E w \in Works : InFunc(c, w)')}

Spec == Init /\ [][Next]_vars

-----------------------------------------------------------------------------
(* Properties *)

(* The shape of the works, of the per-CPU lists and of what each context    *)
(* keeps; the flags stay within their two bits.                             *)
TypeOK ==
    /\ flags \in [Works -> 0 .. 3]
    /\ next \in [Works -> Works \cup {NULL}]
    /\ first \in [CPUs -> Works \cup {NULL}]
    /\ raised \in [CPUs -> BOOLEAN]
    /\ rpc \in [CPUs -> {"idle", "next", "flags", "func", "clear"}]
    /\ cur \in [CPUs -> Works \cup {NULL}]
    /\ llnode \in [CPUs -> Works \cup {NULL}]
    /\ pc \in [Queuers -> {"idle", "claim", "cmpxchg", "add", "add_cmpxchg"}]
    /\ work \in [Queuers -> Works \cup {NULL}]
    /\ old \in [Queuers -> 0 .. 3]
    /\ data \in [Works -> BOOLEAN]
    /\ sync \in Works \cup {NULL}

(* The nodes met on the way from a pointer, NULL included if it is reached: *)
(* the least set that holds the pointer and the successor of each node.     *)
Nodes == Works \cup {NULL}
Closed(f, S) == \A y \in S \ {NULL} : f[y] \in S
Reachable(f, x) ==
    {y \in Nodes : \A S \in SUBSET Nodes : x \in S /\ Closed(f, S) => y \in S}
Chain(x) == Reachable(next, x)

(* Who has the right to a work's node: a claimant that has not added it     *)
(* yet, the list of a CPU, or what irq_work_run() of a CPU has still to do. *)
Claimants(w) == {q \in Queuers : work[q] = w /\ pc[q] \in {"add", "add_cmpxchg"}}
Lists(w) == {c \in CPUs : w \in Chain(first[c])}
Taken(w) == {c \in CPUs : w \in Chain(llnode[c]) \/ (cur[c] = w /\ rpc[c] = "flags")}

(* A node has one user at a time: it is never linked into two lists or      *)
(* twice into one, although its flags are changed without a lock and a CPU  *)
(* may requeue it while another walks the chain it was on.  A work with a   *)
(* user is marked pending, so that nobody else claims it.                   *)
NodeOnce ==
    /\ \A c \in CPUs : NULL \in Chain(first[c]) /\ NULL \in Chain(llnode[c])
    /\ \A w \in Works :
          LET users == Cardinality(Claimants(w)) + Cardinality(Lists(w)) + Cardinality(Taken(w))
          IN  /\ users <= 1
              /\ users = 1 <=> Pending(flags[w])

(* The callback of the work will still begin. *)
WillRun(w) ==
    \/ \E c \in Lists(w) : raised[c]
    \/ Taken(w) # {}
    \/ \E c \in CPUs : cur[c] = w /\ rpc[c] = "func"

(* Data published before a call of irq_work_queue() that has returned,      *)
(* whatever it returned, is still to be seen by a callback: a list with     *)
(* work has its interrupt raised.  (That the callback is reached in the     *)
(* end is not claimed: an NMI may be overtaken for ever in irq_work_claim(),*)
(* which is lock-free but not wait-free.)                                   *)
NoLostWork ==
    \A w \in Works :
       data[w] => WillRun(w) \/ \E q \in Queuers : work[q] = w

(* irq_work_queue() reports failure only "when the @entry was already       *)
(* enqueued by someone else": its callback has then not begun.              *)
FailureMeansEnqueued ==
    [][\A q \in Queuers :
          pc[q] = "claim" /\ pc'[q] = "idle"
             => Claimants(work[q]) # {} \/ Lists(work[q]) # {} \/ Taken(work[q]) # {}]_vars

(* irq_work_sync() "ensures the entry is not currently in use": when it     *)
(* returns nobody has claimed the work, it is on no list, and its callback  *)
(* does not run.  The one exception is a work that is queued again while    *)
(* its callback runs: two CPUs may then be in the callback, and the first   *)
(* to leave clears the BUSY that stands for both.                           *)
SyncMeansUnused ==
    [][\A w \in Works : sync = w /\ sync' = NULL =>
          /\ Claimants(w) = {} /\ Lists(w) = {} /\ Taken(w) = {}
          /\ \A c \in CPUs : InFunc(c, w) => c \in twice]_vars
=============================================================================
