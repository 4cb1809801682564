----------------------------- MODULE SrcuProofs -----------------------------
(***************************************************************************)
(* Proofs about Srcu, for every number of CPUs, readers, callbacks and     *)
(* tasks, and every width of the counters.                                 *)
(***************************************************************************)
EXTENDS Srcu, FiniteSetTheorems, SequenceTheorems, WellFoundedInduction, TLAPS

-----------------------------------------------------------------------------
(* Types. *)

Counters == [CPUs -> [0 .. 1 -> 0 .. ULONG - 1]]

Locals == [pc : Places, trycount : Nat, tries : Nat, stage : 0 .. 2, idx : 0 .. 1,
           phase : {"seq", "sum", "seq2"}, cpu : CPUs, sum : 0 .. ULONG - 1,
           seq : 0 .. ULONG - 1, i : Nat]

Types ==
    /\ completed \in 0 .. 1
    /\ c \in Counters /\ seq \in Counters
    /\ rpc \in [Readers -> {"idle", "fetched", "counted", "reading"}]
    /\ rcpu \in [Readers -> CPUs]
    /\ ridx \in [Readers -> 0 .. 1]
    /\ running \in BOOLEAN /\ queued \in BOOLEAN /\ freed \in BOOLEAN
    /\ batch_queue \in Seq(Heads) /\ batch_check0 \in Seq(Heads)
    /\ batch_check1 \in Seq(Heads) /\ batch_done \in Seq(Heads)
    /\ m \in [Actors -> Locals]
    /\ waitfor \in [Heads -> SUBSET Readers]
    /\ ahead \in [Heads -> SUBSET Heads]

(* The first CPU, and the numbers a counter can hold. *)
LEMMA Numbers ==
    /\ 1 \in CPUs /\ ULONG \in Nat /\ ULONG > 0 /\ 0 \in 0 .. ULONG - 1
    /\ \A n \in Int : n % ULONG \in 0 .. ULONG - 1
<1>1. NR_CPUS \in Nat \ {0} /\ ULONG \in Nat /\ ULONG > NR_CPUS
  BY SrcuAssumption
<1>2. 1 \in CPUs /\ ULONG > 0 /\ 0 \in 0 .. ULONG - 1
  BY <1>1 DEF CPUs
<1>3. \A n \in Int : n % ULONG \in 0 .. ULONG - 1
  BY <1>1, <1>2
<1> QED  BY <1>1, <1>2, <1>3

(* Adding to a counter, or subtracting, leaves it within its width. *)
LEMMA CounterTypes ==
    ASSUME NEW count \in Counters, NEW cpu \in CPUs, NEW idx \in 0 .. 1
    PROVE  Plus(count, cpu, idx, 1) \in Counters /\ Minus(count, cpu, idx) \in Counters
<1>1. count[cpu][idx] \in Int
  BY Numbers DEF Counters
<1>2. /\ (count[cpu][idx] + 1) % ULONG \in 0 .. ULONG - 1
      /\ (count[cpu][idx] + (ULONG - 1)) % ULONG \in 0 .. ULONG - 1
  BY <1>1, Numbers
<1> QED  BY <1>2 DEF Plus, Minus, Counters

(* Writing a local variable of a driver. *)
LEMMA LocalFields ==
    ASSUME NEW x \in Locals
    PROVE  /\ \A p \in Places : [x EXCEPT !.pc = p] \in Locals
           /\ \A n \in Nat : /\ [x EXCEPT !.trycount = n] \in Locals
                             /\ [x EXCEPT !.tries = n] \in Locals
                             /\ [x EXCEPT !.i = n] \in Locals
           /\ \A n \in 0 .. 2 : [x EXCEPT !.stage = n] \in Locals
           /\ \A n \in 0 .. 1 : [x EXCEPT !.idx = n] \in Locals
           /\ \A p \in {"seq", "sum", "seq2"} : [x EXCEPT !.phase = p] \in Locals
           /\ \A n \in CPUs : [x EXCEPT !.cpu = n] \in Locals
           /\ \A n \in 0 .. ULONG - 1 : [x EXCEPT !.sum = n] \in Locals
                                        /\ [x EXCEPT !.seq = n] \in Locals
BY DEF Locals

(* A driver at rest, and one that is done with the batches. *)
LEMMA RestTypes ==
    /\ AtRest \in Locals
    /\ \A a \in Actors : Advanced(a) \in Locals
    /\ [AtRest EXCEPT !.pc = "wait"] \in Locals
<1>1. AtRest \in Locals
  BY Numbers DEF AtRest, Locals, Places
<1> QED  BY <1>1, LocalFields DEF Advanced, Places

(* The start of a check. *)
LEMMA CheckTypes ==
    ASSUME Types, NEW a \in Actors, NEW st \in 0 .. 2, NEW rank \in 0 .. 1, NEW n \in Nat
    PROVE  StartCheck(a, st, rank, n) \in Locals
<1>1. m[a] \in Locals /\ "check" \in Places /\ 1 \in CPUs /\ 0 \in 0 .. ULONG - 1
  BY Numbers DEF Types, Places
<1> HIDE DEF Places, CPUs
<1>2. [m[a] EXCEPT !.pc = "check", !.stage = st, !.idx = rank, !.tries = n] \in Locals
  BY <1>1, LocalFields
<1> DEFINE x == [m[a] EXCEPT !.pc = "check", !.stage = st, !.idx = rank, !.tries = n]
<1>3. [x EXCEPT !.phase = "seq", !.cpu = 1, !.sum = 0, !.seq = 0] \in Locals
  <2>1. x \in Locals
    BY <1>2
  <2> HIDE DEF x
  <2> QED  BY <1>1, <2>1, LocalFields
<1> QED  BY <1>3 DEF StartCheck

(* What a driver reads, and adds up, are counter values. *)
LEMMA SumTypes ==
    ASSUME Types, NEW a \in Actors
    PROVE  Total(a) \in 0 .. ULONG - 1
<1>1. m[a].cpu \in CPUs /\ m[a].idx \in 0 .. 1 /\ m[a].sum \in 0 .. ULONG - 1
  BY DEF Types, Locals
<1>2. Reads(a) \in 0 .. ULONG - 1
  BY <1>1 DEF Reads, Types, Counters
<1> HIDE DEF Reads
<1>3. m[a].sum + Reads(a) \in Int
  BY <1>1, <1>2, Numbers
<1> QED  BY <1>3, Numbers DEF Total

(* The types are kept by the steps of the readers ... *)
LEMMA ReaderTypes ==
    ASSUME Types, NEW r \in Readers,
           Lock(r) \/ \E cpu \in CPUs : ReadIndex(r, cpu) \/ __srcu_read_unlock(r, cpu)
    PROVE  Types'
<1>1. CASE CountReader(r)
  <2>1. Plus(c, rcpu[r], ridx[r], 1) \in Counters
    BY CounterTypes DEF Types
  <2> QED  BY <1>1, <2>1 DEF CountReader, Types, batches, ghosts
<1>2. CASE CountEntry(r)
  <2>1. Plus(seq, rcpu[r], ridx[r], 1) \in Counters
    BY CounterTypes DEF Types
  <2> QED  BY <1>2, <2>1, Numbers DEF CountEntry, Types, batches, ghosts
<1>3. ASSUME NEW cpu \in CPUs, ReadIndex(r, cpu)  PROVE Types'
  BY <1>3 DEF ReadIndex, Types, batches, ghosts, counterVars
<1>4. ASSUME NEW cpu \in CPUs, __srcu_read_unlock(r, cpu)  PROVE Types'
  <2>1. Minus(c, cpu, ridx[r]) \in Counters
    BY CounterTypes DEF Types
  <2>2. waitfor' \in [Heads -> SUBSET Readers]
    BY <1>4 DEF __srcu_read_unlock, Types
  <2> QED  BY <1>4, <2>1, <2>2 DEF __srcu_read_unlock, Types, batches
<1> QED  BY <1>1, <1>2, <1>3, <1>4 DEF Lock

(* The callbacks in flight are callbacks. *)
LEMMA PipelineType ==
    ASSUME Types
    PROVE  Pipeline \in Seq(Heads) /\ InFlight \in SUBSET Heads
<1>1. Pipeline \in Seq(Heads)
  BY ConcatProperties DEF Types, Pipeline
<1> QED  BY <1>1, RangeOfSeq DEF InFlight

(* ... of those who queue a callback ... *)
LEMMA QueueTypes ==
    ASSUME Types,
           \/ \E h \in Callbacks : call_srcu(h)
           \/ \E s \in Syncers, n \in Trycounts : __synchronize_srcu(s, n)
    PROVE  Types'
<1>1. ASSUME NEW h \in Heads, Enqueued(h)
      PROVE  waitfor' \in [Heads -> SUBSET Readers] /\ ahead' \in [Heads -> SUBSET Heads]
  BY <1>1, PipelineType DEF Enqueued, Types
<1>2. ASSUME NEW h \in Heads
      PROVE  Append(batch_queue, h) \in Seq(Heads) /\ Append(batch_check0, h) \in Seq(Heads)
  BY AppendProperties DEF Types
<1>3. ASSUME NEW h \in Callbacks, call_srcu(h)  PROVE Types'
  <2>1. h \in Heads
    BY DEF Heads
  <2>2. /\ waitfor' \in [Heads -> SUBSET Readers] /\ ahead' \in [Heads -> SUBSET Heads]
        /\ Append(batch_queue, h) \in Seq(Heads)
    BY <1>1, <1>2, <1>3, <2>1 DEF call_srcu
  <2> QED  BY <1>3, <2>2 DEF call_srcu, Types, counterVars, readerVars, NobodyRuns
<1>4. ASSUME NEW s \in Syncers, NEW n \in Trycounts, __synchronize_srcu(s, n)  PROVE Types'
  <2>1. s \in Heads /\ s \in Actors /\ n \in Nat
    BY SrcuAssumption DEF Heads, Actors
  <2>2. /\ waitfor' \in [Heads -> SUBSET Readers] /\ ahead' \in [Heads -> SUBSET Heads]
        /\ Append(batch_queue, s) \in Seq(Heads) /\ Append(batch_check0, s) \in Seq(Heads)
    BY <1>1, <1>2, <1>4, <2>1 DEF __synchronize_srcu
  <2>3. m' \in [Actors -> Locals]
    <3>1. m \in [Actors -> Locals] /\ "advance" \in Places /\ "wait" \in Places
      BY DEF Types, Places
    <3>2. \/ m' = [m EXCEPT ![s].pc = "advance", ![s].trycount = n]
          \/ m' = [m EXCEPT ![s].pc = "wait"]
      BY <1>4 DEF __synchronize_srcu
    <3>3. CASE m' = [m EXCEPT ![s].pc = "advance", ![s].trycount = n]
      BY <2>1, <3>1, <3>3, LocalFields
    <3>4. CASE m' = [m EXCEPT ![s].pc = "wait"]
      BY <2>1, <3>1, <3>4, LocalFields
    <3> QED  BY <3>2, <3>3, <3>4
  <2> QED  BY <1>4, <2>2, <2>3 DEF __synchronize_srcu, Types, counterVars, readerVars
<1> QED  BY <1>3, <1>4

(* ... and of the drivers. *)
LEMMA DriveTypes ==
    ASSUME Types, NEW a \in Actors, Drive(a)
    PROVE  Types'
<1> USE DEF counterVars, readerVars, batches, ghosts
<1>0. m \in [Actors -> Locals] /\ m[a] \in Locals /\ WORK \in Actors
  BY DEF Types, Actors
<1>1. CASE srcu_advance_batches(a)
  <2>1. OldRank \in 0 .. 1 /\ m[a].trycount \in Nat
    BY <1>0 DEF Types, OldRank, Locals
  <2>2. StartCheck(a, 1, OldRank, m[a].trycount) \in Locals /\ Advanced(a) \in Locals
    BY <2>1, CheckTypes, RestTypes
  <2> QED  BY <1>0, <1>1, <2>2 DEF srcu_advance_batches, Types
<1>2. CASE ReadCounter(a)
  <2>1. Total(a) \in 0 .. ULONG - 1 /\ m[a].cpu + 1 \in CPUs
    BY <1>0, <1>2, SumTypes, SrcuAssumption DEF ReadCounter, Last, CPUs, Locals
  <2>2. m' = [m EXCEPT ![a].sum = Total(a), ![a].cpu = @ + 1]
    BY <1>2 DEF ReadCounter
  <2> HIDE DEF Total
  <2>3. m' \in [Actors -> Locals]
    BY <1>0, <2>1, <2>2 DEF Locals
  <2> QED  BY <1>2, <2>3 DEF ReadCounter, Types
<1>3. CASE NextSum(a)
  <2>1. Total(a) \in 0 .. ULONG - 1
    BY SumTypes
  <2>2. \/ m' = [m EXCEPT ![a].phase = "sum", ![a].cpu = 1, ![a].sum = 0, ![a].seq = Total(a)]
        \/ m' = [m EXCEPT ![a].phase = "seq2", ![a].cpu = 1, ![a].sum = 0]
    BY <1>3 DEF NextSum
  <2> HIDE DEF Total
  <2>3. m' \in [Actors -> Locals]
    BY <1>0, <2>1, <2>2, Numbers DEF Locals
  <2> QED  BY <1>3, <2>3 DEF NextSum, Types
<1>4. CASE CheckFails(a)
  <2>3. m' \in [Actors -> Locals]
    <3>1. CASE m[a].tries <= 1
      BY <1>0, <1>4, <3>1, RestTypes DEF CheckFails
    <3>2. CASE ~(m[a].tries <= 1)
      <4>1. m[a].tries - 1 \in Nat
        BY <1>0, <3>2 DEF Locals
      <4>2. StartCheck(a, m[a].stage, m[a].idx, m[a].tries - 1) \in Locals
        BY <1>0, <4>1, CheckTypes DEF Locals
      <4> QED  BY <1>0, <1>4, <3>2, <4>2 DEF CheckFails
    <3> QED  BY <3>1, <3>2
  <2> QED  BY <1>4, <2>3 DEF CheckFails, Types
<1>5. CASE FirstCheckPasses(a)
  <2>1. 1 - m[a].idx \in 0 .. 1 /\ (IF m[a].trycount < 2 THEN 2 ELSE m[a].trycount) \in Nat
        /\ 1 - completed \in 0 .. 1
    BY <1>0 DEF Locals, Types
  <2>2. StartCheck(a, 2, 1 - m[a].idx, IF m[a].trycount < 2 THEN 2 ELSE m[a].trycount) \in Locals
    BY <2>1, CheckTypes
  <2>3. m' \in [Actors -> Locals] /\ completed' \in 0 .. 1
    BY <1>0, <1>5, <2>1, <2>2, RestTypes DEF FirstCheckPasses, Types
  <2>4. batch_done' \in Seq(Heads) /\ batch_check1' \in Seq(Heads) /\ batch_check0' \in Seq(Heads)
    BY <1>5, ConcatProperties, EmptySeq DEF FirstCheckPasses, Types, rcu_batch_move
  <2> QED  BY <1>5, <2>3, <2>4 DEF FirstCheckPasses, Types
<1>6. CASE SecondCheckPasses(a)
  <2>1. m' \in [Actors -> Locals]
    BY <1>0, <1>6, RestTypes DEF SecondCheckPasses
  <2>2. batch_done' \in Seq(Heads) /\ batch_check1' \in Seq(Heads)
    BY <1>6, ConcatProperties, EmptySeq DEF SecondCheckPasses, Types, rcu_batch_move
  <2> QED  BY <1>6, <2>1, <2>2 DEF SecondCheckPasses, Types
<1>7. CASE srcu_reschedule(a) \/ StopRunning(a)
  <2>1. Leave(a) => m' \in [Actors -> Locals]
    BY <1>0, RestTypes DEF Leave
  <2>2. m' = [m EXCEPT ![a].pc = "stop"] => m' \in [Actors -> Locals]
    BY <1>0 DEF Locals, Places
  <2>3. m' \in [Actors -> Locals]
    BY <1>7, <2>1, <2>2 DEF srcu_reschedule, StopRunning
  <2> QED  BY <1>7, <2>3 DEF srcu_reschedule, StopRunning, Types
<1>8. CASE process_srcu
  <2>1. m' \in [Actors -> Locals]
    <3>1. m' = [m EXCEPT ![WORK].pc = "collect", ![WORK].trycount = 1] /\ "collect" \in Places
      BY <1>8 DEF process_srcu, Places
    <3> QED  BY <1>0, <3>1, LocalFields
  <2> QED  BY <1>8, <2>1 DEF process_srcu, Types
<1>9. CASE srcu_collect_new
  <2>1. m' \in [Actors -> Locals]
    BY <1>0, <1>9, LocalFields DEF srcu_collect_new, Places
  <2>2. batch_check0' \in Seq(Heads) /\ batch_queue' \in Seq(Heads)
    BY <1>9, ConcatProperties, EmptySeq DEF srcu_collect_new, Types, rcu_batch_move
  <2> QED  BY <1>9, <2>1, <2>2 DEF srcu_collect_new, Types
<1>10. ASSUME Dequeue, batch_done # <<>>
       PROVE  batch_done' \in Seq(Heads) /\ ahead' \in [Heads -> SUBSET Heads]
  BY <1>10, HeadTailProperties DEF Dequeue, Types
<1>11. CASE srcu_invoke_callbacks
  <2>1. m' \in [Actors -> Locals]
    <3>1. "reschedule" \in Places
      BY DEF Places
    <3>2. \A b \in Actors : m[b] \in Locals /\ m[b].i + 1 \in Nat
      BY <1>0 DEF Locals
    <3>3. \/ m' = [b \in Actors |->
                     IF b = WORK THEN [m[b] EXCEPT !.i = @ + 1]
                     ELSE IF b = Head(batch_done) THEN AtRest ELSE m[b]]
          \/ m' = [m EXCEPT ![WORK].pc = "reschedule"]
      BY <1>11 DEF srcu_invoke_callbacks
    <3>4. CASE m' = [m EXCEPT ![WORK].pc = "reschedule"]
      BY <1>0, <3>1, <3>4, LocalFields
    <3>5. [m[WORK] EXCEPT !.i = @ + 1] \in Locals
      BY <1>0, <3>2, LocalFields
    <3>6. CASE m' = [b \in Actors |->
                     IF b = WORK THEN [m[b] EXCEPT !.i = @ + 1]
                     ELSE IF b = Head(batch_done) THEN AtRest ELSE m[b]]
      BY <1>0, <3>5, <3>6, RestTypes
    <3> QED  BY <3>3, <3>4, <3>6
  <2> QED  BY <1>10, <1>11, <2>1 DEF srcu_invoke_callbacks, Types
<1>12. CASE TakeOwn(a)
  <2>1. m' \in [Actors -> Locals]
    <3>1. \/ m' = [m EXCEPT ![a].pc = "reschedule", ![a].i = 1]
          \/ m' = [m EXCEPT ![a].pc = "reschedule"]
      BY <1>12 DEF TakeOwn
    <3>2. "reschedule" \in Places
      BY DEF Places
    <3>3. CASE m' = [m EXCEPT ![a].pc = "reschedule", ![a].i = 1]
      BY <1>0, <3>2, <3>3, LocalFields
    <3>4. CASE m' = [m EXCEPT ![a].pc = "reschedule"]
      BY <1>0, <3>2, <3>4, LocalFields
    <3> QED  BY <3>1, <3>3, <3>4
  <2> QED  BY <1>10, <1>12, <2>1 DEF TakeOwn, Types
<1> QED  BY <1>1, <1>2, <1>3, <1>4, <1>5, <1>6, <1>7, <1>8, <1>9, <1>11, <1>12 DEF Drive

(* Types hold in every reachable state. *)
LEMMA TypesHold == Spec => []Types
<1>1. Init => Types
  <2> SUFFICES ASSUME Init  PROVE Types
    OBVIOUS
  <2>1. /\ c = [cpu \in CPUs |-> [idx \in 0 .. 1 |-> 0]]
        /\ seq = [cpu \in CPUs |-> [idx \in 0 .. 1 |-> 0]]
        /\ completed = 0 /\ running = FALSE
        /\ batch_queue = <<>> /\ batch_check0 = <<>> /\ batch_check1 = <<>> /\ batch_done = <<>>
    BY DEF Init, init_srcu_struct_fields
  <2>2. c \in Counters /\ seq \in Counters
    BY <2>1, Numbers DEF Counters
  <2>3. m \in [Actors -> Locals]
    BY RestTypes DEF Init
  <2>4. /\ rpc \in [Readers -> {"idle", "fetched", "counted", "reading"}]
        /\ rcpu \in [Readers -> CPUs] /\ ridx \in [Readers -> 0 .. 1]
        /\ queued = FALSE /\ freed = FALSE
        /\ waitfor \in [Heads -> SUBSET Readers] /\ ahead \in [Heads -> SUBSET Heads]
    BY Numbers DEF Init
  <2>5. <<>> \in Seq(Heads) /\ 0 \in 0 .. 1
    OBVIOUS
  <2> QED  BY <2>1, <2>2, <2>3, <2>4, <2>5 DEF Types
<1>2. Types /\ [Next]_vars => Types'
  <2> SUFFICES ASSUME Types, [Next]_vars  PROVE Types'
    OBVIOUS
  <2>1. CASE cleanup_srcu_struct
    BY <2>1 DEF cleanup_srcu_struct, Types, counterVars, readerVars, batches, ghosts
  <2>2. CASE init_srcu_struct
    <3>1. /\ c' = [cpu \in CPUs |-> [idx \in 0 .. 1 |-> 0]]
          /\ seq' = [cpu \in CPUs |-> [idx \in 0 .. 1 |-> 0]]
          /\ completed' = 0 /\ running' = FALSE /\ freed' = FALSE
          /\ batch_queue' = <<>> /\ batch_check0' = <<>> /\ batch_check1' = <<>>
          /\ batch_done' = <<>>
          /\ UNCHANGED <<readerVars, queued, m, ghosts>>
      BY <2>2 DEF init_srcu_struct, init_srcu_struct_fields
    <3>2. c' \in Counters /\ seq' \in Counters
      BY <3>1, Numbers DEF Counters
    <3>3. <<>> \in Seq(Heads) /\ 0 \in 0 .. 1
      OBVIOUS
    <3> QED  BY <3>1, <3>2, <3>3 DEF Types, readerVars, ghosts
  <2>3. CASE UNCHANGED vars
    BY <2>3 DEF vars, Types, counterVars, readerVars, batches, ghosts
  <2> QED  BY <2>1, <2>2, <2>3, ReaderTypes, QueueTypes, DriveTypes DEF Next
<1> QED  BY <1>1, <1>2, PTL DEF Spec

(* The counters of srcu_struct stay within their width, ranks are 0 or 1,   *)
(* and drivers and readers are at one of their places.                      *)
THEOREM TypeCorrect == Spec => []TypeOK
<1>1. Types => TypeOK
  <2> SUFFICES ASSUME Types  PROVE TypeOK
    OBVIOUS
  <2>1. Range(Pipeline) \subseteq Heads
    BY PipelineType DEF InFlight
  <2>2. \A a \in Actors : m[a].pc \in Places
    BY DEF Types, Locals
  <2> QED  BY <2>1, <2>2 DEF TypeOK, Types, Counters
<1> QED  BY <1>1, TypesHold, PTL

-----------------------------------------------------------------------------
(* The driver. *)

Driving(a) == m[a].pc \notin {"idle", "wait"}

WorkPlaces == {"idle", "collect", "advance", "check", "invoke", "reschedule", "stop"}
SyncPlaces == {"idle", "advance", "check", "steal", "reschedule", "stop", "wait"}

(* One actor drives, or the work item is queued, while ->running is set. *)
DriverOK ==
    /\ \A a, b \in Actors : Driving(a) /\ Driving(b) => a = b
    /\ \A a \in Actors : Driving(a) => running /\ ~queued
    /\ queued => running
    /\ running => queued \/ \E a \in Actors : Driving(a)
    /\ m[WORK].pc \in WorkPlaces
    /\ \A s \in Syncers : m[s].pc \in SyncPlaces
    /\ freed => \A s \in Syncers : m[s].pc = "idle"

(* A step that only takes the driver further. *)
Further(a) ==
    /\ Driving(a) /\ m'[a].pc \notin {"idle", "wait"}
    /\ m'[a].pc \in IF a = WORK THEN WorkPlaces ELSE SyncPlaces
    /\ \A b \in Actors \ {a} : m'[b] = m[b] \/ (m'[b].pc = "idle" /\ ~Driving(b))
    /\ UNCHANGED <<running, queued, freed>>

(* A step in which the one driver goes on, or nobody starts or stops.       *)
LEMMA FurtherOK ==
    ASSUME DriverOK, NEW a \in Actors, Further(a)
    PROVE  DriverOK'
<1>1. \A b \in Actors : Driving(b)' <=> Driving(b)
  BY DEF Further, Driving
<1>2. m'[WORK].pc \in WorkPlaces
  BY DEF DriverOK, Further, Actors, WorkPlaces
<1>3. ASSUME NEW s \in Syncers  PROVE m'[s].pc \in SyncPlaces
  <2>1. s # WORK /\ s \in Actors
    BY SrcuAssumption DEF Actors
  <2> QED  BY <2>1 DEF DriverOK, Further, SyncPlaces
<1>4. ASSUME freed', NEW s \in Syncers  PROVE m'[s].pc = "idle"
  <2>1. m[s].pc = "idle" /\ s \in Actors /\ s # a
    BY <1>4 DEF DriverOK, Further, Driving, Actors
  <2> QED  BY <2>1 DEF Further
<1> QED  BY <1>1, <1>2, <1>3, <1>4 DEF DriverOK, Further

(* Where the steps of a driver lead. *)
LEMMA DriveOK ==
    ASSUME Types, DriverOK, NEW a \in Actors, Drive(a)
    PROVE  DriverOK'
<1>0. /\ m \in [Actors -> Locals] /\ WORK \in Actors /\ WORK \notin Syncers
      /\ m[a].pc \in IF a = WORK THEN WorkPlaces ELSE SyncPlaces
  BY SrcuAssumption DEF Types, Actors, DriverOK
<1>1. /\ Advanced(a).pc = IF a = WORK THEN "invoke" ELSE "steal"
      /\ \A st, rank, n : StartCheck(a, st, rank, n).pc = "check"
  <2>1. Advanced(a).pc = IF a = WORK THEN "invoke" ELSE "steal"
    BY DEF Advanced, AtRest
  <2>2. m[a] \in Locals
    BY <1>0
  <2>3. \A st, rank, n : StartCheck(a, st, rank, n).pc = "check"
    BY <2>2 DEF StartCheck, Locals
  <2> QED  BY <2>1, <2>3
<1>2. ASSUME UNCHANGED <<running, queued, freed>>, m[a].pc \in {"advance", "check"},
             \E x : m' = [m EXCEPT ![a] = x] /\ x.pc \in {"check", Advanced(a).pc}
      PROVE  DriverOK'
  BY <1>0, <1>1, <1>2, FurtherOK DEF Further, Driving, WorkPlaces, SyncPlaces
<1>3. CASE srcu_advance_batches(a)
  <2> DEFINE x == IF batch_check0 = <<>> /\ batch_check1 = <<>> THEN Advanced(a)
                  ELSE StartCheck(a, 1, OldRank, m[a].trycount)
  <2>1. m[a].pc = "advance" /\ UNCHANGED <<running, queued, freed>> /\ m' = [m EXCEPT ![a] = x]
    BY <1>3 DEF srcu_advance_batches
  <2>2. x.pc \in {"check", Advanced(a).pc}
    BY <1>1
  <2> QED  BY <1>2, <2>1, <2>2
<1>4. CASE ReadCounter(a) \/ NextSum(a)
  <2>1. /\ m[a].pc = "check" /\ m'[a].pc = "check" /\ UNCHANGED <<running, queued, freed>>
        /\ \A b \in Actors \ {a} : m'[b] = m[b]
    BY <1>0, <1>4 DEF ReadCounter, NextSum, Locals
  <2> QED  BY <2>1, FurtherOK DEF Further, Driving, WorkPlaces, SyncPlaces
<1>5. CASE CheckFails(a)
  <2> DEFINE x == IF m[a].tries <= 1 THEN Advanced(a)
                  ELSE StartCheck(a, m[a].stage, m[a].idx, m[a].tries - 1)
  <2>1. m[a].pc = "check" /\ UNCHANGED <<running, queued, freed>> /\ m' = [m EXCEPT ![a] = x]
    BY <1>5 DEF CheckFails, FoundReaders
  <2>2. x.pc \in {"check", Advanced(a).pc}
    BY <1>1
  <2> QED  BY <1>2, <2>1, <2>2
<1>6. CASE FirstCheckPasses(a)
  <2>1. /\ UNCHANGED <<running, queued, freed>> /\ m[a].pc = "check"
        /\ \/ m' = [m EXCEPT ![a] = Advanced(a)]
           \/ m' = [m EXCEPT ![a] = StartCheck(a, 2, 1 - m[a].idx,
                                       IF m[a].trycount < 2 THEN 2 ELSE m[a].trycount)]
    BY <1>6 DEF FirstCheckPasses, FoundZero
  <2> QED  BY <1>1, <1>2, <2>1
<1>7. CASE SecondCheckPasses(a)
  BY <1>1, <1>2, <1>7 DEF SecondCheckPasses, FoundZero
<1>8a. CASE srcu_reschedule(a) /\ m' = [m EXCEPT ![a].pc = "stop"] /\ UNCHANGED queued
  <2>1. /\ m[a].pc = "reschedule" /\ m'[a].pc = "stop" /\ UNCHANGED <<running, queued, freed>>
        /\ \A b \in Actors \ {a} : m'[b] = m[b]
    BY <1>0, <1>8a DEF srcu_reschedule, Locals
  <2> QED  BY <2>1, FurtherOK DEF Further, Driving, WorkPlaces, SyncPlaces
<1>8b. CASE \/ srcu_reschedule(a) /\ queued' = TRUE /\ Leave(a)
            \/ StopRunning(a)
  <2>1. /\ Driving(a) /\ running /\ ~queued
        /\ \A b \in Actors \ {a} : ~Driving(b) /\ m'[b] = m[b]
        /\ m'[a].pc \in {"idle", "wait"} /\ (a = WORK => m'[a].pc = "idle")
        /\ (running' <=> queued') /\ freed' = freed
    BY <1>0, <1>8b DEF srcu_reschedule, StopRunning, Leave, DriverOK, Driving, AtRest, Types
  <2>2. \A b \in Actors : ~Driving(b)'
    BY <2>1 DEF Driving
  <2>3. m'[WORK].pc \in WorkPlaces
    BY <1>0, <2>1 DEF DriverOK, WorkPlaces
  <2>4. \A s \in Syncers : m'[s].pc \in SyncPlaces
    BY <2>1 DEF DriverOK, SyncPlaces, Actors
  <2>5. freed' => \A s \in Syncers : m'[s].pc = "idle"
    <3>1. a \in Syncers => ~freed
      BY <2>1 DEF DriverOK, Driving
    <3>2. Syncers \subseteq Actors
      BY DEF Actors
    <3>3. freed => \A s \in Syncers : m'[s].pc = "idle"
      BY <2>1, <3>1, <3>2 DEF DriverOK
    <3> QED  BY <2>1, <3>3
  <2> QED  BY <2>1, <2>2, <2>3, <2>4, <2>5 DEF DriverOK
<1>9. CASE a = WORK /\ process_srcu
  <2>1. /\ queued /\ queued' = FALSE /\ running' = running /\ freed' = freed /\ m'[WORK].pc = "collect"
        /\ \A b \in Actors \ {WORK} : m'[b] = m[b]
    BY <1>0, <1>9 DEF process_srcu, Locals
  <2>2. running /\ \A b \in Actors : ~Driving(b)
    BY <2>1 DEF DriverOK
  <2>3. \A b \in Actors : Driving(b)' <=> b = WORK
    BY <2>1, <2>2 DEF Driving
  <2>4. \A s \in Syncers : m'[s] = m[s] /\ m'[s].pc \in SyncPlaces
    BY <1>0, <2>1 DEF DriverOK, Actors
  <2> QED  BY <1>0, <2>1, <2>2, <2>3, <2>4 DEF DriverOK, WorkPlaces
<1>10. CASE a = WORK /\ srcu_collect_new
  <2>1. /\ m[a].pc = "collect" /\ m'[a].pc = "advance" /\ UNCHANGED <<running, queued, freed>>
        /\ \A b \in Actors \ {a} : m'[b] = m[b]
    BY <1>0, <1>10 DEF srcu_collect_new, Locals
  <2> QED  BY <1>10, <2>1, FurtherOK DEF Further, Driving, WorkPlaces
<1>11. CASE a = WORK /\ srcu_invoke_callbacks
  <2>1. /\ m[a].pc = "invoke" /\ m'[a].pc \in {"invoke", "reschedule"}
        /\ UNCHANGED <<running, queued, freed>>
        /\ \A b \in Actors \ {a} : m'[b] = m[b] \/ m'[b] = AtRest
    BY <1>0, <1>11 DEF srcu_invoke_callbacks, Locals
  <2>2. \A b \in Actors \ {a} : ~Driving(b)
    BY <2>1 DEF DriverOK, Driving
  <2> QED  BY <1>11, <2>1, <2>2, FurtherOK DEF Further, Driving, WorkPlaces, AtRest
<1>12. CASE a \in Syncers /\ TakeOwn(a)
  <2>1. /\ m[a].pc = "steal" /\ m'[a].pc = "reschedule" /\ UNCHANGED <<running, queued, freed>>
        /\ \A b \in Actors \ {a} : m'[b] = m[b]
    BY <1>0, <1>12 DEF TakeOwn, Locals
  <2> QED  BY <1>0, <1>12, <2>1, FurtherOK DEF Further, Driving, SyncPlaces
<1>13. srcu_reschedule(a) => \/ m' = [m EXCEPT ![a].pc = "stop"] /\ UNCHANGED queued
                             \/ queued' = TRUE /\ Leave(a)
  BY DEF srcu_reschedule
<1> QED
  BY <1>3, <1>4, <1>5, <1>6, <1>7, <1>8a, <1>8b, <1>9, <1>10, <1>11, <1>12, <1>13 DEF Drive

(* In every reachable state there is one driver. *)
LEMMA DriverHolds == Spec => []DriverOK
<1>1. Init => DriverOK
  <2> SUFFICES ASSUME Init  PROVE DriverOK
    OBVIOUS
  <2>1. /\ \A a \in Actors : m[a].pc = "idle"
        /\ ~running /\ ~queued /\ ~freed
    BY DEF Init, AtRest, init_srcu_struct_fields
  <2> QED  BY <2>1 DEF DriverOK, Driving, WorkPlaces, SyncPlaces, Actors
<1>2. Types /\ DriverOK /\ [Next]_vars => DriverOK'
  <2> SUFFICES ASSUME Types, DriverOK, [Next]_vars  PROVE DriverOK'
    OBVIOUS
  <2>0. m \in [Actors -> Locals] /\ WORK \in Actors /\ WORK \notin Syncers /\ Syncers \subseteq Actors
    BY SrcuAssumption DEF Types, Actors
  <2>1. ASSUME UNCHANGED <<running, queued, m>>,
               freed' => freed \/ \A s \in Syncers : m[s].pc = "idle"
        PROVE  DriverOK'
    BY <2>1 DEF DriverOK, Driving
  <2>2. ASSUME NEW r \in Readers,
               Lock(r) \/ \E cpu \in CPUs : ReadIndex(r, cpu) \/ __srcu_read_unlock(r, cpu)
        PROVE  DriverOK'
    BY <2>1, <2>2 DEF Lock, CountReader, CountEntry, ReadIndex, __srcu_read_unlock
  <2>3. ASSUME NEW h \in Callbacks, call_srcu(h)  PROVE DriverOK'
    <3>1. m' = m /\ ~freed' /\ running' /\ (queued' <=> queued \/ ~running)
      BY <2>3 DEF call_srcu, NobodyRuns, Types
    <3>2. \A a \in Actors : Driving(a)' <=> Driving(a)
      BY <3>1 DEF Driving
    <3> QED  BY <3>1, <3>2 DEF DriverOK
  <2>4. ASSUME NEW s \in Syncers, NEW n \in Trycounts, __synchronize_srcu(s, n)  PROVE DriverOK'
    <3>1. CASE ~running
      <4>1. /\ running' /\ queued' = queued /\ ~freed' /\ m'[s].pc = "advance"
            /\ \A b \in Actors \ {s} : m'[b] = m[b]
        BY <2>0, <2>4, <3>1 DEF __synchronize_srcu, Locals
      <4>2. ~queued /\ \A b \in Actors : ~Driving(b)
        BY <3>1 DEF DriverOK
      <4>3. \A b \in Actors : Driving(b)' <=> b = s
        BY <4>1, <4>2 DEF Driving
      <4>4. m'[WORK].pc \in WorkPlaces /\ \A u \in Syncers : m'[u].pc \in SyncPlaces
        BY <2>0, <4>1 DEF DriverOK, SyncPlaces
      <4> QED  BY <2>0, <4>1, <4>2, <4>3, <4>4 DEF DriverOK
    <3>2. CASE running
      <4>1. /\ m[s].pc = "idle" /\ UNCHANGED <<running, queued>> /\ ~freed' /\ m'[s].pc = "wait"
            /\ \A b \in Actors \ {s} : m'[b] = m[b]
        BY <2>0, <2>4, <3>2 DEF __synchronize_srcu, Locals
      <4>2. \A b \in Actors : Driving(b)' <=> Driving(b)
        BY <4>1 DEF Driving
      <4>3. m'[WORK].pc \in WorkPlaces /\ \A u \in Syncers : m'[u].pc \in SyncPlaces
        BY <2>0, <4>1 DEF DriverOK, SyncPlaces
      <4> QED  BY <4>1, <4>2, <4>3 DEF DriverOK
    <3> QED  BY <3>1, <3>2
  <2>5. CASE cleanup_srcu_struct
    BY <2>1, <2>5 DEF cleanup_srcu_struct, Finished
  <2>6. CASE init_srcu_struct
    <3>1. /\ freed /\ ~queued /\ m[WORK].pc = "idle" /\ running' = FALSE
          /\ UNCHANGED <<queued, m>> /\ freed' = FALSE
      BY <2>6 DEF init_srcu_struct, init_srcu_struct_fields
    <3>2. \A a \in Actors : ~Driving(a)
      BY <3>1 DEF DriverOK, Driving, Actors
    <3> QED  BY <3>1, <3>2 DEF DriverOK, Driving
  <2>7. CASE UNCHANGED vars
    BY <2>1, <2>7 DEF vars
  <2> QED  BY <2>2, <2>3, <2>4, <2>5, <2>6, <2>7, DriveOK DEF Next
<1> QED  BY <1>1, <1>2, TypesHold, PTL DEF Spec
(* The state machine has exactly one driver, running or queued, while       *)
(* ->running is set, and none otherwise.                                    *)
THEOREM DriverCorrect == Spec => []OneDriver
<1>1. Types /\ DriverOK => OneDriver
  <2> SUFFICES ASSUME Types, DriverOK  PROVE OneDriver
    OBVIOUS
  <2> DEFINE drivers == {a \in Actors : m[a].pc \notin {"idle", "wait"}}
  <2>1. \A a \in Actors : a \in drivers <=> Driving(a)
    BY DEF Driving
  <2>2. CASE drivers = {}
    <3>1. Cardinality(drivers) = 0
      BY <2>2, FS_EmptySet
    <3>2. running <=> queued
      BY <2>1, <2>2 DEF DriverOK
    <3> QED  BY <3>1, <3>2 DEF OneDriver, Types
  <2>3. CASE drivers # {}
    <3>1. PICK a \in Actors : a \in drivers
      BY <2>3
    <3>2. drivers = {a} /\ running /\ ~queued
      BY <2>1, <3>1 DEF DriverOK
    <3>3. Cardinality(drivers) = 1
      BY <3>2, FS_Singleton
    <3> QED  BY <3>2, <3>3 DEF OneDriver
  <2> QED  BY <2>2, <2>3
<1> QED  BY <1>1, TypesHold, DriverHolds, PTL

-----------------------------------------------------------------------------
(* Sequences. *)

(* Moving a batch behind the one before it changes nothing of the whole. *)
LEMMA Rebatch ==
    ASSUME NEW S, NEW d \in Seq(S), NEW c1 \in Seq(S), NEW c0 \in Seq(S), NEW q \in Seq(S)
    PROVE  /\ (((d \o c1) \o (<<>> \o c0)) \o <<>>) \o q = ((d \o c1) \o c0) \o q
           /\ (((d \o c1) \o <<>>) \o c0) \o q = ((d \o c1) \o c0) \o q
<1>1. d \o c1 \in Seq(S)
  BY ConcatProperties
<1>2. <<>> \o c0 = c0 /\ (d \o c1) \o <<>> = d \o c1
  BY <1>1, ConcatEmptySeq
<1>3. (d \o c1) \o c0 \in Seq(S)
  BY <1>1, ConcatProperties
<1>4. ((d \o c1) \o c0) \o <<>> = (d \o c1) \o c0
  BY <1>3, ConcatEmptySeq
<1> QED  BY <1>2, <1>4

(* The end and the head of a concatenation. *)
LEMMA JoinEnds ==
    ASSUME NEW S, NEW s \in Seq(S), NEW r \in Seq(S)
    PROVE  /\ \A x \in S : s \o Append(r, x) = Append(s \o r, x)
           /\ s # <<>> => /\ s \o r # <<>> /\ Head(s \o r) = Head(s)
                          /\ Tail(s) \o r = Tail(s \o r)
<1>1. s \o r \in Seq(S) /\ Len(s \o r) = Len(s) + Len(r)
      /\ \A i \in 1 .. Len(s) + Len(r) : (s \o r)[i] = IF i <= Len(s) THEN s[i] ELSE r[i - Len(s)]
  BY ConcatProperties
<1>2. ASSUME NEW x \in S  PROVE s \o Append(r, x) = Append(s \o r, x)
  <2>1. <<x>> \in Seq(S)
    OBVIOUS
  <2>2. Append(r, x) = r \o <<x>> /\ Append(s \o r, x) = (s \o r) \o <<x>>
    BY <1>1, AppendIsConcat
  <2> QED  BY <2>1, <2>2, ConcatAssociative
<1>3. ASSUME s # <<>>
      PROVE  s \o r # <<>> /\ Head(s \o r) = Head(s) /\ Tail(s) \o r = Tail(s \o r)
  <2>1. Len(s) \in Nat /\ Len(s) > 0 /\ Len(r) \in Nat
    BY <1>3
  <2>2. s \o r # <<>> /\ Head(s \o r) = Head(s)
    BY <1>1, <2>1
  <2>3. Tail(s) \in Seq(S) /\ Len(Tail(s)) = Len(s) - 1
        /\ \A i \in 1 .. Len(s) - 1 : Tail(s)[i] = s[i + 1]
    BY <1>3, HeadTailProperties
  <2>4. /\ Tail(s) \o r \in Seq(S) /\ Len(Tail(s) \o r) = Len(s) - 1 + Len(r)
        /\ \A i \in 1 .. Len(s) - 1 + Len(r) :
              (Tail(s) \o r)[i] = IF i <= Len(s) - 1 THEN Tail(s)[i] ELSE r[i - (Len(s) - 1)]
    BY <2>3, ConcatProperties
  <2>5. /\ Tail(s \o r) \in Seq(S) /\ Len(Tail(s \o r)) = Len(s) + Len(r) - 1
        /\ \A i \in 1 .. Len(s) + Len(r) - 1 : Tail(s \o r)[i] = (s \o r)[i + 1]
    BY <1>1, <2>2, HeadTailProperties
  <2>6. ASSUME NEW i \in 1 .. Len(s) + Len(r) - 1  PROVE (Tail(s) \o r)[i] = Tail(s \o r)[i]
    <3>1. i + 1 \in 1 .. Len(s) + Len(r) /\ i \in 1 .. Len(s) - 1 + Len(r)
      BY <2>1
    <3>2. (s \o r)[i + 1] = IF i + 1 <= Len(s) THEN s[i + 1] ELSE r[i + 1 - Len(s)]
      BY <1>1, <3>1
    <3>3. CASE i <= Len(s) - 1
      BY <2>1, <2>3, <2>4, <2>5, <3>1, <3>2, <3>3
    <3>4. CASE i > Len(s) - 1
      <4>1. i - (Len(s) - 1) = i + 1 - Len(s)
        BY <2>1
      <4> QED  BY <2>1, <2>4, <2>5, <3>1, <3>2, <3>4, <4>1
    <3> QED  BY <2>1, <3>3, <3>4
  <2>7. Len(Tail(s) \o r) = Len(Tail(s \o r))
    BY <2>1, <2>4, <2>5
  <2>8. Tail(s) \o r = Tail(s \o r)
    BY <2>1, <2>4, <2>5, <2>6, <2>7, SeqEqual
  <2> QED  BY <2>2, <2>8
<1> QED  BY <1>2, <1>3

Inj(s) == \A i, j \in 1 .. Len(s) : s[i] = s[j] => i = j

(* f gives, for each element of s, those before it. *)
OrderedBy(s, f) == \A i \in 1 .. Len(s) : f[s[i]] = {s[j] : j \in 1 .. i - 1}

(* An element that was not in s joins it at the end. *)
LEMMA AppendOrder ==
    ASSUME NEW S, NEW s \in Seq(S), NEW f \in [S -> SUBSET S], NEW x \in S,
           Inj(s), OrderedBy(s, f), x \notin Range(s)
    PROVE  /\ Inj(Append(s, x)) /\ OrderedBy(Append(s, x), [f EXCEPT ![x] = Range(s)])
           /\ Range(Append(s, x)) = Range(s) \cup {x}
           /\ Append(s, x) # <<>>
           /\ Head(Append(s, x)) = IF s = <<>> THEN x ELSE Head(s)
<1> DEFINE n == Len(s)
           t == Append(s, x)
           g == [f EXCEPT ![x] = Range(s)]
<1>0. /\ n \in Nat /\ t \in Seq(S) /\ Len(t) = n + 1 /\ t[n + 1] = x /\ t # <<>>
      /\ \A i \in 1 .. n : t[i] = s[i] /\ s[i] \in S
  BY AppendProperties, LenProperties, ElementOfSeq
<1>1. Range(s) = {s[i] : i \in 1 .. n} /\ Range(t) = {t[i] : i \in 1 .. n + 1}
  BY <1>0, RangeEquality
<1>2. \A i \in 1 .. n : s[i] # x
  BY <1>1
<1>3. Head(t) = IF s = <<>> THEN x ELSE Head(s)
  BY HeadTailAppend
<1> HIDE DEF t, n
<1>4. \A i \in 1 .. n + 1 : i \in 1 .. n \/ i = n + 1
  BY <1>0
<1>5. Inj(t)
  BY <1>0, <1>2, <1>4 DEF Inj, n
<1>6. Range(t) = Range(s) \cup {x}
  <2>1. n + 1 \in 1 .. n + 1 /\ 1 .. n \subseteq 1 .. n + 1
    BY <1>0
  <2> QED  BY <1>0, <1>1, <1>4, <2>1
<1>7. OrderedBy(t, g)
  <2> SUFFICES ASSUME NEW i \in 1 .. n + 1  PROVE g[t[i]] = {t[j] : j \in 1 .. i - 1}
    BY <1>0 DEF OrderedBy
  <2>1. \A j \in 1 .. i - 1 : j \in 1 .. n
    BY <1>0
  <2>2. {t[j] : j \in 1 .. i - 1} = {s[j] : j \in 1 .. i - 1}
    BY <1>0, <2>1
  <2>3. CASE i \in 1 .. n
    BY <1>0, <1>2, <2>2, <2>3 DEF OrderedBy, n
  <2>4. CASE i = n + 1
    <3>1. i - 1 = n /\ t[i] = x /\ g[x] = Range(s)
      BY <1>0, <2>4
    <3> QED  BY <1>1, <2>2, <3>1
  <2> QED  BY <1>4, <2>3, <2>4
<1> QED  BY <1>0, <1>3, <1>5, <1>6, <1>7 DEF t

(* The first element leaves. *)
LEMMA TailOrder ==
    ASSUME NEW S, NEW s \in Seq(S), NEW f \in [S -> SUBSET S], s # <<>>, Inj(s), OrderedBy(s, f)
    PROVE  /\ Inj(Tail(s)) /\ OrderedBy(Tail(s), [x \in S |-> f[x] \ {Head(s)}])
           /\ Range(Tail(s)) = Range(s) \ {Head(s)}
<1> DEFINE n == Len(s)
           t == Tail(s)
           g == [x \in S |-> f[x] \ {Head(s)}]
<1>0. /\ n \in Nat /\ n > 0 /\ t \in Seq(S) /\ Len(t) = n - 1 /\ Head(s) = s[1]
      /\ \A i \in 1 .. n - 1 : t[i] = s[i + 1]
      /\ \A i \in 1 .. n : s[i] \in S
  BY HeadTailProperties, LenProperties, ElementOfSeq
<1>1. Range(s) = {s[i] : i \in 1 .. n} /\ Range(t) = {t[i] : i \in 1 .. n - 1}
  BY <1>0, RangeEquality
<1> HIDE DEF t, n
<1>2. /\ \A i \in 1 .. n - 1 : i + 1 \in 1 .. n /\ i + 1 # 1
      /\ \A i \in 1 .. n : i = 1 \/ (i - 1 \in 1 .. n - 1 /\ (i - 1) + 1 = i)
      /\ 1 \in 1 .. n
  BY <1>0
<1>3. \A i, j \in 1 .. n : s[i] = s[j] => i = j
  BY DEF Inj, n
<1>4. Inj(t)
  <2> SUFFICES ASSUME NEW i \in 1 .. n - 1, NEW j \in 1 .. n - 1, t[i] = t[j]  PROVE i = j
    BY <1>0 DEF Inj
  <2>1. i + 1 = j + 1
    BY <1>0, <1>2, <1>3
  <2> QED  BY <1>0, <2>1
<1>5. Range(t) = Range(s) \ {s[1]}
  <2>1. ASSUME NEW x \in Range(t)  PROVE x \in Range(s) \ {s[1]}
    <3>1. PICK i \in 1 .. n - 1 : x = s[i + 1]
      BY <1>0, <1>1
    <3> QED  BY <1>1, <1>2, <1>3, <3>1
  <2>2. ASSUME NEW x \in Range(s), x # s[1]  PROVE x \in Range(t)
    <3>1. PICK i \in 1 .. n : x = s[i]
      BY <1>1
    <3>2. i - 1 \in 1 .. n - 1 /\ t[i - 1] = x
      BY <1>0, <1>2, <2>2, <3>1
    <3> QED  BY <1>1, <3>2
  <2> QED  BY <2>1, <2>2
<1>6. OrderedBy(t, g)
  <2> SUFFICES ASSUME NEW i \in 1 .. n - 1  PROVE g[t[i]] = {t[j] : j \in 1 .. i - 1}
    BY <1>0 DEF OrderedBy
  <2>1. /\ t[i] = s[i + 1] /\ t[i] \in S /\ i + 1 \in 1 .. n
    BY <1>0, <1>2
  <2>2. f[s[i + 1]] = {s[j] : j \in 1 .. (i + 1) - 1}
    BY <2>1 DEF OrderedBy, n
  <2>3. g[t[i]] = {s[j] : j \in 1 .. (i + 1) - 1} \ {s[1]}
    BY <1>0, <2>1, <2>2
  <2>4. ASSUME NEW x \in {t[j] : j \in 1 .. i - 1}
        PROVE  x \in {s[j] : j \in 1 .. (i + 1) - 1} \ {s[1]}
    <3>1. PICK j \in 1 .. i - 1 : x = t[j]
      OBVIOUS
    <3>2. x = s[j + 1] /\ j + 1 \in 1 .. (i + 1) - 1 /\ j + 1 \in 1 .. n /\ j + 1 # 1
      BY <1>0, <3>1
    <3> QED  BY <1>2, <1>3, <3>2
  <2>5. ASSUME NEW x \in {s[j] : j \in 1 .. (i + 1) - 1}, x # s[1]
        PROVE  x \in {t[j] : j \in 1 .. i - 1}
    <3>1. PICK j \in 1 .. (i + 1) - 1 : x = s[j]
      OBVIOUS
    <3>2. j # 1
      BY <2>5, <3>1
    <3>3. j - 1 \in 1 .. i - 1 /\ j - 1 \in 1 .. n - 1 /\ (j - 1) + 1 = j
      BY <1>0, <3>1, <3>2
    <3>4. t[j - 1] = x
      BY <1>0, <3>1, <3>3
    <3> QED  BY <3>3, <3>4
  <2> QED  BY <2>3, <2>4, <2>5
<1> QED  BY <1>0, <1>4, <1>5, <1>6 DEF t
-----------------------------------------------------------------------------
(* The callbacks in flight. *)

(* The callback of this task has been taken, or was never queued. *)
Out(s) == m[s].pc = "idle" \/ (m[s].pc \in {"reschedule", "stop"} /\ m[s].i = 1)

(* There is something to do as long as somebody is to do it, a thief finds  *)
(* its own callback first, and all are in order.                            *)
PipeOK ==
    /\ ~running \/ freed => Pipeline = <<>>
    /\ queued => Pipeline # <<>>
    /\ m[WORK].pc \in {"collect", "advance", "check"} => Pipeline # <<>>
    /\ \A s \in Syncers :
          /\ m[s].pc \in {"advance", "check", "steal"} => Pipeline # <<>> /\ Head(Pipeline) = s
          /\ m[s].pc = "steal" => m[s].i = 0
          /\ Out(s) => s \notin InFlight
    /\ Inj(Pipeline)
    /\ OrderedBy(Pipeline, ahead)

(* What the batches hold together. *)
LEMMA Ends ==
    ASSUME Types
    PROVE  /\ \A h \in Heads : ((batch_done \o batch_check1) \o batch_check0) \o Append(batch_queue, h)
                                 = Append(Pipeline, h)
           /\ batch_done # <<>> =>
                 /\ Pipeline # <<>> /\ Head(Pipeline) = Head(batch_done)
                 /\ ((Tail(batch_done) \o batch_check1) \o batch_check0) \o batch_queue = Tail(Pipeline)
<1> DEFINE d == batch_done
           c1 == batch_check1
           c0 == batch_check0
           q == batch_queue
<1>1. d \in Seq(Heads) /\ c1 \in Seq(Heads) /\ c0 \in Seq(Heads) /\ q \in Seq(Heads)
  BY DEF Types
<1>2. Pipeline = ((d \o c1) \o c0) \o q
  BY DEF Pipeline
<1> HIDE DEF d, c1, c0, q
<1>3. d \o c1 \in Seq(Heads) /\ (d \o c1) \o c0 \in Seq(Heads)
  BY <1>1, ConcatProperties
<1>4. \A h \in Heads : ((d \o c1) \o c0) \o Append(q, h) = Append(Pipeline, h)
  BY <1>1, <1>2, <1>3, JoinEnds
<1>5. ASSUME d # <<>>
      PROVE  /\ Pipeline # <<>> /\ Head(Pipeline) = Head(d)
             /\ ((Tail(d) \o c1) \o c0) \o q = Tail(Pipeline)
  <2>1. d \o c1 # <<>> /\ Head(d \o c1) = Head(d) /\ Tail(d) \o c1 = Tail(d \o c1)
    BY <1>1, <1>5, JoinEnds
  <2>2. /\ (d \o c1) \o c0 # <<>> /\ Head((d \o c1) \o c0) = Head(d \o c1)
        /\ Tail(d \o c1) \o c0 = Tail((d \o c1) \o c0)
    BY <1>1, <1>3, <2>1, JoinEnds
  <2>3. /\ Pipeline # <<>> /\ Head(Pipeline) = Head((d \o c1) \o c0)
        /\ Tail((d \o c1) \o c0) \o q = Tail(Pipeline)
    BY <1>1, <1>2, <1>3, <2>2, JoinEnds
  <2> QED  BY <2>1, <2>2, <2>3
<1> QED  BY <1>4, <1>5 DEF d, c1, c0, q

(* A step of driver a that does not change what is in flight. *)
LEMMA PipeStays ==
    ASSUME Types, DriverOK, PipeOK, NEW a \in Actors,
           UNCHANGED <<running, queued, freed, Pipeline, ahead>>,
           \A b \in Actors \ {a} : m'[b] = m[b],
           m[a].pc \in {"collect", "advance", "check"},
           m'[a].pc \in {"advance", "check", "invoke", "steal"},
           m'[a].pc = "steal" => m'[a].i = 0
    PROVE  PipeOK'
<1>1. InFlight' = InFlight
  BY DEF InFlight
<1>2. Syncers \subseteq Actors /\ WORK \in Actors /\ WORK \notin Syncers
  BY SrcuAssumption DEF Actors
<1>3. m'[WORK].pc \in {"collect", "advance", "check"} => Pipeline # <<>>
  BY <1>2 DEF PipeOK
<1>4. ASSUME NEW s \in Syncers
      PROVE  /\ m'[s].pc \in {"advance", "check", "steal"} => Pipeline # <<>> /\ Head(Pipeline) = s
             /\ m'[s].pc = "steal" => m'[s].i = 0
             /\ Out(s)' => s \notin InFlight
  <2>1. CASE s = a
    <3>1. m[s].pc \in {"advance", "check"}
      BY <2>1 DEF DriverOK, SyncPlaces
    <3>2. ~Out(s)'
      BY <2>1 DEF Out
    <3> QED  BY <2>1, <3>1, <3>2 DEF PipeOK
  <2>2. CASE s # a
    BY <1>2, <2>2 DEF PipeOK, Out
  <2> QED  BY <2>1, <2>2
<1> QED  BY <1>1, <1>3, <1>4 DEF PipeOK

(* A step that takes the first callback, and says so to driver a. *)
LEMMA PipeShrinks ==
    ASSUME Types, Types', DriverOK, PipeOK, NEW a \in Actors, Driving(a),
           batch_done # <<>>, Dequeue, UNCHANGED <<running, queued, freed>>,
           UNCHANGED <<batch_queue, batch_check0, batch_check1>>,
           m'[a].pc \in {"invoke", "reschedule"},
           \A b \in Actors \ {a} : m'[b] = m[b] \/ (b = Head(batch_done) /\ m'[b].pc = "idle"),
           a \in Syncers => a = Head(Pipeline)
    PROVE  PipeOK'
<1>0. Syncers \subseteq Actors /\ WORK \in Actors /\ WORK \notin Syncers
  BY SrcuAssumption DEF Actors
<1>1. /\ Pipeline # <<>> /\ Head(Pipeline) = Head(batch_done)
      /\ Pipeline' = Tail(Pipeline)
      /\ Pipeline \in Seq(Heads) /\ ahead \in [Heads -> SUBSET Heads]
  <2>1. Pipeline' = ((Tail(batch_done) \o batch_check1) \o batch_check0) \o batch_queue
    BY DEF Dequeue, Pipeline
  <2> QED  BY <2>1, Ends, PipelineType DEF Types
<1>2. ahead' = [h \in Heads |-> ahead[h] \ {Head(Pipeline)}]
  BY <1>1 DEF Dequeue
<1>3. Inj(Pipeline) /\ OrderedBy(Pipeline, ahead)
  BY DEF PipeOK
<1>4. /\ Inj(Pipeline') /\ OrderedBy(Pipeline', ahead')
      /\ Range(Pipeline') = Range(Pipeline) \ {Head(Pipeline)}
  BY <1>1, <1>2, <1>3, TailOrder
<1>5. /\ InFlight = Range(Pipeline) /\ InFlight' = InFlight \ {Head(Pipeline)}
  BY <1>4 DEF InFlight
<1>6. running /\ ~queued /\ ~freed /\ \A b \in Actors \ {a} : ~Driving(b)
  BY <1>1 DEF DriverOK, PipeOK
<1>7. ~(m'[WORK].pc \in {"collect", "advance", "check"})
  <2>1. CASE a = WORK
    BY <2>1
  <2>2. CASE a # WORK
    BY <1>0, <1>6, <2>2 DEF Driving
  <2> QED  BY <2>1, <2>2
<1>8. ASSUME NEW s \in Syncers
      PROVE  /\ m'[s].pc \notin {"advance", "check", "steal"}
             /\ Out(s)' => s \notin InFlight'
  <2>1. CASE s = a
    BY <1>5, <2>1
  <2>2. CASE s # a /\ m'[s] = m[s]
    BY <1>0, <1>5, <1>6, <2>2 DEF Driving, Out, PipeOK
  <2>3. CASE s # a /\ s = Head(batch_done) /\ m'[s].pc = "idle"
    BY <1>1, <1>5, <2>3
  <2> QED  BY <1>0, <2>1, <2>2, <2>3
<1> QED  BY <1>4, <1>6, <1>7, <1>8 DEF PipeOK, Inj, OrderedBy

(* A step that queues callback h, and of task s if that is its own.         *)
LEMMA PipeGrows ==
    ASSUME Types, Types', DriverOK, PipeOK, NEW h \in Heads, h \notin InFlight,
           Pipeline' = Append(Pipeline, h), Enqueued(h), running', ~freed',
           \A b \in Actors \ {h} : m'[b] = m[b],
           h \in Syncers =>
              \/ m'[h].pc = "wait"
              \/ m'[h].pc = "advance" /\ Pipeline = <<>> /\ ~running
    PROVE  PipeOK'
<1>0. Syncers \subseteq Actors /\ WORK \in Actors /\ WORK \notin Syncers /\ Callbacks \cap Syncers = {}
  BY SrcuAssumption DEF Actors
<1>1. Pipeline \in Seq(Heads) /\ ahead \in [Heads -> SUBSET Heads] /\ InFlight = Range(Pipeline)
      /\ Inj(Pipeline) /\ OrderedBy(Pipeline, ahead)
  BY PipelineType DEF Types, PipeOK, InFlight
<1>2. ahead' = [ahead EXCEPT ![h] = Range(Pipeline)]
  BY <1>1 DEF Enqueued
<1>3. /\ Inj(Pipeline') /\ OrderedBy(Pipeline', ahead')
      /\ Range(Pipeline') = Range(Pipeline) \cup {h} /\ Pipeline' # <<>>
      /\ Head(Pipeline') = IF Pipeline = <<>> THEN h ELSE Head(Pipeline)
  <2>1. h \notin Range(Pipeline)
    BY <1>1
  <2>2. /\ Inj(Append(Pipeline, h))
        /\ OrderedBy(Append(Pipeline, h), [ahead EXCEPT ![h] = Range(Pipeline)])
        /\ Range(Append(Pipeline, h)) = Range(Pipeline) \cup {h}
        /\ Append(Pipeline, h) # <<>>
        /\ Head(Append(Pipeline, h)) = IF Pipeline = <<>> THEN h ELSE Head(Pipeline)
    <3> DEFINE P == Pipeline
               f == ahead
    <3>1. /\ P \in Seq(Heads) /\ f \in [Heads -> SUBSET Heads] /\ Inj(P) /\ OrderedBy(P, f)
          /\ h \notin Range(P)
      BY <1>1, <2>1
    <3> HIDE DEF P, f
    <3>2. Inj(Append(P, h)) /\ OrderedBy(Append(P, h), [f EXCEPT ![h] = Range(P)])
      BY <3>1, AppendOrder, Zenon
    <3>3. Range(Append(P, h)) = Range(P) \cup {h}
      <4>1. /\ Len(P) \in Nat /\ DOMAIN P = 1 .. Len(P) /\ DOMAIN Append(P, h) = 1 .. Len(P) + 1
            /\ \A i \in 1 .. Len(P) + 1 : Append(P, h)[i] = IF i \in 1 .. Len(P) THEN P[i] ELSE h
            /\ Append(P, h)[Len(P) + 1] = h
        BY <3>1
      <4> QED  BY <4>1 DEF Range
    <3>5. Append(P, h) # <<>>
      BY <3>1
    <3>4. Head(Append(P, h)) = IF P = <<>> THEN h ELSE Head(P)
      BY <3>1, AppendOrder, Zenon
    <3> QED  BY <3>2, <3>3, <3>4, <3>5 DEF P, f
  <2> QED  BY <1>2, <2>2
<1>4. InFlight' = InFlight \cup {h}
  BY <1>1, <1>3 DEF InFlight
<1>5. ASSUME NEW s \in Syncers
      PROVE  /\ m'[s].pc \in {"advance", "check", "steal"} => Head(Pipeline') = s
             /\ m'[s].pc = "steal" => m'[s].i = 0
             /\ Out(s)' => s \notin InFlight'
  <2>1. CASE s = h
    BY <1>3, <2>1 DEF Out
  <2>2. CASE s # h
    <3>1. m'[s] = m[s]
      BY <1>0, <2>2
    <3> QED  BY <1>3, <1>4, <2>2, <3>1 DEF PipeOK, Out
  <2> QED  BY <2>1, <2>2
<1> QED  BY <1>3, <1>5 DEF PipeOK, Inj, OrderedBy

(* The steps of the drivers. *)
LEMMA DrivePipe ==
    ASSUME Types, Types', DriverOK, PipeOK, NEW a \in Actors, Drive(a)
    PROVE  PipeOK'
<1>0. /\ m \in [Actors -> Locals] /\ WORK \in Actors /\ WORK \notin Syncers
      /\ Syncers \subseteq Actors /\ (a \in Syncers \/ a = WORK)
      /\ batch_done \in Seq(Heads) /\ batch_check1 \in Seq(Heads)
      /\ batch_check0 \in Seq(Heads) /\ batch_queue \in Seq(Heads)
  BY SrcuAssumption DEF Types, Actors
<1>1. /\ Advanced(a).pc \in {"invoke", "steal"} /\ Advanced(a).i = 0
      /\ \A st, rank, n : StartCheck(a, st, rank, n).pc = "check"
  <2>1. Advanced(a).pc \in {"invoke", "steal"} /\ Advanced(a).i = 0
    BY DEF Advanced, AtRest
  <2>2. m[a] \in Locals
    BY <1>0
  <2>3. \A st, rank, n : StartCheck(a, st, rank, n).pc = "check"
    BY <2>2 DEF StartCheck, Locals
  <2> QED  BY <2>1, <2>3
<1>2. ASSUME UNCHANGED <<running, queued, freed, Pipeline, ahead>>, m[a].pc \in {"advance", "check"},
             NEW x, m' = [m EXCEPT ![a] = x],
             x.pc = "check" \/ x = Advanced(a)
      PROVE  PipeOK'
  <2>1. m'[a] = x /\ \A b \in Actors \ {a} : m'[b] = m[b]
    BY <1>0, <1>2
  <2>2. x.pc \in {"check", "invoke", "steal"} /\ (x.pc = "steal" => x.i = 0)
    BY <1>1, <1>2
  <2> QED  BY <1>2, <2>1, <2>2, PipeStays
<1>3. CASE srcu_advance_batches(a)
  <2> DEFINE x == IF batch_check0 = <<>> /\ batch_check1 = <<>> THEN Advanced(a)
                  ELSE StartCheck(a, 1, OldRank, m[a].trycount)
  <2>1. /\ m[a].pc = "advance" /\ m' = [m EXCEPT ![a] = x]
        /\ UNCHANGED <<running, queued, freed, Pipeline, ahead>>
    BY <1>3 DEF srcu_advance_batches, batches, ghosts, Pipeline
  <2>2. x.pc = "check" \/ x = Advanced(a)
    BY <1>1
  <2> QED  BY <1>2, <2>1, <2>2
<1>4. CASE ReadCounter(a) \/ NextSum(a)
  <2>1. m[a].pc = "check" /\ m \in [Actors -> Locals]
    BY <1>0, <1>4 DEF ReadCounter, NextSum
  <2>3. m'[a].pc = "check" /\ \A b \in Actors \ {a} : m'[b] = m[b]
    <3>1. CASE m' = [m EXCEPT ![a].sum = Total(a), ![a].cpu = @ + 1]
      BY <2>1, <3>1 DEF Locals
    <3>2. CASE m' = [m EXCEPT ![a].phase = "sum", ![a].cpu = 1, ![a].sum = 0, ![a].seq = Total(a)]
      BY <2>1, <3>2 DEF Locals
    <3>3. CASE m' = [m EXCEPT ![a].phase = "seq2", ![a].cpu = 1, ![a].sum = 0]
      BY <2>1, <3>3 DEF Locals
    <3> QED  BY <1>4, <3>1, <3>2, <3>3 DEF ReadCounter, NextSum
  <2>2. UNCHANGED <<running, queued, freed, Pipeline, ahead>>
    BY <1>4 DEF ReadCounter, NextSum, batches, ghosts, Pipeline
  <2> QED  BY <2>1, <2>2, <2>3, PipeStays
<1>5. CASE CheckFails(a)
  <2> DEFINE x == IF m[a].tries <= 1 THEN Advanced(a)
                  ELSE StartCheck(a, m[a].stage, m[a].idx, m[a].tries - 1)
  <2>1. /\ m[a].pc = "check" /\ m' = [m EXCEPT ![a] = x]
        /\ UNCHANGED <<running, queued, freed, Pipeline, ahead>>
    BY <1>5 DEF CheckFails, FoundReaders, batches, ghosts, Pipeline
  <2>2. x.pc = "check" \/ x = Advanced(a)
    BY <1>1
  <2> QED  BY <1>2, <2>1, <2>2
<1>6. CASE FirstCheckPasses(a)
  <2>1. /\ UNCHANGED <<running, queued, freed, ahead>> /\ m[a].pc = "check"
        /\ \/ m' = [m EXCEPT ![a] = Advanced(a)]
           \/ m' = [m EXCEPT ![a] = StartCheck(a, 2, 1 - m[a].idx,
                                       IF m[a].trycount < 2 THEN 2 ELSE m[a].trycount)]
    BY <1>6 DEF FirstCheckPasses, FoundZero, ghosts
  <2>2. Pipeline' = (((batch_done \o batch_check1) \o (<<>> \o batch_check0)) \o <<>>) \o batch_queue
    BY <1>6 DEF FirstCheckPasses, rcu_batch_move, Pipeline
  <2>3. Pipeline' = Pipeline
    BY <1>0, <2>2, Rebatch DEF Pipeline
  <2> QED  BY <1>1, <1>2, <2>1, <2>3
<1>7. CASE SecondCheckPasses(a)
  <2>1. /\ UNCHANGED <<running, queued, freed, ahead>> /\ m[a].pc = "check"
        /\ m' = [m EXCEPT ![a] = Advanced(a)]
    BY <1>7 DEF SecondCheckPasses, FoundZero, ghosts
  <2>2. Pipeline' = (((batch_done \o batch_check1) \o <<>>) \o batch_check0) \o batch_queue
    BY <1>7 DEF SecondCheckPasses, rcu_batch_move, Pipeline
  <2>3. Pipeline' = Pipeline
    BY <1>0, <2>2, Rebatch DEF Pipeline
  <2> QED  BY <1>2, <2>1, <2>3
<1>8a. CASE srcu_reschedule(a) /\ m' = [m EXCEPT ![a].pc = "stop"] /\ UNCHANGED queued
  <2>1. /\ m[a].pc = "reschedule" /\ m'[a].pc = "stop" /\ m'[a].i = m[a].i
        /\ \A b \in Actors \ {a} : m'[b] = m[b]
        /\ UNCHANGED <<running, queued, freed, Pipeline, ahead, InFlight>>
    BY <1>0, <1>8a DEF srcu_reschedule, Locals, batches, ghosts, Pipeline, InFlight
  <2>2. ASSUME NEW s \in Syncers
        PROVE  /\ m'[s].pc \in {"advance", "check", "steal"} => Pipeline # <<>> /\ Head(Pipeline) = s
               /\ m'[s].pc = "steal" => m'[s].i = 0
               /\ Out(s)' => s \notin InFlight
    BY <1>0, <2>1 DEF PipeOK, Out
  <2> QED  BY <1>0, <2>1, <2>2 DEF PipeOK
<1>8b. CASE \/ srcu_reschedule(a) /\ queued' = TRUE /\ Leave(a) /\ ~NothingToDo
            \/ StopRunning(a)
  <2>1. /\ m[a].pc \in {"reschedule", "stop"} /\ UNCHANGED <<freed, Pipeline, ahead>>
        /\ IF Pipeline = <<>> THEN running' = FALSE /\ UNCHANGED queued
           ELSE queued' = TRUE /\ UNCHANGED running
        /\ \A b \in Actors \ {a} : m'[b] = m[b]
        /\ m'[a].pc = IF a = WORK \/ m[a].i = 1 THEN "idle" ELSE "wait"
    <3>1. /\ m[a].pc \in {"reschedule", "stop"} /\ Leave(a)
          /\ UNCHANGED <<freed, Pipeline, ahead>>
      BY <1>8b DEF srcu_reschedule, StopRunning, batches, ghosts, Pipeline
    <3>2. IF Pipeline = <<>> THEN running' = FALSE /\ UNCHANGED queued
          ELSE queued' = TRUE /\ UNCHANGED running
      BY <1>8b DEF srcu_reschedule, StopRunning, NothingToDo, StillNothingToDo
    <3>3. /\ \A b \in Actors \ {a} : m'[b] = m[b]
          /\ m'[a].pc = IF a = WORK \/ m[a].i = 1 THEN "idle" ELSE "wait"
      BY <1>0, <3>1 DEF Leave, AtRest
    <3> QED  BY <3>1, <3>2, <3>3
  <2>2. running /\ ~queued /\ InFlight' = InFlight
    BY <2>1 DEF DriverOK, Driving, InFlight
  <2>3. m'[WORK].pc \in {"collect", "advance", "check"} => Pipeline # <<>>
    BY <1>0, <2>1 DEF PipeOK
  <2>4. ASSUME NEW s \in Syncers
        PROVE  /\ m'[s].pc \in {"advance", "check", "steal"} => Pipeline # <<>> /\ Head(Pipeline) = s
               /\ m'[s].pc = "steal" => m'[s].i = 0
               /\ Out(s)' => s \notin InFlight
    <3>1. CASE s = a
      <4>1. Out(s)' => Out(s)
        BY <1>0, <2>1, <3>1 DEF Out
      <4> QED  BY <2>1, <3>1, <4>1 DEF PipeOK
    <3>2. CASE s # a
      BY <1>0, <2>1, <3>2 DEF PipeOK, Out
    <3> QED  BY <3>1, <3>2
  <2>5. /\ ~running' \/ freed' => Pipeline = <<>>
        /\ queued' => Pipeline # <<>>
    BY <2>1, <2>2 DEF PipeOK
  <2> QED  BY <2>1, <2>2, <2>3, <2>4, <2>5 DEF PipeOK
<1>9. CASE a = WORK /\ process_srcu
  <2>1. /\ queued /\ queued' = FALSE /\ m'[WORK].pc = "collect"
        /\ UNCHANGED <<running, freed, Pipeline, ahead>>
        /\ \A b \in Actors \ {WORK} : m'[b] = m[b]
    BY <1>0, <1>9 DEF process_srcu, Locals, batches, ghosts, Pipeline
  <2>2. Pipeline # <<>> /\ InFlight' = InFlight
    BY <2>1 DEF PipeOK, InFlight
  <2>3. \A s \in Syncers : m'[s] = m[s]
    BY <1>0, <2>1
  <2> QED  BY <2>1, <2>2, <2>3 DEF PipeOK, Out
<1>10. CASE a = WORK /\ srcu_collect_new
  <2>1. /\ m[a].pc = "collect" /\ m'[a].pc = "advance" /\ UNCHANGED <<running, queued, freed, ahead>>
        /\ \A b \in Actors \ {a} : m'[b] = m[b]
    BY <1>0, <1>10 DEF srcu_collect_new, Locals, ghosts
  <2>2. Pipeline' = ((batch_done \o batch_check1) \o (batch_check0 \o batch_queue)) \o <<>>
    BY <1>10 DEF srcu_collect_new, rcu_batch_move, Pipeline
  <2>3. Pipeline = ((batch_done \o batch_check1) \o batch_check0) \o batch_queue
    BY DEF Pipeline
  <2>4. ((batch_done \o batch_check1) \o (batch_check0 \o batch_queue)) \o <<>>
           = ((batch_done \o batch_check1) \o batch_check0) \o batch_queue
    <3> DEFINE x == batch_done \o batch_check1
               c0 == batch_check0
               q == batch_queue
    <3>1. x \in Seq(Heads) /\ c0 \in Seq(Heads) /\ q \in Seq(Heads)
      BY <1>0, ConcatProperties
    <3> HIDE DEF x, c0, q
    <3>2. x \o (c0 \o q) = (x \o c0) \o q
      BY <3>1, ConcatAssociative
    <3>3. x \o c0 \in Seq(Heads)
      BY <3>1, ConcatProperties
    <3>4. (x \o c0) \o q \in Seq(Heads)
      BY <3>1, <3>3, ConcatProperties
    <3>5. (x \o (c0 \o q)) \o <<>> = (x \o c0) \o q
      BY <3>2, <3>4, ConcatEmptySeq
    <3> QED  BY <3>5 DEF x, c0, q
  <2>5. Pipeline' = Pipeline
    BY <2>2, <2>3, <2>4
  <2> QED  BY <2>1, <2>5, PipeStays
<1>11. CASE a = WORK /\ srcu_invoke_callbacks
  <2>1. m[a].pc = "invoke" /\ Driving(a)
        /\ UNCHANGED <<running, queued, batch_queue, batch_check0, batch_check1, freed>>
    BY <1>11 DEF srcu_invoke_callbacks, Driving
  <2>2. CASE /\ batch_done # <<>> /\ Dequeue
             /\ m' = [b \in Actors |->
                        IF b = WORK THEN [m[b] EXCEPT !.i = @ + 1]
                        ELSE IF b = Head(batch_done) THEN AtRest ELSE m[b]]
    <3>1. m'[a].pc = "invoke"
      BY <1>0, <1>11, <2>1, <2>2 DEF Locals
    <3>2. \A b \in Actors \ {a} : m'[b] = m[b] \/ (b = Head(batch_done) /\ m'[b].pc = "idle")
      BY <1>0, <1>11, <2>2 DEF AtRest
    <3> QED  BY <1>0, <1>11, <2>1, <2>2, <3>1, <3>2, PipeShrinks
  <2>3. CASE m' = [m EXCEPT ![WORK].pc = "reschedule"] /\ UNCHANGED <<batch_done, ahead>>
    <3>1. /\ m'[WORK].pc = "reschedule" /\ \A s \in Syncers : m'[s] = m[s]
          /\ UNCHANGED <<running, queued, freed, Pipeline, ahead, InFlight>>
      BY <1>0, <2>1, <2>3 DEF Locals, Pipeline, InFlight
    <3> QED  BY <3>1 DEF PipeOK, Out
  <2> QED  BY <1>11, <2>2, <2>3 DEF srcu_invoke_callbacks
<1>12. CASE a \in Syncers /\ TakeOwn(a)
  <2>1. m[a].pc = "steal" /\ Driving(a)
        /\ UNCHANGED <<running, queued, batch_queue, batch_check0, batch_check1, freed>>
    BY <1>12 DEF TakeOwn, Driving
  <2>2. a = Head(Pipeline) /\ m[a].i = 0
    BY <1>12, <2>1 DEF PipeOK
  <2>3. CASE /\ batch_done # <<>> /\ Dequeue
             /\ m' = [m EXCEPT ![a].pc = "reschedule", ![a].i = 1]
    <3>1. m'[a].pc = "reschedule" /\ \A b \in Actors \ {a} : m'[b] = m[b]
      BY <1>0, <2>3 DEF Locals
    <3> QED  BY <2>1, <2>2, <2>3, <3>1, PipeShrinks
  <2>4. CASE m' = [m EXCEPT ![a].pc = "reschedule"] /\ UNCHANGED <<batch_done, ahead>>
    <3>0. m'[a].pc = "reschedule" /\ m'[a].i = 0 /\ \A b \in Actors \ {a} : m'[b] = m[b]
      BY <1>0, <2>2, <2>4 DEF Locals
    <3>1. UNCHANGED <<running, queued, freed, Pipeline, ahead, InFlight>>
      BY <2>1, <2>4 DEF Pipeline, InFlight
    <3>2. ASSUME NEW s \in Syncers
          PROVE  /\ m'[s].pc \in {"advance", "check", "steal"} => Pipeline # <<>> /\ Head(Pipeline) = s
                 /\ m'[s].pc = "steal" => m'[s].i = 0
                 /\ Out(s)' => s \notin InFlight
      BY <1>0, <3>0, <3>1 DEF PipeOK, Out
    <3> QED  BY <1>0, <1>12, <3>0, <3>1, <3>2 DEF PipeOK
  <2> QED  BY <1>12, <2>3, <2>4 DEF TakeOwn
<1>13. srcu_reschedule(a) => \/ m' = [m EXCEPT ![a].pc = "stop"] /\ UNCHANGED queued
                             \/ queued' = TRUE /\ Leave(a) /\ ~NothingToDo
  BY DEF srcu_reschedule
<1> QED
  BY <1>3, <1>4, <1>5, <1>6, <1>7, <1>8a, <1>8b, <1>9, <1>10, <1>11, <1>12, <1>13 DEF Drive

(* The steps of the others. *)
LEMMA PipeStep ==
    ASSUME Types, Types', DriverOK, PipeOK, [Next]_vars
    PROVE  PipeOK'
<1>0. /\ m \in [Actors -> Locals] /\ WORK \in Actors /\ WORK \notin Syncers
      /\ Syncers \subseteq Actors /\ Callbacks \cap Syncers = {} /\ WORK \notin Syncers
      /\ batch_done \in Seq(Heads) /\ batch_check1 \in Seq(Heads)
      /\ batch_check0 \in Seq(Heads) /\ batch_queue \in Seq(Heads) /\ Pipeline \in Seq(Heads)
  BY SrcuAssumption, PipelineType DEF Types, Actors
<1>1. ASSUME UNCHANGED <<running, queued, freed, batches, ahead, m>>  PROVE PipeOK'
  BY <1>1 DEF PipeOK, batches, Pipeline, InFlight, Out
<1>2. ASSUME NEW r \in Readers,
             Lock(r) \/ \E cpu \in CPUs : ReadIndex(r, cpu) \/ __srcu_read_unlock(r, cpu)
      PROVE  PipeOK'
  BY <1>1, <1>2 DEF Lock, CountReader, CountEntry, ReadIndex, __srcu_read_unlock, ghosts
<1>3. ASSUME NEW h \in Callbacks, call_srcu(h)  PROVE PipeOK'
  <2>1. /\ h \in Heads /\ h \notin InFlight /\ h \notin Syncers /\ running' /\ ~freed' /\ m' = m
        /\ Enqueued(h) /\ batch_queue' = Append(batch_queue, h)
        /\ UNCHANGED <<batch_done, batch_check1, batch_check0>>
    BY <1>0, <1>3 DEF call_srcu, Heads
  <2>2. Pipeline' = Append(Pipeline, h)
    BY <2>1, Ends DEF Pipeline
  <2> QED  BY <2>1, <2>2, PipeGrows
<1>4. ASSUME NEW s \in Syncers, NEW n \in Trycounts, __synchronize_srcu(s, n)  PROVE PipeOK'
  <2>1. s \in Heads /\ m[s].pc = "idle" /\ s \notin InFlight /\ Enqueued(s) /\ ~freed'
    BY <1>4 DEF __synchronize_srcu, Heads, PipeOK, Out
  <2>2. CASE ~running
    <3>1. /\ running' /\ batch_check0' = Append(batch_check0, s)
          /\ UNCHANGED <<batch_done, batch_check1, batch_queue>>
          /\ m'[s].pc = "advance" /\ \A b \in Actors \ {s} : m'[b] = m[b]
      BY <1>0, <1>4, <2>2 DEF __synchronize_srcu, Locals
    <3>2. Pipeline = <<>>
      BY <2>2 DEF PipeOK
    <3>3. /\ batch_done = <<>> /\ batch_check1 = <<>> /\ batch_check0 = <<>> /\ batch_queue = <<>>
      <4> DEFINE d == batch_done
                 c1 == batch_check1
                 c0 == batch_check0
                 q == batch_queue
      <4>1. d \in Seq(Heads) /\ c1 \in Seq(Heads) /\ c0 \in Seq(Heads) /\ q \in Seq(Heads)
            /\ ((d \o c1) \o c0) \o q = <<>>
        BY <1>0, <3>2 DEF Pipeline
      <4> HIDE DEF d, c1, c0, q
      <4>2. d \o c1 \in Seq(Heads) /\ (d \o c1) \o c0 \in Seq(Heads)
        BY <4>1, ConcatProperties
      <4>3. (d \o c1) \o c0 = <<>> /\ q = <<>>
        BY <4>1, <4>2, ConcatEqualIffEmpty
      <4>4. d \o c1 = <<>> /\ c0 = <<>>
        BY <4>1, <4>2, <4>3, ConcatEqualIffEmpty
      <4>5. d = <<>> /\ c1 = <<>>
        BY <4>1, <4>4, ConcatEqualIffEmpty
      <4> QED  BY <4>3, <4>4, <4>5 DEF d, c1, c0, q
    <3>4. Pipeline' = Append(Pipeline, s)
      <4>1. Pipeline' = ((<<>> \o <<>>) \o Append(<<>>, s)) \o <<>>
        BY <3>1, <3>3 DEF Pipeline
      <4>2. Append(<<>>, s) \in Seq(Heads) /\ <<>> \in Seq(Heads)
        BY <2>1
      <4>3. <<>> \o <<>> = <<>> /\ <<>> \o Append(<<>>, s) = Append(<<>>, s)
            /\ Append(<<>>, s) \o <<>> = Append(<<>>, s)
        BY <4>2, ConcatEmptySeq
      <4> QED  BY <3>2, <4>1, <4>3
    <3> QED  BY <2>1, <2>2, <3>1, <3>2, <3>4, PipeGrows
  <2>3. CASE running
    <3>1. /\ running' /\ batch_queue' = Append(batch_queue, s)
          /\ UNCHANGED <<batch_done, batch_check1, batch_check0>>
          /\ m'[s].pc = "wait" /\ \A b \in Actors \ {s} : m'[b] = m[b]
      BY <1>0, <1>4, <2>3 DEF __synchronize_srcu, Locals
    <3>2. Pipeline' = Append(Pipeline, s)
      BY <2>1, <3>1, Ends DEF Pipeline
    <3> QED  BY <2>1, <3>1, <3>2, PipeGrows
  <2> QED  BY <2>2, <2>3
<1>5. CASE cleanup_srcu_struct
  <2>1. /\ InFlight = {} /\ UNCHANGED <<running, queued, batches, ahead, m>>
    BY <1>5 DEF cleanup_srcu_struct, Finished, ghosts
  <2>2. Pipeline = <<>>
    <3>1. Pipeline # <<>> => 1 \in DOMAIN Pipeline
      BY <1>0
    <3> QED  BY <2>1, <3>1 DEF InFlight, Range
  <2> QED  BY <2>1, <2>2 DEF PipeOK, batches, Pipeline, InFlight, Out
<1>6. CASE init_srcu_struct
  <2>1. /\ freed /\ ~queued /\ m[WORK].pc = "idle" /\ freed' = FALSE /\ UNCHANGED <<queued, m, ahead>>
        /\ batch_done' = <<>> /\ batch_check1' = <<>> /\ batch_check0' = <<>> /\ batch_queue' = <<>>
    BY <1>6 DEF init_srcu_struct, init_srcu_struct_fields, ghosts
  <2>2. Pipeline' = <<>> /\ Pipeline = <<>>
    <3>1. Pipeline' = ((<<>> \o <<>>) \o <<>>) \o <<>>
      BY <2>1 DEF Pipeline
    <3>2. <<>> \o <<>> = <<>>
      BY EmptySeq, ConcatEmptySeq
    <3> QED  BY <2>1, <3>1, <3>2 DEF PipeOK
  <2>3. InFlight' = InFlight
    BY <2>2 DEF InFlight
  <2>4. \A s \in Syncers : m[s].pc = "idle"
    BY <2>1 DEF DriverOK
  <2> QED  BY <2>1, <2>2, <2>3, <2>4 DEF PipeOK, Out
<1>7. CASE UNCHANGED vars
  BY <1>1, <1>7 DEF vars, ghosts
<1> QED  BY <1>2, <1>3, <1>4, <1>5, <1>6, <1>7, DrivePipe DEF Next

(* In every reachable state the callbacks are in order. *)
LEMMA PipeHolds == Spec => []PipeOK
<1>1. Init => PipeOK
  <2> SUFFICES ASSUME Init  PROVE PipeOK
    OBVIOUS
  <2>1. /\ batch_done = <<>> /\ batch_check1 = <<>> /\ batch_check0 = <<>> /\ batch_queue = <<>>
        /\ ~queued /\ \A a \in Actors : m[a].pc = "idle"
    BY DEF Init, init_srcu_struct_fields, AtRest
  <2>2. Pipeline = <<>>
    <3>1. Pipeline = ((<<>> \o <<>>) \o <<>>) \o <<>>
      BY <2>1 DEF Pipeline
    <3>2. <<>> \o <<>> = <<>>
      BY EmptySeq, ConcatEmptySeq
    <3> QED  BY <3>1, <3>2
  <2>3. Inj(<<>>) /\ OrderedBy(<<>>, ahead)
    BY DEF Inj, OrderedBy
  <2>4. InFlight = {}
    BY <2>2 DEF InFlight, Range
  <2> QED  BY <2>1, <2>2, <2>3, <2>4 DEF PipeOK, Actors
<1>2. Types /\ Types' /\ DriverOK /\ PipeOK /\ [Next]_vars => PipeOK'
  BY PipeStep
<1> QED  BY <1>1, <1>2, TypesHold, DriverHolds, PTL DEF Spec

(* Callbacks are invoked in the order in which they were queued, and a      *)
(* synchronize_srcu() that drives finds its own done first: the BUG_ON()    *)
(* is never reached.                                                        *)
THEOREM OrderCorrect == Spec => []InOrder
<1>1. Types /\ PipeOK => InOrder
  <2> SUFFICES ASSUME Types, PipeOK  PROVE InOrder
    OBVIOUS
  <2>1. ASSUME NEW s \in Syncers, m[s].pc = "steal", batch_done # <<>>
        PROVE  Head(batch_done) = s
    BY <2>1, Ends DEF PipeOK
  <2>2. OrderedBy(Pipeline, ahead)
    BY DEF PipeOK
  <2> QED  BY <2>1, <2>2 DEF InOrder, OrderedBy
<1> QED  BY <1>1, TypesHold, PipeHolds, PTL

(* After cleanup_srcu_struct() the work item only leaves: it is not queued, *)
(* and not where it would read the counters.                                *)
THEOREM FreeCorrect == Spec => []NoUseAfterFree
<1>1. DriverOK /\ PipeOK => NoUseAfterFree
  BY DEF DriverOK, PipeOK, NoUseAfterFree, WorkPlaces
<1> QED  BY <1>1, DriverHolds, PipeHolds, PTL

-----------------------------------------------------------------------------
(* Sums over the CPUs. *)

Word == 0 .. ULONG - 1
Add(a, b) == (a + b) % ULONG

(* The sum g[p] of the first p values of f, for every p. *)
IsSum(g, f) == g = [cpu \in 0 .. NR_CPUS |-> IF cpu = 0 THEN 0 ELSE (g[cpu - 1] + f[cpu]) % ULONG]
Upto(f) == CHOOSE g : IsSum(g, f)

(* Addition wraps at most once. *)
LEMMA Addition ==
    ASSUME NEW a \in Word, NEW b \in Word
    PROVE  Add(a, b) \in Word /\ Add(a, b) = IF a + b < ULONG THEN a + b ELSE a + b - ULONG
<1>1. ULONG \in Nat /\ ULONG > 0
  BY Numbers
<1>2. a \in Int /\ b \in Int /\ a + b \in 0 .. 2 * ULONG - 1
  BY <1>1 DEF Word
<1>3. CASE a + b < ULONG
  BY <1>1, <1>2, <1>3 DEF Add, Word
<1>4. CASE a + b >= ULONG
  BY <1>1, <1>2, <1>4 DEF Add, Word
<1> QED  BY <1>1, <1>2, <1>3, <1>4

(* The laws of addition in a counter. *)
LEMMA AddLaws ==
    ASSUME NEW a \in Word, NEW b \in Word, NEW n \in Word
    PROVE  /\ Add(a, b) \in Word /\ 0 \in Word /\ Add(a, 0) = a /\ Add(0, a) = a
           /\ Add(a, b) = Add(b, a)
           /\ Add(Add(a, b), n) = Add(a, Add(b, n))
           /\ Add(a, b) = Add(a, n) => b = n
           /\ a + b < ULONG => Add(a, b) = a + b
<1>1. ULONG \in Nat /\ ULONG > 0 /\ 0 \in Word
  BY Numbers DEF Word
<1>2. \A u, v \in Word : Add(u, v) \in Word /\ Add(u, v) = IF u + v < ULONG THEN u + v ELSE u + v - ULONG
  BY Addition
<1>3. Add(a, b) \in Word /\ Add(b, n) \in Word
  BY <1>2
<1> HIDE DEF Add
<1>4. Add(a, 0) = a /\ Add(0, a) = a /\ Add(a, b) = Add(b, a) /\ (a + b < ULONG => Add(a, b) = a + b)
  BY <1>1, <1>2 DEF Word
<1>5. Add(a, b) = Add(a, n) => b = n
  <2>1. /\ Add(a, b) = IF a + b < ULONG THEN a + b ELSE a + b - ULONG
        /\ Add(a, n) = IF a + n < ULONG THEN a + n ELSE a + n - ULONG
    BY <1>2
  <2> QED  BY <1>1, <2>1 DEF Word
<1>6. Add(Add(a, b), n) = Add(a, Add(b, n))
  <2>1. /\ Add(a, b) = IF a + b < ULONG THEN a + b ELSE a + b - ULONG
        /\ Add(b, n) = IF b + n < ULONG THEN b + n ELSE b + n - ULONG
    BY <1>2
  <2>2. /\ Add(Add(a, b), n) = IF Add(a, b) + n < ULONG THEN Add(a, b) + n ELSE Add(a, b) + n - ULONG
        /\ Add(a, Add(b, n)) = IF a + Add(b, n) < ULONG THEN a + Add(b, n) ELSE a + Add(b, n) - ULONG
    BY <1>2, <1>3
  <2> QED  BY <1>1, <2>1, <2>2 DEF Word
<1> QED  BY <1>1, <1>3, <1>4, <1>5, <1>6

(* The least number principle stands in for induction over the CPUs. *)
LEMMA LeastNat ==
    ASSUME NEW S \in SUBSET Nat, S # {}
    PROVE  \E n \in S : \A j \in S : n <= j
<1> DEFINE R == OpToRel(<, Nat)
<1>1. IsWellFoundedOn(R, Nat)
  BY NatLessThanWellFounded
<1>2. \A y \in Nat, x \in Nat : y < x => <<y, x>> \in R
  BY DEF OpToRel
<1> HIDE DEF R
<1>3. PICK x \in S : \A y \in S : ~(<<y, x>> \in R)
  BY <1>1, WFMin
<1>4. \A y \in S : ~(y < x)
  BY <1>2, <1>3
<1>5. \A y \in S : x <= y
  BY <1>4
<1> QED  BY <1>5

(* What holds before the first CPU, and of a CPU if of the one before it,   *)
(* holds of all.                                                            *)
LEMMA CpuInduction ==
    ASSUME NEW S \in SUBSET (0 .. NR_CPUS), 0 \in S,
           \A p \in CPUs : p - 1 \in S => p \in S
    PROVE  S = 0 .. NR_CPUS
<1>0. NR_CPUS \in Nat /\ CPUs = 1 .. NR_CPUS
  BY SrcuAssumption DEF CPUs
<1> SUFFICES ASSUME (0 .. NR_CPUS) \ S # {}  PROVE FALSE
  OBVIOUS
<1>1. (0 .. NR_CPUS) \ S \in SUBSET Nat
  BY <1>0
<1>2. PICK n \in (0 .. NR_CPUS) \ S : \A j \in (0 .. NR_CPUS) \ S : n <= j
  BY <1>1, LeastNat
<1>3. n # 0 /\ n \in CPUs /\ n - 1 \in 0 .. NR_CPUS /\ ~(n <= n - 1)
  BY <1>0, <1>2
<1>4. n - 1 \in S
  BY <1>2, <1>3
<1> QED  BY <1>2, <1>3, <1>4

(* There is such a sum, and the last one is the SumOver() of the module. *)
LEMMA SumExists ==
    ASSUME NEW f \in [CPUs -> Word]
    PROVE  /\ Upto(f) \in [0 .. NR_CPUS -> Word] /\ Upto(f)[0] = 0
           /\ \A p \in CPUs : Upto(f)[p] = Add(Upto(f)[p - 1], f[p])
           /\ SumOver(f) = Upto(f)[NR_CPUS]
<1>0. NR_CPUS \in Nat /\ CPUs = 1 .. NR_CPUS /\ 0 \in Word
  BY SrcuAssumption, Numbers DEF CPUs, Word
<1> DEFINE Part(n, g) == /\ g \in [0 .. n -> Word] /\ g[0] = 0
                         /\ \A i \in 1 .. n : g[i] = Add(g[i - 1], f[i])
           S == {n \in 0 .. NR_CPUS : \E g \in [0 .. n -> Word] : Part(n, g)}
<1>1. 0 \in S
  <2>1. \E g \in [0 .. 0 -> Word] : Part(0, g)
    <3> DEFINE z == [i \in 0 .. 0 |-> 0]
    <3>1. z \in [0 .. 0 -> Word] /\ z[0] = 0 /\ 1 .. 0 = {}
      BY <1>0
    <3> HIDE DEF z
    <3>2. Part(0, z)
      BY <3>1
    <3> QED  BY <3>1, <3>2
  <2>2. 0 \in 0 .. NR_CPUS
    BY <1>0
  <2> HIDE DEF Part
  <2> QED  BY <2>1, <2>2
<1>2. ASSUME NEW p \in CPUs, p - 1 \in S  PROVE p \in S
  <2>1. PICK g \in [0 .. p - 1 -> Word] : Part(p - 1, g)
    BY <1>2
  <2> DEFINE h == [i \in 0 .. p |-> IF i = p THEN Add(g[p - 1], f[p]) ELSE g[i]]
  <2>2. p \in 1 .. NR_CPUS /\ p \in Int
    BY <1>0
  <2>3. Add(g[p - 1], f[p]) \in Word
    BY <2>1, <2>2, Addition
  <2>4. h \in [0 .. p -> Word]
    BY <2>1, <2>2, <2>3
  <2>5. h[0] = 0
    BY <2>1, <2>2
  <2>6. ASSUME NEW i \in 1 .. p  PROVE h[i] = Add(h[i - 1], f[i])
    <3>1. CASE i = p
      BY <2>2, <3>1
    <3>2. CASE i # p
      BY <2>1, <2>2, <2>6, <3>2
    <3> QED  BY <3>1, <3>2
  <2> HIDE DEF h
  <2>7. Part(p, h)
    BY <2>4, <2>5, <2>6
  <2> QED  BY <1>0, <2>2, <2>4, <2>7
<1>3. NR_CPUS \in S
  <2>1. S \in SUBSET (0 .. NR_CPUS)
    OBVIOUS
  <2> HIDE DEF S
  <2>2. S = 0 .. NR_CPUS
    BY <1>1, <1>2, <2>1, CpuInduction
  <2> QED  BY <1>0, <2>2
<1>4. PICK g \in [0 .. NR_CPUS -> Word] : Part(NR_CPUS, g)
  BY <1>3
<1>5. IsSum(g, f)
  <2> DEFINE h == [cpu \in 0 .. NR_CPUS |-> IF cpu = 0 THEN 0 ELSE (g[cpu - 1] + f[cpu]) % ULONG]
  <2>1. \A i \in 0 .. NR_CPUS : g[i] = h[i]
    BY <1>0, <1>4 DEF Add
  <2> QED  BY <1>4, <2>1 DEF IsSum
<1>6. IsSum(Upto(f), f)
  BY <1>5 DEF Upto
<1>7. \A p \in 0 .. NR_CPUS : Upto(f)[p] = IF p = 0 THEN 0 ELSE (Upto(f)[p - 1] + f[p]) % ULONG
  BY <1>6 DEF IsSum
<1>8. DOMAIN Upto(f) = 0 .. NR_CPUS /\ Upto(f) = [p \in DOMAIN Upto(f) |-> Upto(f)[p]]
  BY <1>6 DEF IsSum
<1>9. Upto(f)[0] = 0 /\ \A p \in CPUs : Upto(f)[p] = Add(Upto(f)[p - 1], f[p])
  BY <1>0, <1>7 DEF Add
<1>10. \A p \in 0 .. NR_CPUS : Upto(f)[p] \in Word
  <2> DEFINE T == {p \in 0 .. NR_CPUS : Upto(f)[p] \in Word}
  <2>1. 0 \in T
    BY <1>0, <1>9
  <2>2. ASSUME NEW p \in CPUs, p - 1 \in T  PROVE p \in T
    BY <1>0, <1>9, <2>2, Addition
  <2>3. T \in SUBSET (0 .. NR_CPUS)
    OBVIOUS
  <2>4. T = 0 .. NR_CPUS
    <3> HIDE DEF T
    <3> QED  BY <2>1, <2>2, <2>3, CpuInduction
  <2> QED  BY <2>4
<1>11. Upto(f) \in [0 .. NR_CPUS -> Word]
  BY <1>8, <1>10
<1>12. SumOver(f) = Upto(f)[NR_CPUS]
  BY DEF SumOver, Upto, IsSum
<1> QED  BY <1>9, <1>11, <1>12

(* What a change of one value does to the sums. *)
LEMMA SumChange ==
    ASSUME NEW f \in [CPUs -> Word], NEW g \in [CPUs -> Word], NEW k \in CPUs, NEW n \in Word,
           g[k] = Add(f[k], n), \A j \in CPUs \ {k} : g[j] = f[j]
    PROVE  \A p \in 0 .. NR_CPUS : Upto(g)[p] = IF p < k THEN Upto(f)[p] ELSE Add(Upto(f)[p], n)
<1>0. /\ NR_CPUS \in Nat /\ CPUs = 1 .. NR_CPUS /\ 0 \in Word
      /\ Upto(f) \in [0 .. NR_CPUS -> Word] /\ Upto(g) \in [0 .. NR_CPUS -> Word]
      /\ Upto(f)[0] = 0 /\ Upto(g)[0] = 0
      /\ \A p \in CPUs : Upto(f)[p] = Add(Upto(f)[p - 1], f[p])
      /\ \A p \in CPUs : Upto(g)[p] = Add(Upto(g)[p - 1], g[p])
  BY SrcuAssumption, Numbers, SumExists DEF CPUs, Word
<1> DEFINE S == {p \in 0 .. NR_CPUS : Upto(g)[p] = IF p < k THEN Upto(f)[p] ELSE Add(Upto(f)[p], n)}
<1>1. 0 \in S
  BY <1>0
<1>2. ASSUME NEW p \in CPUs, p - 1 \in S  PROVE p \in S
  <2> DEFINE a == Upto(f)[p - 1]
  <2>1. /\ a \in Word /\ f[p] \in Word /\ p \in 0 .. NR_CPUS /\ p - 1 \in 0 .. NR_CPUS
        /\ p \in Int /\ k \in Int
    BY <1>0
  <2>2. Upto(f)[p] = Add(a, f[p]) /\ Upto(g)[p] = Add(Upto(g)[p - 1], g[p])
    BY <1>0
  <2>3. Upto(g)[p - 1] = IF p - 1 < k THEN a ELSE Add(a, n)
    BY <1>2
  <2> HIDE DEF a
  <2>4. CASE p < k
    BY <2>1, <2>2, <2>3, <2>4
  <2>5. CASE p = k
    <3>1. Upto(g)[p] = Add(a, Add(f[p], n))
      BY <2>1, <2>2, <2>3, <2>5
    <3>2. Add(a, Add(f[p], n)) = Add(Add(a, f[p]), n)
      BY <2>1, AddLaws
    <3> QED  BY <2>1, <2>2, <2>5, <3>1, <3>2
  <2>6. CASE p > k
    <3>1. Upto(g)[p] = Add(Add(a, n), f[p])
      BY <1>0, <2>1, <2>2, <2>3, <2>6
    <3>2. /\ Add(Add(a, n), f[p]) = Add(a, Add(n, f[p])) /\ Add(n, f[p]) = Add(f[p], n)
          /\ Add(Add(a, f[p]), n) = Add(a, Add(f[p], n))
      BY <2>1, AddLaws
    <3> QED  BY <2>1, <2>2, <2>6, <3>1, <3>2
  <2> QED  BY <2>1, <2>4, <2>5, <2>6
<1>3. S \in SUBSET (0 .. NR_CPUS)
  OBVIOUS
<1>4. S = 0 .. NR_CPUS
  <2> HIDE DEF S
  <2> QED  BY <1>1, <1>2, <1>3, CpuInduction
<1> QED  BY <1>4

-----------------------------------------------------------------------------
(* The readers and their counts.  A driver adds the counters up one CPU at  *)
(* a time while readers change those it has read and those it has not, so   *)
(* the invariant says how far what it has got may be off.                   *)

Rank(count, x) == [cpu \in CPUs |-> count[cpu][x]]
CSum(x) == Upto(Rank(c, x))
SSum(x) == Upto(Rank(seq, x))

(* The readers of rank x that are counted, that are on their way to be      *)
(* counted in seq, and all of them.                                         *)
In(x) == {r \in Readers : rpc[r] \in {"counted", "reading"} /\ ridx[r] = x}
Entering(x) == {r \in Readers : rpc[r] \in {"fetched", "counted"} /\ ridx[r] = x}
On(x) == {r \in Readers : rpc[r] # "idle" /\ ridx[r] = x}

(* Every reader inside is counted once, at whichever CPUs. *)
CountsOK == \A x \in 0 .. 1 : CSum(x)[NR_CPUS] = Cardinality(In(x))

(* Callbacks wait for readers inside, and nobody reads a freed structure. *)
ReadersOK ==
    /\ freed => \A r \in Readers : rpc[r] = "idle"
    /\ \A h \in Heads : waitfor[h] \subseteq {r \in Readers : rpc[r] \in {"counted", "reading"}}

(* Subsets of the readers have at most as many members, and their sizes are *)
(* numbers a counter holds.                                                 *)
LEMMA Sizes ==
    ASSUME NEW S \in SUBSET Readers
    PROVE  /\ IsFiniteSet(S) /\ Cardinality(S) \in Nat /\ Cardinality(S) \in Word
           /\ Cardinality(Readers) \in Nat /\ Cardinality(S) <= Cardinality(Readers)
           /\ Cardinality(Readers) < ULONG /\ ULONG \in Nat
<1>1. IsFiniteSet(Readers) /\ ULONG \in Nat /\ ULONG > Cardinality(Readers)
  BY SrcuAssumption
<1>2. IsFiniteSet(S) /\ Cardinality(S) <= Cardinality(Readers)
  BY <1>1, FS_Subset
<1>3. Cardinality(S) \in Nat /\ Cardinality(Readers) \in Nat
  BY <1>1, <1>2, FS_CardinalityType
<1> QED  BY <1>1, <1>2, <1>3 DEF Word

(* One reader more, and one less. *)
LEMMA OneMore ==
    ASSUME NEW S \in SUBSET Readers, NEW r \in Readers, r \notin S
    PROVE  Cardinality(S \cup {r}) = Cardinality(S) + 1
BY Sizes, FS_AddElement

LEMMA OneLess ==
    ASSUME NEW S \in SUBSET Readers, NEW r \in S
    PROVE  Cardinality(S \ {r}) = Cardinality(S) - 1
BY Sizes, FS_RemoveElement

(* The sets of readers are sets of readers, and the sums are what sums are. *)
LEMMA RankFacts ==
    ASSUME Types, NEW x \in 0 .. 1
    PROVE  /\ In(x) \in SUBSET Readers /\ Entering(x) \in SUBSET Readers /\ On(x) \in SUBSET Readers
           /\ In(x) \subseteq On(x)
           /\ Rank(c, x) \in [CPUs -> Word]
           /\ Rank(seq, x) \in [CPUs -> Word]
           /\ CSum(x) \in [0 .. NR_CPUS -> Word] /\ SSum(x) \in [0 .. NR_CPUS -> Word]
           /\ CSum(x)[0] = 0 /\ SSum(x)[0] = 0
           /\ \A p \in CPUs : CSum(x)[p] = Add(CSum(x)[p - 1], c[p][x])
           /\ \A p \in CPUs : SSum(x)[p] = Add(SSum(x)[p - 1], seq[p][x])
           /\ SumOver(Rank(c, x)) = CSum(x)[NR_CPUS]
<1>1. /\ In(x) \in SUBSET Readers /\ Entering(x) \in SUBSET Readers /\ On(x) \in SUBSET Readers
      /\ In(x) \subseteq On(x)
  BY DEF In, Entering, On
<1>2. /\ Rank(c, x) \in [CPUs -> Word]
      /\ Rank(seq, x) \in [CPUs -> Word]
  BY DEF Types, Counters, Word, Rank
<1> DEFINE cx == Rank(c, x)
           sx == Rank(seq, x)
<1>3. \A k \in CPUs : cx[k] = c[k][x] /\ sx[k] = seq[k][x]
  BY DEF Rank
<1>4. cx \in [CPUs -> Word] /\ sx \in [CPUs -> Word] /\ CSum(x) = Upto(cx) /\ SSum(x) = Upto(sx)
  BY <1>2 DEF CSum, SSum
<1> HIDE DEF cx, sx
<1>5. /\ Upto(cx) \in [0 .. NR_CPUS -> Word] /\ Upto(cx)[0] = 0
      /\ \A p \in CPUs : Upto(cx)[p] = Add(Upto(cx)[p - 1], cx[p])
      /\ SumOver(cx) = Upto(cx)[NR_CPUS]
  BY <1>4, SumExists
<1>6. /\ Upto(sx) \in [0 .. NR_CPUS -> Word] /\ Upto(sx)[0] = 0
      /\ \A p \in CPUs : Upto(sx)[p] = Add(Upto(sx)[p - 1], sx[p])
  BY <1>4, SumExists
<1>7. SumOver(Rank(c, x)) = CSum(x)[NR_CPUS]
  BY <1>4, <1>5 DEF cx
<1> QED  BY <1>1, <1>2, <1>3, <1>4, <1>5, <1>6, <1>7

(* What adding n to the counter of one CPU does to a rank: nothing if it is *)
(* another one, and otherwise to the sums from that CPU on.                 *)
LEMMA PlusOther ==
    ASSUME NEW f \in Counters, NEW k \in CPUs, NEW y \in 0 .. 1, NEW x \in 0 .. 1, x # y, NEW n
    PROVE  Rank(Plus(f, k, y, n), x) = Rank(f, x)
BY DEF Plus, Counters, Rank

LEMMA PlusSame ==
    ASSUME NEW f \in Counters, NEW k \in CPUs, NEW x \in 0 .. 1, NEW n \in Word, NEW p \in 0 .. NR_CPUS
    PROVE  Upto(Rank(Plus(f, k, x, n), x))[p]
              = IF p < k THEN Upto(Rank(f, x))[p]
                ELSE Add(Upto(Rank(f, x))[p], n)
<1> DEFINE g == Plus(f, k, x, n)
           fx == Rank(f, x)
           gx == Rank(g, x)
<1>1. f[k][x] \in Word
  BY DEF Counters, Word
<1>2. Add(f[k][x], n) \in Word
  BY <1>1, AddLaws
<1>3. g = [f EXCEPT ![k][x] = Add(@, n)]
  BY DEF Plus, Add
<1> HIDE DEF Add, g
<1>4. g[k][x] = Add(f[k][x], n) /\ \A j \in CPUs \ {k} : g[j] = f[j]
  BY <1>3 DEF Counters
<1>5. fx \in [CPUs -> Word] /\ gx \in [CPUs -> Word]
  BY <1>2, <1>3 DEF Counters, Word, Rank
<1>6. gx[k] = Add(fx[k], n) /\ \A j \in CPUs \ {k} : gx[j] = fx[j]
  BY <1>4 DEF Rank
<1> HIDE DEF fx, gx
<1>7. Upto(gx)[p] = IF p < k THEN Upto(fx)[p] ELSE Add(Upto(fx)[p], n)
  BY <1>5, <1>6, SumChange
<1> QED  BY <1>7 DEF fx, gx, g

(* What the steps of a reader do to the sums and the sets of a rank: it     *)
(* takes the current rank,                                                  *)
LEMMA IndexEffect ==
    ASSUME Types, NEW r \in Readers, NEW cpu \in CPUs, ReadIndex(r, cpu), NEW x \in 0 .. 1
    PROVE  /\ UNCHANGED <<CSum(x), SSum(x), In(x)>>
           /\ rpc[r] = "idle" /\ rpc'[r] = "fetched"
           /\ \A t \in Readers \ {r} : rpc'[t] = rpc[t] /\ ridx'[t] = ridx[t]
           /\ x # completed => UNCHANGED <<Entering(x), On(x)>>
<1>1. /\ UNCHANGED <<c, seq>> /\ rpc[r] = "idle" /\ rpc'[r] = "fetched" /\ ridx'[r] = completed
      /\ \A t \in Readers \ {r} : rpc'[t] = rpc[t] /\ ridx'[t] = ridx[t]
  BY DEF ReadIndex, Types, counterVars
<1>2. UNCHANGED <<CSum(x), SSum(x)>>
  BY <1>1 DEF CSum, SSum
<1>3. \A t \in Readers : t \in In(x)' <=> t \in In(x)
  BY <1>1 DEF In
<1>4. In(x)' = In(x)
  BY <1>3 DEF In
<1>5. ASSUME x # completed  PROVE UNCHANGED <<Entering(x), On(x)>>
  <2>1. \A t \in Readers : t \in Entering(x)' <=> t \in Entering(x)
    BY <1>1, <1>5 DEF Entering
  <2>2. \A t \in Readers : t \in On(x)' <=> t \in On(x)
    BY <1>1, <1>5 DEF On
  <2> QED  BY <2>1, <2>2 DEF Entering, On
<1> QED  BY <1>1, <1>2, <1>4, <1>5

(* counts itself, *)
LEMMA CountEffect ==
    ASSUME Types, NEW r \in Readers, CountReader(r), NEW x \in 0 .. 1
    PROVE  /\ UNCHANGED <<SSum(x), Entering(x), On(x)>>
           /\ rpc[r] = "fetched" /\ rpc'[r] = "counted" /\ ridx' = ridx
           /\ \A t \in Readers \ {r} : rpc'[t] = rpc[t]
           /\ x # ridx[r] => UNCHANGED <<CSum(x), In(x)>>
           /\ x = ridx[r] => /\ r \notin In(x) /\ In(x)' = In(x) \cup {r}
                             /\ \A p \in 0 .. NR_CPUS :
                                   CSum(x)'[p] = IF p < rcpu[r] THEN CSum(x)[p] ELSE Add(CSum(x)[p], 1)
<1>1. /\ UNCHANGED <<seq, ridx>> /\ rpc[r] = "fetched" /\ rpc'[r] = "counted"
      /\ \A t \in Readers \ {r} : rpc'[t] = rpc[t]
      /\ c \in Counters /\ c' = Plus(c, rcpu[r], ridx[r], 1) /\ rcpu[r] \in CPUs /\ ridx[r] \in 0 .. 1
  BY DEF CountReader, Types
<1>2. SSum(x)' = SSum(x)
  BY <1>1 DEF SSum
<1>3. Entering(x)' = Entering(x) /\ On(x)' = On(x)
  <2>1. \A t \in Readers : (t \in Entering(x)' <=> t \in Entering(x)) /\ (t \in On(x)' <=> t \in On(x))
    BY <1>1 DEF Entering, On
  <2> QED  BY <2>1 DEF Entering, On
<1>4. 1 \in Word
  BY SrcuAssumption DEF Word
<1>5. CASE x # ridx[r]
  <2>1. Rank(c', x) = Rank(c, x)
    BY <1>1, <1>5, PlusOther
  <2>2. \A t \in Readers : t \in In(x)' <=> t \in In(x)
    BY <1>1, <1>5 DEF In
  <2>3. In(x)' = In(x)
    BY <2>2 DEF In
  <2> QED  BY <1>1, <1>2, <1>3, <1>5, <2>1, <2>3 DEF CSum
<1>6. CASE x = ridx[r]
  <2>1. \A p \in 0 .. NR_CPUS : CSum(x)'[p] = IF p < rcpu[r] THEN CSum(x)[p] ELSE Add(CSum(x)[p], 1)
    <3>1. \A p \in 0 .. NR_CPUS : Upto(Rank(c', x))[p]
             = IF p < rcpu[r] THEN Upto(Rank(c, x))[p]
               ELSE Add(Upto(Rank(c, x))[p], 1)
      BY <1>1, <1>4, <1>6, PlusSame
    <3> QED  BY <3>1 DEF CSum
  <2>2. \A t \in Readers : t \in In(x)' <=> t \in In(x) \cup {r}
    BY <1>1, <1>6 DEF In
  <2>3. In(x)' = In(x) \cup {r} /\ r \notin In(x)
    BY <1>1, <2>2 DEF In
  <2> QED  BY <1>1, <1>2, <1>3, <1>6, <2>1, <2>3
<1> QED  BY <1>5, <1>6

(* counts its entry, *)
LEMMA EntryEffect ==
    ASSUME Types, NEW r \in Readers, CountEntry(r), NEW x \in 0 .. 1
    PROVE  /\ UNCHANGED <<CSum(x), In(x), On(x)>>
           /\ rpc[r] = "counted" /\ rpc'[r] = "reading" /\ ridx' = ridx
           /\ \A t \in Readers \ {r} : rpc'[t] = rpc[t]
           /\ x # ridx[r] => UNCHANGED <<SSum(x), Entering(x)>>
           /\ x = ridx[r] => /\ r \in Entering(x) /\ Entering(x)' = Entering(x) \ {r}
                             /\ \A p \in 0 .. NR_CPUS :
                                   SSum(x)'[p] = IF p < rcpu[r] THEN SSum(x)[p] ELSE Add(SSum(x)[p], 1)
<1>1. /\ UNCHANGED <<c, ridx>> /\ rpc[r] = "counted" /\ rpc'[r] = "reading"
      /\ \A t \in Readers \ {r} : rpc'[t] = rpc[t]
      /\ seq \in Counters /\ seq' = Plus(seq, rcpu[r], ridx[r], 1) /\ rcpu[r] \in CPUs
      /\ ridx[r] \in 0 .. 1
  BY DEF CountEntry, Types
<1>2. CSum(x)' = CSum(x)
  BY <1>1 DEF CSum
<1>3. In(x)' = In(x) /\ On(x)' = On(x)
  <2>1. \A t \in Readers : (t \in In(x)' <=> t \in In(x)) /\ (t \in On(x)' <=> t \in On(x))
    BY <1>1 DEF In, On
  <2> QED  BY <2>1 DEF In, On
<1>4. 1 \in Word
  BY SrcuAssumption DEF Word
<1>5. CASE x # ridx[r]
  <2>1. Rank(seq', x) = Rank(seq, x)
    BY <1>1, <1>5, PlusOther
  <2>2. \A t \in Readers : t \in Entering(x)' <=> t \in Entering(x)
    BY <1>1, <1>5 DEF Entering
  <2>3. Entering(x)' = Entering(x)
    BY <2>2 DEF Entering
  <2> QED  BY <1>1, <1>2, <1>3, <1>5, <2>1, <2>3 DEF SSum
<1>6. CASE x = ridx[r]
  <2>1. \A p \in 0 .. NR_CPUS : SSum(x)'[p] = IF p < rcpu[r] THEN SSum(x)[p] ELSE Add(SSum(x)[p], 1)
    <3>1. \A p \in 0 .. NR_CPUS : Upto(Rank(seq', x))[p]
             = IF p < rcpu[r] THEN Upto(Rank(seq, x))[p]
               ELSE Add(Upto(Rank(seq, x))[p], 1)
      BY <1>1, <1>4, <1>6, PlusSame
    <3> QED  BY <3>1 DEF SSum
  <2>2. \A t \in Readers : t \in Entering(x)' <=> t \in Entering(x) \ {r}
    BY <1>1, <1>6 DEF Entering
  <2>3. Entering(x)' = Entering(x) \ {r} /\ r \in Entering(x)
    BY <1>1, <1>6, <2>2 DEF Entering
  <2> QED  BY <1>1, <1>2, <1>3, <1>6, <2>1, <2>3
<1> QED  BY <1>5, <1>6

(* and leaves, on any CPU. *)
LEMMA LeaveEffect ==
    ASSUME Types, NEW r \in Readers, NEW cpu \in CPUs, __srcu_read_unlock(r, cpu), NEW x \in 0 .. 1
    PROVE  /\ UNCHANGED <<SSum(x), Entering(x)>>
           /\ rpc[r] = "reading" /\ rpc'[r] = "idle"
           /\ \A t \in Readers \ {r} : rpc'[t] = rpc[t] /\ ridx'[t] = ridx[t]
           /\ x # ridx[r] => UNCHANGED <<CSum(x), In(x), On(x)>>
           /\ x = ridx[r] => /\ r \in In(x) /\ In(x)' = In(x) \ {r}
                             /\ r \in On(x) /\ On(x)' = On(x) \ {r}
                             /\ \A p \in 0 .. NR_CPUS :
                                   CSum(x)'[p] = IF p < cpu THEN CSum(x)[p]
                                                 ELSE Add(CSum(x)[p], ULONG - 1)
<1>1. /\ UNCHANGED seq /\ rpc[r] = "reading" /\ rpc'[r] = "idle"
      /\ \A t \in Readers \ {r} : rpc'[t] = rpc[t] /\ ridx'[t] = ridx[t]
      /\ c \in Counters /\ c' = Plus(c, cpu, ridx[r], ULONG - 1) /\ ridx[r] \in 0 .. 1
  BY DEF __srcu_read_unlock, Types, Minus
<1>2. SSum(x)' = SSum(x)
  BY <1>1 DEF SSum
<1>3. Entering(x)' = Entering(x)
  <2>1. \A t \in Readers : t \in Entering(x)' <=> t \in Entering(x)
    BY <1>1 DEF Entering
  <2> QED  BY <2>1 DEF Entering
<1>4. ULONG - 1 \in Word
  BY Numbers DEF Word
<1>5. CASE x # ridx[r]
  <2>1. Rank(c', x) = Rank(c, x)
    BY <1>1, <1>5, PlusOther
  <2>2. \A t \in Readers : (t \in In(x)' <=> t \in In(x)) /\ (t \in On(x)' <=> t \in On(x))
    BY <1>1, <1>5 DEF In, On
  <2>3. In(x)' = In(x) /\ On(x)' = On(x)
    BY <2>2 DEF In, On
  <2> QED  BY <1>1, <1>2, <1>3, <1>5, <2>1, <2>3 DEF CSum
<1>6. CASE x = ridx[r]
  <2>1. \A p \in 0 .. NR_CPUS : CSum(x)'[p] = IF p < cpu THEN CSum(x)[p] ELSE Add(CSum(x)[p], ULONG - 1)
    <3>1. \A p \in 0 .. NR_CPUS : Upto(Rank(c', x))[p]
             = IF p < cpu THEN Upto(Rank(c, x))[p]
               ELSE Add(Upto(Rank(c, x))[p], ULONG - 1)
      BY <1>1, <1>4, <1>6, PlusSame
    <3> QED  BY <3>1 DEF CSum
  <2>2. \A t \in Readers : (t \in In(x)' <=> t \in In(x) \ {r}) /\ (t \in On(x)' <=> t \in On(x) \ {r})
    BY <1>1, <1>6 DEF In, On
  <2>3. In(x)' = In(x) \ {r} /\ On(x)' = On(x) \ {r}
    BY <2>2 DEF In, On
  <2>4. r \in In(x) /\ r \in On(x)
    BY <1>1, <1>6 DEF In, On
  <2> QED  BY <1>1, <1>2, <1>3, <1>6, <2>1, <2>3, <2>4
<1> QED  BY <1>5, <1>6

(* The readers keep the sum of the counts. *)
LEMMA ReaderCounts ==
    ASSUME Types, CountsOK, NEW r \in Readers,
           Lock(r) \/ \E cpu \in CPUs : ReadIndex(r, cpu) \/ __srcu_read_unlock(r, cpu)
    PROVE  CountsOK'
<1>0. SUFFICES ASSUME NEW x \in 0 .. 1  PROVE CSum(x)'[NR_CPUS] = Cardinality(In(x)')
  BY DEF CountsOK
<1>1. /\ CSum(x)[NR_CPUS] = Cardinality(In(x)) /\ In(x) \in SUBSET Readers
      /\ NR_CPUS \in 0 .. NR_CPUS /\ (\A k \in CPUs : ~(NR_CPUS < k)) /\ rcpu[r] \in CPUs
      /\ 1 \in Word /\ ULONG - 1 \in Word /\ ULONG \in Nat
  <2>1. In(x) \in SUBSET Readers /\ CSum(x)[NR_CPUS] = Cardinality(In(x)) /\ rcpu[r] \in CPUs
    BY RankFacts DEF CountsOK, Types
  <2>2. NR_CPUS \in 0 .. NR_CPUS /\ (\A k \in CPUs : ~(NR_CPUS < k))
    BY SrcuAssumption DEF CPUs
  <2>3. 1 \in Word /\ ULONG - 1 \in Word /\ ULONG \in Nat
    BY SrcuAssumption DEF Word
  <2> QED  BY <2>1, <2>2, <2>3
<1>2. ASSUME NEW cpu \in CPUs, ReadIndex(r, cpu)  PROVE CSum(x)'[NR_CPUS] = Cardinality(In(x)')
  BY <1>1, <1>2, IndexEffect
<1>3. CASE CountReader(r)
  <2>1. CASE x # ridx[r]
    BY <1>1, <1>3, <2>1, CountEffect
  <2>2. CASE x = ridx[r]
    <3>1. In(x)' = In(x) \cup {r} /\ r \notin In(x) /\ CSum(x)'[NR_CPUS] = Add(CSum(x)[NR_CPUS], 1)
      BY <1>1, <1>3, <2>2, CountEffect
    <3>2. Cardinality(In(x) \cup {r}) = Cardinality(In(x)) + 1
      BY <1>1, <3>1, OneMore
    <3>3. In(x) \cup {r} \in SUBSET Readers
      BY <1>1
    <3>4. Cardinality(In(x)) \in Word /\ Cardinality(In(x)) + 1 < ULONG
      <4>1. Cardinality(In(x)) \in Word /\ Cardinality(In(x) \cup {r}) <= Cardinality(Readers)
            /\ Cardinality(Readers) \in Nat /\ Cardinality(Readers) < ULONG /\ Cardinality(In(x)) \in Nat
        BY <1>1, <3>3, Sizes
      <4> QED  BY <1>1, <3>2, <4>1
    <3>5. Add(Cardinality(In(x)), 1) = Cardinality(In(x)) + 1
      BY <1>1, <3>4, AddLaws
    <3> QED  BY <1>1, <3>1, <3>2, <3>5
  <2> QED  BY <2>1, <2>2
<1>4. CASE CountEntry(r)
  BY <1>1, <1>4, EntryEffect
<1>5. ASSUME NEW cpu \in CPUs, __srcu_read_unlock(r, cpu)
      PROVE  CSum(x)'[NR_CPUS] = Cardinality(In(x)')
  <2>1. CASE x # ridx[r]
    BY <1>1, <1>5, <2>1, LeaveEffect
  <2>2. CASE x = ridx[r]
    <3>1. In(x)' = In(x) \ {r} /\ r \in In(x) /\ CSum(x)'[NR_CPUS] = Add(CSum(x)[NR_CPUS], ULONG - 1)
      BY <1>1, <1>5, <2>2, LeaveEffect
    <3>2. Cardinality(In(x) \ {r}) = Cardinality(In(x)) - 1
      BY <1>1, <3>1, OneLess
    <3>3. Cardinality(In(x)) \in Word /\ Cardinality(In(x) \ {r}) \in Nat
      <4>1. In(x) \ {r} \in SUBSET Readers
        BY <1>1
      <4> QED  BY <1>1, <4>1, Sizes
    <3>4. Add(Cardinality(In(x)), ULONG - 1) = Cardinality(In(x)) - 1
      <4> DEFINE n == Cardinality(In(x))
      <4>1. n \in Word /\ n - 1 \in Nat
        BY <3>2, <3>3
      <4> HIDE DEF n
      <4>2. Add(n, ULONG - 1) = IF n + (ULONG - 1) < ULONG THEN n + (ULONG - 1) ELSE n + (ULONG - 1) - ULONG
        BY <1>1, <4>1, Addition
      <4>3. Add(n, ULONG - 1) = n - 1
        BY <1>1, <4>1, <4>2 DEF Word
      <4> QED  BY <4>3 DEF n
    <3> QED  BY <1>1, <3>1, <3>2, <3>4
  <2> QED  BY <2>1, <2>2
<1> QED  BY <1>2, <1>3, <1>4, <1>5 DEF Lock

(* The callbacks being waited for wait for readers inside. *)
LEMMA ReaderWaits ==
    ASSUME Types, ReadersOK, NEW r \in Readers,
           Lock(r) \/ \E cpu \in CPUs : ReadIndex(r, cpu) \/ __srcu_read_unlock(r, cpu)
    PROVE  ReadersOK'
<1>1. ASSUME NEW cpu \in CPUs, ReadIndex(r, cpu)  PROVE ReadersOK'
  <2>1. /\ ~freed' /\ waitfor' = waitfor /\ rpc[r] = "idle"
        /\ \A t \in Readers \ {r} : rpc'[t] = rpc[t]
    BY <1>1 DEF ReadIndex, Types, ghosts
  <2>2. \A h \in Heads : r \notin waitfor[h]
    BY <2>1 DEF ReadersOK
  <2> QED  BY <2>1, <2>2 DEF ReadersOK
<1>2. CASE CountReader(r)
  <2>1. /\ freed' = freed /\ waitfor' = waitfor /\ rpc[r] = "fetched" /\ rpc'[r] = "counted"
        /\ \A t \in Readers \ {r} : rpc'[t] = rpc[t]
    BY <1>2 DEF CountReader, Types, ghosts
  <2> QED  BY <2>1 DEF ReadersOK
<1>3. CASE CountEntry(r)
  <2>1. /\ freed' = freed /\ waitfor' = waitfor /\ rpc[r] = "counted" /\ rpc'[r] = "reading"
        /\ \A t \in Readers \ {r} : rpc'[t] = rpc[t]
    BY <1>3 DEF CountEntry, Types, ghosts
  <2> QED  BY <2>1 DEF ReadersOK
<1>4. ASSUME NEW cpu \in CPUs, __srcu_read_unlock(r, cpu)  PROVE ReadersOK'
  <2>1. /\ freed' = freed /\ rpc[r] = "reading" /\ rpc'[r] = "idle"
        /\ \A t \in Readers \ {r} : rpc'[t] = rpc[t]
        /\ \A h \in Heads : waitfor'[h] = waitfor[h] \ {r}
    BY <1>4 DEF __srcu_read_unlock, Types
  <2> QED  BY <2>1 DEF ReadersOK
<1> QED  BY <1>1, <1>2, <1>3, <1>4 DEF Lock

-----------------------------------------------------------------------------
(* A check in progress. *)

(* The readers that callbacks in the checked batches wait for, and that     *)
(* none of them is of rank x.                                               *)
Must == UNION {waitfor[h] : h \in Range(batch_check0) \cup Range(batch_check1)}
Clear(x) == \A r \in Must : ridx[r] # x

(* So many entries were counted behind the driver's back that no more of    *)
(* rank x can follow than there are readers: their number does not wrap.    *)
Fits(x, d) == d + Cardinality(Entering(x)) <= Cardinality(Readers)

(* While seq is first added up: d readers have been counted behind.         *)
SeqOK(x, p, s) == \E d \in Word : SSum(x)[p - 1] = Add(s, d) /\ Fits(x, d)

(* While c is added up: e readers have left and those in I have come        *)
(* behind the driver; as long as no entry was counted, the latter are ones  *)
(* that no callback waits for.                                              *)
Tally(x, p, s) ==
    \E e \in Word, I \in SUBSET In(x) :
       /\ \A r \in I : rpc[r] = "counted" /\ r \notin Must
       /\ Add(CSum(x)[p - 1], e) = Add(s, Cardinality(I))
       /\ e + Cardinality(On(x)) <= Cardinality(Readers)

SumOK(x, p, s, q) ==
    \E d \in Word : /\ SSum(x)[NR_CPUS] = Add(q, d) /\ Fits(x, d)
                    /\ d = 0 => Tally(x, p, s)

(* While seq is added up again: d entries were counted ahead of the driver  *)
(* or before it set out, f behind it.                                       *)
Seq2OK(x, p, s, q) ==
    \E d, f \in Word : /\ SSum(x)[NR_CPUS] = Add(Add(q, d), f) /\ SSum(x)[p - 1] = Add(s, f)
                       /\ Fits(x, d + f)
                       /\ d = 0 => Clear(x)

CheckFact(x, p, s, q, phase) ==
    /\ x = 1 - completed
    /\ phase = "seq" => SeqOK(x, p, s)
    /\ phase = "sum" => SumOK(x, p, s, q)
    /\ phase = "seq2" => Seq2OK(x, p, s, q)

Checking(a, x, p, s, q, phase) ==
    /\ m[a].pc = "check" /\ m[a].idx = x /\ m[a].cpu = p
    /\ m[a].sum = s /\ m[a].seq = q /\ m[a].phase = phase

CheckOK ==
    \A a \in Actors, x \in 0 .. 1, p \in CPUs, s \in Word, q \in Word, phase \in {"seq", "sum", "seq2"} :
       Checking(a, x, p, s, q, phase) => CheckFact(x, p, s, q, phase)

(* What a step that leaves the rank alone, and adds nobody to wait for,     *)
(* keeps of a check.                                                        *)
LEMMA Undisturbed ==
    ASSUME NEW x \in 0 .. 1, NEW p \in CPUs, NEW s \in Word, NEW q \in Word, NEW phase,
           CheckFact(x, p, s, q, phase),
           UNCHANGED <<CSum(x), SSum(x), Entering(x), On(x), In(x), completed>>,
           \A r \in In(x) : rpc'[r] = rpc[r],
           Must' \subseteq Must, \A r \in Must' : ridx'[r] = ridx[r]
    PROVE  CheckFact(x, p, s, q, phase)'
<1>1. Clear(x) => Clear(x)'
  BY DEF Clear
<1>2. \A d : Fits(x, d) => Fits(x, d)'
  BY DEF Fits
<1>3. ASSUME Tally(x, p, s)  PROVE Tally(x, p, s)'
  <2>1. PICK e \in Word, I \in SUBSET In(x) :
           /\ \A r \in I : rpc[r] = "counted" /\ r \notin Must
           /\ Add(CSum(x)[p - 1], e) = Add(s, Cardinality(I))
           /\ e + Cardinality(On(x)) <= Cardinality(Readers)
    BY <1>3 DEF Tally
  <2>2. /\ \A r \in I : rpc'[r] = "counted" /\ r \notin Must'
        /\ Add(CSum(x)'[p - 1], e) = Add(s, Cardinality(I))
        /\ e + Cardinality(On(x)') <= Cardinality(Readers)
        /\ I \in SUBSET In(x)'
    BY <2>1
  <2> QED  BY <2>2 DEF Tally
<1>4. SeqOK(x, p, s) => SeqOK(x, p, s)'
  BY <1>2 DEF SeqOK
<1>5. SumOK(x, p, s, q) => SumOK(x, p, s, q)'
  BY <1>2, <1>3 DEF SumOK
<1>6. Seq2OK(x, p, s, q) => Seq2OK(x, p, s, q)'
  BY <1>1, <1>2 DEF Seq2OK
<1> QED  BY <1>4, <1>5, <1>6 DEF CheckFact

(* The callbacks that are checked are callbacks. *)
LEMMA CheckedHeads ==
    ASSUME Types
    PROVE  Range(batch_check0) \subseteq Heads /\ Range(batch_check1) \subseteq Heads
           /\ Range(batch_done) \subseteq Heads /\ Must \subseteq Readers
<1>1. Range(batch_check0) \subseteq Heads /\ Range(batch_check1) \subseteq Heads
      /\ Range(batch_done) \subseteq Heads
  BY RangeOfSeq DEF Types
<1>2. \A h \in Heads : waitfor[h] \subseteq Readers
  BY DEF Types
<1> QED  BY <1>1, <1>2 DEF Must

(* A reader that takes the current rank does not disturb the check of the   *)
(* other one,                                                               *)
LEMMA IndexCheck ==
    ASSUME Types, ReadersOK, NEW r \in Readers, NEW cpu \in CPUs, ReadIndex(r, cpu),
           NEW x \in 0 .. 1, NEW p \in CPUs, NEW s \in Word, NEW q \in Word, NEW phase,
           CheckFact(x, p, s, q, phase)
    PROVE  CheckFact(x, p, s, q, phase)'
<1>1. x # completed /\ completed' = completed
  <2>1. x = 1 - completed /\ completed \in 0 .. 1
    BY DEF CheckFact, Types
  <2> QED  BY <2>1 DEF ReadIndex
<1>2. /\ UNCHANGED <<CSum(x), SSum(x), In(x), Entering(x), On(x)>> /\ rpc[r] = "idle"
      /\ \A t \in Readers \ {r} : rpc'[t] = rpc[t] /\ ridx'[t] = ridx[t]
  BY <1>1, IndexEffect
<1>3. Must' = Must
  BY DEF ReadIndex, Must, batches, ghosts
<1>4. \A t \in Must : t \in Readers \ {r}
  BY <1>2, CheckedHeads DEF Must, ReadersOK
<1>5. \A t \in In(x) : t \in Readers \ {r}
  BY <1>2 DEF In
<1> QED  BY <1>1, <1>2, <1>3, <1>4, <1>5, Undisturbed

(* one that counts itself behind the driver is one that nobody waits for,   *)
LEMMA CountCheck ==
    ASSUME Types, ReadersOK, NEW r \in Readers, CountReader(r),
           NEW x \in 0 .. 1, NEW p \in CPUs, NEW s \in Word, NEW q \in Word, NEW phase,
           CheckFact(x, p, s, q, phase)
    PROVE  CheckFact(x, p, s, q, phase)'
<1>1. /\ UNCHANGED <<SSum(x), Entering(x), On(x), ridx, completed>>
      /\ rpc[r] = "fetched" /\ rpc'[r] = "counted"
      /\ \A t \in Readers \ {r} : rpc'[t] = rpc[t]
  BY CountEffect DEF CountReader
<1>2. Must' = Must
  BY DEF CountReader, Must, batches, ghosts
<1>3. r \notin Must
  BY <1>1, CheckedHeads DEF Must, ReadersOK
<1>4. CASE x # ridx[r]
  <2>1. UNCHANGED <<CSum(x), In(x)>>
    BY <1>4, CountEffect
  <2>2. \A t \in In(x) : t \in Readers \ {r}
    BY <1>4 DEF In
  <2> QED  BY <1>1, <1>2, <2>1, <2>2, Undisturbed
<1>5. CASE x = ridx[r]
  <2>1. /\ r \notin In(x) /\ In(x)' = In(x) \cup {r} /\ In(x) \in SUBSET Readers
        /\ \A j \in 0 .. NR_CPUS : CSum(x)'[j] = IF j < rcpu[r] THEN CSum(x)[j] ELSE Add(CSum(x)[j], 1)
        /\ CSum(x) \in [0 .. NR_CPUS -> Word]
    BY <1>5, CountEffect, RankFacts
  <2>2. ASSUME Tally(x, p, s)  PROVE Tally(x, p, s)'
    <3>1. PICK e \in Word, I \in SUBSET In(x) :
             /\ \A t \in I : rpc[t] = "counted" /\ t \notin Must
             /\ Add(CSum(x)[p - 1], e) = Add(s, Cardinality(I))
             /\ e + Cardinality(On(x)) <= Cardinality(Readers)
      BY <2>2 DEF Tally
    <3>2. /\ p - 1 \in 0 .. NR_CPUS /\ CSum(x)[p - 1] \in Word /\ 1 \in Word
          /\ Cardinality(I) \in Word /\ I \in SUBSET Readers /\ r \notin I
      <4>1. p - 1 \in 0 .. NR_CPUS /\ 1 \in Word
        BY SrcuAssumption DEF CPUs, Word
      <4> QED  BY <2>1, <4>1, Sizes
    <3>3. CASE p - 1 < rcpu[r]
      <4>1. CSum(x)'[p - 1] = CSum(x)[p - 1]
        BY <2>1, <3>2, <3>3
      <4>2. /\ \A t \in I : rpc'[t] = "counted" /\ t \notin Must'
            /\ Add(CSum(x)'[p - 1], e) = Add(s, Cardinality(I))
            /\ e + Cardinality(On(x)') <= Cardinality(Readers)
            /\ I \in SUBSET In(x)'
        BY <1>1, <1>2, <2>1, <3>1, <3>2, <4>1
      <4> QED  BY <4>2 DEF Tally
    <3>4. CASE ~(p - 1 < rcpu[r])
      <4> DEFINE J == I \cup {r}
      <4>1. CSum(x)'[p - 1] = Add(CSum(x)[p - 1], 1)
        BY <2>1, <3>2, <3>4
      <4>2. Cardinality(J) = Cardinality(I) + 1 /\ J \in SUBSET Readers
        BY <3>2, OneMore
      <4>3. Cardinality(J) = Add(Cardinality(I), 1)
        <5>1. Cardinality(I) + 1 < ULONG
          BY <4>2, Sizes
        <5> QED  BY <3>2, <4>2, <5>1, AddLaws
      <4>4. Add(Add(CSum(x)[p - 1], 1), e) = Add(s, Add(Cardinality(I), 1))
        <5> DEFINE u == CSum(x)[p - 1]
                   n == Cardinality(I)
        <5>1. u \in Word /\ n \in Word /\ 1 \in Word /\ Add(u, e) = Add(s, n)
          BY <3>1, <3>2
        <5> HIDE DEF u, n
        <5>2. Add(u, 1) = Add(1, u) /\ Add(Add(1, u), e) = Add(1, Add(u, e))
          BY <5>1, AddLaws
        <5>3. Add(u, e) \in Word /\ Add(1, Add(u, e)) = Add(Add(u, e), 1)
          BY <5>1, AddLaws
        <5>4. Add(Add(s, n), 1) = Add(s, Add(n, 1))
          BY <5>1, AddLaws
        <5>5. Add(Add(u, 1), e) = Add(s, Add(n, 1))
          BY <5>1, <5>2, <5>3, <5>4
        <5> QED  BY <5>5 DEF u, n
      <4>5. /\ \A t \in J : rpc'[t] = "counted" /\ t \notin Must'
            /\ Add(CSum(x)'[p - 1], e) = Add(s, Cardinality(J))
            /\ e + Cardinality(On(x)') <= Cardinality(Readers)
            /\ J \in SUBSET In(x)'
        BY <1>1, <1>2, <1>3, <2>1, <3>1, <3>2, <4>1, <4>3, <4>4
      <4> HIDE DEF J
      <4> QED  BY <4>5 DEF Tally
    <3> QED  BY <3>3, <3>4
  <2>3. \A d : Fits(x, d) => Fits(x, d)'
    BY <1>1 DEF Fits
  <2>4. Clear(x) => Clear(x)'
    BY <1>1, <1>2 DEF Clear
  <2>5. SeqOK(x, p, s) => SeqOK(x, p, s)'
    BY <1>1, <2>3 DEF SeqOK
  <2>6. SumOK(x, p, s, q) => SumOK(x, p, s, q)'
    BY <1>1, <2>2, <2>3 DEF SumOK
  <2>7. Seq2OK(x, p, s, q) => Seq2OK(x, p, s, q)'
    BY <1>1, <2>3, <2>4 DEF Seq2OK
  <2> QED  BY <1>1, <2>5, <2>6, <2>7 DEF CheckFact
<1> QED  BY <1>4, <1>5

(* One entry more fits as long as the reader was still on its way, and the  *)
(* number of entries is not zero then.                                      *)
LEMMA FitsMore ==
    ASSUME NEW d \in Nat, NEW S \in SUBSET Readers, NEW r \in S,
           d + Cardinality(S) <= Cardinality(Readers)
    PROVE  d + 1 + Cardinality(S \ {r}) <= Cardinality(Readers) /\ d + 1 \in Word /\ d + 1 # 0
<1>1. Cardinality(S \ {r}) = Cardinality(S) - 1 /\ Cardinality(S) \in Nat /\ ULONG \in Nat
      /\ Cardinality(Readers) \in Nat /\ Cardinality(Readers) < ULONG
  BY OneLess, Sizes
<1>2. Cardinality(S \ {r}) \in Nat
  BY Sizes
<1> QED  BY <1>1, <1>2 DEF Word

(* one that counts its entry is noticed by the second sum of seq,           *)
LEMMA EntryCheck ==
    ASSUME Types, ReadersOK, NEW r \in Readers, CountEntry(r),
           NEW x \in 0 .. 1, NEW p \in CPUs, NEW s \in Word, NEW q \in Word, NEW phase,
           CheckFact(x, p, s, q, phase)
    PROVE  CheckFact(x, p, s, q, phase)'
<1>1. /\ UNCHANGED <<CSum(x), In(x), On(x), ridx, completed>>
      /\ \A t \in Readers \ {r} : rpc'[t] = rpc[t]
  BY EntryEffect DEF CountEntry
<1>2. Must' = Must
  BY DEF CountEntry, Must, batches, ghosts
<1>3. CASE x # ridx[r]
  <2>1. UNCHANGED <<SSum(x), Entering(x)>>
    BY <1>3, EntryEffect
  <2>2. \A t \in In(x) : t \in Readers \ {r}
    BY <1>3 DEF In
  <2> QED  BY <1>1, <1>2, <2>1, <2>2, Undisturbed
<1>4. CASE x = ridx[r]
  <2>1. /\ r \in Entering(x) /\ Entering(x)' = Entering(x) \ {r} /\ Entering(x) \in SUBSET Readers
        /\ \A j \in 0 .. NR_CPUS : SSum(x)'[j] = IF j < rcpu[r] THEN SSum(x)[j] ELSE Add(SSum(x)[j], 1)
        /\ SSum(x) \in [0 .. NR_CPUS -> Word]
    BY <1>4, EntryEffect, RankFacts
  <2>2. /\ 1 \in Word /\ p - 1 \in 0 .. NR_CPUS /\ NR_CPUS \in 0 .. NR_CPUS /\ ~(NR_CPUS < rcpu[r])
        /\ Word \subseteq Nat
    <3>1. rcpu[r] \in CPUs
      BY DEF Types
    <3> QED  BY <3>1, SrcuAssumption DEF CPUs, Word
  <2>3. Cardinality(Entering(x)) \in Nat /\ Cardinality(Entering(x)') \in Nat
        /\ Cardinality(Entering(x)') = Cardinality(Entering(x)) - 1
        /\ Cardinality(Readers) \in Nat /\ Cardinality(Readers) < ULONG /\ ULONG \in Nat
    <3>1. Cardinality(Entering(x) \ {r}) = Cardinality(Entering(x)) - 1
      BY <2>1, OneLess
    <3>2. Entering(x) \ {r} \in SUBSET Readers
      BY <2>1
    <3> QED  BY <2>1, <3>1, <3>2, Sizes
  <2>4. ASSUME NEW d \in Nat, Fits(x, d)
        PROVE  Fits(x, d)' /\ Fits(x, d + 1)' /\ d + 1 \in Word /\ d + 1 # 0 /\ d \in Word
               /\ d + 1 < ULONG
    <3>1. d + Cardinality(Entering(x)) <= Cardinality(Readers)
      BY <2>4 DEF Fits
    <3>2. /\ d + Cardinality(Entering(x)') <= Cardinality(Readers)
          /\ d + 1 + Cardinality(Entering(x)') <= Cardinality(Readers)
          /\ d + 1 < ULONG
      BY <2>3, <3>1
    <3>3. d + 1 \in Word /\ d \in Word /\ d + 1 # 0
      BY <2>3, <3>2 DEF Word
    <3> QED  BY <3>2, <3>3 DEF Fits
  <2>5. \A d \in Word : d + 1 < ULONG => Add(d, 1) = d + 1
    BY <2>2, AddLaws
  <2>6. \A u, v \in Word : Add(u, v) \in Word /\ Add(Add(u, v), 1) = Add(u, Add(v, 1))
    BY <2>2, AddLaws
  <2>7. ASSUME SeqOK(x, p, s)  PROVE SeqOK(x, p, s)'
    <3>1. PICK d \in Word : SSum(x)[p - 1] = Add(s, d) /\ Fits(x, d)
      BY <2>7 DEF SeqOK
    <3>2. Fits(x, d)' /\ Fits(x, d + 1)' /\ d + 1 \in Word /\ Add(d, 1) = d + 1
      BY <2>2, <2>4, <2>5, <3>1
    <3>3. CASE p - 1 < rcpu[r]
      <4>1. SSum(x)'[p - 1] = Add(s, d)
        BY <2>1, <2>2, <3>1, <3>3
      <4> QED  BY <3>2, <4>1 DEF SeqOK
    <3>4. CASE ~(p - 1 < rcpu[r])
      <4>1. SSum(x)'[p - 1] = Add(s, d + 1)
        BY <2>1, <2>2, <2>6, <3>1, <3>2, <3>4
      <4> QED  BY <3>2, <4>1 DEF SeqOK
    <3> QED  BY <3>3, <3>4
  <2>8. ASSUME SumOK(x, p, s, q)  PROVE SumOK(x, p, s, q)'
    <3>1. PICK d \in Word : SSum(x)[NR_CPUS] = Add(q, d) /\ Fits(x, d)
      BY <2>8 DEF SumOK
    <3>2. Fits(x, d + 1)' /\ d + 1 \in Word /\ Add(d, 1) = d + 1 /\ d + 1 # 0
      BY <2>2, <2>4, <2>5, <3>1
    <3>3. SSum(x)'[NR_CPUS] = Add(q, d + 1)
      BY <2>1, <2>2, <2>6, <3>1, <3>2
    <3> QED  BY <3>2, <3>3 DEF SumOK
  <2>9. ASSUME Seq2OK(x, p, s, q)  PROVE Seq2OK(x, p, s, q)'
    <3>1. PICK d \in Word, f \in Word :
             /\ SSum(x)[NR_CPUS] = Add(Add(q, d), f) /\ SSum(x)[p - 1] = Add(s, f)
             /\ Fits(x, d + f)
             /\ d = 0 => Clear(x)
      BY <2>9 DEF Seq2OK
    <3>2. d \in Nat /\ f \in Nat /\ d + f \in Nat
      BY <2>2
    <3>3. Fits(x, d + f + 1)' /\ d + f + 1 < ULONG
      BY <2>4, <3>1, <3>2
    <3>4. d + 1 \in Word /\ f + 1 \in Word /\ Add(d, 1) = d + 1 /\ Add(f, 1) = f + 1 /\ d + 1 # 0
      <4>1. d + 1 < ULONG /\ f + 1 < ULONG /\ d + 1 # 0
        BY <2>3, <3>2, <3>3
      <4>2. d + 1 \in Word /\ f + 1 \in Word
        BY <2>3, <3>2, <4>1 DEF Word
      <4> QED  BY <2>5, <4>1, <4>2
    <3>5. Clear(x) => Clear(x)'
      BY <1>1, <1>2 DEF Clear
    <3>6. SSum(x)'[NR_CPUS] = Add(Add(Add(q, d), f), 1)
      BY <2>1, <2>2, <3>1
    <3>7. CASE p - 1 < rcpu[r]
      <4>1. SSum(x)'[p - 1] = Add(s, f)
        BY <2>1, <2>2, <3>1, <3>7
      <4>2. SSum(x)'[NR_CPUS] = Add(Add(q, d + 1), f)
        <5>1. Add(q, d) \in Word /\ Add(q, d + 1) \in Word
          BY <3>4, AddLaws
        <5>2. ASSUME NEW u \in Word  PROVE Add(Add(u, f), 1) = Add(Add(u, 1), f)
          <6>1. Add(Add(u, f), 1) = Add(u, Add(f, 1))
            BY <2>6
          <6>2. Add(f, 1) = Add(1, f)
            BY <2>2, AddLaws
          <6>3. Add(Add(u, 1), f) = Add(u, Add(1, f))
            BY <2>2, AddLaws
          <6> QED  BY <6>1, <6>2, <6>3
        <5>3. Add(Add(Add(q, d), f), 1) = Add(Add(Add(q, d), 1), f)
          BY <5>1, <5>2
        <5>4. Add(Add(q, d), 1) = Add(q, d + 1)
          BY <2>6, <3>4
        <5> QED  BY <3>6, <5>3, <5>4
      <4>3. Fits(x, (d + 1) + f)'
        <5>1. d + f + 1 = (d + 1) + f
          BY <3>2
        <5> QED  BY <3>3, <5>1
      <4> QED  BY <3>4, <4>1, <4>2, <4>3 DEF Seq2OK
    <3>8. CASE ~(p - 1 < rcpu[r])
      <4>1. SSum(x)'[p - 1] = Add(s, f + 1)
        BY <2>1, <2>2, <2>6, <3>1, <3>4, <3>8
      <4>2. SSum(x)'[NR_CPUS] = Add(Add(q, d), f + 1)
        <5>1. Add(q, d) \in Word
          BY <2>6
        <5> QED  BY <2>6, <3>4, <3>6, <5>1
      <4>3. Fits(x, d + (f + 1))'
        <5>1. d + f + 1 = d + (f + 1)
          BY <3>2
        <5> QED  BY <3>3, <5>1
      <4> QED  BY <3>1, <3>4, <3>5, <4>1, <4>2, <4>3 DEF Seq2OK
    <3> QED  BY <3>7, <3>8
  <2> QED  BY <1>1, <2>7, <2>8, <2>9 DEF CheckFact
<1> QED  BY <1>3, <1>4

(* and one that leaves behind the driver is missing from all there were.    *)
LEMMA LeaveCheck ==
    ASSUME Types, ReadersOK, NEW r \in Readers, NEW cpu \in CPUs, __srcu_read_unlock(r, cpu),
           NEW x \in 0 .. 1, NEW p \in CPUs, NEW s \in Word, NEW q \in Word, NEW phase,
           CheckFact(x, p, s, q, phase)
    PROVE  CheckFact(x, p, s, q, phase)'
<1>1. /\ UNCHANGED <<SSum(x), Entering(x), completed>> /\ rpc[r] = "reading"
      /\ \A t \in Readers \ {r} : rpc'[t] = rpc[t] /\ ridx'[t] = ridx[t]
  BY LeaveEffect DEF __srcu_read_unlock
<1>2. Must' \subseteq Must \ {r} /\ Must \subseteq Readers
  <2>1. /\ \A h \in Heads : waitfor'[h] = waitfor[h] \ {r}
        /\ UNCHANGED <<batch_check0, batch_check1>>
    BY DEF __srcu_read_unlock, batches
  <2> QED  BY <2>1, CheckedHeads DEF Must
<1>3. CASE x # ridx[r]
  <2>1. UNCHANGED <<CSum(x), In(x), On(x)>>
    BY <1>3, LeaveEffect
  <2>2. \A t \in In(x) : t \in Readers \ {r}
    BY <1>3 DEF In
  <2> QED  BY <1>1, <1>2, <2>1, <2>2, Undisturbed
<1>4. CASE x = ridx[r]
  <2>1. /\ In(x)' = In(x) \ {r} /\ r \in On(x) /\ On(x)' = On(x) \ {r}
        /\ In(x) \in SUBSET Readers /\ On(x) \in SUBSET Readers
        /\ \A j \in 0 .. NR_CPUS : CSum(x)'[j] = IF j < cpu THEN CSum(x)[j] ELSE Add(CSum(x)[j], ULONG - 1)
        /\ CSum(x) \in [0 .. NR_CPUS -> Word]
    BY <1>4, LeaveEffect, RankFacts
  <2>2. ASSUME Tally(x, p, s)  PROVE Tally(x, p, s)'
    <3>1. PICK e \in Word, I \in SUBSET In(x) :
             /\ \A t \in I : rpc[t] = "counted" /\ t \notin Must
             /\ Add(CSum(x)[p - 1], e) = Add(s, Cardinality(I))
             /\ e + Cardinality(On(x)) <= Cardinality(Readers)
      BY <2>2 DEF Tally
    <3>2. r \notin I /\ I \in SUBSET In(x)' /\ \A t \in I : rpc'[t] = "counted" /\ t \notin Must'
      BY <1>1, <1>2, <2>1, <3>1
    <3>3. p - 1 \in 0 .. NR_CPUS /\ ULONG - 1 \in Word /\ 1 \in Word /\ e \in Nat
          /\ CSum(x)[p - 1] \in Word
      <4>1. p - 1 \in 0 .. NR_CPUS /\ ULONG - 1 \in Word /\ 1 \in Word /\ e \in Nat
        BY SrcuAssumption DEF CPUs, Word
      <4> QED  BY <2>1, <4>1
    <3>4. /\ e + 1 + Cardinality(On(x)') <= Cardinality(Readers) /\ e + 1 \in Word
          /\ e + Cardinality(On(x)') <= Cardinality(Readers) /\ e + 1 < ULONG
      <4>1. e + 1 + Cardinality(On(x) \ {r}) <= Cardinality(Readers) /\ e + 1 \in Word
        BY <2>1, <3>1, <3>3, FitsMore
      <4>2. Cardinality(On(x) \ {r}) \in Nat /\ Cardinality(Readers) \in Nat /\ ULONG \in Nat
            /\ Cardinality(Readers) < ULONG
        <5>1. On(x) \ {r} \in SUBSET Readers
          BY <2>1
        <5> QED  BY <5>1, Sizes
      <4>3. e + Cardinality(On(x) \ {r}) <= Cardinality(Readers) /\ e + 1 < ULONG
        BY <3>3, <4>1, <4>2
      <4> QED  BY <2>1, <4>1, <4>3
    <3>5. CASE p - 1 < cpu
      <4>1. Add(CSum(x)'[p - 1], e) = Add(s, Cardinality(I))
        BY <2>1, <3>1, <3>3, <3>5
      <4> QED  BY <3>2, <3>4, <4>1 DEF Tally
    <3>6. CASE ~(p - 1 < cpu)
      <4>1. CSum(x)'[p - 1] = Add(CSum(x)[p - 1], ULONG - 1)
        BY <2>1, <3>3, <3>6
      <4>2. Add(Add(CSum(x)[p - 1], ULONG - 1), e + 1) = Add(CSum(x)[p - 1], e)
        <5> DEFINE u == CSum(x)[p - 1]
        <5>1. u \in Word /\ e + 1 \in Word /\ ULONG - 1 \in Word
          BY <3>3, <3>4
        <5> HIDE DEF u
        <5>2. Add(Add(u, ULONG - 1), e + 1) = Add(u, Add(ULONG - 1, e + 1))
          BY <5>1, AddLaws
        <5>3. Add(ULONG - 1, e + 1) = e
          <6>1. Add(ULONG - 1, e + 1) = IF (ULONG - 1) + (e + 1) < ULONG THEN (ULONG - 1) + (e + 1)
                                        ELSE (ULONG - 1) + (e + 1) - ULONG
            BY <5>1, Addition
          <6> QED  BY <3>3, <6>1, Numbers
        <5>4. Add(Add(u, ULONG - 1), e + 1) = Add(u, e)
          BY <5>2, <5>3
        <5> QED  BY <5>4 DEF u
      <4>3. Add(CSum(x)'[p - 1], e + 1) = Add(s, Cardinality(I))
        BY <3>1, <4>1, <4>2
      <4> QED  BY <3>2, <3>4, <4>3 DEF Tally
    <3> QED  BY <3>5, <3>6
  <2>3. \A d : Fits(x, d) => Fits(x, d)'
    BY <1>1 DEF Fits
  <2>4. Clear(x) => Clear(x)'
    BY <1>1, <1>2 DEF Clear
  <2>5. SeqOK(x, p, s) => SeqOK(x, p, s)'
    BY <1>1, <2>3 DEF SeqOK
  <2>6. SumOK(x, p, s, q) => SumOK(x, p, s, q)'
    BY <1>1, <2>2, <2>3 DEF SumOK
  <2>7. Seq2OK(x, p, s, q) => Seq2OK(x, p, s, q)'
    BY <1>1, <2>3, <2>4 DEF Seq2OK
  <2> QED  BY <1>1, <2>5, <2>6, <2>7 DEF CheckFact
<1> QED  BY <1>3, <1>4

(* The order in which numbers are added does not matter. *)
LEMMA AddSwap ==
    ASSUME NEW u \in Word, NEW v \in Word, NEW w \in Word
    PROVE  Add(Add(u, v), w) = Add(Add(u, w), v)
<1>1. Add(Add(u, v), w) = Add(u, Add(v, w))
  BY AddLaws
<1>2. Add(Add(u, w), v) = Add(u, Add(w, v))
  BY AddLaws
<1>3. Add(v, w) = Add(w, v)
  BY AddLaws
<1> QED  BY <1>1, <1>2, <1>3

(* A check of a rank starts with nothing counted. *)
LEMMA StartFact ==
    ASSUME Types, NEW x \in 0 .. 1
    PROVE  SeqOK(x, 1, 0) /\ 1 \in CPUs /\ 0 \in Word
<1>1. SSum(x)[0] = 0 /\ Entering(x) \in SUBSET Readers
  BY RankFacts
<1>2. 1 \in CPUs /\ 0 \in Word
  BY Numbers DEF Word
<1>3. SSum(x)[1 - 1] = Add(0, 0)
  BY <1>1, <1>2, AddLaws
<1>4. Fits(x, 0)
  BY <1>1, Sizes DEF Fits
<1> QED  BY <1>2, <1>3, <1>4 DEF SeqOK

(* It goes on to the next CPU, *)
LEMMA Forward ==
    ASSUME Types, NEW x \in 0 .. 1, NEW p \in CPUs, NEW s \in Word, NEW q \in Word, NEW phase,
           CheckFact(x, p, s, q, phase), phase \in {"seq", "sum", "seq2"}, NEW v,
           v = IF phase = "sum" THEN c[p][x] ELSE seq[p][x]
    PROVE  CheckFact(x, p + 1, Add(s, v), q, phase)
<1>1. /\ SSum(x)[p] = Add(SSum(x)[p - 1], seq[p][x]) /\ CSum(x)[p] = Add(CSum(x)[p - 1], c[p][x])
      /\ SSum(x)[p - 1] \in Word /\ CSum(x)[p - 1] \in Word /\ (p + 1) - 1 = p
      /\ seq[p][x] \in Word /\ c[p][x] \in Word
  <2>1. p - 1 \in 0 .. NR_CPUS /\ (p + 1) - 1 = p
    BY SrcuAssumption DEF CPUs
  <2>2. seq[p][x] \in Word /\ c[p][x] \in Word
    BY DEF Types, Counters, Word
  <2> QED  BY <2>1, <2>2, RankFacts
<1>2. CASE phase = "seq"
  <2>1. PICK d \in Word : SSum(x)[p - 1] = Add(s, d) /\ Fits(x, d)
    BY <1>2 DEF CheckFact, SeqOK
  <2>2. SSum(x)[(p + 1) - 1] = Add(Add(s, v), d)
    BY <1>1, <1>2, <2>1, AddSwap
  <2>3. SeqOK(x, p + 1, Add(s, v))
    BY <2>1, <2>2 DEF SeqOK
  <2> QED  BY <1>2, <2>3 DEF CheckFact
<1>3. CASE phase = "sum"
  <2>1. PICK d \in Word : SSum(x)[NR_CPUS] = Add(q, d) /\ Fits(x, d) /\ (d = 0 => Tally(x, p, s))
    BY <1>3 DEF CheckFact, SumOK
  <2>2. ASSUME d = 0  PROVE Tally(x, p + 1, Add(s, v))
    <3>1. PICK e \in Word, I \in SUBSET In(x) :
             /\ \A t \in I : rpc[t] = "counted" /\ t \notin Must
             /\ Add(CSum(x)[p - 1], e) = Add(s, Cardinality(I))
             /\ e + Cardinality(On(x)) <= Cardinality(Readers)
      BY <2>1, <2>2 DEF Tally
    <3>2. Cardinality(I) \in Word
      BY RankFacts, Sizes
    <3>3. Add(CSum(x)[(p + 1) - 1], e) = Add(Add(s, v), Cardinality(I))
      <4>1. Add(CSum(x)[p], e) = Add(Add(CSum(x)[p - 1], e), v)
        BY <1>1, <1>3, AddSwap
      <4>2. Add(Add(s, Cardinality(I)), v) = Add(Add(s, v), Cardinality(I))
        BY <1>1, <1>3, <3>2, AddSwap
      <4> QED  BY <1>1, <3>1, <4>1, <4>2
    <3> QED  BY <3>1, <3>3 DEF Tally
  <2>3. SumOK(x, p + 1, Add(s, v), q)
    BY <2>1, <2>2 DEF SumOK
  <2> QED  BY <1>3, <2>3 DEF CheckFact
<1>4. CASE phase = "seq2"
  <2>1. PICK d \in Word, f \in Word :
           /\ SSum(x)[NR_CPUS] = Add(Add(q, d), f) /\ SSum(x)[p - 1] = Add(s, f)
           /\ Fits(x, d + f)
           /\ d = 0 => Clear(x)
    BY <1>4 DEF CheckFact, Seq2OK
  <2>2. SSum(x)[(p + 1) - 1] = Add(Add(s, v), f)
    BY <1>1, <1>4, <2>1, AddSwap
  <2>3. Seq2OK(x, p + 1, Add(s, v), q)
    BY <2>1, <2>2 DEF Seq2OK
  <2> QED  BY <1>4, <2>3 DEF CheckFact
<1> QED  BY <1>2, <1>3, <1>4

(* from the first sum to the second, *)
LEMMA EndSeq ==
    ASSUME Types, NEW x \in 0 .. 1, NEW s \in Word, NEW q \in Word,
           CheckFact(x, NR_CPUS + 1, s, q, "seq")
    PROVE  CheckFact(x, 1, 0, s, "sum")
<1>0. (NR_CPUS + 1) - 1 = NR_CPUS
  BY SrcuAssumption
<1>1. PICK d \in Word : SSum(x)[NR_CPUS] = Add(s, d) /\ Fits(x, d)
  BY <1>0 DEF CheckFact, SeqOK
<1>2. Tally(x, 1, 0)
  <2>1. /\ {} \in SUBSET In(x) /\ 0 \in Word /\ Cardinality({}) = 0 /\ CSum(x)[1 - 1] = 0
        /\ On(x) \in SUBSET Readers
    BY RankFacts, FS_EmptySet, Numbers DEF Word
  <2>2. Add(CSum(x)[1 - 1], 0) = Add(0, Cardinality({}))
    BY <2>1
  <2>3. 0 + Cardinality(On(x)) <= Cardinality(Readers)
    BY <2>1, Sizes
  <2> QED  BY <2>1, <2>2, <2>3 DEF Tally
<1>3. SumOK(x, 1, 0, s)
  BY <1>1, <1>2 DEF SumOK
<1> QED  BY <1>3 DEF CheckFact

(* from the second to the third, with a sum of zero: unless an entry has    *)
(* been counted meanwhile, all readers of the rank are ones that nobody     *)
(* waits for,                                                               *)
LEMMA EndSum ==
    ASSUME Types, CountsOK, ReadersOK, NEW x \in 0 .. 1, NEW q \in Word,
           CheckFact(x, NR_CPUS + 1, 0, q, "sum")
    PROVE  CheckFact(x, 1, 0, q, "seq2")
<1>0. (NR_CPUS + 1) - 1 = NR_CPUS /\ 0 \in Word
  BY SrcuAssumption, Numbers DEF Word
<1>1. PICK d \in Word : SSum(x)[NR_CPUS] = Add(q, d) /\ Fits(x, d)
                        /\ (d = 0 => Tally(x, NR_CPUS + 1, 0))
  BY DEF CheckFact, SumOK
<1>2. ASSUME d = 0  PROVE Clear(x)
  <2>1. PICK e \in Word, I \in SUBSET In(x) :
           /\ \A t \in I : rpc[t] = "counted" /\ t \notin Must
           /\ Add(CSum(x)[NR_CPUS], e) = Add(0, Cardinality(I))
           /\ e + Cardinality(On(x)) <= Cardinality(Readers)
    BY <1>0, <1>1, <1>2 DEF Tally
  <2>2. /\ In(x) \in SUBSET Readers /\ I \in SUBSET Readers /\ On(x) \in SUBSET Readers
        /\ IsFiniteSet(In(x)) /\ IsFiniteSet(On(x)) /\ In(x) \subseteq On(x)
    BY RankFacts, Sizes
  <2>3. /\ Cardinality(In(x)) \in Word /\ Cardinality(I) \in Word /\ Cardinality(I) \in Nat
        /\ Cardinality(In(x)) \in Nat /\ Cardinality(On(x)) \in Nat /\ e \in Nat
        /\ Cardinality(Readers) \in Nat /\ Cardinality(Readers) < ULONG /\ ULONG \in Nat
    <3>1. e \in Nat
      BY Numbers DEF Word
    <3> QED  BY <2>2, <3>1, Sizes
  <2>4. Cardinality(In(x)) <= Cardinality(On(x)) /\ Cardinality(I) <= Cardinality(In(x))
    BY <2>2, FS_Subset
  <2>5. Add(Cardinality(In(x)), e) = Cardinality(I)
    <3>1. Add(0, Cardinality(I)) = Cardinality(I)
      BY <1>0, <2>3, AddLaws
    <3> QED  BY <2>1, <3>1 DEF CountsOK
  <2>6. Cardinality(In(x)) + e < ULONG
    BY <2>1, <2>3, <2>4
  <2>7. Add(Cardinality(In(x)), e) = Cardinality(In(x)) + e
    BY <1>0, <2>3, <2>6, AddLaws
  <2>8. Cardinality(I) = Cardinality(In(x))
    BY <2>3, <2>4, <2>5, <2>7
  <2>9. I = In(x)
    BY <2>2, <2>8, FS_Subset
  <2>10. \A r \in Must : r \in Readers /\ rpc[r] \in {"counted", "reading"}
    BY CheckedHeads DEF Must, ReadersOK
  <2> QED  BY <2>1, <2>9, <2>10 DEF Clear, In
<1>3. SSum(x)[NR_CPUS] = Add(Add(q, d), 0) /\ SSum(x)[1 - 1] = Add(0, 0)
  <2>1. Add(q, d) \in Word /\ SSum(x)[0] = 0
    BY AddLaws, RankFacts
  <2>2. Add(Add(q, d), 0) = Add(q, d)
    BY <1>0, <2>1, AddLaws
  <2>3. Add(0, 0) = 0
    BY <1>0, AddLaws
  <2> QED  BY <1>1, <2>1, <2>2, <2>3
<1>4. Fits(x, d + 0)
  <2>1. d + 0 = d
    BY Numbers DEF Word
  <2> QED  BY <1>1, <2>1
<1>5. Seq2OK(x, 1, 0, q)
  BY <1>0, <1>1, <1>2, <1>3, <1>4 DEF Seq2OK
<1> QED  BY <1>5 DEF CheckFact

(* and when the third sum is as the first, no entry has been counted.       *)
LEMMA EndSeq2 ==
    ASSUME Types, NEW x \in 0 .. 1, NEW q \in Word, CheckFact(x, NR_CPUS + 1, q, q, "seq2")
    PROVE  Clear(x)
<1>0. (NR_CPUS + 1) - 1 = NR_CPUS /\ 0 \in Word
  BY SrcuAssumption, Numbers DEF Word
<1>1. PICK d \in Word, f \in Word :
         /\ SSum(x)[NR_CPUS] = Add(Add(q, d), f) /\ SSum(x)[NR_CPUS] = Add(q, f)
         /\ d = 0 => Clear(x)
  BY <1>0 DEF CheckFact, Seq2OK
<1>2. Add(Add(q, f), d) = Add(Add(q, d), f) /\ Add(q, f) \in Word
  BY AddSwap, AddLaws
<1>3. Add(Add(q, f), 0) = Add(q, f)
  BY <1>2, AddLaws
<1>4. d = 0
  BY <1>0, <1>1, <1>2, <1>3, AddLaws
<1> QED  BY <1>1, <1>4

(* The callbacks of the batches: those that are done wait for nobody, those *)
(* that wait for the second check have only readers of the old rank left.   *)
BatchOK ==
    /\ \A h \in Range(batch_done) : waitfor[h] = {}
    /\ \A h \in Range(batch_check1) : \A r \in waitfor[h] : ridx[r] = 1 - completed

(* Sums and sets are those of the counters and the readers. *)
LEMMA Calm ==
    ASSUME UNCHANGED <<c, seq, rpc, ridx>>, NEW x
    PROVE  UNCHANGED <<CSum(x), SSum(x), In(x), Entering(x), On(x)>>
BY DEF CSum, SSum, In, Entering, On

LEMMA CalmCounts ==
    ASSUME CountsOK, ReadersOK, UNCHANGED <<c, seq, rpc, ridx, waitfor, freed>>
    PROVE  CountsOK' /\ ReadersOK'
<1>1. CountsOK'
  BY Calm DEF CountsOK
<1> QED  BY <1>1 DEF ReadersOK

(* Nobody checks, or only one does. *)
LEMMA NoCheck ==
    ASSUME \A b \in Actors : m'[b].pc # "check"
    PROVE  CheckOK'
BY DEF CheckOK, Checking

LEMMA OneCheck ==
    ASSUME DriverOK', NEW a \in Actors, NEW x \in 0 .. 1, NEW p \in CPUs, NEW s \in Word,
           NEW q \in Word, NEW phase, Checking(a, x, p, s, q, phase)',
           CheckFact(x, p, s, q, phase)'
    PROVE  CheckOK'
<1> SUFFICES ASSUME NEW b \in Actors, NEW x2 \in 0 .. 1, NEW p2 \in CPUs, NEW s2 \in Word,
                    NEW q2 \in Word, NEW phase2, Checking(b, x2, p2, s2, q2, phase2)'
             PROVE  CheckFact(x2, p2, s2, q2, phase2)'
  BY DEF CheckOK
<1>1. b = a
  <2>1. Driving(a)' /\ Driving(b)'
    BY DEF Driving, Checking
  <2> QED  BY <2>1 DEF DriverOK
<1>2. x2 = x /\ p2 = p /\ s2 = s /\ q2 = q /\ phase2 = phase
  BY <1>1 DEF Checking
<1> QED  BY <1>2

(* What holds of the check an actor makes. *)
LEMMA CheckState ==
    ASSUME Types, CheckOK, NEW a \in Actors, m[a].pc = "check"
    PROVE  \E x \in 0 .. 1, p \in CPUs, s \in Word, q \in Word, phase \in {"seq", "sum", "seq2"} :
              /\ Checking(a, x, p, s, q, phase)
              /\ CheckFact(x, p, s, q, phase)
              /\ CheckFact(x, p + 1, Total(a), q, phase) /\ Total(a) \in Word
<1>1. PICK x \in 0 .. 1, p \in CPUs, s \in Word, q \in Word, phase \in {"seq", "sum", "seq2"} :
         Checking(a, x, p, s, q, phase)
  <2>1. m[a] \in Locals
    BY DEF Types
  <2> QED  BY <2>1 DEF Checking, Locals, Word
<1>2. CheckFact(x, p, s, q, phase)
  BY <1>1 DEF CheckOK
<1> DEFINE v == IF phase = "sum" THEN c[p][x] ELSE seq[p][x]
<1>3. Total(a) = Add(s, v)
  BY <1>1 DEF Total, Reads, Checking, Add
<1>4. CheckFact(x, p + 1, Add(s, v), q, phase)
  BY <1>2, Forward
<1>5. Total(a) \in Word
  BY SumTypes DEF Word
<1> QED  BY <1>1, <1>2, <1>3, <1>4, <1>5

(* The steps of a driver. *)
LEMMA DriveGrace ==
    ASSUME Types, Types', DriverOK, DriverOK', CountsOK, ReadersOK, CheckOK, BatchOK,
           NEW a \in Actors, Drive(a)
    PROVE  CountsOK' /\ ReadersOK' /\ CheckOK' /\ BatchOK'
<1>0. m \in [Actors -> Locals] /\ WORK \in Actors /\ m[a] \in Locals /\ completed \in 0 .. 1
  BY DEF Types, Actors
<1>1. UNCHANGED <<c, seq, rpc, ridx, waitfor, freed>>
  BY DEF Drive, srcu_advance_batches, ReadCounter, NextSum, CheckFails, FirstCheckPasses,
         SecondCheckPasses, srcu_reschedule, StopRunning, process_srcu, srcu_collect_new,
         srcu_invoke_callbacks, TakeOwn, counterVars, readerVars, ghosts
<1>2. CountsOK' /\ ReadersOK'
  BY <1>1, CalmCounts
<1>3. ASSUME Driving(a) \/ queued, m'[a].pc # "check",
             \A b \in Actors \ {a} : m'[b] = m[b] \/ m'[b].pc = "idle"
      PROVE  CheckOK'
  <2>1. \A b \in Actors \ {a} : ~Driving(b)
    BY <1>3 DEF DriverOK
  <2>2. \A b \in Actors : m'[b].pc # "check"
    BY <1>3, <2>1 DEF Driving
  <2> QED  BY <2>2, NoCheck
<1>4. ASSUME UNCHANGED <<completed, batch_check0, batch_check1>>,
             NEW x \in 0 .. 1, NEW p \in CPUs, NEW s \in Word, NEW q \in Word, NEW phase,
             CheckFact(x, p, s, q, phase), Checking(a, x, p, s, q, phase)'
      PROVE  CheckOK'
  <2>1. Must' = Must
    BY <1>1, <1>4 DEF Must
  <2>2. CheckFact(x, p, s, q, phase)'
    BY <1>1, <1>4, <2>1, Calm, Undisturbed
  <2> QED  BY <1>4, <2>2, OneCheck
<1>5. ASSUME UNCHANGED <<completed, batch_check0, batch_check1>>,
             NEW st, NEW x \in 0 .. 1, NEW n, x = 1 - completed, m'[a] = StartCheck(a, st, x, n)
      PROVE  CheckOK'
  <2>1. SeqOK(x, 1, 0) /\ 1 \in CPUs /\ 0 \in Word
    BY StartFact
  <2>2. CheckFact(x, 1, 0, 0, "seq")
    BY <1>5, <2>1 DEF CheckFact
  <2>3. Checking(a, x, 1, 0, 0, "seq")'
    BY <1>0, <1>5 DEF Checking, StartCheck, Locals
  <2> QED  BY <1>4, <1>5, <2>1, <2>2, <2>3
<1>6. ASSUME UNCHANGED completed, Range(batch_check1') = Range(batch_check1),
             Range(batch_done') \subseteq Range(batch_done)
      PROVE  BatchOK'
  BY <1>1, <1>6 DEF BatchOK
<1>7. Advanced(a).pc # "check" /\ AtRest.pc = "idle"
  BY DEF Advanced, AtRest
<1>8. CASE srcu_advance_batches(a)
  <2>1. /\ Driving(a) /\ UNCHANGED <<completed, batch_check0, batch_check1, batch_done>>
        /\ \A b \in Actors \ {a} : m'[b] = m[b]
        /\ m'[a] = Advanced(a) \/ m'[a] = StartCheck(a, 1, OldRank, m[a].trycount)
    BY <1>0, <1>8 DEF srcu_advance_batches, Driving, batches
  <2>2. BatchOK'
    BY <1>6, <2>1
  <2>3. CASE m'[a] = Advanced(a)
    BY <1>2, <1>3, <1>7, <2>1, <2>2, <2>3
  <2>4. CASE m'[a] = StartCheck(a, 1, OldRank, m[a].trycount)
    <3>1. OldRank \in 0 .. 1 /\ OldRank = 1 - completed
      BY <1>0 DEF OldRank
    <3>2. PICK x \in 0 .. 1 : x = OldRank
      BY <3>1
    <3>3. PICK n : n = m[a].trycount
      OBVIOUS
    <3> QED  BY <1>2, <1>5, <2>1, <2>2, <2>4, <3>1, <3>2, <3>3
  <2> QED  BY <2>1, <2>3, <2>4
<1>9. CASE ReadCounter(a)
  <2>1. PICK x \in 0 .. 1, p \in CPUs, s \in Word, q \in Word, phase \in {"seq", "sum", "seq2"} :
           Checking(a, x, p, s, q, phase) /\ CheckFact(x, p + 1, Total(a), q, phase)
           /\ Total(a) \in Word
    BY <1>9, CheckState DEF ReadCounter
  <2>2. PICK t \in Word : t = Total(a)
    BY <2>1
  <2>3. p + 1 \in CPUs /\ UNCHANGED <<completed, batch_check0, batch_check1, batch_done>>
    <3>1. p # NR_CPUS
      BY <1>9, <2>1 DEF ReadCounter, Last, Checking
    <3> QED  BY <1>9, <3>1, SrcuAssumption DEF ReadCounter, batches, CPUs
  <2>4. m' = [m EXCEPT ![a].sum = t, ![a].cpu = @ + 1]
    BY <1>9, <2>2 DEF ReadCounter
  <2>5. Checking(a, x, p + 1, t, q, phase)'
    BY <1>0, <2>1, <2>4 DEF Checking, Locals
  <2>6. CheckOK'
    BY <1>4, <2>1, <2>2, <2>3, <2>5
  <2> QED  BY <1>2, <1>6, <2>3, <2>6
<1>10. CASE NextSum(a)
  <2>1. PICK x \in 0 .. 1, p \in CPUs, s \in Word, q \in Word, phase \in {"seq", "sum", "seq2"} :
           Checking(a, x, p, s, q, phase) /\ CheckFact(x, p + 1, Total(a), q, phase)
           /\ Total(a) \in Word
    BY <1>10, CheckState DEF NextSum
  <2>2. PICK t \in Word : t = Total(a)
    BY <2>1
  <2>3. /\ p = NR_CPUS /\ UNCHANGED <<completed, batch_check0, batch_check1, batch_done>>
        /\ 1 \in CPUs /\ 0 \in Word
    BY <1>10, <2>1, StartFact DEF NextSum, Last, Checking, batches
  <2>4. CASE m[a].phase = "seq"
             /\ m' = [m EXCEPT ![a].phase = "sum", ![a].cpu = 1, ![a].sum = 0, ![a].seq = Total(a)]
    <3>1. CheckFact(x, 1, 0, t, "sum")
      <4>1. CheckFact(x, NR_CPUS + 1, t, q, "seq")
        BY <2>1, <2>2, <2>3, <2>4 DEF Checking
      <4> QED  BY <4>1, EndSeq
    <3>2. m' = [m EXCEPT ![a].phase = "sum", ![a].cpu = 1, ![a].sum = 0, ![a].seq = t]
      BY <2>2, <2>4
    <3>3. Checking(a, x, 1, 0, t, "sum")'
      BY <1>0, <2>1, <3>2 DEF Checking, Locals
    <3> QED  BY <1>2, <1>4, <1>6, <2>3, <3>1, <3>3
  <2>5. CASE m[a].phase = "sum" /\ Total(a) = 0
             /\ m' = [m EXCEPT ![a].phase = "seq2", ![a].cpu = 1, ![a].sum = 0]
    <3>1. CheckFact(x, 1, 0, q, "seq2")
      <4>1. CheckFact(x, NR_CPUS + 1, 0, q, "sum")
        BY <2>1, <2>3, <2>5 DEF Checking
      <4> QED  BY <4>1, EndSum
    <3>2. Checking(a, x, 1, 0, q, "seq2")'
      BY <1>0, <2>1, <2>5 DEF Checking, Locals
    <3> QED  BY <1>2, <1>4, <1>6, <2>3, <3>1, <3>2
  <2> QED  BY <1>10, <2>4, <2>5 DEF NextSum
<1>11. CASE CheckFails(a)
  <2>0. m[a].pc = "check"
    BY <1>11 DEF CheckFails, FoundReaders
  <2>1. /\ Driving(a) /\ UNCHANGED <<completed, batch_check0, batch_check1, batch_done>>
        /\ \A b \in Actors \ {a} : m'[b] = m[b]
        /\ m'[a] = Advanced(a) \/ m'[a] = StartCheck(a, m[a].stage, m[a].idx, m[a].tries - 1)
    BY <1>0, <1>11, <2>0 DEF CheckFails, Driving, batches
  <2>2. BatchOK'
    BY <1>6, <2>1
  <2>3. CASE m'[a] = Advanced(a)
    BY <1>2, <1>3, <1>7, <2>1, <2>2, <2>3
  <2>4. CASE m'[a] = StartCheck(a, m[a].stage, m[a].idx, m[a].tries - 1)
    <3>1. PICK x \in 0 .. 1 : x = m[a].idx /\ x = 1 - completed
      BY <2>0, CheckState DEF Checking, CheckFact
    <3>2. PICK st : st = m[a].stage
      OBVIOUS
    <3>3. PICK n : n = m[a].tries - 1
      OBVIOUS
    <3> QED  BY <1>2, <1>5, <2>1, <2>2, <2>4, <3>1, <3>2, <3>3
  <2> QED  BY <2>1, <2>3, <2>4
<1>12. ASSUME FoundZero(a)
       PROVE  /\ Driving(a) /\ m[a].idx = 1 - completed /\ Clear(1 - completed)
              /\ \A h \in Range(batch_check1) : waitfor[h] = {}
  <2>1. PICK x \in 0 .. 1, p \in CPUs, s \in Word, q \in Word, phase \in {"seq", "sum", "seq2"} :
           Checking(a, x, p, s, q, phase) /\ CheckFact(x, p + 1, Total(a), q, phase)
           /\ Total(a) \in Word
    BY <1>12, CheckState DEF FoundZero
  <2>2. p = NR_CPUS /\ phase = "seq2" /\ Total(a) = q /\ x = 1 - completed /\ m[a].idx = x
        /\ m[a].pc = "check"
    BY <1>12, <2>1 DEF FoundZero, Last, SameSeq, Checking, CheckFact
  <2>3. Clear(x)
    <3>1. CheckFact(x, NR_CPUS + 1, q, q, "seq2")
      BY <2>1, <2>2
    <3> QED  BY <3>1, EndSeq2
  <2>4. ASSUME NEW h \in Range(batch_check1)  PROVE waitfor[h] = {}
    <3>1. \A r \in waitfor[h] : r \in Must /\ ridx[r] = x
      BY <2>2 DEF Must, BatchOK
    <3> QED  BY <2>3, <3>1 DEF Clear
  <2> QED  BY <2>2, <2>3, <2>4 DEF Driving
<1>13. Range(batch_done \o batch_check1) = Range(batch_done) \cup Range(batch_check1)
       /\ <<>> \o batch_check0 = batch_check0 /\ Range(<<>>) = {}
  <2>1. /\ batch_done \in Seq(Heads) /\ batch_check1 \in Seq(Heads) /\ batch_check0 \in Seq(Heads)
        /\ <<>> \in Seq(Heads)
    BY DEF Types
  <2>2. Range(<<>>) = {}
    BY DEF Range
  <2> QED  BY <2>1, <2>2, RangeConcatenation, ConcatEmptySeq
<1>14. CASE FirstCheckPasses(a)
  <2>0. FoundZero(a)
    BY <1>14 DEF FirstCheckPasses
  <2>1. /\ batch_done' = batch_done \o batch_check1 /\ batch_check1' = batch_check0
        /\ batch_check0' = <<>>
    BY <1>13, <1>14 DEF FirstCheckPasses, rcu_batch_move
  <2>2. \A h \in Range(batch_done') : waitfor'[h] = {}
    BY <1>1, <1>12, <1>13, <2>0, <2>1 DEF BatchOK
  <2>3. \A h \in Range(batch_check0) : \A r \in waitfor[h] : r \in Must
    BY DEF Must
  <2>4. CASE batch_check0 = <<>>
    <3>1. /\ m'[a] = Advanced(a) /\ completed' = completed
          /\ \A b \in Actors \ {a} : m'[b] = m[b]
      BY <1>0, <1>14, <2>4 DEF FirstCheckPasses
    <3>2. CheckOK'
      BY <1>3, <1>7, <1>12, <2>0, <3>1
    <3>3. BatchOK'
      BY <1>13, <2>1, <2>2, <2>4 DEF BatchOK
    <3> QED  BY <1>2, <3>2, <3>3
  <2>5. CASE batch_check0 # <<>>
    <3>1. PICK x \in 0 .. 1 : x = 1 - m[a].idx
      BY <1>0 DEF Locals
    <3>2. PICK n : n = IF m[a].trycount < 2 THEN 2 ELSE m[a].trycount
      OBVIOUS
    <3>3. completed' = 1 - completed /\ m'[a] = StartCheck(a, 2, x, n)
      BY <1>0, <1>14, <2>5, <3>1, <3>2 DEF FirstCheckPasses
    <3>4. x = completed /\ x = 1 - completed'
      BY <1>0, <1>12, <2>0, <3>1, <3>3
    <3>5. SeqOK(x, 1, 0) /\ 1 \in CPUs /\ 0 \in Word
      BY StartFact
    <3>6. SeqOK(x, 1, 0)'
      <4>1. SSum(x)' = SSum(x) /\ Entering(x)' = Entering(x)
        BY <1>1, Calm
      <4> QED  BY <3>5, <4>1 DEF SeqOK, Fits
    <3>7. CheckFact(x, 1, 0, 0, "seq")'
      BY <3>4, <3>6 DEF CheckFact
    <3>8. Checking(a, x, 1, 0, 0, "seq")'
      BY <1>0, <3>3 DEF Checking, StartCheck, Locals
    <3>9. CheckOK'
      BY <3>5, <3>7, <3>8, OneCheck
    <3>10. \A h \in Range(batch_check1') : \A r \in waitfor'[h] : ridx'[r] = 1 - completed'
      <4> SUFFICES ASSUME NEW h \in Range(batch_check0), NEW r \in waitfor[h]
                   PROVE  ridx[r] = 1 - completed'
        BY <1>1, <2>1
      <4>1. ridx[r] # 1 - completed
        BY <1>12, <2>0, <2>3 DEF Clear
      <4>2. ridx[r] \in 0 .. 1
        BY CheckedHeads DEF Types
      <4> QED  BY <1>0, <3>3, <4>1, <4>2
    <3>11. BatchOK'
      BY <2>2, <3>10 DEF BatchOK
    <3> QED  BY <1>2, <3>9, <3>11
  <2> QED  BY <2>4, <2>5
<1>15. CASE SecondCheckPasses(a)
  <2>0. FoundZero(a)
    BY <1>15 DEF SecondCheckPasses
  <2>1. /\ batch_done' = batch_done \o batch_check1 /\ batch_check1' = <<>>
        /\ m'[a] = Advanced(a) /\ \A b \in Actors \ {a} : m'[b] = m[b]
    BY <1>0, <1>15 DEF SecondCheckPasses, rcu_batch_move
  <2>2. CheckOK'
    BY <1>3, <1>7, <1>12, <2>0, <2>1
  <2>3. BatchOK'
    BY <1>1, <1>12, <1>13, <2>0, <2>1 DEF BatchOK
  <2> QED  BY <1>2, <2>2, <2>3
<1>16. CASE srcu_reschedule(a) \/ StopRunning(a)
  <2>1. /\ Driving(a) /\ m'[a].pc # "check" /\ \A b \in Actors \ {a} : m'[b] = m[b]
        /\ UNCHANGED <<completed, batch_check0, batch_check1, batch_done>>
    BY <1>0, <1>16 DEF srcu_reschedule, StopRunning, Leave, Driving, AtRest, batches, Locals
  <2> QED  BY <1>2, <1>3, <1>6, <2>1
<1>17. CASE a = WORK /\ process_srcu
  <2>1. /\ queued /\ m'[a].pc # "check" /\ \A b \in Actors \ {a} : m'[b] = m[b]
        /\ UNCHANGED <<completed, batch_check0, batch_check1, batch_done>>
    BY <1>0, <1>17 DEF process_srcu, Locals, batches
  <2> QED  BY <1>2, <1>3, <1>6, <2>1
<1>18. CASE a = WORK /\ srcu_collect_new
  <2>1. /\ Driving(a) /\ m'[a].pc # "check" /\ \A b \in Actors \ {a} : m'[b] = m[b]
        /\ UNCHANGED <<completed, batch_check1, batch_done>>
    BY <1>0, <1>18 DEF srcu_collect_new, Locals, Driving
  <2> QED  BY <1>2, <1>3, <1>6, <2>1
<1>19. ASSUME Dequeue, batch_done # <<>>
       PROVE  Range(batch_done') \subseteq Range(batch_done)
  <2>1. batch_done \in Seq(Heads)
    BY DEF Types
  <2>2. batch_done' = Tail(batch_done)
    BY <1>19 DEF Dequeue
  <2>3. Len(Tail(batch_done)) = Len(batch_done) - 1 /\ Tail(batch_done) \in Seq(Heads)
        /\ \A i \in 1 .. Len(Tail(batch_done)) : Tail(batch_done)[i] = batch_done[i + 1]
    BY <1>19, <2>1, HeadTailProperties
  <2>4. /\ Range(Tail(batch_done)) = {Tail(batch_done)[i] : i \in 1 .. Len(Tail(batch_done))}
        /\ Range(batch_done) = {batch_done[i] : i \in 1 .. Len(batch_done)}
    BY <2>1, <2>3, RangeEquality
  <2>5. Len(batch_done) \in Nat
    BY <2>1
  <2> HIDE DEF Dequeue
  <2>6. \A i \in 1 .. Len(Tail(batch_done)) : i + 1 \in 1 .. Len(batch_done)
    BY <2>3, <2>5
  <2> QED  BY <2>2, <2>3, <2>4, <2>6
<1>20. CASE a = WORK /\ srcu_invoke_callbacks
  <2>1. m[a].pc = "invoke" /\ Driving(a) /\ UNCHANGED <<completed, batch_check0, batch_check1>>
    BY <1>20 DEF srcu_invoke_callbacks, Driving
  <2>2. Range(batch_done') \subseteq Range(batch_done)
    BY <1>19, <1>20 DEF srcu_invoke_callbacks
  <2>3. /\ m'[a].pc # "check"
        /\ \A b \in Actors \ {a} : m'[b] = m[b] \/ m'[b].pc = "idle"
    <3>1. CASE m' = [b \in Actors |->
                       IF b = WORK THEN [m[b] EXCEPT !.i = @ + 1]
                       ELSE IF b = Head(batch_done) THEN AtRest ELSE m[b]]
      <4>1. m'[a] = [m[a] EXCEPT !.i = @ + 1]
        BY <1>0, <1>20, <3>1
      <4>2. m'[a].pc = m[a].pc
        BY <1>0, <4>1 DEF Locals
      <4> QED  BY <1>7, <1>20, <2>1, <3>1, <4>2
    <3>2. CASE m' = [m EXCEPT ![WORK].pc = "reschedule"]
      BY <1>0, <1>20, <3>2 DEF Locals
    <3> QED  BY <1>20, <3>1, <3>2 DEF srcu_invoke_callbacks
  <2> QED  BY <1>2, <1>3, <1>6, <2>1, <2>2, <2>3
<1>21. CASE a \in Syncers /\ TakeOwn(a)
  <2>1. Driving(a) /\ UNCHANGED <<completed, batch_check0, batch_check1>>
    BY <1>21 DEF TakeOwn, Driving
  <2>2. Range(batch_done') \subseteq Range(batch_done)
    BY <1>19, <1>21 DEF TakeOwn
  <2>3. m'[a].pc # "check" /\ \A b \in Actors \ {a} : m'[b] = m[b]
    <3>1. CASE m' = [m EXCEPT ![a].pc = "reschedule", ![a].i = 1]
      BY <1>0, <3>1 DEF Locals
    <3>2. CASE m' = [m EXCEPT ![a].pc = "reschedule"]
      BY <1>0, <3>2 DEF Locals
    <3> QED  BY <1>21, <3>1, <3>2 DEF TakeOwn
  <2> QED  BY <1>2, <1>3, <1>6, <2>1, <2>2, <2>3
<1> QED  BY <1>8, <1>9, <1>10, <1>11, <1>14, <1>15, <1>16, <1>17, <1>18, <1>20, <1>21 DEF Drive

(* The counters of a structure that has just been set up. *)
LEMMA FreshCounts ==
    ASSUME NEW f, f = [cpu \in CPUs |-> [idx \in 0 .. 1 |-> 0]], NEW x \in 0 .. 1
    PROVE  Upto(Rank(f, x))[NR_CPUS] = 0
<1> DEFINE z == Rank(f, x)
           S == {p \in 0 .. NR_CPUS : Upto(z)[p] = 0}
<1>0. 0 \in Word /\ NR_CPUS \in Nat /\ CPUs = 1 .. NR_CPUS
  BY Numbers, SrcuAssumption DEF Word, CPUs
<1>1. z \in [CPUs -> Word] /\ \A p \in CPUs : z[p] = 0
  BY <1>0 DEF Rank
<1> HIDE DEF z
<1>2. Upto(z)[0] = 0 /\ \A p \in CPUs : Upto(z)[p] = Add(Upto(z)[p - 1], z[p])
  BY <1>1, SumExists
<1>3. 0 \in S /\ S \in SUBSET (0 .. NR_CPUS)
  BY <1>0, <1>2
<1>4. ASSUME NEW p \in CPUs, p - 1 \in S  PROVE p \in S
  <2>1. Add(0, 0) = 0
    BY <1>0, AddLaws
  <2> QED  BY <1>0, <1>1, <1>2, <1>4, <2>1
<1>5. S = 0 .. NR_CPUS
  <2> HIDE DEF S
  <2> QED  BY <1>3, <1>4, CpuInduction
<1> QED  BY <1>0, <1>5 DEF z

(* The rest of the steps. *)
LEMMA GraceStep ==
    ASSUME Types, Types', DriverOK, DriverOK', PipeOK, CountsOK, ReadersOK, CheckOK, BatchOK,
           [Next]_vars
    PROVE  CountsOK' /\ ReadersOK' /\ CheckOK' /\ BatchOK'
<1>1. ASSUME NEW r \in Readers,
             Lock(r) \/ \E cpu \in CPUs : ReadIndex(r, cpu) \/ __srcu_read_unlock(r, cpu)
      PROVE  CountsOK' /\ ReadersOK' /\ CheckOK' /\ BatchOK'
  <2>1. CountsOK' /\ ReadersOK'
    BY <1>1, ReaderCounts, ReaderWaits
  <2>2. m' = m /\ UNCHANGED <<completed, batch_done, batch_check1>>
    BY <1>1 DEF Lock, CountReader, CountEntry, ReadIndex, __srcu_read_unlock, batches
  <2>3. CheckOK'
    <3> SUFFICES ASSUME NEW a \in Actors, NEW x \in 0 .. 1, NEW p \in CPUs, NEW s \in Word,
                        NEW q \in Word, NEW phase \in {"seq", "sum", "seq2"},
                        Checking(a, x, p, s, q, phase)'
                 PROVE  CheckFact(x, p, s, q, phase)'
      BY DEF CheckOK
    <3>1. CheckFact(x, p, s, q, phase)
      BY <2>2 DEF CheckOK, Checking
    <3> QED  BY <1>1, <3>1, IndexCheck, CountCheck, EntryCheck, LeaveCheck DEF Lock
  <2>4. \A h \in Heads : /\ waitfor'[h] \subseteq waitfor[h]
                         /\ \A t \in waitfor'[h] : ridx'[t] = ridx[t]
    <3>1. ASSUME NEW cpu \in CPUs, ReadIndex(r, cpu), NEW h \in Heads
          PROVE  /\ waitfor'[h] \subseteq waitfor[h] /\ \A t \in waitfor'[h] : ridx'[t] = ridx[t]
      <4>1. /\ waitfor' = waitfor /\ rpc[r] = "idle"
            /\ \A t \in Readers \ {r} : ridx'[t] = ridx[t]
        BY <3>1 DEF ReadIndex, Types, ghosts
      <4>2. \A t \in waitfor[h] : t \in Readers \ {r}
        BY <4>1 DEF ReadersOK
      <4> QED  BY <4>1, <4>2
    <3>2. ASSUME NEW cpu \in CPUs, __srcu_read_unlock(r, cpu), NEW h \in Heads
          PROVE  /\ waitfor'[h] \subseteq waitfor[h] /\ \A t \in waitfor'[h] : ridx'[t] = ridx[t]
      <4>1. waitfor'[h] = waitfor[h] \ {r} /\ \A t \in Readers \ {r} : ridx'[t] = ridx[t]
        BY <3>2 DEF __srcu_read_unlock, Types
      <4>2. waitfor[h] \subseteq Readers
        BY DEF Types
      <4> QED  BY <4>1, <4>2
    <3>3. ASSUME Lock(r)  PROVE UNCHANGED <<waitfor, ridx>>
      BY <3>3 DEF Lock, CountReader, CountEntry, ghosts
    <3> QED  BY <1>1, <3>1, <3>2, <3>3
  <2>5. BatchOK'
    <3>1. /\ \A h \in Range(batch_done) : waitfor'[h] = {}
          /\ \A h \in Range(batch_check1) : \A t \in waitfor'[h] : ridx'[t] = 1 - completed
      BY <2>4, CheckedHeads DEF BatchOK
    <3> QED  BY <2>2, <3>1 DEF BatchOK
  <2> QED  BY <2>1, <2>3, <2>5
<1>2. ASSUME UNCHANGED <<c, seq, rpc, ridx, freed, completed, batch_done, batch_check1>>,
             NEW h \in Heads, h \notin InFlight, Enqueued(h)
      PROVE  /\ CountsOK' /\ ReadersOK' /\ BatchOK'
             /\ batch_check0' = batch_check0 => Must' = Must
  <2>1. /\ \A g \in Heads \ {h} : waitfor'[g] = waitfor[g]
        /\ waitfor'[h] = {r \in Readers : rpc[r] \in {"counted", "reading"}}
    BY <1>2 DEF Enqueued, Types
  <2>2. CountsOK'
    BY <1>2, Calm DEF CountsOK
  <2>3. ReadersOK'
    <3>1. ASSUME NEW g \in Heads
          PROVE  waitfor'[g] \subseteq {r \in Readers : rpc[r] \in {"counted", "reading"}}
      BY <2>1 DEF ReadersOK
    <3> QED  BY <1>2, <3>1 DEF ReadersOK
  <2>4. h \notin Range(batch_done) /\ h \notin Range(batch_check1) /\ h \notin Range(batch_check0)
    <3> DEFINE d == batch_done
               c1 == batch_check1
               c0 == batch_check0
               q == batch_queue
    <3>1. d \in Seq(Heads) /\ c1 \in Seq(Heads) /\ c0 \in Seq(Heads) /\ q \in Seq(Heads)
          /\ h \notin Range(((d \o c1) \o c0) \o q)
      BY <1>2 DEF Types, InFlight, Pipeline
    <3> HIDE DEF d, c1, c0, q
    <3>2. \A u, v \in Seq(Heads) : u \o v \in Seq(Heads) /\ Range(u \o v) = Range(u) \cup Range(v)
      BY ConcatProperties, RangeConcatenation
    <3>3. PICK y \in Seq(Heads) : y = d \o c1 /\ Range(y) = Range(d) \cup Range(c1)
      BY <3>1, <3>2
    <3>4. PICK z \in Seq(Heads) : z = y \o c0 /\ Range(z) = Range(y) \cup Range(c0)
      BY <3>1, <3>2
    <3>5. Range(z \o q) = Range(z) \cup Range(q)
      BY <3>1, <3>2
    <3>6. h \notin Range(d) /\ h \notin Range(c1) /\ h \notin Range(c0)
      BY <3>1, <3>3, <3>4, <3>5
    <3> QED  BY <3>6 DEF d, c1, c0
  <2>5. \A g \in Range(batch_done) \cup Range(batch_check1) \cup Range(batch_check0) :
           waitfor'[g] = waitfor[g]
    BY <2>1, <2>4, CheckedHeads
  <2>6. BatchOK'
    BY <1>2, <2>5 DEF BatchOK
  <2>7. batch_check0' = batch_check0 => Must' = Must
    BY <1>2, <2>5 DEF Must
  <2> QED  BY <2>2, <2>3, <2>6, <2>7
<1>3. ASSUME UNCHANGED <<c, seq, rpc, ridx, completed>>, Must' = Must,
             \A a \in Actors : m'[a].pc = "check" => m'[a] = m[a]
      PROVE  CheckOK'
  <2> SUFFICES ASSUME NEW a \in Actors, NEW x \in 0 .. 1, NEW p \in CPUs, NEW s \in Word,
                      NEW q \in Word, NEW phase \in {"seq", "sum", "seq2"},
                      Checking(a, x, p, s, q, phase)'
               PROVE  CheckFact(x, p, s, q, phase)'
    BY DEF CheckOK
  <2>1. CheckFact(x, p, s, q, phase)
    BY <1>3 DEF CheckOK, Checking
  <2> QED  BY <1>3, <2>1, Calm, Undisturbed
<1>4. ASSUME NEW h \in Callbacks, call_srcu(h)
      PROVE  CountsOK' /\ ReadersOK' /\ CheckOK' /\ BatchOK'
  <2>1. /\ UNCHANGED <<c, seq, rpc, ridx, freed, completed, batch_done, batch_check1, batch_check0, m>>
        /\ h \in Heads /\ h \notin InFlight /\ Enqueued(h)
    BY <1>4 DEF call_srcu, counterVars, readerVars, Heads
  <2> QED  BY <1>2, <1>3, <2>1
<1>5. ASSUME NEW h \in Syncers, NEW n \in Trycounts, __synchronize_srcu(h, n)
      PROVE  CountsOK' /\ ReadersOK' /\ CheckOK' /\ BatchOK'
  <2>1. /\ UNCHANGED <<c, seq, rpc, ridx, freed, completed, batch_done, batch_check1>>
        /\ h \in Heads /\ h \notin InFlight /\ Enqueued(h) /\ h \in Actors /\ m \in [Actors -> Locals]
    BY <1>5 DEF __synchronize_srcu, counterVars, readerVars, Heads, PipeOK, Out, Actors, Types
  <2>2. CASE ~running
    <3>1. m'[h].pc = "advance" /\ \A b \in Actors \ {h} : m'[b] = m[b]
      BY <1>5, <2>1, <2>2 DEF __synchronize_srcu, Locals
    <3>2. \A b \in Actors : m[b].pc # "check"
      BY <2>2 DEF DriverOK, Driving
    <3>3. \A b \in Actors : m'[b].pc # "check"
      BY <3>1, <3>2
    <3> QED  BY <1>2, <2>1, <3>3, NoCheck
  <2>3. CASE running
    <3>1. /\ m'[h].pc = "wait" /\ batch_check0' = batch_check0
          /\ \A b \in Actors \ {h} : m'[b] = m[b]
      BY <1>5, <2>1, <2>3 DEF __synchronize_srcu, Locals
    <3>2. \A b \in Actors : m'[b].pc = "check" => m'[b] = m[b]
      BY <3>1
    <3> QED  BY <1>2, <1>3, <2>1, <3>1, <3>2
  <2> QED  BY <2>2, <2>3
<1>6. CASE cleanup_srcu_struct
  <2>1. /\ UNCHANGED <<c, seq, rpc, ridx, completed, batch_done, batch_check1, batch_check0, m, waitfor>>
        /\ \A r \in Readers : rpc[r] = "idle"
    BY <1>6 DEF cleanup_srcu_struct, counterVars, readerVars, batches, ghosts, Finished
  <2>2. CountsOK' /\ ReadersOK'
    <3>1. CountsOK'
      BY <2>1, Calm DEF CountsOK
    <3> QED  BY <2>1, <3>1 DEF ReadersOK
  <2>3. Must' = Must
    BY <2>1 DEF Must
  <2>4. BatchOK'
    BY <2>1 DEF BatchOK
  <2> QED  BY <1>3, <2>1, <2>2, <2>3, <2>4
<1>7. CASE init_srcu_struct
  <2>1. /\ freed /\ m[WORK].pc = "idle" /\ UNCHANGED <<rpc, ridx, m, waitfor>>
        /\ c' = [cpu \in CPUs |-> [idx \in 0 .. 1 |-> 0]]
        /\ batch_done' = <<>> /\ batch_check1' = <<>>
    BY <1>7 DEF init_srcu_struct, init_srcu_struct_fields, readerVars, ghosts
  <2>2. \A r \in Readers : rpc'[r] = "idle"
    BY <2>1 DEF ReadersOK
  <2>3. ASSUME NEW x \in 0 .. 1  PROVE CSum(x)'[NR_CPUS] = Cardinality(In(x)')
    <3>1. In(x)' = {}
      BY <2>2 DEF In
    <3>2. CSum(x)'[NR_CPUS] = 0
      BY <2>1, FreshCounts DEF CSum
    <3> QED  BY <3>1, <3>2, FS_EmptySet
  <2>4. CountsOK' /\ ReadersOK'
    BY <2>1, <2>2, <2>3 DEF CountsOK, ReadersOK
  <2>5. \A b \in Actors : m'[b].pc # "check"
    BY <2>1 DEF DriverOK, Actors
  <2>6. BatchOK'
    <3>1. Range(<<>>) = {}
      BY DEF Range
    <3> QED  BY <2>1, <3>1 DEF BatchOK
  <2> QED  BY <2>4, <2>5, <2>6, NoCheck
<1>8. CASE UNCHANGED vars
  <2>1. UNCHANGED <<c, seq, rpc, ridx, freed, completed, batch_done, batch_check1, batch_check0, m, waitfor>>
    BY <1>8 DEF vars, counterVars, readerVars, batches, ghosts
  <2>2. Must' = Must /\ BatchOK'
    BY <2>1 DEF Must, BatchOK
  <2> QED  BY <1>3, <2>1, <2>2, CalmCounts
<1> QED  BY <1>1, <1>4, <1>5, <1>6, <1>7, <1>8, DriveGrace DEF Next

(* In every reachable state the sums of a check are off by what has         *)
(* happened behind the driver, and no more.                                 *)
LEMMA GraceHolds == Spec => [](CountsOK /\ ReadersOK /\ CheckOK /\ BatchOK)
<1>1. Init => CountsOK /\ ReadersOK /\ CheckOK /\ BatchOK
  <2> SUFFICES ASSUME Init  PROVE CountsOK /\ ReadersOK /\ CheckOK /\ BatchOK
    OBVIOUS
  <2>1. /\ c = [cpu \in CPUs |-> [idx \in 0 .. 1 |-> 0]]
        /\ \A r \in Readers : rpc[r] = "idle"
        /\ \A h \in Heads : waitfor[h] = {}
        /\ batch_done = <<>> /\ batch_check1 = <<>>
        /\ \A a \in Actors : m[a].pc = "idle"
    BY DEF Init, init_srcu_struct_fields, AtRest
  <2>2. CountsOK
    <3> SUFFICES ASSUME NEW x \in 0 .. 1  PROVE CSum(x)[NR_CPUS] = Cardinality(In(x))
      BY DEF CountsOK
    <3>1. In(x) = {}
      BY <2>1 DEF In
    <3>2. CSum(x)[NR_CPUS] = 0
      BY <2>1, FreshCounts DEF CSum
    <3> QED  BY <3>1, <3>2, FS_EmptySet
  <2>3. BatchOK
    <3>1. Range(<<>>) = {}
      BY DEF Range
    <3> QED  BY <2>1, <3>1 DEF BatchOK
  <2>4. CheckOK
    BY <2>1 DEF CheckOK, Checking
  <2>5. ReadersOK
    BY <2>1 DEF ReadersOK
  <2> QED  BY <2>2, <2>3, <2>4, <2>5
<1>2. /\ Types /\ Types' /\ DriverOK /\ DriverOK' /\ PipeOK
      /\ (CountsOK /\ ReadersOK /\ CheckOK /\ BatchOK) /\ [Next]_vars
      => (CountsOK /\ ReadersOK /\ CheckOK /\ BatchOK)'
  BY GraceStep
<1> QED  BY <1>1, <1>2, TypesHold, DriverHolds, PipeHolds, PTL DEF Spec

(* A callback that is done has seen all readers leave that were inside when *)
(* it was queued: srcu_advance_batches() never takes a sum over moving      *)
(* counters for zero while one of them is counted.                          *)
THEOREM GraceCorrect == Spec => []GracePeriod
<1>1. BatchOK => GracePeriod
  BY DEF BatchOK, GracePeriod
<1> QED  BY <1>1, GraceHolds, PTL

(* When the user is finished the per-CPU counters add up to zero, wherever  *)
(* the readers have migrated: cleanup_srcu_struct() does not refuse.        *)
THEOREM LeakCorrect == Spec => []NothingLeaks
<1>1. Types /\ CountsOK => NothingLeaks
  <2> SUFFICES ASSUME Types, CountsOK, Finished  PROVE srcu_readers_active = 0
    BY DEF NothingLeaks
  <2>1. ASSUME NEW x \in 0 .. 1  PROVE SumOver([cpu \in CPUs |-> c[cpu][x]]) = 0
    <3>1. In(x) = {}
      BY DEF In, Finished
    <3>2. SumOver(Rank(c, x)) = Cardinality(In(x))
      BY RankFacts DEF CountsOK
    <3>3. SumOver(Rank(c, x)) = 0
      BY <3>1, <3>2, FS_EmptySet
    <3> QED  BY <3>3 DEF Rank
  <2>2. /\ SumOver([cpu \in CPUs |-> c[cpu][0]]) = 0
        /\ SumOver([cpu \in CPUs |-> c[cpu][1]]) = 0
    BY <2>1
  <2>3. srcu_readers_active = (0 + 0) % ULONG
    BY <2>2 DEF srcu_readers_active
  <2>4. (0 + 0) % ULONG = 0
    BY Numbers
  <2> QED  BY <2>3, <2>4
<1> QED  BY <1>1, TypesHold, GraceHolds, PTL
=============================================================================
