----------------------------- MODULE StopMachineProofs -----------------------------
(***************************************************************************)
(* Proofs about StopMachine, for every finite set of CPUs and every set of *)
(* tasks, that is of calls in progress at the same time.                   *)
(***************************************************************************)
EXTENDS StopMachine, FiniteSetTheorems, SequenceTheorems, WellFoundedInduction, TLAPS

-----------------------------------------------------------------------------
(* Types. *)

BusyPcs == {"plain", "loop", "fn", "ack", "set_state", "signal"}
Works == [by : Tasks, fn : {"plain", "sm"}, done : BOOLEAN]

Stoppers ==
    [enabled : BOOLEAN, works : Seq(Works),
     pc : {"none", "sleep", "test", "next", "exited"} \cup BusyPcs,
     awake : BOOLEAN, should_stop : BOOLEAN, work : Works \cup {NoWork},
     curstate : Int, err : BOOLEAN]

Ops == {NULL, "one", "machine", "try", "down", "up", "inactive"}
TaskPcs ==
    {"idle", "mutex", "queue", "wait", "part", "dying", "post_dead", "join", "drain",
     "prepared", "starting", "up", "BUG"}

Frames == [op : Ops, pc : TaskPcs, cpu : Cpus \cup {NULL}, todo : SUBSET Cpus]

Dones == [nr_todo : Int, executed : BOOLEAN, ret : BOOLEAN]
Datas == [state : Int, ack : Int, num : Int, active : SUBSET Cpus]

Types ==
    /\ online \in SUBSET Cpus
    /\ hotplug \in Tasks \cup {NULL} /\ mutex \in Tasks \cup {NULL}
    /\ stopper \in [Cpus -> Stoppers]
    /\ task \in [Tasks -> Frames]
    /\ done \in [Tasks -> Dones]
    /\ smdata \in [Tasks -> Datas]
    /\ ran \in [Tasks -> [Cpus -> Nat]]
    /\ \A c \in Cpus : stopper[c].pc \in BusyPcs => stopper[c].work \in Works

-----------------------------------------------------------------------------
(* What a stopper s has to do with the call of t: a work of the call is on  *)
(* its list, is being executed, or it steps through the states of the call. *)

Mine(w, t) == w.done /\ w.by = t
Lists(s, t) == s.enabled /\ \E i \in DOMAIN s.works : Mine(s.works[i], t)
Runs(s, t) == s.pc \in BusyPcs /\ Mine(s.work, t)
Steps(s, t) == s.pc \in BusyPcs /\ s.work.by = t /\ s.work.fn = "sm"

(* One work of a call is on a list at most, and it is the call's function.  *)
ListOK(s, t, fn) ==
    s.enabled => /\ \A i, j \in DOMAIN s.works :
                       Mine(s.works[i], t) /\ Mine(s.works[j], t) => i = j
                 /\ \A i \in DOMAIN s.works : Mine(s.works[i], t) => s.works[i].fn = fn

(* The calls: where they can be, and the locks they hold there. *)
Hot(t) == task[t].op \in {"down", "up", "inactive"}
Holds(t) == Waiting(t) /\ task[t].op # "one"

PcOK(op, pc) ==
    /\ op = NULL => pc = "idle"
    /\ op = "one" => pc = "wait"
    /\ op = "machine" => pc \in {"mutex", "queue", "wait"}
    /\ op = "try" => pc \in {"queue", "wait"}
    /\ op = "down" => pc \in {"mutex", "queue", "wait", "dying", "post_dead", "join", "drain"}
    /\ op = "up" => pc \in {"prepared", "starting", "up", "post_dead", "join", "drain", "BUG"}
    /\ op = "inactive" => pc \in {"queue", "wait", "part"}

TaskOK ==
    \A t \in Tasks :
       /\ PcOK(task[t].op, task[t].pc)
       /\ task[t].pc = "queue" <=> task[t].todo # {}
       /\ task[t].todo \subseteq online

LockOK ==
    /\ \A t, u \in Tasks : Hot(t) /\ Hot(u) => t = u
    /\ hotplug # NULL => /\ Hot(hotplug)
                         /\ \A u \in Tasks : task[u].op \notin {"machine", "try"}
    /\ \A t \in Tasks : Hot(t) => hotplug = t \/ task[t].pc \in {"post_dead", "join", "drain"}
    /\ \A t \in Tasks : mutex = t <=> Holds(t)

(* The stoppers: online ones are enabled, and those of CPUs that are not    *)
(* there do nothing.                                                        *)
Still(s) == ~s.enabled /\ ~s.awake /\ s.pc = "none"

StopperOK ==
    /\ online # {}
    /\ \A c \in online :
          stopper[c].enabled \/ \E t \in Tasks : task[t].pc = "up" /\ smdata[t].active = {c}
    /\ \A c \in Cpus \ online :
          Still(stopper[c]) \/ \E t \in Tasks : Hot(t) /\ c \in smdata[t].active
    /\ \A c \in Cpus :
          /\ stopper[c].pc \notin BusyPcs => stopper[c].curstate = NONE /\ ~stopper[c].err
          /\ stopper[c].pc = "plain" => stopper[c].work.fn = "plain"
          /\ stopper[c].pc \in {"loop", "fn", "ack", "set_state"} => stopper[c].work.fn = "sm"
          /\ \A i \in DOMAIN stopper[c].works :
                ~stopper[c].works[i].done => stopper[c].works[i].fn = "plain"
          /\ \A t \in Tasks : Steps(stopper[c], t) /\ ~stopper[c].work.done =>
                task[t].op = "inactive" /\ task[t].pc = "part" /\ task[t].cpu = c

(* The CPU that goes down or comes up. *)
Empty(s) == ~s.enabled /\ s.works = <<>>
Quiet(s) == s.pc = "sleep" /\ ~s.awake

DownCpu(t, c) ==
    /\ smdata[t].active = {c} /\ stopper[c].enabled
    /\ task[t].pc = "mutex" => c \in online
    /\ task[t].pc \in {"mutex", "queue", "wait"} => online \ {c} # {}
    /\ task[t].pc \in {"dying", "post_dead", "join", "drain"} => c \notin online
    /\ task[t].pc = "drain" => stopper[c].pc = "exited"

UpCpu(t, c) ==
    /\ smdata[t].active = {c} /\ Empty(stopper[c]) /\ stopper[c].pc \notin BusyPcs
    /\ task[t].pc \in {"prepared", "starting", "up"} => Quiet(stopper[c])
    /\ c \in online <=> task[t].pc = "up"

InactiveCpu(t, c) ==
    /\ task[t].cpu = c /\ c \notin online /\ smdata[t].active = online \cup {c}
    /\ Empty(stopper[c]) /\ ~stopper[c].awake
    /\ IF task[t].pc = "part"
       THEN \/ stopper[c].pc = "sleep"
            \/ stopper[c].pc \in BusyPcs /\ stopper[c].work = Work(t, "sm", FALSE)
       ELSE stopper[c].pc = "sleep"

HotOK ==
    \A t \in Tasks :
       /\ task[t].op = "down" => \E c \in Cpus : DownCpu(t, c)
       /\ task[t].op = "up" => IF task[t].pc = "BUG" THEN smdata[t].active = {}
                               ELSE \E c \in Cpus : UpCpu(t, c)
       /\ task[t].op = "inactive" => \E c \in Cpus : InactiveCpu(t, c)
       /\ task[t].op = "machine" => smdata[t].active \subseteq online
       /\ task[t].op = NULL => smdata[t].active = {}

(* The CPUs a call still waits for, and nr_todo. *)
FnOf(op) == IF op \in {"one", "try"} THEN "plain" ELSE "sm"
Open(t) == {c \in Cpus : c \in task[t].todo \/ Lists(stopper[c], t) \/ Runs(stopper[c], t)}
Machine(t) == Waiting(t) /\ task[t].op \in {"machine", "down", "inactive"}
Part(t) == online \cup smdata[t].active

OpenOK(t) ==
    /\ done[t].nr_todo = Cardinality(Open(t))
    /\ ~Waiting(t) => done[t] = NoDone
    /\ \A c \in task[t].todo : ~Lists(stopper[c], t) /\ ~Runs(stopper[c], t)
    /\ \A c \in Cpus : /\ Lists(stopper[c], t) => ~Runs(stopper[c], t)
                       /\ Runs(stopper[c], t) => stopper[c].work.fn = FnOf(task[t].op)
                       /\ ListOK(stopper[c], t, FnOf(task[t].op))
    /\ task[t].op = "try" => Open(t) \subseteq online
    /\ Machine(t) => Open(t) \subseteq Part(t)

(* The states of stop_machine(): who has still to acknowledge the current   *)
(* one, and ack.                                                            *)
Pending(c, t) ==
    \/ c \in task[t].todo
    \/ Lists(stopper[c], t)
    \/ task[t].op = "inactive" /\ task[t].pc # "part" /\ c = task[t].cpu

Behind(s, t, state) == Steps(s, t) /\ (s.curstate # state \/ s.pc \in {"fn", "ack"})
Lag(t) == {c \in Part(t) : Pending(c, t) \/ Behind(stopper[c], t, smdata[t].state)}

At(s, state) ==
    /\ s.pc \in BusyPcs \ {"plain"}
    /\ \/ s.curstate = state
       \/ s.curstate = state - 1 /\ s.pc = IF state <= EXIT THEN "loop" ELSE "signal"
    /\ s.curstate = state => /\ state <= EXIT
                             /\ s.pc = "fn" => state = RUN
                             /\ s.pc = "signal" => state = EXIT
                             /\ s.pc = "loop" => state # EXIT

StateOK(t) ==
    LET state == smdata[t].state IN
    /\ state \in PREPARE .. EXIT + 1
    /\ smdata[t].num = Cardinality(Part(t))
    /\ smdata[t].ack = IF state <= EXIT THEN Cardinality(Lag(t)) ELSE smdata[t].num
    /\ task[t].cpu \in Part(t)
    /\ \A c \in Part(t) : Pending(c, t) => state = PREPARE /\ ~Steps(stopper[c], t)
    /\ state <= RUN => \A c \in Part(t) : Pending(c, t) \/ Steps(stopper[c], t)
    /\ \A c \in Cpus : Steps(stopper[c], t) =>
          /\ c \in Part(t) /\ At(stopper[c], state)
          /\ stopper[c].pc = "fn" => c \in smdata[t].active
          /\ stopper[c].pc = "set_state" => Lag(t) = {}
    /\ \A c, d \in Cpus :
          /\ Steps(stopper[c], t) /\ stopper[c].pc = "set_state"
          /\ Steps(stopper[d], t) /\ stopper[d].pc = "set_state"
          => c = d

MachineOK(t) ==
    /\ Machine(t) => StateOK(t)
    /\ task[t].pc = "mutex" => smdata[t] = Data(Cardinality(Part(t)), smdata[t].active)
    /\ ~Machine(t) /\ task[t].pc # "mutex" => smdata[t].ack = 0 /\ smdata[t].state \in NONE .. PREPARE

(* The executions of the call's function. *)
HasRun(s, t, state) ==
    state >= EXIT \/ (state = RUN /\ Steps(s, t) /\ s.curstate = RUN /\ s.pc # "fn")
NotRun(t) == {c \in Cpus : \/ c \in task[t].todo \/ Lists(stopper[c], t)
                           \/ Runs(stopper[c], t) /\ stopper[c].pc = "plain"}
Ran(t) == {c \in smdata[t].active : HasRun(stopper[c], t, smdata[t].state)}
Signals(s, t) == Runs(s, t) /\ s.pc = "signal"

RanOK(t) ==
    /\ Machine(t) => ran[t] = OnceOn(Ran(t))
    /\ task[t].op = "try" => ran[t] = OnceOn(online \ NotRun(t))
    /\ task[t].op = "one" =>
          /\ \A c, d \in Open(t) : c = d
          /\ Open(t) # {} => ~done[t].executed
          /\ IF done[t].executed \/ \E c \in Cpus : Signals(stopper[c], t)
             THEN \E c \in Cpus : ran[t] = OnceOn({c})
             ELSE ran[t] = OnceOn({})

(* A CPU that take_cpu_down() has been run on is offline unless it failed.  *)
Failed(t) == done[t].ret \/ \E d \in Cpus : Steps(stopper[d], t) /\ stopper[d].err

DownOK(t) ==
    Machine(t) /\ task[t].op = "down" =>
       \A c \in smdata[t].active :
          /\ c \in online <=> (Ran(t) = {} \/ Failed(t))
          /\ Ran(t) = {} => ~Failed(t)

CallOK(t) == OpenOK(t) /\ MachineOK(t) /\ RanOK(t) /\ DownOK(t)

Inv ==
    /\ Types /\ TaskOK /\ LockOK /\ StopperOK /\ HotOK
    /\ \A t \in Tasks : CallOK(t)

-----------------------------------------------------------------------------
(* Constants, numbers and records. *)

LEMMA Consts ==
    /\ NULL \notin Tasks /\ NULL \notin Cpus
    /\ NULL \notin {"one", "machine", "try", "down", "up", "inactive"}
    /\ Cpus \subseteq Nat /\ IsFiniteSet(Cpus)
  BY StopMachineAssumption

(* The least number principle. *)
LEMMA LeastNat ==
    ASSUME NEW S \in SUBSET Nat, S # {}
    PROVE  \E n \in S : \A m \in S : n <= m
<1> DEFINE R == OpToRel(<, Nat)
<1>1. IsWellFoundedOn(R, Nat)
  BY NatLessThanWellFounded
<1>2. \A y \in Nat, x \in Nat : y < x => <<y, x>> \in R
  BY DEF OpToRel
<1> HIDE DEF R
<1>3. PICK x \in S : \A y \in S : ~(<<y, x>> \in R)
  BY <1>1, WFMin
<1>4. \A y \in S : ~(y < x)
  BY <1>2, <1>3
<1>5. \A y \in S : x <= y
  BY <1>4
<1> QED  BY <1>5

(* cpumask_first() gives a CPU of the mask. *)
LEMMA FirstOf ==
    ASSUME NEW S \in SUBSET Cpus
    PROVE  /\ S # {} => First(S) \in S
           /\ \A c \in Cpus : S = {c} => First(S) = c
<1>1. S # {} => \E n \in S : \A m \in S : n <= m
  BY Consts, LeastNat
<1>2. S # {} => First(S) \in S
  BY <1>1 DEF First
<1>3. \A c \in Cpus : S = {c} => First(S) = c
  BY <1>2
<1> QED  BY <1>2, <1>3

(* Sets of CPUs. *)
LEMMA Sizes ==
    ASSUME NEW S \in SUBSET Cpus
    PROVE  /\ IsFiniteSet(S) /\ Cardinality(S) \in Nat
           /\ Cardinality(S) \in 0 .. Cardinality(Cpus)
           /\ Cardinality(S) = 0 <=> S = {}
           /\ \A c \in S : Cardinality(S \ {c}) = Cardinality(S) - 1
           /\ \A c \in Cpus \ S : Cardinality(S \cup {c}) = Cardinality(S) + 1
<1>1. IsFiniteSet(S) /\ Cardinality(S) <= Cardinality(Cpus)
  BY Consts, FS_Subset
<1>2. Cardinality(S) \in Nat /\ Cardinality(Cpus) \in Nat
  BY <1>1, Consts, FS_CardinalityType
<1>3. Cardinality(S) = 0 <=> S = {}
  BY <1>1, FS_EmptySet
<1>4. \A c \in S : Cardinality(S \ {c}) = Cardinality(S) - 1
  BY <1>1, FS_RemoveElement
<1>5. \A c \in Cpus \ S : Cardinality(S \cup {c}) = Cardinality(S) + 1
  BY <1>1, FS_AddElement
<1> QED  BY <1>1, <1>2, <1>3, <1>4, <1>5

LEMMA OnlyOne ==
    ASSUME NEW S \in SUBSET Cpus, NEW c \in S
    PROVE  Cardinality(S) = 1 <=> S = {c}
<1>1. IsFiniteSet(S)
  BY Sizes
<1> QED  BY <1>1, FS_Singleton

(* An update of one stopper. *)
LEMMA FieldTypes ==
    ASSUME NEW s \in Stoppers
    PROVE  /\ \A p \in {"none", "sleep", "test", "next", "exited"} \cup BusyPcs :
                 [s EXCEPT !.pc = p] \in Stoppers
           /\ \A p \in {"none", "sleep", "test", "next", "exited"} \cup BusyPcs,
                 b \in BOOLEAN : [s EXCEPT !.pc = p, !.awake = b] \in Stoppers
           /\ s.works \in Seq(Works)
  BY DEF Stoppers

(* Counting the executions of a call's function. *)
LEMMA Once ==
    /\ \A S : OnceOn(S) \in [Cpus -> Nat]
    /\ \A S : \A c \in Cpus : OnceOn(S)[c] = IF c \in S THEN 1 ELSE 0
<1>1. \A S : \A c \in Cpus : (IF c \in S THEN 1 ELSE 0) \in Nat
  OBVIOUS
<1> QED  BY <1>1 DEF OnceOn

LEMMA OnceMore ==
    ASSUME Types, NEW t \in Tasks, NEW c \in Cpus, NEW S, ran[t] = OnceOn(S), c \notin S,
           ran' = [ran EXCEPT ![t][c] = @ + 1]
    PROVE  ran'[t] = OnceOn(S \cup {c})
<1>1. ran'[t] = [ran[t] EXCEPT ![c] = ran[t][c] + 1]
  BY DEF Types
<1>2. ran[t][c] = 0
  BY Once
<1>3. ran'[t] = [d \in Cpus |-> IF d = c THEN 1 ELSE OnceOn(S)[d]]
  <2>1. \A f \in [Cpus -> Nat] : [f EXCEPT ![c] = 1] = [d \in Cpus |-> IF d = c THEN 1 ELSE f[d]]
    OBVIOUS
  <2>2. ran'[t] = [OnceOn(S) EXCEPT ![c] = 1]
    BY <1>1, <1>2
  <2> QED  BY <2>1, <2>2, Once
<1>4. \A d \in Cpus : (IF d = c THEN 1 ELSE OnceOn(S)[d]) = IF d \in S \cup {c} THEN 1 ELSE 0
  BY Once
<1>5. ran'[t] = [d \in Cpus |-> IF d \in S \cup {c} THEN 1 ELSE 0]
  BY <1>3, <1>4
<1> QED  BY <1>5 DEF OnceOn
-----------------------------------------------------------------------------
(* Types are kept. *)

LEMMA TypesStopper ==
    ASSUME Inv, NEW c \in Cpus, StopperStep(c)
    PROVE  Types'
<1> USE DEF BusyPcs
<1>0. Types
  BY DEF Inv
<1>1. stopper[c] \in Stoppers /\ stopper[c].works \in Seq(Works)
  BY <1>0, FieldTypes DEF Types
<1>2. CASE Repeat(c)
  BY <1>0, <1>1, <1>2 DEF Repeat, Types, Stoppers
<1>3. CASE kthread_should_stop(c)
  BY <1>0, <1>1, <1>3 DEF kthread_should_stop, SGoto, Types, Stoppers
<1>4. CASE NextWork(c)
  <2>1. CASE stopper[c].works = <<>>
    <3>1. stopper' = [stopper EXCEPT ![c].pc = "sleep"]
      BY <1>4, <2>1 DEF NextWork, SGoto
    <3> QED  BY <1>0, <1>1, <1>4, <3>1 DEF NextWork, Types, Stoppers
  <2>2. CASE stopper[c].works # <<>>
    <3> DEFINE w == Head(stopper[c].works)
               ws == Tail(stopper[c].works)
               p == IF w.fn = "sm" THEN "loop" ELSE "plain"
    <3>1. w \in Works /\ ws \in Seq(Works)
      BY <1>1, <2>2, HeadTailProperties
    <3>2. stopper' = [stopper EXCEPT ![c].works = ws, ![c].awake = TRUE, ![c].work = w, ![c].pc = p]
      BY <1>4, <2>2 DEF NextWork
    <3>3. p \in {"loop", "plain"}
      OBVIOUS
    <3> HIDE DEF w, ws, p
    <3>4. stopper' \in [Cpus -> Stoppers]
      BY <1>0, <1>1, <3>1, <3>2, <3>3 DEF Types, Stoppers
    <3>5. \A d \in Cpus : stopper'[d].pc \in BusyPcs => stopper'[d].work \in Works
      BY <1>0, <1>1, <3>1, <3>2, <3>3 DEF Types, Stoppers
    <3> QED  BY <1>0, <1>4, <3>4, <3>5 DEF NextWork, Types
  <2> QED  BY <2>1, <2>2
<1> DEFINE t == stopper[c].work.by
<1>5. stopper[c].pc \in BusyPcs => t \in Tasks
  BY <1>0 DEF Types, Works
<1>6. CASE PlainFn(c)
  <2>1. ran' \in [Tasks -> [Cpus -> Nat]]
    BY <1>0, <1>5, <1>6 DEF PlainFn, Types
  <2> QED  BY <1>0, <1>1, <1>6, <2>1 DEF PlainFn, SGoto, Types, Stoppers
<1>7. CASE NewState(c)
  <2>1. smdata[t].state \in Int
    BY <1>0, <1>5, <1>7 DEF NewState, Types, Datas
  <2> QED  BY <1>0, <1>1, <1>5, <1>7, <2>1 DEF NewState, SGoto, Types, Stoppers
<1>8. CASE \E err \in BOOLEAN : Fn(c, err)
  <2>0. PICK err \in BOOLEAN : Fn(c, err)
    BY <1>8
  <2>1. ran' \in [Tasks -> [Cpus -> Nat]]
    BY <1>0, <1>5, <2>0 DEF Fn, Types
  <2>2. online' \in SUBSET Cpus
    BY <1>0, <2>0 DEF Fn, Types
  <2>3. stopper' = [stopper EXCEPT ![c].pc = "ack", ![c].err = err]
    BY <2>0 DEF Fn
  <2>4. UNCHANGED <<hotplug, mutex, task, done, smdata>>
    BY <2>0 DEF Fn
  <2>5. stopper' \in [Cpus -> Stoppers]
    BY <1>0, <1>1, <2>3 DEF Types, Stoppers
  <2>6. \A d \in Cpus : stopper'[d].pc \in BusyPcs => stopper'[d].work \in Works
    BY <1>0, <1>1, <2>0, <2>3 DEF Fn, Types, Stoppers
  <2> QED  BY <1>0, <2>1, <2>2, <2>4, <2>5, <2>6 DEF Types
<1>9. CASE ack_state(c)
  <2>1. smdata[t] \in Datas /\ t \in Tasks /\ smdata[t].ack - 1 \in Int
    BY <1>0, <1>5, <1>9 DEF ack_state, Types, Datas
  <2>2. smdata' \in [Tasks -> Datas]
    BY <1>0, <1>9, <2>1 DEF ack_state, Types, Datas
  <2> QED  BY <1>0, <1>1, <1>5, <1>9, <2>2 DEF ack_state, SGoto, AfterAck, Types, Stoppers
<1>10. CASE set_state(c)
  <2>1. smdata[t] \in Datas /\ t \in Tasks /\ smdata[t].state + 1 \in Int
    BY <1>0, <1>5, <1>10 DEF set_state, Types, Datas
  <2>2. smdata' \in [Tasks -> Datas]
    BY <1>0, <1>10, <2>1 DEF set_state, ResetAck, Types, Datas
  <2> QED  BY <1>0, <1>1, <1>5, <1>10, <2>2 DEF set_state, SGoto, AfterAck, Types, Stoppers
<1>11. CASE SignalDone(c)
  <2>1. stopper' \in [Cpus -> Stoppers]
    <3>1. stopper' = [stopper EXCEPT ![c].pc = "sleep", ![c].work = NoWork,
                                     ![c].curstate = 0, ![c].err = FALSE]
      BY <1>11 DEF SignalDone, NONE
    <3>2. NoWork \in Works \cup {NoWork}
      OBVIOUS
    <3>3. \A s \in Stoppers : [s EXCEPT !.pc = "sleep", !.work = NoWork,
                                !.curstate = 0, !.err = FALSE] \in Stoppers
      <4>1. \A s \in Stoppers, w \in Works \cup {NoWork}, k \in Int :
               [s EXCEPT !.pc = "sleep", !.work = w, !.curstate = k, !.err = FALSE] \in Stoppers
        BY DEF Stoppers
      <4>2. 0 \in Int
        OBVIOUS
      <4> QED BY <3>2, <4>1, <4>2, Zenon
    <3> QED  BY <1>0, <1>1, <3>1, <3>3 DEF Types
  <2>2. done' \in [Tasks -> Dones]
    BY <1>0, <1>1, <1>11 DEF SignalDone, cpu_stop_signal_done, Types, Stoppers, Dones
  <2> QED  BY <1>0, <1>1, <1>11, <2>1, <2>2 DEF SignalDone, Types, Stoppers
<1> QED
  BY <1>2, <1>3, <1>4, <1>6, <1>7, <1>8, <1>9, <1>10, <1>11 DEF StopperStep

(* cpu_stop_queue_work() *)
LEMMA TypesQueue ==
    ASSUME Types, NEW c \in Cpus, NEW w \in Works, NEW mine \in [Tasks -> Dones],
           cpu_stop_queue_work(c, w, mine)
    PROVE  /\ stopper' \in [Cpus -> Stoppers]
           /\ done' \in [Tasks -> Dones]
           /\ \A d \in Cpus : stopper'[d].pc \in BusyPcs => stopper'[d].work \in Works
<1>1. stopper[c] \in Stoppers /\ stopper[c].works \in Seq(Works)
  BY FieldTypes DEF Types
<1>2. Append(stopper[c].works, w) \in Seq(Works)
  BY <1>1, AppendProperties
<1>3. CASE stopper[c].enabled
  <2> DEFINE ws == Append(stopper[c].works, w)
  <2>1. stopper' = [stopper EXCEPT ![c].works = ws, ![c].awake = TRUE] /\ done' = mine
    BY <1>3 DEF cpu_stop_queue_work, Enqueue
  <2> HIDE DEF ws
  <2> QED  BY <1>1, <1>2, <2>1 DEF ws, Types, Stoppers
<1>4. CASE ~stopper[c].enabled
  <2>1. w.by \in Tasks /\ mine[w.by].nr_todo - 1 \in Int
    BY DEF Works, Dones
  <2>2. done' \in [Tasks -> Dones]
    BY <1>4, <2>1 DEF cpu_stop_queue_work, Dones
  <2> QED  BY <1>4, <2>2 DEF cpu_stop_queue_work, Types
<1> QED  BY <1>3, <1>4

(* The values of records. *)
LEMMA Records ==
    /\ NotCalling \in Frames /\ NoDone \in Dones /\ NoData \in Datas
    /\ \A n \in Int, A \in SUBSET Cpus : Data(n, A) \in Datas
    /\ \A n \in Int : [NoDone EXCEPT !.nr_todo = n] \in Dones
    /\ \A t \in Tasks, fn \in {"plain", "sm"}, d \in BOOLEAN : Work(t, fn, d) \in Works
    /\ \A S \in SUBSET Cpus : Cardinality(S) \in Int
<1>1. NotCalling \in Frames /\ NoDone \in Dones /\ NoData \in Datas
  BY DEF NotCalling, NoDone, NoData, Frames, Dones, Datas, NONE, Ops, TaskPcs
<1>2. \A n \in Int, A \in SUBSET Cpus : Data(n, A) \in Datas
  BY DEF Data, Datas, PREPARE
<1>3. \A n \in Int : [NoDone EXCEPT !.nr_todo = n] \in Dones
  BY DEF NoDone, Dones
<1>4. \A t \in Tasks, fn \in {"plain", "sm"}, d \in BOOLEAN : Work(t, fn, d) \in Works
  BY DEF Work, Works
<1>5. \A S \in SUBSET Cpus : Cardinality(S) \in Int
  BY Sizes
<1> QED  BY <1>1, <1>2, <1>3, <1>4, <1>5

LEMMA FrameTypes ==
    ASSUME NEW f \in [Tasks -> Frames], NEW t \in Tasks, NEW pc \in TaskPcs
    PROVE  /\ [f EXCEPT ![t].pc = pc] \in [Tasks -> Frames]
           /\ \A op \in Ops : [f EXCEPT ![t].op = op, ![t].pc = pc] \in [Tasks -> Frames]
           /\ \A cpu \in Cpus \cup {NULL} :
                 [f EXCEPT ![t].pc = pc, ![t].cpu = cpu] \in [Tasks -> Frames]
           /\ \A op \in Ops, cpu \in Cpus \cup {NULL} :
                 [f EXCEPT ![t].op = op, ![t].pc = pc, ![t].cpu = cpu] \in [Tasks -> Frames]
           /\ \A cpu \in Cpus \cup {NULL}, todo \in SUBSET Cpus :
                 [f EXCEPT ![t].pc = pc, ![t].cpu = cpu, ![t].todo = todo] \in [Tasks -> Frames]
           /\ \A todo \in SUBSET Cpus :
                 [f EXCEPT ![t].todo = todo, ![t].pc = pc] \in [Tasks -> Frames]
           /\ \A op \in Ops, cpu \in Cpus \cup {NULL}, todo \in SUBSET Cpus :
                 [f EXCEPT ![t] = [op |-> op, pc |-> pc, cpu |-> cpu, todo |-> todo]]
                    \in [Tasks -> Frames]
  BY DEF Frames

LEMMA PlaceNames ==
    /\ "one" \in Ops /\ "machine" \in Ops /\ "try" \in Ops /\ "down" \in Ops /\ "up" \in Ops
    /\ "inactive" \in Ops /\ NULL \in Ops
    /\ "idle" \in TaskPcs /\ "mutex" \in TaskPcs /\ "queue" \in TaskPcs /\ "wait" \in TaskPcs
    /\ "part" \in TaskPcs /\ "dying" \in TaskPcs /\ "post_dead" \in TaskPcs
    /\ "join" \in TaskPcs /\ "drain" \in TaskPcs /\ "prepared" \in TaskPcs
    /\ "starting" \in TaskPcs /\ "up" \in TaskPcs /\ "BUG" \in TaskPcs
  BY DEF Ops, TaskPcs

LEMMA TypesCall ==
    ASSUME Inv, NEW t \in Tasks, Call(t)
    PROVE  Types'
<1>0. Types
  BY DEF Inv
<1>1. CASE stop_machine(t)
  <2>1. PICK A \in SUBSET Cpus : __stop_machine(t, "machine", NULL, A)
    <3>1. {First(online)} \in SUBSET Cpus /\ online \in SUBSET Cpus
      BY <1>0, FirstOf DEF Inv, StopperOK, Types
    <3> QED  BY <1>1, <3>1 DEF stop_machine
  <2>2. smdata' \in [Tasks -> Datas]
    BY <1>0, <2>1, Records DEF __stop_machine, num_online_cpus, Types
  <2>3. task' \in [Tasks -> Frames]
    <3>1. task' = [task EXCEPT ![t].op = "machine", ![t].pc = "mutex", ![t].cpu = NULL]
      BY <2>1 DEF __stop_machine
    <3> QED  BY <1>0, <3>1, FrameTypes, PlaceNames DEF Types
  <2> QED  BY <1>0, <1>1, <2>2, <2>3 DEF stop_machine, Types
<1>2. CASE try_stop_cpus(t)
  <2>1. PICK c \in online : /\ __stop_cpus(t, c)
                            /\ task' = [task EXCEPT ![t] = [op |-> "try", pc |-> "queue",
                                           cpu |-> c, todo |-> online]]
    BY <1>2 DEF try_stop_cpus
  <2>2. task' \in [Tasks -> Frames]
    BY <1>0, <2>1, FrameTypes, PlaceNames DEF Types
  <2>3. done' \in [Tasks -> Dones] /\ ran' \in [Tasks -> [Cpus -> Nat]] /\ mutex' \in Tasks \cup {NULL}
    BY <1>0, <2>1, Records, Once DEF __stop_cpus, cpumask_weight, cpu_stop_init_done, Types
  <2> QED  BY <1>0, <1>2, <2>2, <2>3 DEF try_stop_cpus, Types
<1>3. ASSUME NEW c \in Cpus, stop_one_cpu(t, c)
      PROVE  Types'
  <2>1. cpu_stop_init_done(t, 1) \in [Tasks -> Dones]
    <3>1. 1 \in Int
      OBVIOUS
    <3>2. [NoDone EXCEPT !.nr_todo = 1] \in Dones
      BY <3>1, Records
    <3> QED  BY <1>0, <3>2 DEF cpu_stop_init_done, Types
  <2>2. Work(t, "plain", TRUE) \in Works
    BY Records
  <2>3. /\ stopper' \in [Cpus -> Stoppers] /\ done' \in [Tasks -> Dones]
        /\ \A d \in Cpus : stopper'[d].pc \in BusyPcs => stopper'[d].work \in Works
    <3> HIDE DEF cpu_stop_init_done, Work
    <3> QED  BY <1>0, <1>3, <2>1, <2>2, TypesQueue DEF stop_one_cpu
  <2>4. task' \in [Tasks -> Frames] /\ ran' \in [Tasks -> [Cpus -> Nat]]
    <3>1. /\ task' = [task EXCEPT ![t].op = "one", ![t].pc = "wait"]
          /\ ran' = [ran EXCEPT ![t] = OnceOn({})]
      BY <1>3 DEF stop_one_cpu
    <3>2. ran' \in [Tasks -> [Cpus -> Nat]]
      BY <1>0, <3>1, Once DEF Types
    <3> QED  BY <1>0, <3>1, <3>2, FrameTypes, PlaceNames DEF Types
  <2> QED  BY <1>0, <1>3, <2>3, <2>4 DEF stop_one_cpu, Types
<1>4. ASSUME NEW c \in Cpus, stop_one_cpu_nowait(t, c)
      PROVE  Types'
  <2>2. Work(t, "plain", FALSE) \in Works
    BY Records
  <2>3. /\ stopper' \in [Cpus -> Stoppers] /\ done' \in [Tasks -> Dones]
        /\ \A d \in Cpus : stopper'[d].pc \in BusyPcs => stopper'[d].work \in Works
    BY <1>0, <1>4, <2>2, TypesQueue DEF stop_one_cpu_nowait, Types
  <2> QED  BY <1>0, <1>4, <2>3 DEF stop_one_cpu_nowait, Types
<1>5. ASSUME NEW c \in Cpus, cpu_down(t, c)
      PROVE  Types'
  <2>2. smdata' \in [Tasks -> Datas]
    BY <1>0, <1>5, Records DEF cpu_down, __stop_machine, num_online_cpus, Types
  <2>3. task' \in [Tasks -> Frames]
    BY <1>0, <1>5, FrameTypes, PlaceNames DEF cpu_down, __stop_machine, Types
  <2> QED  BY <1>0, <1>5, <2>2, <2>3 DEF cpu_down, Types
<1>6. ASSUME NEW c \in Cpus, cpu_up(t, c)
      PROVE  Types'
  <2>2. smdata' \in [Tasks -> Datas]
    <3>1. smdata' = [smdata EXCEPT ![t] = Data(0, {c})] /\ Data(0, {c}) \in Datas
      <4>1. 0 \in Int /\ {c} \in SUBSET Cpus
        OBVIOUS
      <4> QED  BY <1>6, <4>1, Records DEF cpu_up
    <3> QED  BY <1>0, <3>1 DEF Types
  <2>3. task' \in [Tasks -> Frames]
    <3>1. task' = [task EXCEPT ![t].op = "up", ![t].pc = "prepared"]
      BY <1>6 DEF cpu_up
    <3> QED  BY <1>0, <3>1, FrameTypes, PlaceNames DEF Types
  <2>4. /\ stopper' \in [Cpus -> Stoppers]
        /\ \A d \in Cpus : stopper'[d].pc \in BusyPcs => stopper'[d].work \in Works
    <3>1. stopper' = [stopper EXCEPT ![c].pc = "sleep"]
      BY <1>6 DEF cpu_up
    <3>2. stopper' \in [Cpus -> Stoppers]
      BY <1>0, <3>1 DEF Types, Stoppers
    <3> QED  BY <1>0, <3>1, <3>2 DEF Types, Stoppers, BusyPcs
  <2> QED  BY <1>0, <1>6, <2>2, <2>3, <2>4 DEF cpu_up, Types
<1>7. ASSUME NEW c \in Cpus, BugOn(t, c)
      PROVE  Types'
  <2>1. task' \in [Tasks -> Frames]
    <3>1. task' = [task EXCEPT ![t].op = "up", ![t].pc = "BUG"]
      BY <1>7 DEF BugOn
    <3> QED  BY <1>0, <3>1, FrameTypes, PlaceNames DEF Types
  <2> QED  BY <1>0, <1>7, <2>1 DEF BugOn, Types
<1> QED  BY <1>1, <1>2, <1>3, <1>4, <1>5, <1>6, <1>7 DEF Call

(* The CPU a hotplug operation is about. *)
LEMMA HotCpu ==
    ASSUME Inv, NEW t \in Tasks
    PROVE  /\ task[t].op \in {"down", "up"} /\ task[t].pc # "BUG" =>
                 Cpu(t) \in Cpus /\ smdata[t].active = {Cpu(t)}
           /\ task[t].op = "down" => /\ Cpu(t) \in Cpus /\ smdata[t].active = {Cpu(t)}
                                     /\ DownCpu(t, Cpu(t))
           /\ task[t].op = "up" /\ task[t].pc # "BUG" => UpCpu(t, Cpu(t))
           /\ task[t].op = "up" /\ task[t].pc = "BUG" => smdata[t].active = {}
           /\ task[t].op = "inactive" => task[t].cpu \in Cpus /\ InactiveCpu(t, task[t].cpu)
<1>1. \A c \in Cpus : smdata[t].active = {c} => Cpu(t) = c
  BY FirstOf DEF Cpu
<1>2. task[t].op = "down" => Cpu(t) \in Cpus /\ DownCpu(t, Cpu(t))
  BY <1>1 DEF Inv, HotOK, DownCpu
<1>3. task[t].op = "up" /\ task[t].pc # "BUG" => Cpu(t) \in Cpus /\ UpCpu(t, Cpu(t))
  BY <1>1 DEF Inv, HotOK, UpCpu
<1>4. task[t].op = "inactive" => task[t].cpu \in Cpus /\ InactiveCpu(t, task[t].cpu)
  BY DEF Inv, HotOK, InactiveCpu
<1>5. /\ task[t].op = "down" => smdata[t].active = {Cpu(t)}
      /\ task[t].op = "up" /\ task[t].pc # "BUG" => smdata[t].active = {Cpu(t)}
  BY <1>2, <1>3 DEF DownCpu, UpCpu
<1>6. task[t].op = "up" /\ task[t].pc = "BUG" => smdata[t].active = {}
  BY DEF Inv, HotOK
<1> QED  BY <1>2, <1>3, <1>4, <1>5, <1>6

(* The calls by where they are. *)
LEMMA Places ==
    ASSUME Inv, NEW t \in Tasks
    PROVE  /\ task[t].pc \in {"dying", "post_dead", "join", "drain"} => task[t].op \in {"down", "up"}
           /\ task[t].op = "down" => task[t].pc # "BUG"
           /\ task[t].pc = "dying" => task[t].op = "down"
           /\ task[t].pc \in {"prepared", "starting", "up"} => task[t].op = "up"
           /\ task[t].pc = "part" => task[t].op = "inactive"
           /\ task[t].pc = "mutex" => task[t].op \in {"machine", "down"}
           /\ task[t].pc = "queue" => task[t].op \in {"machine", "try", "down", "inactive"}
           /\ task[t].pc = "idle" => task[t].op = NULL
           /\ task[t].op \in {NULL, "one", "machine", "try", "down", "up", "inactive"}
           /\ PcOK(task[t].op, task[t].pc)
<1>1. /\ task[t].op \in {NULL, "one", "machine", "try", "down", "up", "inactive"}
      /\ PcOK(task[t].op, task[t].pc)
  BY DEF Inv, Types, Frames, TaskOK, Ops
<1> QED  BY <1>1 DEF PcOK

LEMMA TypesLeave ==
    ASSUME Types, NEW t \in Tasks
    PROVE  /\ Leave(t) => task' \in [Tasks -> Frames] /\ smdata' \in [Tasks -> Datas]
           /\ Forget(t) => done' \in [Tasks -> Dones] /\ ran' \in [Tasks -> [Cpus -> Nat]]
<1>1. Leave(t) => task' \in [Tasks -> Frames] /\ smdata' \in [Tasks -> Datas]
  BY Records DEF Leave, Types
<1>2. Forget(t) => done' \in [Tasks -> Dones] /\ ran' \in [Tasks -> [Cpus -> Nat]]
  BY Records, Once DEF Forget, Types
<1> QED  BY <1>1, <1>2

LEMMA TypesTask ==
    ASSUME Inv, NEW t \in Tasks, TaskStep(t) \/ stop_machine_from_inactive_cpu(t)
    PROVE  Types'
<1>0. Types /\ Cardinality(online) \in Int /\ 0 \in Int
  BY Records DEF Inv, Types
<1>1. CASE stop_cpus(t)
  <2>1. PICK c \in online : /\ __stop_cpus(t, c)
                            /\ task' = [task EXCEPT ![t].pc = "queue", ![t].cpu = c,
                                                    ![t].todo = online]
    BY <1>1 DEF stop_cpus
  <2>2. task' \in [Tasks -> Frames]
    BY <1>0, <2>1, FrameTypes, PlaceNames DEF Types
  <2>3. done' \in [Tasks -> Dones] /\ ran' \in [Tasks -> [Cpus -> Nat]] /\ mutex' \in Tasks \cup {NULL}
    BY <1>0, <2>1, Records, Once DEF __stop_cpus, cpumask_weight, cpu_stop_init_done, Types
  <2> QED  BY <1>0, <1>1, <2>2, <2>3 DEF stop_cpus, Types
<1>2. CASE queue_stop_cpus_work(t)
  <2> DEFINE c == First(task[t].todo)
             rest == task[t].todo \ {c}
             w == Work(t, IF task[t].op = "try" THEN "plain" ELSE "sm", TRUE)
  <2>1. task[t].todo # {} /\ task[t].todo \in SUBSET Cpus /\ task[t].pc = "queue"
    BY <1>0, <1>2 DEF Inv, TaskOK, Types, Frames, queue_stop_cpus_work
  <2>2. c \in Cpus
    BY <2>1, FirstOf
  <2>3. w \in Works
    BY Records
  <2>4. cpu_stop_queue_work(c, w, done)
    BY <1>2 DEF queue_stop_cpus_work
  <2>5. task' = [task EXCEPT ![t].todo = rest, ![t].pc = IF rest = {} THEN "wait" ELSE @]
    BY <1>2 DEF queue_stop_cpus_work
  <2>6. rest \in SUBSET Cpus
    BY <2>1
  <2>7. task' = [task EXCEPT ![t].todo = rest, ![t].pc = "wait"]
          \/ task' = [task EXCEPT ![t].todo = rest, ![t].pc = "queue"]
    BY <1>0, <2>1, <2>5 DEF Types, Frames
  <2> HIDE DEF c, rest, w
  <2>8. task' \in [Tasks -> Frames]
    <3>1. CASE task' = [task EXCEPT ![t].todo = rest, ![t].pc = "wait"]
      BY <1>0, <2>6, <3>1, FrameTypes, PlaceNames DEF Types
    <3>2. CASE task' = [task EXCEPT ![t].todo = rest, ![t].pc = "queue"]
      BY <1>0, <2>6, <3>2, FrameTypes, PlaceNames DEF Types
    <3> QED  BY <2>7, <3>1, <3>2
  <2>9. /\ stopper' \in [Cpus -> Stoppers] /\ done' \in [Tasks -> Dones]
        /\ \A d \in Cpus : stopper'[d].pc \in BusyPcs => stopper'[d].work \in Works
    BY <1>0, <2>2, <2>3, <2>4, TypesQueue DEF Types
  <2>10. UNCHANGED <<online, hotplug, mutex, smdata, ran>>
    BY <1>2 DEF queue_stop_cpus_work
  <2> QED  BY <1>0, <2>8, <2>9, <2>10 DEF Types
<1>3. CASE Return(t)
  BY <1>0, <1>3, TypesLeave DEF Return, Types
<1>4. CASE Down(t)
  <2>1. task' \in [Tasks -> Frames] /\ smdata' \in [Tasks -> Datas]
    <3>1. CASE done[t].ret
      BY <1>0, <1>4, <3>1, TypesLeave DEF Down
    <3>2. CASE ~done[t].ret
      <4>1. /\ task' = [task EXCEPT ![t].pc = "dying"]
            /\ smdata' = [smdata EXCEPT ![t] = Data(0, smdata[t].active)]
        BY <1>0, <1>4, <3>2 DEF Down, HGoto, Types
      <4>2. smdata[t].active \in SUBSET Cpus
        BY <1>0 DEF Types, Datas
      <4>3. Data(0, smdata[t].active) \in Datas
        BY <1>0, <4>2, Records
      <4> QED  BY <1>0, <4>1, <4>3, FrameTypes, PlaceNames DEF Types
    <3> QED  BY <3>1, <3>2
  <2>2. done' \in [Tasks -> Dones] /\ ran' \in [Tasks -> [Cpus -> Nat]]
    BY <1>0, <1>4, TypesLeave DEF Down
  <2>3. hotplug' \in Tasks \cup {NULL} /\ mutex' = NULL /\ UNCHANGED <<online, stopper>>
    BY <1>0, <1>4 DEF Down, Types
  <2> QED  BY <1>0, <2>1, <2>2, <2>3 DEF Types
<1>5. CASE Dead(t)
  BY <1>0, <1>5, FrameTypes, PlaceNames DEF Dead, HGoto, Types
<1> DEFINE k == Cpu(t)
<1>20. task[t].pc \in {"post_dead", "join", "drain", "prepared", "up", "starting"} => k \in Cpus
  BY HotCpu, Places
<1>6. CASE kthread_stop(t)
  <2>1. k \in Cpus /\ stopper' = [stopper EXCEPT ![k].should_stop = TRUE, ![k].awake = TRUE]
    BY <1>6, <1>20 DEF kthread_stop
  <2> HIDE DEF k
  <2>4. \A s \in Stoppers : [s EXCEPT !.should_stop = TRUE, !.awake = TRUE] \in Stoppers
    BY DEF Stoppers
  <2>2. stopper' \in [Cpus -> Stoppers]
    BY <1>0, <2>1, <2>4 DEF Types
  <2>3. \A d \in Cpus : stopper'[d].pc \in BusyPcs => stopper'[d].work \in Works
    BY <1>0, <2>1 DEF Types, Stoppers
  <2> QED  BY <1>0, <1>6, <2>2, <2>3, FrameTypes, PlaceNames DEF kthread_stop, HGoto, Types
<1>7. CASE DrainEnd(t)
  <2>0. k \in Cpus
    BY <1>7, <1>20 DEF DrainEnd
  <2>1. stopper' = [stopper EXCEPT ![k] = NoStopper]
    BY <1>7 DEF DrainEnd
  <2>5. task' \in [Tasks -> Frames] /\ smdata' \in [Tasks -> Datas]
    BY <1>0, <1>7, TypesLeave DEF DrainEnd
  <2>6. hotplug' \in Tasks \cup {NULL} /\ UNCHANGED <<online, mutex, done, ran>>
    BY <1>0, <1>7 DEF DrainEnd, Types
  <2> HIDE DEF k
  <2>2. NoStopper \in Stoppers
    <3>1. <<>> \in Seq(Works)
      OBVIOUS
    <3> QED  BY <3>1 DEF NoStopper, Stoppers, NONE
  <2>3. stopper' \in [Cpus -> Stoppers]
    BY <1>0, <2>0, <2>1, <2>2 DEF Types
  <2>7. \A d \in Cpus : stopper'[d].pc \in BusyPcs => stopper'[d].work \in Works
    BY <1>0, <2>0, <2>1 DEF Types, NoStopper, BusyPcs
  <2> QED  BY <1>0, <2>3, <2>5, <2>6, <2>7 DEF Types
<1>14. CASE DrainLock(t)
  <2>1. PICK d \in online : task' = [task EXCEPT ![t].pc = "drain", ![t].cpu = d]
    BY <1>14 DEF DrainLock
  <2>2. task' \in [Tasks -> Frames]
    BY <1>0, <2>1, FrameTypes, PlaceNames DEF Types
  <2> QED  BY <1>0, <1>14, <2>2 DEF DrainLock, Types
<1>15. CASE DrainOne(t)
  <2> DEFINE ws == Tail(stopper[k].works)
  <2>0. k \in Cpus
    BY <1>15, <1>20 DEF DrainOne
  <2>1. stopper' = [stopper EXCEPT ![k].works = ws]
    BY <1>15 DEF DrainOne
  <2>2. UNCHANGED <<online, hotplug, mutex, task, smdata, ran>>
    BY <1>15 DEF DrainOne
  <2>3. done' \in [Tasks -> Dones]
    BY <1>0, <1>15 DEF DrainOne, cpu_stop_signal_done, Types, Dones
  <2>4. stopper[k] \in Stoppers /\ stopper[k].works # <<>>
    BY <1>0, <1>15, <2>0 DEF DrainOne, Types
  <2>5. ws \in Seq(Works)
    BY <2>4, FieldTypes, HeadTailProperties
  <2> HIDE DEF k, ws
  <2>6. \A s \in Stoppers : \A x \in Seq(Works) : [s EXCEPT !.works = x] \in Stoppers
    BY DEF Stoppers
  <2>7. stopper' \in [Cpus -> Stoppers]
    BY <1>0, <2>0, <2>1, <2>5, <2>6 DEF Types
  <2>8. \A d \in Cpus : stopper'[d].pc \in BusyPcs => stopper'[d].work \in Works
    BY <1>0, <2>0, <2>1 DEF Types, Stoppers
  <2> QED  BY <1>0, <2>2, <2>3, <2>7, <2>8 DEF Types
<1>8. CASE UpCanceled(t)
  BY <1>0, <1>8, FrameTypes, PlaceNames DEF UpCanceled, HGoto, Types
<1>9. CASE TakePart(t)
  <2> DEFINE c == task[t].cpu
             w == Work(t, "sm", FALSE)
  <2>1. c \in Cpus /\ w \in Works
    BY <1>9, HotCpu, Records DEF TakePart
  <2>2. stopper' = [stopper EXCEPT ![c].pc = "loop", ![c].work = w]
    BY <1>9 DEF TakePart
  <2> HIDE DEF c, w
  <2>3. stopper' \in [Cpus -> Stoppers]
    <3>1. \A s \in Stoppers : \A x \in Works : [s EXCEPT !.pc = "loop", !.work = x] \in Stoppers
      BY DEF Stoppers, BusyPcs
    <3> QED  BY <1>0, <2>1, <2>2, <3>1 DEF Types
  <2>4. \A d \in Cpus : stopper'[d].pc \in BusyPcs => stopper'[d].work \in Works
    BY <1>0, <2>1, <2>2 DEF Types, Stoppers
  <2> QED  BY <1>0, <1>9, <2>3, <2>4, FrameTypes, PlaceNames DEF TakePart, HGoto, Types
<1>10. CASE AllStopped(t)
  <2>1. task[t].cpu \in Cpus
    BY <1>10, HotCpu, Places DEF AllStopped
  <2>2. Data(0, {task[t].cpu}) \in Datas
    BY <1>0, <2>1, Records
  <2>3. smdata' \in [Tasks -> Datas]
    BY <1>0, <1>10, <2>2 DEF AllStopped, Types
  <2>4. [NotCalling EXCEPT !.op = "up", !.pc = "starting"] \in Frames
    BY DEF NotCalling, Frames, Ops, TaskPcs
  <2>5. task' \in [Tasks -> Frames]
    BY <1>0, <1>10, <2>4 DEF AllStopped, Types
  <2> QED  BY <1>0, <1>10, <2>3, <2>5, TypesLeave DEF AllStopped, Types
<1>11. CASE Up(t)
  BY <1>0, <1>11, <1>20, FrameTypes, PlaceNames DEF Up, HGoto, Types
<1>12. CASE Online(t)
  <2>1. k \in Cpus /\ stopper' = [stopper EXCEPT ![k].enabled = TRUE, ![k].awake = TRUE]
    BY <1>12, <1>20 DEF Online
  <2> HIDE DEF k
  <2>4. \A s \in Stoppers : [s EXCEPT !.enabled = TRUE, !.awake = TRUE] \in Stoppers
    BY DEF Stoppers
  <2>2. stopper' \in [Cpus -> Stoppers]
    BY <1>0, <2>1, <2>4 DEF Types
  <2>3. \A d \in Cpus : stopper'[d].pc \in BusyPcs => stopper'[d].work \in Works
    BY <1>0, <2>1 DEF Types, Stoppers
  <2> QED  BY <1>0, <1>12, <2>2, <2>3, TypesLeave DEF Online, Types
<1>13. CASE stop_machine_from_inactive_cpu(t)
  <2>1. k \in Cpus /\ smdata[t].active \in SUBSET Cpus
    BY <1>0, <1>13, <1>20 DEF stop_machine_from_inactive_cpu, Types, Datas
  <2>2. /\ task' = [task EXCEPT ![t] = [op |-> "inactive", pc |-> "queue", cpu |-> k,
                                        todo |-> online]]
        /\ smdata' = [smdata EXCEPT ![t] = Data(num_online_cpus + 1, smdata[t].active \cup online)]
    BY <1>0, <1>13 DEF stop_machine_from_inactive_cpu, Types
  <2>3. Data(num_online_cpus + 1, smdata[t].active \cup online) \in Datas
    <3>1. num_online_cpus + 1 \in Int /\ smdata[t].active \cup online \in SUBSET Cpus
      BY <1>0, <2>1 DEF num_online_cpus, Types
    <3> QED  BY <3>1, Records
  <2>4. done' \in [Tasks -> Dones] /\ ran' \in [Tasks -> [Cpus -> Nat]] /\ mutex' \in Tasks \cup {NULL}
    BY <1>0, <1>13, Records, Once DEF stop_machine_from_inactive_cpu, __stop_cpus, cpumask_weight,
                               cpu_stop_init_done, Types
  <2>5. UNCHANGED <<online, hotplug, stopper>>
    BY <1>13 DEF stop_machine_from_inactive_cpu
  <2> HIDE DEF k
  <2>6. task' \in [Tasks -> Frames]
    BY <1>0, <2>1, <2>2, FrameTypes, PlaceNames DEF Types
  <2>7. smdata' \in [Tasks -> Datas]
    BY <1>0, <2>2, <2>3 DEF Types
  <2> QED  BY <1>0, <2>4, <2>5, <2>6, <2>7 DEF Types
<1> QED  BY <1>1, <1>2, <1>3, <1>4, <1>5, <1>6, <1>7, <1>8, <1>9, <1>10, <1>11, <1>12, <1>13,
            <1>14, <1>15
         DEF TaskStep, HotplugStep

LEMMA TypesStep ==
    ASSUME Inv, Next
    PROVE  Types'
  BY TypesStopper, TypesCall, TypesTask DEF Next
-----------------------------------------------------------------------------
(* A step that does not concern a call leaves what is known of it. *)

(* For the call of t the stopper s2 is what s was. *)
Same(s, s2, t) ==
    /\ Lists(s2, t) <=> Lists(s, t)
    /\ Runs(s2, t) <=> Runs(s, t)
    /\ Steps(s2, t) <=> Steps(s, t)
    /\ Runs(s, t) \/ Steps(s, t) =>
          s2.pc = s.pc /\ s2.curstate = s.curstate /\ s2.err = s.err /\ s2.work = s.work
    /\ \A fn \in {"plain", "sm"} : ListOK(s, t, fn) => ListOK(s2, t, fn)

LEMMA Undisturbed ==
    ASSUME Inv, Types', NEW t \in Tasks,
           task'[t] = task[t], done'[t] = done[t], smdata'[t] = smdata[t], ran'[t] = ran[t],
           online' = online \/ task[t].op \notin {"machine", "try", "down", "inactive"},
           \A c \in Cpus : Same(stopper[c], stopper'[c], t)
    PROVE  CallOK(t)'
<1>0. CallOK(t) /\ Types
  BY DEF Inv
<1>1. Waiting(t)' <=> Waiting(t)
  BY DEF Waiting
<1>2. Machine(t)' <=> Machine(t)
  BY <1>1 DEF Machine
<1>3. \A c \in Cpus : /\ Lists(stopper'[c], t) <=> Lists(stopper[c], t)
                      /\ Runs(stopper'[c], t) <=> Runs(stopper[c], t)
                      /\ Steps(stopper'[c], t) <=> Steps(stopper[c], t)
  BY DEF Same
<1>4. \A c \in Cpus : Runs(stopper[c], t) \/ Steps(stopper[c], t) =>
         /\ stopper'[c].pc = stopper[c].pc /\ stopper'[c].curstate = stopper[c].curstate
         /\ stopper'[c].err = stopper[c].err /\ stopper'[c].work = stopper[c].work
  BY DEF Same
<1>5. Open(t)' = Open(t)
  BY <1>3 DEF Open
<1>6. \A c \in Cpus : Signals(stopper'[c], t) <=> Signals(stopper[c], t)
  BY <1>3, <1>4 DEF Signals
<1>7. NotRun(t)' = NotRun(t)
  BY <1>3, <1>4 DEF NotRun
<1>8. Failed(t)' <=> Failed(t)
  BY <1>3, <1>4 DEF Failed
<1>9. \A c \in Cpus, state \in Int :
         HasRun(stopper'[c], t, state) <=> HasRun(stopper[c], t, state)
  BY <1>3, <1>4 DEF HasRun
<1>10. Ran(t)' = Ran(t)
  <2>1. smdata[t].active \in SUBSET Cpus /\ smdata[t].state \in Int
    BY <1>0 DEF Types, Datas
  <2> QED  BY <1>9, <2>1 DEF Ran
<1>11. task[t].op \in {"machine", "try", "down", "inactive"} => online' = online
  OBVIOUS
<1>12. OpenOK(t)'
  <2>1. task[t].todo \in SUBSET Cpus /\ FnOf(task[t].op) \in {"plain", "sm"}
    BY <1>0 DEF Types, Frames, FnOf
  <2>2. \A c \in Cpus : Runs(stopper'[c], t) => stopper'[c].work.fn = FnOf(task'[t].op)
    BY <1>0, <1>3, <1>4 DEF CallOK, OpenOK
  <2>3. \A c \in Cpus : ListOK(stopper'[c], t, FnOf(task'[t].op))
    BY <1>0, <2>1 DEF CallOK, OpenOK, Same
  <2>4. \A c \in task'[t].todo : ~Lists(stopper'[c], t) /\ ~Runs(stopper'[c], t)
    BY <1>0, <1>3, <2>1 DEF CallOK, OpenOK
  <2>5. \A c \in Cpus : Lists(stopper'[c], t) => ~Runs(stopper'[c], t)
    BY <1>0, <1>3 DEF CallOK, OpenOK
  <2>6. Machine(t)' => Open(t)' \subseteq Part(t)'
    BY <1>0, <1>2, <1>5, <1>11 DEF CallOK, OpenOK, Part, Machine
  <2>7. task'[t].op = "try" => Open(t)' \subseteq online'
    BY <1>0, <1>5, <1>11 DEF CallOK, OpenOK
  <2>8. done'[t].nr_todo = Cardinality(Open(t)')
    BY <1>0, <1>5 DEF CallOK, OpenOK
  <2>9. ~Waiting(t)' => done'[t] = NoDone
    BY <1>0, <1>1 DEF CallOK, OpenOK
  <2> QED  BY <2>2, <2>3, <2>4, <2>5, <2>6, <2>7, <2>8, <2>9 DEF OpenOK
<1>13. MachineOK(t)'
  <2>1. \A c : c \in Cpus => (Pending(c, t)' <=> Pending(c, t))
    BY <1>3 DEF Pending
  <2>2. CASE Machine(t)
    <3>1. Part(t)' = Part(t) /\ Part(t) \subseteq Cpus
      BY <1>0, <1>11, <2>2 DEF Part, Machine, Types, Datas
    <3>2. Lag(t)' = Lag(t)
      BY <1>3, <1>4, <2>1, <3>1 DEF Lag, Behind
    <3>3. StateOK(t) /\ task[t].pc # "mutex"
      BY <1>0, <2>2 DEF CallOK, MachineOK, Machine, Waiting
    <3>4. \A c \in Cpus : Steps(stopper[c], t) => /\ At(stopper'[c], smdata[t].state)
                                               /\ stopper'[c].pc = stopper[c].pc
      BY <1>4, <3>3 DEF StateOK, At
    <3>5. StateOK(t)'
      BY <1>3, <2>1, <3>1, <3>2, <3>3, <3>4 DEF StateOK
    <3> QED  BY <1>2, <2>2, <3>3, <3>5 DEF MachineOK
  <2>3. CASE ~Machine(t)
    <3>1. task[t].pc = "mutex" => Part(t)' = Part(t)
      BY <1>11, Places DEF Part
    <3> QED  BY <1>0, <1>2, <2>3, <3>1 DEF CallOK, MachineOK
  <2> QED  BY <2>2, <2>3
<1>14. RanOK(t)'
  <2>1. Machine(t)' => ran'[t] = OnceOn(Ran(t)')
    BY <1>0, <1>2, <1>10 DEF CallOK, RanOK
  <2>2. task'[t].op = "try" => ran'[t] = OnceOn(online' \ NotRun(t)')
    BY <1>0, <1>7, <1>11 DEF CallOK, RanOK
  <2>3. (\E c \in Cpus : Signals(stopper'[c], t)) <=> (\E c \in Cpus : Signals(stopper[c], t))
    BY <1>6
  <2>4. task'[t].op = "one" =>
          /\ \A c, d \in Open(t)' : c = d
          /\ Open(t)' # {} => ~done'[t].executed
          /\ IF done'[t].executed \/ \E c \in Cpus : Signals(stopper'[c], t)
             THEN \E c \in Cpus : ran'[t] = OnceOn({c})
             ELSE ran'[t] = OnceOn({})
    BY <1>0, <1>5, <2>3 DEF CallOK, RanOK
  <2> QED  BY <2>1, <2>2, <2>4 DEF RanOK
<1>15. DownOK(t)'
  BY <1>0, <1>2, <1>8, <1>10, <1>11 DEF CallOK, DownOK
<1> QED  BY <1>12, <1>13, <1>14, <1>15 DEF CallOK

(* Neither the executions of a call's function nor what is to be known of   *)
(* them change.                                                             *)
LEMMA RanKept ==
    ASSUME NEW t \in Tasks, RanOK(t), task'[t].op = task[t].op, ran'[t] = ran[t],
           Machine(t)' => Machine(t) /\ Ran(t)' = Ran(t),
           task[t].op = "try" => online' \ NotRun(t)' = online \ NotRun(t),
           task[t].op = "one" =>
              /\ Open(t)' = Open(t) /\ done'[t].executed = done[t].executed
              /\ (\E c \in Cpus : Signals(stopper'[c], t)) <=> (\E c \in Cpus : Signals(stopper[c], t))
    PROVE  RanOK(t)'
<1>1. Machine(t)' => ran'[t] = OnceOn(Ran(t)')
  BY DEF RanOK
<1>2. task'[t].op = "try" => ran'[t] = OnceOn(online' \ NotRun(t)')
  BY DEF RanOK
<1>3. task'[t].op = "one" =>
         /\ \A c, d \in Open(t)' : c = d
         /\ Open(t)' # {} => ~done'[t].executed
         /\ IF done'[t].executed \/ \E c \in Cpus : Signals(stopper'[c], t)
            THEN \E c \in Cpus : ran'[t] = OnceOn({c})
            ELSE ran'[t] = OnceOn({})
  BY DEF RanOK
<1> QED  BY <1>1, <1>2, <1>3 DEF RanOK

LEMMA SameSelf ==
    ASSUME NEW s, NEW t
    PROVE  Same(s, s, t)
  BY DEF Same

(* A stopper with the same list that executes nothing of the call. *)
LEMMA SameList ==
    ASSUME NEW s, NEW s2, NEW t, s2.enabled = s.enabled, s2.works = s.works,
           ~Runs(s, t), ~Steps(s, t), ~Runs(s2, t), ~Steps(s2, t)
    PROVE  Same(s, s2, t)
  BY DEF Same, Lists, ListOK

(* A stopper with the same list that executes the same. *)
LEMMA SameWork ==
    ASSUME NEW s, NEW s2, NEW t, s2.enabled = s.enabled, s2.works = s.works,
           s2.pc = s.pc, s2.work = s.work, s2.curstate = s.curstate, s2.err = s.err
    PROVE  Same(s, s2, t)
  BY DEF Same, Lists, ListOK, Runs, Steps

(* Adding a work to a list. *)
LEMMA Appending ==
    ASSUME NEW s \in Stoppers, NEW w \in Works, NEW s2, NEW t,
           s2.works = Append(s.works, w), s2.enabled = s.enabled, s2.pc = s.pc,
           s2.work = s.work, s2.curstate = s.curstate, s2.err = s.err
    PROVE  /\ ~Mine(w, t) => Same(s, s2, t)
           /\ Mine(w, t) /\ s.enabled => Lists(s2, t)
           /\ Mine(w, t) /\ ~Lists(s, t) => ListOK(s2, t, w.fn)
           /\ Runs(s2, t) <=> Runs(s, t)
           /\ Steps(s2, t) <=> Steps(s, t)
<1> DEFINE n == Len(s.works)
<1>1. s.works \in Seq(Works)
  BY FieldTypes
<1>2. n \in Nat /\ DOMAIN s.works = 1 .. n
  BY <1>1, LenProperties
<1>3. /\ s2.works \in Seq(Works) /\ Len(s2.works) = n + 1
      /\ \A i \in 1 .. n : s2.works[i] = s.works[i]
      /\ s2.works[n + 1] = w
  BY <1>1, AppendProperties
<1>4. DOMAIN s2.works = 1 .. (n + 1)
  BY <1>3, LenProperties
<1>5. /\ Runs(s2, t) <=> Runs(s, t)
      /\ Steps(s2, t) <=> Steps(s, t)
  BY DEF Runs, Steps
<1> HIDE DEF n
<1>6. \A i \in 1 .. (n + 1) : i \in 1 .. n \/ i = n + 1
  BY <1>2
<1>7. \A i \in 1 .. n : i \in 1 .. (n + 1)
  BY <1>2
<1>8. n + 1 \in 1 .. (n + 1)
  BY <1>2
<1>9. ASSUME ~Mine(w, t)
      PROVE  Same(s, s2, t)
  <2>1. Lists(s2, t) <=> Lists(s, t)
    BY <1>2, <1>3, <1>4, <1>6, <1>7, <1>9 DEF Lists
  <2>2. \A fn \in {"plain", "sm"} : ListOK(s, t, fn) => ListOK(s2, t, fn)
    <3> SUFFICES ASSUME NEW fn \in {"plain", "sm"}, ListOK(s, t, fn), s2.enabled
                 PROVE  /\ \A i, j \in DOMAIN s2.works :
                              Mine(s2.works[i], t) /\ Mine(s2.works[j], t) => i = j
                        /\ \A i \in DOMAIN s2.works :
                              Mine(s2.works[i], t) => s2.works[i].fn = fn
      BY DEF ListOK
    <3>1. \A i \in DOMAIN s2.works : Mine(s2.works[i], t) =>
             i \in DOMAIN s.works /\ s2.works[i] = s.works[i]
      BY <1>2, <1>3, <1>4, <1>6, <1>9
    <3> QED  BY <3>1 DEF ListOK
  <2> QED  BY <1>5, <2>1, <2>2 DEF Same
<1>10. Mine(w, t) /\ s.enabled => Lists(s2, t)
  BY <1>3, <1>4, <1>8 DEF Lists
<1>11. ASSUME Mine(w, t), ~Lists(s, t)
       PROVE  ListOK(s2, t, w.fn)
  <2>1. s2.enabled => \A i \in DOMAIN s2.works : Mine(s2.works[i], t) => i = n + 1
    BY <1>2, <1>3, <1>4, <1>6, <1>11 DEF Lists
  <2> QED  BY <1>3, <2>1 DEF ListOK
<1> QED  BY <1>5, <1>9, <1>10, <1>11

(* Taking the first work from a list. *)
LEMMA Taking ==
    ASSUME NEW s \in Stoppers, s.works # <<>>, NEW s2, NEW t,
           s2.works = Tail(s.works), s2.enabled = s.enabled
    PROVE  LET w == Head(s.works) IN
           /\ ~Mine(w, t) => /\ Lists(s2, t) <=> Lists(s, t)
                             /\ \A fn \in {"plain", "sm"} : ListOK(s, t, fn) => ListOK(s2, t, fn)
           /\ \A fn \in {"plain", "sm"} : Mine(w, t) /\ s.enabled /\ ListOK(s, t, fn) =>
                 Lists(s, t) /\ ~Lists(s2, t) /\ ListOK(s2, t, fn) /\ w.fn = fn
<1> DEFINE n == Len(s.works)
           w == Head(s.works)
<1>1. s.works \in Seq(Works)
  BY FieldTypes
<1>2. n \in Nat \ {0} /\ DOMAIN s.works = 1 .. n
  BY <1>1, LenProperties, EmptySeq
<1>3. /\ s2.works \in Seq(Works) /\ Len(s2.works) = n - 1 /\ w \in Works
      /\ \A i \in 1 .. Len(s2.works) : s2.works[i] = s.works[i + 1]
  BY <1>1, HeadTailProperties
<1>4. DOMAIN s2.works = 1 .. (n - 1)
  BY <1>3, LenProperties
<1>5. w = s.works[1]
  BY <1>1
<1>6. \A i \in DOMAIN s2.works : i + 1 \in DOMAIN s.works /\ s2.works[i] = s.works[i + 1]
  BY <1>2, <1>3, <1>4
<1>7. \A i \in DOMAIN s.works : i # 1 => i - 1 \in DOMAIN s2.works /\ s2.works[i - 1] = s.works[i]
  BY <1>2, <1>3, <1>4
<1>8. 1 \in DOMAIN s.works /\ \A i \in DOMAIN s2.works : i \in Int /\ i + 1 # 1
  BY <1>2, <1>4
<1> HIDE DEF n, w
<1>9. \A fn \in {"plain", "sm"} : ListOK(s, t, fn) => ListOK(s2, t, fn)
  <2> SUFFICES ASSUME NEW fn \in {"plain", "sm"}, ListOK(s, t, fn), s2.enabled
               PROVE  /\ \A i, j \in DOMAIN s2.works :
                            Mine(s2.works[i], t) /\ Mine(s2.works[j], t) => i = j
                      /\ \A i \in DOMAIN s2.works : Mine(s2.works[i], t) => s2.works[i].fn = fn
    BY DEF ListOK
  <2>1. \A i, j \in DOMAIN s2.works : Mine(s2.works[i], t) /\ Mine(s2.works[j], t) => i = j
    <3> SUFFICES ASSUME NEW i \in DOMAIN s2.works, NEW j \in DOMAIN s2.works,
                        Mine(s2.works[i], t), Mine(s2.works[j], t)
                 PROVE  i = j
      OBVIOUS
    <3>1. i + 1 = j + 1
      BY <1>6 DEF ListOK
    <3> QED  BY <1>8, <3>1
  <2>2. \A i \in DOMAIN s2.works : Mine(s2.works[i], t) => s2.works[i].fn = fn
    BY <1>6 DEF ListOK
  <2> QED  BY <2>1, <2>2
<1>10. ~Mine(w, t) => (Lists(s2, t) <=> Lists(s, t))
  <2>1. Lists(s2, t) => Lists(s, t)
    BY <1>6 DEF Lists
  <2>2. ~Mine(w, t) /\ Lists(s, t) => Lists(s2, t)
    BY <1>5, <1>7 DEF Lists
  <2> QED  BY <2>1, <2>2
<1>11. \A fn \in {"plain", "sm"} : Mine(w, t) /\ s.enabled /\ ListOK(s, t, fn) =>
          Lists(s, t) /\ ~Lists(s2, t) /\ w.fn = fn
  <2> SUFFICES ASSUME NEW fn \in {"plain", "sm"}, Mine(w, t), s.enabled, ListOK(s, t, fn)
               PROVE  Lists(s, t) /\ ~Lists(s2, t) /\ w.fn = fn
    OBVIOUS
  <2>1. Lists(s, t) /\ w.fn = fn
    BY <1>5, <1>8 DEF Lists, ListOK
  <2>2. ASSUME NEW i \in DOMAIN s2.works, Mine(s2.works[i], t)
        PROVE  FALSE
    <3>1. i + 1 = 1
      BY <1>5, <1>6, <1>8, <2>2 DEF ListOK
    <3> QED  BY <1>8, <3>1
  <2> QED  BY <2>1, <2>2 DEF Lists
<1> QED  BY <1>9, <1>10, <1>11 DEF w

LEMMA TakenWorks ==
    ASSUME NEW ws \in Seq(Works), ws # <<>>
    PROVE  /\ Head(ws) \in Works /\ Head(ws) = ws[1] /\ 1 \in DOMAIN ws
           /\ \A i \in DOMAIN Tail(ws) : \E j \in DOMAIN ws : Tail(ws)[i] = ws[j]
<1>1. Len(ws) \in Nat \ {0} /\ DOMAIN ws = 1 .. Len(ws)
  BY LenProperties, EmptySeq
<1>2. /\ Head(ws) \in Works /\ Tail(ws) \in Seq(Works) /\ Len(Tail(ws)) = Len(ws) - 1
      /\ \A i \in 1 .. Len(Tail(ws)) : Tail(ws)[i] = ws[i + 1]
  BY HeadTailProperties
<1>3. DOMAIN Tail(ws) = 1 .. (Len(ws) - 1)
  BY <1>2, LenProperties
<1>4. \A i \in DOMAIN Tail(ws) : i + 1 \in DOMAIN ws /\ Tail(ws)[i] = ws[i + 1]
  BY <1>1, <1>2, <1>3
<1>5. Head(ws) = ws[1] /\ 1 \in DOMAIN ws
  BY <1>1
<1> QED  BY <1>2, <1>4, <1>5
-----------------------------------------------------------------------------
(* The steps of a stopper, as far as the shape of things is concerned. *)

Shape == TaskOK /\ LockOK /\ StopperOK /\ HotOK

(* The functions a stopper's works and its place agree. *)
FnsOK(s) ==
    /\ s.pc \notin BusyPcs => s.curstate = NONE /\ ~s.err
    /\ s.pc = "plain" => s.work.fn = "plain"
    /\ s.pc \in {"loop", "fn", "ack", "set_state"} => s.work.fn = "sm"
    /\ \A i \in DOMAIN s.works : ~s.works[i].done => s.works[i].fn = "plain"

(* What a step of a stopper makes of it. *)
Moves(s, s2) ==
    /\ s2.enabled = s.enabled /\ FnsOK(s2)
    /\ s.pc # "none" /\ ~Quiet(s) /\ (s.pc = "exited" => s2.pc = "exited")
    /\ s.works = <<>> => s2.works = <<>> /\ (s2.pc \in BusyPcs => s.pc \in BusyPcs)
    /\ s.pc \in BusyPcs => /\ s2.awake = s.awake
                           /\ s2.pc = "sleep" \/ (s2.pc \in BusyPcs /\ s2.work = s.work)
    /\ s2.pc \in BusyPcs /\ s2.work.fn = "sm" /\ ~s2.work.done =>
          s.pc \in BusyPcs /\ s2.work = s.work

LEMMA ShapeMove ==
    ASSUME Inv, NEW c \in Cpus, UNCHANGED <<hotplug, mutex, task>>,
           \A t \in Tasks : smdata'[t].active = smdata[t].active,
           \A d \in Cpus : d # c => stopper'[d] = stopper[d],
           Moves(stopper[c], stopper'[c])
    PROVE  /\ LockOK'
           /\ \A t \in Tasks : (Hot(t) <=> Hot(t)')
           /\ online' = online => Shape'
           /\ \A d \in Cpus :
                /\ FnsOK(stopper'[d])
                /\ stopper'[d].enabled = stopper[d].enabled
                /\ \A t \in Tasks : Steps(stopper'[d], t) /\ ~stopper'[d].work.done =>
                      task[t].op = "inactive" /\ task[t].pc = "part" /\ task[t].cpu = d
<1> DEFINE s == stopper[c]
           s2 == stopper'[c]
<1>0. Types /\ TaskOK /\ LockOK /\ StopperOK /\ HotOK
  BY DEF Inv
<1>1. \A t \in Tasks : (Hot(t) <=> Hot(t)') /\ (Holds(t) <=> Holds(t)')
  BY DEF Hot, Holds, Waiting
<1>2. LockOK'
  <2>1. hotplug \in Tasks \cup {NULL}
    BY <1>0 DEF Types
  <2> QED  BY <1>0, <1>1, <2>1 DEF LockOK
<1>3. \A d \in Cpus : FnsOK(stopper[d])
  BY <1>0 DEF StopperOK, FnsOK
<1>4. \A d \in Cpus : FnsOK(stopper'[d]) /\ stopper'[d].enabled = stopper[d].enabled
  BY <1>3 DEF Moves
<1>5. \A d \in Cpus : \A t \in Tasks : Steps(stopper'[d], t) /\ ~stopper'[d].work.done =>
         task[t].op = "inactive" /\ task[t].pc = "part" /\ task[t].cpu = d
  <2> SUFFICES ASSUME NEW d \in Cpus, NEW t \in Tasks, Steps(stopper'[d], t),
                      ~stopper'[d].work.done
               PROVE  Steps(stopper[d], t) /\ ~stopper[d].work.done
    BY <1>0 DEF StopperOK
  <2> QED  BY DEF Moves, Steps
<1>6. ASSUME online' = online
      PROVE  TaskOK' /\ StopperOK' /\ HotOK'
  <2>1. TaskOK'
    BY <1>0, <1>6 DEF TaskOK
  <2>2. \A d \in online' : \/ stopper'[d].enabled
                           \/ \E t \in Tasks : task'[t].pc = "up" /\ smdata'[t].active = {d}
    <3>1. online' = online /\ online \subseteq Cpus /\ task' = task
      BY <1>0, <1>6 DEF Types
    <3>2. \A d \in online : \/ stopper[d].enabled
                            \/ \E t \in Tasks : task[t].pc = "up" /\ smdata[t].active = {d}
      BY <1>0 DEF StopperOK
    <3> QED  BY <1>4, <3>1, <3>2, Zenon
  <2>3. \A d \in Cpus \ online' : \/ Still(stopper'[d])
                                  \/ \E t \in Tasks : Hot(t)' /\ d \in smdata'[t].active
    <3> SUFFICES ASSUME NEW d \in Cpus \ online',
                        ~\E t \in Tasks : Hot(t)' /\ d \in smdata'[t].active
                 PROVE  Still(stopper'[d])
      OBVIOUS
    <3>1. Still(stopper[d])
      BY <1>0, <1>1, <1>6 DEF StopperOK
    <3>2. d # c
      BY <3>1 DEF Still, Moves
    <3> QED  BY <3>1, <3>2
  <2>4. StopperOK'
    BY <1>0, <1>4, <1>5, <1>6, <2>2, <2>3 DEF StopperOK, FnsOK
  <2>5. ASSUME NEW t \in Tasks
        PROVE  /\ task'[t].op = "down" => \E d \in Cpus : DownCpu(t, d)'
               /\ task'[t].op = "up" => IF task'[t].pc = "BUG" THEN smdata'[t].active = {}
                                        ELSE \E d \in Cpus : UpCpu(t, d)'
               /\ task'[t].op = "inactive" => \E d \in Cpus : InactiveCpu(t, d)'
               /\ task'[t].op = "machine" => smdata'[t].active \subseteq online'
               /\ task'[t].op = NULL => smdata'[t].active = {}
    <3>1. \A d \in Cpus : DownCpu(t, d) => DownCpu(t, d)'
      <4>1. \A d \in Cpus : stopper[d].pc = "exited" => stopper'[d].pc = "exited"
        BY DEF Moves
      <4> QED  BY <1>4, <1>6, <4>1 DEF DownCpu
    <3>2. ASSUME NEW d \in Cpus, UpCpu(t, d)
          PROVE  UpCpu(t, d)'
      <4>1. CASE d = c
        BY <1>6, <3>2, <4>1 DEF UpCpu, Moves, Empty
      <4>2. CASE d # c
        BY <1>6, <3>2, <4>2 DEF UpCpu
      <4> QED  BY <4>1, <4>2
    <3>3. ASSUME NEW d \in Cpus, InactiveCpu(t, d)
          PROVE  InactiveCpu(t, d)'
      <4>1. CASE d = c
        <5>1. s.pc # "sleep"
          BY <3>3, <4>1 DEF InactiveCpu, Moves, Quiet
        <5>2. task[t].pc = "part" /\ s.pc \in BusyPcs /\ s.work = Work(t, "sm", FALSE)
          BY <3>3, <4>1, <5>1 DEF InactiveCpu
        <5>3. s2.pc = "sleep" \/ (s2.pc \in BusyPcs /\ s2.work = Work(t, "sm", FALSE))
          BY <5>2 DEF Moves
        <5>4. Empty(s2) /\ ~s2.awake
          BY <3>3, <4>1, <5>2 DEF InactiveCpu, Moves, Empty
        <5> QED  BY <1>6, <3>3, <4>1, <5>2, <5>3, <5>4 DEF InactiveCpu
      <4>2. CASE d # c
        BY <1>6, <3>3, <4>2 DEF InactiveCpu
      <4> QED  BY <4>1, <4>2
    <3> QED  BY <1>0, <1>6, <3>1, <3>2, <3>3 DEF HotOK
  <2>6. HotOK'
    BY <2>5 DEF HotOK
  <2> QED  BY <2>1, <2>4, <2>6
<1> QED  BY <1>1, <1>2, <1>4, <1>5, <1>6 DEF Shape

LEMMA Others ==
    ASSUME Inv, Types', NEW c \in Cpus, NEW t \in Tasks,
           task'[t] = task[t], done'[t] = done[t], smdata'[t] = smdata[t], ran'[t] = ran[t],
           online' = online \/ task[t].op \notin {"machine", "try", "down", "inactive"},
           \A d \in Cpus : d # c => stopper'[d] = stopper[d],
           Same(stopper[c], stopper'[c], t)
    PROVE  CallOK(t)'
<1>1. \A d \in Cpus : Same(stopper[d], stopper'[d], t)
  BY SameSelf
<1> QED  BY <1>1, Undisturbed

(* A list of works that a stopper can take from belongs to an enabled one.  *)
LEMMA EnabledList ==
    ASSUME Inv, NEW c \in Cpus, stopper[c].works # <<>>, stopper[c].pc # "none"
    PROVE  stopper[c].enabled
<1>1. CASE \E t \in Tasks : Hot(t) /\ c \in smdata[t].active /\ c \notin online
  <2>1. PICK t \in Tasks : Hot(t) /\ c \in smdata[t].active /\ c \notin online
    BY <1>1
  <2>2. CASE task[t].op = "down"
    BY <2>1, <2>2, HotCpu DEF DownCpu
  <2>3. CASE task[t].op = "up"
    <3>1. task[t].pc # "BUG"
      BY <2>1, <2>3, HotCpu
    <3> QED  BY <2>1, <2>3, <3>1, HotCpu DEF UpCpu, Empty
  <2>4. CASE task[t].op = "inactive"
    BY <2>1, <2>4, HotCpu DEF InactiveCpu, Empty
  <2> QED  BY <2>1, <2>2, <2>3, <2>4 DEF Hot
<1>2. CASE c \in online
  <2>1. ASSUME NEW t \in Tasks, task[t].pc = "up", smdata[t].active = {c}
        PROVE  FALSE
    BY <2>1, Places, HotCpu DEF UpCpu, Empty
  <2> QED  BY <1>2, <2>1 DEF Inv, StopperOK
<1> QED  BY <1>1, <1>2 DEF Inv, StopperOK, Still

(* A call some CPU still has a work of is waiting. *)
LEMMA OpenWaits ==
    ASSUME Inv, NEW t \in Tasks, NEW c \in Cpus,
           c \in task[t].todo \/ Lists(stopper[c], t) \/ Runs(stopper[c], t)
    PROVE  Waiting(t) /\ c \in Open(t) /\ done[t].nr_todo > 0 /\ task[t].pc # "mutex"
<1>1. c \in Open(t) /\ Open(t) \in SUBSET Cpus
  BY DEF Open
<1>2. Cardinality(Open(t)) \in Nat /\ Cardinality(Open(t)) # 0
  BY <1>1, Sizes
<1>3. OpenOK(t)
  BY DEF Inv, CallOK
<1>4. done[t].nr_todo > 0
  BY <1>2, <1>3 DEF OpenOK
<1>5. Waiting(t)
  BY <1>3, <1>4 DEF OpenOK, NoDone
<1> QED  BY <1>1, <1>4, <1>5 DEF Waiting

(* One that steps through the states is in a call of stop_machine().        *)
LEMMA StepsWaits ==
    ASSUME Inv, NEW t \in Tasks, NEW c \in Cpus, Steps(stopper[c], t)
    PROVE  Machine(t) /\ StateOK(t) /\ c \in Part(t)
<1>0. Types /\ CallOK(t) /\ stopper[c].work \in Works
  BY DEF Inv, Types, Steps
<1>1. CASE stopper[c].work.done
  <2>1. Runs(stopper[c], t)
    BY <1>1 DEF Runs, Steps, Mine
  <2>2. Waiting(t)
    BY <2>1, OpenWaits
  <2>3. FnOf(task[t].op) = "sm"
    BY <1>0, <2>1 DEF CallOK, OpenOK, Steps
  <2>4. task[t].op \in {"machine", "down", "inactive"}
    BY <2>2, <2>3, Places DEF FnOf, Waiting, PcOK
  <2> QED  BY <1>0, <2>2, <2>4 DEF Machine, CallOK, MachineOK, StateOK
<1>2. CASE ~stopper[c].work.done
  <2>1. task[t].op = "inactive" /\ task[t].pc = "part"
    BY <1>2 DEF Inv, StopperOK
  <2> QED  BY <1>0, <2>1 DEF Machine, Waiting, CallOK, MachineOK, StateOK
<1> QED  BY <1>1, <1>2

-----------------------------------------------------------------------------
(* A stopper that executes nothing. *)

LEMMA IdleMove ==
    ASSUME Inv, Types', NEW c \in Cpus, NEW p, NEW b,
           p \notin BusyPcs, stopper[c].pc \notin BusyPcs,
           stopper[c].pc \notin {"none", "exited"}, ~Quiet(stopper[c]),
           stopper' = [stopper EXCEPT ![c].pc = p, ![c].awake = b],
           UNCHANGED <<online, hotplug, mutex, task, done, smdata, ran>>
    PROVE  Inv'
<1> DEFINE s == stopper[c]
           s2 == stopper'[c]
<1>0. Types /\ stopper \in [Cpus -> Stoppers] /\ s \in Stoppers
  BY DEF Inv, Types
<1>1. /\ s2.enabled = s.enabled /\ s2.works = s.works /\ s2.pc = p
      /\ s2.curstate = s.curstate /\ s2.err = s.err
  BY <1>0 DEF Stoppers
<1>2. \A d \in Cpus : d # c => stopper'[d] = stopper[d]
  BY <1>0
<1>3. p \notin {"plain", "loop", "fn", "ack", "set_state"}
  BY DEF BusyPcs
<1>4. FnsOK(s2)
  <2>1. FnsOK(s)
    BY DEF FnsOK, Inv, StopperOK
  <2> QED  BY <1>1, <1>3, <2>1 DEF FnsOK
<1>5. Moves(s, s2)
  BY <1>1, <1>4 DEF Moves
<1>6. Shape'
  BY <1>2, <1>5, ShapeMove
<1>7. ASSUME NEW t \in Tasks
      PROVE  CallOK(t)'
  <2>1. Same(s, s2, t)
    BY <1>1, SameList DEF Runs, Steps
  <2> QED  BY <1>2, <2>1, Others
<1> QED  BY <1>6, <1>7 DEF Inv, Shape

LEMMA IdleSteps ==
    ASSUME Inv, Types', NEW c \in Cpus,
           Repeat(c) \/ kthread_should_stop(c) \/ (NextWork(c) /\ stopper[c].works = <<>>)
    PROVE  Inv'
<1>0. stopper \in [Cpus -> Stoppers]
  BY DEF Inv, Types
<1>1. CASE Repeat(c)
  <2>1. /\ stopper' = [stopper EXCEPT ![c].pc = "test", ![c].awake = FALSE]
        /\ UNCHANGED <<online, hotplug, mutex, task, done, smdata, ran>>
    BY <1>1 DEF Repeat
  <2>2. /\ stopper[c].pc \notin BusyPcs /\ stopper[c].pc \notin {"none", "exited"}
        /\ ~Quiet(stopper[c]) /\ "test" \notin BusyPcs
    BY <1>1 DEF Repeat, Quiet, BusyPcs
  <2> QED  BY <2>1, <2>2, IdleMove, Zenon
<1>2. CASE kthread_should_stop(c)
  <2>1. PICK p \in {"exited", "next"} : stopper' = [stopper EXCEPT ![c].pc = p]
    BY <1>2 DEF kthread_should_stop, SGoto
  <2>2. stopper' = [stopper EXCEPT ![c].pc = p, ![c].awake = stopper[c].awake]
    BY <1>0, <2>1 DEF Stoppers
  <2> QED  BY <1>2, <2>2, IdleMove DEF kthread_should_stop, Quiet, BusyPcs
<1>3. CASE NextWork(c) /\ stopper[c].works = <<>>
  <2>1. stopper' = [stopper EXCEPT ![c].pc = "sleep"]
    BY <1>3 DEF NextWork, SGoto
  <2>2. stopper' = [stopper EXCEPT ![c].pc = "sleep", ![c].awake = stopper[c].awake]
    BY <1>0, <2>1 DEF Stoppers
  <2>3. /\ stopper[c].pc \notin BusyPcs /\ stopper[c].pc \notin {"none", "exited"}
        /\ ~Quiet(stopper[c]) /\ "sleep" \notin BusyPcs
    BY <1>3 DEF NextWork, Quiet, BusyPcs
  <2>4. UNCHANGED <<online, hotplug, mutex, task, done, smdata, ran>>
    BY <1>3 DEF NextWork
  <2> QED  BY <2>2, <2>3, <2>4, IdleMove, Zenon
<1> QED  BY <1>1, <1>2, <1>3
-----------------------------------------------------------------------------
(* A stopper takes a work. *)

LEMMA TakeEffect ==
    ASSUME Inv, NEW c \in Cpus, NextWork(c), stopper[c].works # <<>>
    PROVE  LET s == stopper[c]
               s2 == stopper'[c]
               w == Head(s.works)
           IN  /\ s.enabled /\ s2.enabled = s.enabled /\ s2.works = Tail(s.works) /\ s2.work = w
               /\ s2.pc = (IF w.fn = "sm" THEN "loop" ELSE "plain")
               /\ s2.curstate = NONE /\ ~s2.err /\ s2.err = s.err /\ s2.curstate = s.curstate
               /\ s.pc = "next" /\ s.pc \notin BusyPcs /\ s2.pc \in BusyPcs
               /\ \A d \in Cpus : d # c => stopper'[d] = stopper[d]
               /\ UNCHANGED <<online, hotplug, mutex, task, done, smdata, ran>>
               /\ w \in Works /\ (~w.done => w.fn = "plain")
               /\ \A i \in DOMAIN s2.works : ~s2.works[i].done => s2.works[i].fn = "plain"
<1> DEFINE s == stopper[c]
           s2 == stopper'[c]
           w == Head(s.works)
           p == IF w.fn = "sm" THEN "loop" ELSE "plain"
<1>0. stopper \in [Cpus -> Stoppers] /\ s \in Stoppers
  BY DEF Inv, Types
<1>1. /\ stopper' = [stopper EXCEPT ![c].works = Tail(s.works), ![c].awake = TRUE,
                      ![c].work = w, ![c].pc = p]
      /\ s.pc = "next"
      /\ UNCHANGED <<online, hotplug, mutex, task, done, smdata, ran>>
  BY DEF NextWork
<1>2. FnsOK(s) /\ s.pc \notin BusyPcs
  BY <1>1 DEF Inv, StopperOK, FnsOK, BusyPcs
<1>3. s.curstate = NONE /\ ~s.err
  BY <1>2 DEF FnsOK
<1>4. s.enabled
  BY <1>1, EnabledList
<1>5. p \in BusyPcs
  BY DEF BusyPcs
<1> HIDE DEF p, w
<1>6. /\ s2.enabled = s.enabled /\ s2.works = Tail(s.works) /\ s2.work = w /\ s2.pc = p
      /\ s2.curstate = s.curstate /\ s2.err = s.err
      /\ \A d \in Cpus : d # c => stopper'[d] = stopper[d]
  BY <1>0, <1>1 DEF Stoppers
<1>7. /\ w \in Works
      /\ w = s.works[1] /\ 1 \in DOMAIN s.works
      /\ \A i \in DOMAIN s2.works : \E j \in DOMAIN s.works : s2.works[i] = s.works[j]
  <2>1. s.works \in Seq(Works) /\ s.works # <<>>
    BY <1>0, FieldTypes
  <2>2. s2.works = Tail(s.works)
    BY <1>6
  <2> QED  BY <2>1, <2>2, TakenWorks DEF w
<1>8. ~w.done => w.fn = "plain"
  BY <1>2, <1>7 DEF FnsOK
<1>9. \A i \in DOMAIN s2.works : ~s2.works[i].done => s2.works[i].fn = "plain"
  BY <1>2, <1>7 DEF FnsOK
<1> QED  BY <1>1, <1>2, <1>3, <1>4, <1>5, <1>6, <1>7, <1>8, <1>9 DEF p, w

LEMMA TakeShape ==
    ASSUME Inv, NEW c \in Cpus, NextWork(c), stopper[c].works # <<>>
    PROVE  Shape'
<1> DEFINE s == stopper[c]
           s2 == stopper'[c]
           w == Head(s.works)
<1>1. FnsOK(s2)
  <2>1. \/ s2.pc = "loop" /\ s2.work.fn = "sm"
        \/ s2.pc = "plain" /\ s2.work.fn = "plain"
    <3>1. w \in Works /\ s2.work = w /\ s2.pc = (IF w.fn = "sm" THEN "loop" ELSE "plain")
      BY TakeEffect
    <3>2. w.fn \in {"plain", "sm"}
      BY <3>1 DEF Works
    <3> QED  BY <3>1, <3>2
  <2>2. s2.pc \in BusyPcs
      /\ \A i \in DOMAIN s2.works : ~s2.works[i].done => s2.works[i].fn = "plain"
    BY TakeEffect
  <2> QED  BY <2>1, <2>2 DEF FnsOK
<1>3. Moves(s, s2)
  BY <1>1, TakeEffect DEF Moves, Quiet
<1> QED  BY <1>3, TakeEffect, ShapeMove

(* For the call whose work it is. *)
LEMMA TakeMine ==
    ASSUME Inv, Types', NEW c \in Cpus, NextWork(c), stopper[c].works # <<>>,
           NEW t \in Tasks, Mine(Head(stopper[c].works), t)
    PROVE  CallOK(t)'
<1> DEFINE s == stopper[c]
           s2 == stopper'[c]
           w == Head(s.works)
           fn == FnOf(task[t].op)
<1>0. Types /\ CallOK(t) /\ s \in Stoppers
  BY DEF Inv, Types
<1>1. fn \in {"plain", "sm"} /\ ListOK(s, t, fn)
  BY <1>0 DEF FnOf, CallOK, OpenOK
<1>2. Lists(s, t) /\ ~Lists(s2, t) /\ ListOK(s2, t, fn) /\ w.fn = fn
  <2>1. s2.works = Tail(s.works) /\ s2.enabled = s.enabled /\ s.enabled
    BY TakeEffect
  <2> HIDE DEF fn
  <2> QED  BY <1>0, <1>1, <2>1, Taking
<1>3. /\ Runs(s2, t) /\ ~Runs(s, t) /\ ~Steps(s, t)
      /\ Steps(s2, t) <=> fn = "sm"
  BY <1>2, TakeEffect DEF Runs, Steps, Mine
<1>4. \A d \in Cpus : d # c => stopper'[d] = stopper[d]
  BY TakeEffect
<1>5. UNCHANGED <<online, hotplug, mutex, task, done, smdata, ran>>
  BY TakeEffect
<1>6. Waiting(t) /\ c \in Open(t) /\ task[t].pc # "mutex" /\ c \notin task[t].todo
  BY <1>0, <1>2, OpenWaits DEF CallOK, OpenOK
<1>7. Open(t)' = Open(t)
  BY <1>2, <1>3, <1>4, <1>5 DEF Open
<1>8. (Waiting(t)' <=> Waiting(t)) /\ (Machine(t)' <=> Machine(t)) /\ Part(t)' = Part(t)
  BY <1>5 DEF Waiting, Machine, Part
<1>9. s2.pc = (IF fn = "sm" THEN "loop" ELSE "plain") /\ s2.curstate = 0 /\ s.curstate = 0
      /\ s2.work = w /\ ~s2.err
  BY <1>2, TakeEffect DEF NONE
<1>10. OpenOK(t)'
  <2>1. \A d \in Cpus : /\ Lists(stopper'[d], t) => ~Runs(stopper'[d], t)
                        /\ Runs(stopper'[d], t) => stopper'[d].work.fn = fn
                        /\ ListOK(stopper'[d], t, fn)
    BY <1>0, <1>2, <1>4, <1>9 DEF CallOK, OpenOK
  <2>2. \A d \in task[t].todo : ~Lists(stopper'[d], t) /\ ~Runs(stopper'[d], t)
    BY <1>0, <1>4, <1>6 DEF CallOK, OpenOK, Types, Frames
  <2>3. task'[t] = task[t] /\ done'[t] = done[t]
    BY <1>5
  <2> HIDE DEF fn
  <2>4. fn = FnOf(task'[t].op)
    BY <1>5 DEF fn
  <2> QED  BY <1>0, <1>5, <1>7, <1>8, <2>1, <2>2, <2>3, <2>4 DEF CallOK, OpenOK
<1>11. ASSUME Machine(t)
       PROVE  /\ StateOK(t)' /\ Ran(t)' = Ran(t) /\ (Failed(t)' <=> Failed(t))
  <2>1. fn = "sm" /\ Steps(s2, t) /\ s2.pc = "loop"
    BY <1>3, <1>9, <1>11 DEF Machine, FnOf
  <2>2. StateOK(t) /\ c \in Part(t) /\ Part(t) \subseteq Cpus
    BY <1>0, <1>6, <1>11 DEF CallOK, MachineOK, OpenOK, Types, Datas, Part
  <2>3. Pending(c, t) /\ smdata[t].state = 1
    BY <1>2, <2>2 DEF Pending, StateOK, PREPARE
  <2>4. ~(task[t].op = "inactive" /\ c = task[t].cpu)
    BY HotCpu, TakeEffect DEF InactiveCpu, Empty
  <2>5. ~Pending(c, t)'
    BY <1>2, <1>5, <1>6, <2>4 DEF Pending
  <2>6. \A d \in Cpus : d # c => (Pending(d, t)' <=> Pending(d, t))
    BY <1>4, <1>5 DEF Pending
  <2>7. Lag(t)' = Lag(t)
    <3>1. \A d \in Part(t) : d \in Lag(t)' <=> d \in Lag(t)
      <4> SUFFICES ASSUME NEW d \in Part(t)
                   PROVE  d \in Lag(t)' <=> d \in Lag(t)
        OBVIOUS
      <4>1. CASE d = c
        BY <1>5, <1>8, <1>9, <2>1, <2>2, <2>3, <4>1 DEF Lag, Behind
      <4>2. CASE d # c
        BY <1>4, <1>5, <1>8, <2>2, <2>6, <4>2 DEF Lag
      <4> QED  BY <4>1, <4>2
    <3> QED  BY <1>8, <3>1 DEF Lag
  <2>8. At(s2, smdata[t].state)
    BY <1>9, <2>1, <2>3 DEF At, BusyPcs, EXIT
  <2>9. StateOK(t)'
    <3>1. smdata'[t] = smdata[t] /\ task'[t] = task[t]
      BY <1>5
    <3>2. \A d \in Part(t) : Pending(d, t)' => ~Steps(stopper'[d], t) /\ smdata[t].state = PREPARE
      BY <1>4, <2>2, <2>5, <2>6 DEF StateOK
    <3>3. \A d \in Part(t) : smdata[t].state <= RUN => Pending(d, t)' \/ Steps(stopper'[d], t)
      BY <1>4, <2>1, <2>2, <2>6 DEF StateOK
    <3>4. \A d \in Cpus : Steps(stopper'[d], t) =>
             /\ d \in Part(t) /\ At(stopper'[d], smdata[t].state)
             /\ stopper'[d].pc = "fn" => d \in smdata[t].active
             /\ stopper'[d].pc = "set_state" => Lag(t) = {}
      BY <1>4, <2>1, <2>2, <2>8 DEF StateOK
    <3>5. \A d \in Cpus : stopper'[d].pc = "set_state" => d # c
      BY <2>1
    <3>6. \A d, e \in Cpus :
             /\ Steps(stopper'[d], t) /\ stopper'[d].pc = "set_state"
             /\ Steps(stopper'[e], t) /\ stopper'[e].pc = "set_state"
             => d = e
      BY <1>4, <2>2, <3>5 DEF StateOK
    <3>7. Part(t)' = Part(t)
      BY <1>8
    <3> QED  BY <2>2, <2>7, <3>1, <3>2, <3>3, <3>4, <3>6, <3>7 DEF StateOK
  <2>10. \A d \in Cpus : HasRun(stopper'[d], t, 1) <=> HasRun(stopper[d], t, 1)
    BY DEF HasRun, RUN, EXIT
  <2>11. Ran(t)' = Ran(t)
    BY <1>5, <2>2, <2>3, <2>10 DEF Ran, Part
  <2>12. Failed(t)' <=> Failed(t)
    BY <1>3, <1>4, <1>5, <1>9 DEF Failed
  <2> QED  BY <2>9, <2>11, <2>12
<1>12. MachineOK(t)'
  BY <1>0, <1>5, <1>6, <1>8, <1>11 DEF CallOK, MachineOK
<1>13. RanOK(t)'
  <2>1. task[t].op = "try" => NotRun(t)' = NotRun(t)
    BY <1>2, <1>3, <1>4, <1>5, <1>9 DEF NotRun, FnOf
  <2>2. \A d \in Cpus : Signals(stopper'[d], t) <=> Signals(stopper[d], t)
    BY <1>3, <1>4, <1>9 DEF Signals
  <2>3. (\E d \in Cpus : Signals(stopper'[d], t)) <=> (\E d \in Cpus : Signals(stopper[d], t))
    BY <2>2
  <2>4. task'[t] = task[t] /\ done'[t] = done[t] /\ ran'[t] = ran[t] /\ online' = online
    BY <1>5
  <2>5. RanOK(t) /\ (Machine(t)' => Machine(t) /\ Ran(t)' = Ran(t))
    BY <1>0, <1>8, <1>11 DEF CallOK
  <2>6. task[t].op = "try" => online' \ NotRun(t)' = online \ NotRun(t)
    BY <2>1, <2>4
  <2> QED  BY <1>7, <2>3, <2>4, <2>5, <2>6, RanKept
<1>14. DownOK(t)'
  BY <1>0, <1>5, <1>8, <1>11 DEF CallOK, DownOK
<1> QED  BY <1>10, <1>12, <1>13, <1>14 DEF CallOK

LEMMA TakeStep ==
    ASSUME Inv, Types', NEW c \in Cpus, NextWork(c), stopper[c].works # <<>>
    PROVE  Inv'
<1> DEFINE s == stopper[c]
           s2 == stopper'[c]
           w == Head(s.works)
<1>1. ASSUME NEW t \in Tasks, ~Mine(w, t)
      PROVE  CallOK(t)'
  <2>0. s \in Stoppers
    BY DEF Inv, Types
  <2>1. /\ Lists(s2, t) <=> Lists(s, t)
        /\ \A fn \in {"plain", "sm"} : ListOK(s, t, fn) => ListOK(s2, t, fn)
    BY <1>1, <2>0, Taking, TakeEffect
  <2>2. ~Runs(s, t) /\ ~Steps(s, t) /\ ~Runs(s2, t) /\ ~Steps(s2, t)
    BY <1>1, TakeEffect DEF Runs, Steps, Mine
  <2>3. Same(s, s2, t)
    BY <2>1, <2>2 DEF Same
  <2> QED  BY <2>3, TakeEffect, Others
<1> QED  BY <1>1, TakeMine, TakeShape DEF Inv, Shape
-----------------------------------------------------------------------------
(* A stopper that executes a function. *)

(* It goes on with its work at another place. *)
GoesOn(s, s2, p, k, e) ==
    /\ s2.enabled = s.enabled /\ s2.works = s.works /\ s2.awake = s.awake
    /\ s2.work = s.work /\ s2.pc = p /\ s2.curstate = k /\ s2.err = e

LEMMA GoesOnShape ==
    ASSUME Inv, NEW c \in Cpus, NEW p \in BusyPcs, NEW k, NEW e,
           stopper[c].pc \in BusyPcs, GoesOn(stopper[c], stopper'[c], p, k, e),
           p = "plain" => stopper[c].work.fn = "plain",
           p \in {"loop", "fn", "ack", "set_state"} => stopper[c].work.fn = "sm"
    PROVE  /\ Moves(stopper[c], stopper'[c])
           /\ \A t : /\ Lists(stopper'[c], t) <=> Lists(stopper[c], t)
                     /\ Runs(stopper'[c], t) <=> Runs(stopper[c], t)
                     /\ Steps(stopper'[c], t) <=> Steps(stopper[c], t)
                     /\ \A fn : ListOK(stopper[c], t, fn) <=> ListOK(stopper'[c], t, fn)
<1> DEFINE s == stopper[c]
           s2 == stopper'[c]
<1>1. FnsOK(s)
  BY DEF Inv, StopperOK, FnsOK
<1>2. FnsOK(s2)
  BY <1>1 DEF FnsOK, GoesOn
<1>3. s.pc \notin {"none", "exited"} /\ ~Quiet(s)
  BY DEF Quiet, BusyPcs
<1>4. Moves(s, s2)
  BY <1>2, <1>3 DEF Moves, GoesOn
<1> QED  BY <1>4 DEF GoesOn, Lists, Runs, Steps, ListOK

(* Other calls do not notice. *)
LEMMA GoesOnOthers ==
    ASSUME Inv, Types', NEW c \in Cpus, NEW p \in BusyPcs, NEW k, NEW e,
           stopper[c].pc \in BusyPcs, GoesOn(stopper[c], stopper'[c], p, k, e),
           \A d \in Cpus : d # c => stopper'[d] = stopper[d],
           NEW t \in Tasks,
           stopper[c].work.by # t \/ (~stopper[c].work.done /\ stopper[c].work.fn = "plain"),
           task'[t] = task[t], done'[t] = done[t], smdata'[t] = smdata[t], ran'[t] = ran[t],
           online' = online \/ task[t].op \notin {"machine", "try", "down", "inactive"}
    PROVE  CallOK(t)'
<1>1. Same(stopper[c], stopper'[c], t)
  BY SameList DEF GoesOn, Runs, Steps, Mine
<1> QED  BY <1>1, Others

(* A call whose work goes on waits for the same CPUs. *)
LEMMA GoesOnOpen ==
    ASSUME Inv, Types', NEW c \in Cpus, NEW p \in BusyPcs, NEW k, NEW e,
           stopper[c].pc \in BusyPcs, GoesOn(stopper[c], stopper'[c], p, k, e),
           \A d \in Cpus : d # c => stopper'[d] = stopper[d],
           NEW t \in Tasks, task' = task, done' = done, Part(t)' = Part(t),
           online' = online \/ task[t].op # "try"
    PROVE  /\ Open(t)' = Open(t) /\ OpenOK(t)'
           /\ Waiting(t)' <=> Waiting(t)
           /\ Machine(t)' <=> Machine(t)
           /\ \A d \in Cpus : Pending(d, t)' <=> Pending(d, t)
           /\ \A d \in Cpus : Steps(stopper'[d], t) <=> Steps(stopper[d], t)
<1>0. CallOK(t) /\ Types
  BY DEF Inv
<1>1. \A d \in Cpus : /\ Lists(stopper'[d], t) <=> Lists(stopper[d], t)
                      /\ Runs(stopper'[d], t) <=> Runs(stopper[d], t)
                      /\ Steps(stopper'[d], t) <=> Steps(stopper[d], t)
                      /\ \A fn : ListOK(stopper[d], t, fn) <=> ListOK(stopper'[d], t, fn)
                      /\ stopper'[d].work = stopper[d].work
  BY DEF GoesOn, Lists, Runs, Steps, ListOK
<1>2. Open(t)' = Open(t)
  BY <1>1 DEF Open
<1>3. (Waiting(t)' <=> Waiting(t)) /\ (Machine(t)' <=> Machine(t))
  BY DEF Waiting, Machine
<1>4. \A d \in Cpus : Pending(d, t)' <=> Pending(d, t)
  BY <1>1 DEF Pending
<1>5. task[t].todo \subseteq Cpus
  BY <1>0 DEF Types, Frames
<1>6. OpenOK(t)'
  BY <1>0, <1>1, <1>2, <1>3, <1>5 DEF CallOK, OpenOK
<1> QED  BY <1>1, <1>2, <1>3, <1>4, <1>6

-----------------------------------------------------------------------------
(* A function that waits for nobody. *)

LEMMA PlainStep ==
    ASSUME Inv, Types', NEW c \in Cpus, PlainFn(c)
    PROVE  Inv'
<1> DEFINE s == stopper[c]
           s2 == stopper'[c]
<1>9. /\ Types /\ stopper \in [Cpus -> Stoppers] /\ s.pc = "plain" /\ s.pc \in BusyPcs
      /\ s.work.fn = "plain" /\ s.work \in Works
  BY DEF Inv, Types, PlainFn, StopperOK, BusyPcs
<1>10. PICK t \in Tasks : t = s.work.by
  BY <1>9 DEF Works
<1>0. /\ Types /\ stopper \in [Cpus -> Stoppers] /\ s.pc = "plain" /\ s.pc \in BusyPcs
      /\ s.work.fn = "plain" /\ s.work \in Works /\ t \in Tasks /\ s.work.by = t
  BY <1>9, <1>10
<1>1. GoesOn(s, s2, "signal", s.curstate, s.err) /\ "signal" \in BusyPcs
  BY <1>0 DEF PlainFn, SGoto, GoesOn, Stoppers, BusyPcs
<1>2. \A d \in Cpus : d # c => stopper'[d] = stopper[d]
  BY <1>0 DEF PlainFn, SGoto
<1>3. UNCHANGED <<online, hotplug, mutex, task, done, smdata>>
  BY DEF PlainFn
<1>4. Shape'
  BY <1>0, <1>1, <1>2, <1>3, GoesOnShape, ShapeMove
<1>5. \A u \in Tasks : u # t \/ ~s.work.done => ran'[u] = ran[u]
  BY <1>0 DEF PlainFn, Types
<1>6. ASSUME NEW u \in Tasks, u # t \/ ~s.work.done
      PROVE  CallOK(u)'
  BY <1>0, <1>1, <1>2, <1>3, <1>5, <1>6, GoesOnOthers
<1>7. ASSUME s.work.done
      PROVE  CallOK(t)'
  <2>0. ran' = [ran EXCEPT ![t][c] = @ + 1] /\ CallOK(t)
    BY <1>0, <1>7 DEF PlainFn, Inv
  <2>1. Runs(s, t) /\ ~Steps(s, t)
    BY <1>0, <1>7 DEF Runs, Steps, Mine
  <2>2. Waiting(t) /\ c \in Open(t) /\ task[t].pc # "mutex"
    BY <1>0, <2>1, OpenWaits
  <2>3. FnOf(task[t].op) = "plain"
    BY <1>0, <2>0, <2>1 DEF CallOK, OpenOK
  <2>4. task[t].op \in {"one", "try"}
    BY <2>3 DEF FnOf
  <2>5. Part(t)' = Part(t)
    BY <1>3 DEF Part
  <2>6. Open(t)' = Open(t) /\ OpenOK(t)' /\ ~Machine(t)' /\ ~Machine(t)
    BY <1>0, <1>1, <1>2, <1>3, <2>4, <2>5, GoesOnOpen DEF Machine
  <2>7. MachineOK(t)'
    BY <1>3, <2>0, <2>2, <2>6 DEF CallOK, MachineOK
  <2>8. DownOK(t)'
    BY <2>6 DEF DownOK
  <2>9. ASSUME task[t].op = "try"
        PROVE  RanOK(t)'
    <3>1. c \in NotRun(t) /\ NotRun(t) \in SUBSET Cpus
      BY <1>0, <2>1 DEF NotRun
    <3>2. /\ c \notin task[t].todo /\ ~Lists(s, t) /\ ~Lists(s2, t) /\ s2.pc = "signal"
      BY <1>0, <1>1, <2>0, <2>1 DEF CallOK, OpenOK, GoesOn, Lists
    <3>3. NotRun(t)' = NotRun(t) \ {c}
      BY <1>2, <1>3, <3>2 DEF NotRun
    <3>4. ran[t] = OnceOn(online \ NotRun(t)) /\ c \in online
      BY <2>0, <2>2, <2>9 DEF CallOK, OpenOK, RanOK
    <3>5. ran'[t] = OnceOn((online \ NotRun(t)) \cup {c})
      BY <1>0, <2>0, <3>1, <3>4, OnceMore
    <3>6. (online \ NotRun(t)) \cup {c} = online' \ NotRun(t)'
      BY <1>3, <3>3, <3>4
    <3> QED  BY <1>3, <2>6, <2>9, <3>5, <3>6 DEF RanOK
  <2>10. ASSUME task[t].op = "one"
         PROVE  RanOK(t)'
    <3>1. \A d \in Open(t) : d = c
      BY <2>0, <2>2, <2>10 DEF CallOK, RanOK
    <3>2. \A d \in Cpus : Signals(stopper[d], t) => d \in Open(t)
      BY DEF Signals, Open
    <3>3. ~\E d \in Cpus : Signals(stopper[d], t)
      BY <1>0, <3>1, <3>2 DEF Signals
    <3>4. ran[t] = OnceOn({}) /\ ~done[t].executed
      BY <2>0, <2>2, <2>10, <3>3 DEF CallOK, RanOK
    <3>5. Signals(s2, t)
      BY <1>0, <1>1, <1>7 DEF Signals, Runs, GoesOn, Mine
    <3>6. \E d \in Cpus : Signals(stopper'[d], t)
      BY <3>5
    <3>7. ran'[t] = OnceOn({c})
      <4>1. PICK S : S = {}
        OBVIOUS
      <4>2. ran'[t] = OnceOn(S \cup {c})
        BY <1>0, <2>0, <3>4, <4>1, OnceMore
      <4>3. S \cup {c} = {c}
        BY <4>1
      <4> QED  BY <4>2, <4>3
    <3>8. (\A d, e \in Open(t)' : d = e) /\ ~done'[t].executed /\ task'[t].op = "one"
      BY <1>3, <2>6, <2>10, <3>1, <3>4
    <3> QED  BY <2>6, <3>6, <3>7, <3>8 DEF RanOK
  <2> QED  BY <2>4, <2>6, <2>7, <2>8, <2>9, <2>10 DEF CallOK
<1>8. \A u \in Tasks : CallOK(u)'
  BY <1>6, <1>7
<1> QED  BY <1>4, <1>8 DEF Inv, Shape
-----------------------------------------------------------------------------
(* The loop of stop_machine_cpu_stop(). *)

LEMMA LoopFacts ==
    ASSUME Inv, NEW c \in Cpus, stopper[c].pc \in {"loop", "fn", "ack", "set_state"}
    PROVE  /\ stopper[c].pc \in BusyPcs /\ stopper[c].work.fn = "sm"
           /\ \E t \in Tasks : /\ t = stopper[c].work.by /\ Steps(stopper[c], t) /\ CallOK(t)
                               /\ Machine(t) /\ StateOK(t) /\ c \in Part(t)
                               /\ Part(t) \in SUBSET Cpus
                               /\ smdata[t].state \in Int /\ smdata[t].active \in SUBSET Cpus
                               /\ At(stopper[c], smdata[t].state)
<1>1. stopper[c].pc \in BusyPcs /\ stopper[c].work.fn = "sm"
  BY DEF BusyPcs, Inv, StopperOK
<1>2. PICK t \in Tasks : t = stopper[c].work.by
  BY <1>1 DEF Inv, Types, Works
<1>3. Steps(stopper[c], t)
  BY <1>1, <1>2 DEF Steps
<1>4. Machine(t) /\ StateOK(t) /\ c \in Part(t)
  BY <1>3, StepsWaits
<1>5. smdata[t].state \in Int /\ smdata[t].active \in SUBSET Cpus /\ Part(t) \in SUBSET Cpus
  BY DEF Inv, Types, Datas, Part
<1>6. At(stopper[c], smdata[t].state)
  BY <1>3, <1>4 DEF StateOK
<1> QED  BY <1>1, <1>2, <1>3, <1>4, <1>5, <1>6 DEF Inv

LEMMA LoopMove ==
    ASSUME Inv, Types', NEW c \in Cpus, NEW p \in BusyPcs, NEW k, NEW e,
           stopper[c].pc \in BusyPcs, GoesOn(stopper[c], stopper'[c], p, k, e),
           \A d \in Cpus : d # c => stopper'[d] = stopper[d],
           NEW t \in Tasks, Steps(stopper[c], t), task' = task, done' = done,
           Part(t)' = Part(t), NEW state \in PREPARE .. EXIT + 1,
           smdata'[t].state = state, smdata'[t].num = smdata[t].num,
           smdata'[t].active = smdata[t].active,
           smdata'[t].ack = IF state <= EXIT THEN Cardinality(Lag(t)') ELSE smdata[t].num,
           state >= smdata[t].state,
           state = smdata[t].state \/ \A d \in Part(t) : ~Pending(d, t),
           \A d \in Cpus : Steps(stopper[d], t) =>
              /\ At(stopper'[d], state)
              /\ stopper'[d].pc = "fn" => d \in smdata[t].active
              /\ stopper'[d].pc = "set_state" => d = c /\ Lag(t)' = {}
    PROVE  /\ OpenOK(t)' /\ MachineOK(t)' /\ Machine(t)'
<1>1. Machine(t) /\ StateOK(t) /\ c \in Part(t)
  BY StepsWaits
<1>2. /\ OpenOK(t)' /\ Machine(t)'
      /\ \A d \in Cpus : Pending(d, t)' <=> Pending(d, t)
      /\ \A d \in Cpus : Steps(stopper'[d], t) <=> Steps(stopper[d], t)
  BY <1>1, GoesOnOpen DEF Machine
<1>3. Part(t) \subseteq Cpus /\ smdata[t].state \in Int
  BY DEF Inv, Types, Datas, Part
<1>4. smdata'[t].num = Cardinality(Part(t)') /\ task'[t].cpu \in Part(t)'
  BY <1>1 DEF StateOK
<1>5. \A d \in Part(t)' : Pending(d, t)' => state = PREPARE /\ ~Steps(stopper'[d], t)
  BY <1>1, <1>2, <1>3 DEF StateOK
<1>6. state <= RUN => \A d \in Part(t)' : Pending(d, t)' \/ Steps(stopper'[d], t)
  BY <1>1, <1>2, <1>3 DEF StateOK, PREPARE, RUN, EXIT
<1>7. \A d \in Cpus : Steps(stopper'[d], t) =>
         /\ d \in Part(t)' /\ At(stopper'[d], state)
         /\ stopper'[d].pc = "fn" => d \in smdata'[t].active
         /\ stopper'[d].pc = "set_state" => Lag(t)' = {}
  BY <1>1, <1>2 DEF StateOK
<1>8. \A d, f \in Cpus :
         /\ Steps(stopper'[d], t) /\ stopper'[d].pc = "set_state"
         /\ Steps(stopper'[f], t) /\ stopper'[f].pc = "set_state"
         => d = f
  BY <1>2
<1>9. StateOK(t)'
  BY <1>4, <1>5, <1>6, <1>7, <1>8 DEF StateOK
<1>10. MachineOK(t)'
  BY <1>2, <1>9 DEF MachineOK, Machine, Waiting
<1> QED  BY <1>2, <1>10

(* What has been executed, when a step executes nothing. *)
LEMMA LoopRan ==
    ASSUME Inv, NEW t \in Tasks, Machine(t)', task' = task, online' = online,
           ran'[t] = ran[t], Ran(t)' = Ran(t), Failed(t)' <=> Failed(t),
           smdata'[t].active = smdata[t].active
    PROVE  RanOK(t)' /\ DownOK(t)'
<1>1. Machine(t) /\ CallOK(t)
  BY DEF Inv, Machine, Waiting
<1>2. task[t].op \notin {"one", "try"}
  BY <1>1 DEF Machine
<1>3. RanOK(t)'
  BY <1>1, <1>2, RanKept DEF CallOK
<1> QED  BY <1>1, <1>3 DEF CallOK, DownOK

LEMMA NewStateStep ==
    ASSUME Inv, Types', NEW c \in Cpus, NewState(c)
    PROVE  Inv'
<1> DEFINE s == stopper[c]
           s2 == stopper'[c]
<1>1. s.pc = "loop" /\ s.pc \in BusyPcs /\ s.work.fn = "sm" /\ stopper \in [Cpus -> Stoppers]
  BY LoopFacts DEF NewState, Inv, Types
<1>2. PICK t \in Tasks : /\ t = s.work.by /\ Steps(s, t) /\ CallOK(t)
                         /\ Machine(t) /\ StateOK(t) /\ c \in Part(t) /\ Part(t) \in SUBSET Cpus
                         /\ smdata[t].state \in Int /\ smdata[t].active \in SUBSET Cpus
                         /\ At(s, smdata[t].state)
  BY <1>1, LoopFacts
<1> DEFINE p == IF smdata[t].state = RUN /\ c \in smdata[t].active THEN "fn" ELSE "ack"
<1>3. UNCHANGED <<online, hotplug, mutex, task, done, smdata, ran>>
  BY DEF NewState
<1>4. stopper' = [stopper EXCEPT ![c].curstate = smdata[t].state, ![c].pc = p]
  BY <1>2 DEF NewState, RunsFn
<1>5. s.curstate # smdata[t].state
  BY <1>2 DEF NewState
<1>6. s.curstate = smdata[t].state - 1 /\ smdata[t].state <= EXIT
  BY <1>1, <1>2, <1>5 DEF At
<1>7. p \in BusyPcs /\ p \in {"fn", "ack"}
  BY DEF BusyPcs
<1>17. p = "fn" <=> smdata[t].state = RUN /\ c \in smdata[t].active
  OBVIOUS
<1> HIDE DEF p
<1>8. GoesOn(s, s2, p, smdata[t].state, s.err) /\ \A d \in Cpus : d # c => stopper'[d] = stopper[d]
  BY <1>1, <1>4 DEF GoesOn, Stoppers
<1>9. Shape'
  BY <1>1, <1>3, <1>7, <1>8, GoesOnShape, ShapeMove
<1>10. ASSUME NEW u \in Tasks, u # t
       PROVE  CallOK(u)'
  BY <1>1, <1>2, <1>3, <1>7, <1>8, <1>10, GoesOnOthers
<1>11. Part(t)' = Part(t)
  BY <1>3 DEF Part
<1>12. /\ \A d \in Cpus : Pending(d, t)' <=> Pending(d, t)
       /\ \A d \in Cpus : Steps(stopper'[d], t) <=> Steps(stopper[d], t)
       /\ Open(t)' = Open(t)
  BY <1>1, <1>3, <1>7, <1>8, <1>11, GoesOnOpen
<1>13. c \in Lag(t) /\ Lag(t)' = Lag(t)
  <2>1. c \in Lag(t)
    BY <1>2, <1>5 DEF Lag, Behind
  <2>2. c \in Lag(t)'
    BY <1>2, <1>3, <1>7, <1>8, <1>11, <1>12 DEF Lag, Behind, GoesOn
  <2>3. \A d \in Part(t) : d # c => (d \in Lag(t)' <=> d \in Lag(t))
    BY <1>2, <1>3, <1>8, <1>11, <1>12 DEF Lag
  <2> QED  BY <1>11, <2>1, <2>2, <2>3 DEF Lag
<1>14. \A d \in Cpus : Steps(stopper[d], t) =>
              /\ At(stopper'[d], smdata[t].state)
              /\ stopper'[d].pc = "fn" => d \in smdata[t].active
              /\ stopper'[d].pc = "set_state" => d = c /\ Lag(t)' = {}
  <2> SUFFICES ASSUME NEW d \in Cpus, Steps(stopper[d], t)
               PROVE  /\ At(stopper'[d], smdata[t].state)
                      /\ stopper'[d].pc = "fn" => d \in smdata[t].active
                      /\ stopper'[d].pc # "set_state"
    BY <1>13
  <2>1. CASE d # c
    BY <1>2, <1>8, <1>13, <2>1 DEF StateOK
  <2>2. CASE d = c
    BY <1>6, <1>7, <1>8, <1>17, <2>2 DEF GoesOn, At, BusyPcs
  <2> QED  BY <2>1, <2>2
<1>15. OpenOK(t)' /\ MachineOK(t)' /\ Machine(t)'
  <2>1. smdata'[t] = smdata[t] /\ smdata[t].state \in PREPARE .. EXIT + 1
    BY <1>2, <1>3 DEF StateOK
  <2>2. smdata[t].ack = IF smdata[t].state <= EXIT THEN Cardinality(Lag(t)') ELSE smdata[t].num
    BY <1>2, <1>13 DEF StateOK
  <2>3. smdata[t].state >= smdata[t].state
    BY <1>2
  <2> QED  BY <1>1, <1>2, <1>3, <1>7, <1>8, <1>11, <1>14, <2>1, <2>2, <2>3, LoopMove
<1>16. RanOK(t)' /\ DownOK(t)'
  <2>1. \A d \in smdata[t].active : HasRun(stopper'[d], t, smdata[t].state)
                                       <=> HasRun(stopper[d], t, smdata[t].state)
    BY <1>2, <1>5, <1>8, <1>17 DEF HasRun, GoesOn
  <2>2. Ran(t)' = Ran(t)
    BY <1>3, <2>1 DEF Ran
  <2>3. Failed(t)' <=> Failed(t)
    BY <1>3, <1>8, <1>12 DEF Failed, GoesOn
  <2> QED  BY <1>3, <1>15, <2>2, <2>3, LoopRan
<1> QED  BY <1>9, <1>10, <1>15, <1>16 DEF Inv, Shape, CallOK

(* smdata->fn, which may remove the CPU. *)
LEMMA FnShape ==
    ASSUME Inv, NEW c \in Cpus, NEW t \in Tasks, Steps(stopper[c], t), stopper[c].pc = "fn",
           task[t].op = "down", online' = online \ {c},
           UNCHANGED <<hotplug, mutex, task, smdata>>,
           \A d \in Cpus : d # c => stopper'[d] = stopper[d],
           Moves(stopper[c], stopper'[c])
    PROVE  /\ Shape' /\ smdata[t].active = {c}
           /\ \A u \in Tasks : u # t =>
                 task[u].op \notin {"machine", "try", "down", "inactive", "up"}
<1>0. Types /\ TaskOK /\ LockOK /\ StopperOK /\ HotOK
  BY DEF Inv
<1>1. Machine(t) /\ StateOK(t)
  BY StepsWaits
<1>2. c \in smdata[t].active /\ smdata[t].state = RUN
  <2>1. At(stopper[c], smdata[t].state) /\ c \in smdata[t].active
    BY <1>1 DEF StateOK
  <2> QED  BY <2>1 DEF At
<1>3. DownCpu(t, c) /\ smdata[t].active = {c}
  BY <1>2, HotCpu DEF DownCpu
<1>4. Hot(t) /\ hotplug = t /\ mutex = t
  BY <1>0, <1>1 DEF LockOK, Hot, Machine, Waiting, Holds
<1>5. \A u \in Tasks : u # t => ~Hot(u) /\ task[u].op \notin {"machine", "try"} /\ ~Holds(u)
  BY <1>0, <1>4, Consts DEF LockOK
<1>6. \A u \in Tasks : task[u].todo = {}
  <2> SUFFICES ASSUME NEW u \in Tasks, task[u].todo # {}
               PROVE  FALSE
    OBVIOUS
  <2>1. task[u].pc = "queue"
    BY <1>0 DEF TaskOK
  <2>2. Holds(u)
    BY <2>1, Places DEF Holds, Waiting
  <2>3. u = t
    BY <1>5, <2>2
  <2>4. PICK d \in task[t].todo : TRUE
    BY <2>3
  <2>5. d \in Part(t) /\ Pending(d, t)
    BY <1>0, <2>4 DEF TaskOK, Part, Pending
  <2> QED  BY <1>1, <1>2, <2>5 DEF StateOK, PREPARE, RUN
<1>7. /\ LockOK' /\ \A u \in Tasks : Hot(u) <=> Hot(u)'
      /\ \A d \in Cpus :
                /\ FnsOK(stopper'[d])
                /\ stopper'[d].enabled = stopper[d].enabled
                /\ \A u \in Tasks : Steps(stopper'[d], u) /\ ~stopper'[d].work.done =>
                      task[u].op = "inactive" /\ task[u].pc = "part" /\ task[u].cpu = d
  BY ShapeMove
<1>8. TaskOK'
  BY <1>0, <1>6 DEF TaskOK
<1>9. online' # {}
  BY <1>1, <1>3, Places DEF DownCpu, Machine, Waiting
<1>10. StopperOK'
  <2>1. \A d \in online' : \/ stopper'[d].enabled
                           \/ \E u \in Tasks : task'[u].pc = "up" /\ smdata'[u].active = {d}
    <3>1. online' \subseteq online /\ online \subseteq Cpus
      BY <1>0 DEF Types
    <3>2. \A d \in online : \/ stopper[d].enabled
                            \/ \E u \in Tasks : task[u].pc = "up" /\ smdata[u].active = {d}
      BY <1>0 DEF StopperOK
    <3> QED  BY <1>7, <3>1, <3>2, Zenon
  <2>2. \A d \in Cpus \ online' : \/ Still(stopper'[d])
                                  \/ \E u \in Tasks : Hot(u)' /\ d \in smdata'[u].active
    BY <1>0, <1>2, <1>4, <1>7 DEF StopperOK
  <2> QED  BY <1>7, <1>9, <2>1, <2>2 DEF StopperOK, FnsOK
<1>11. DownCpu(t, c)'
  BY <1>1, <1>3, <1>7 DEF DownCpu, Machine, Waiting
<1>12. HotOK'
  BY <1>0, <1>5, <1>11 DEF HotOK, Hot
<1> QED  BY <1>3, <1>5, <1>7, <1>8, <1>10, <1>12 DEF Shape, Hot

LEMMA FnStep ==
    ASSUME Inv, Types', NEW c \in Cpus, NEW err \in BOOLEAN, Fn(c, err)
    PROVE  Inv'
<1> DEFINE s == stopper[c]
           s2 == stopper'[c]
<1>1. s.pc = "fn" /\ s.pc \in BusyPcs /\ s.work.fn = "sm" /\ stopper \in [Cpus -> Stoppers]
  BY LoopFacts DEF Fn, Inv, Types
<1>2. PICK t \in Tasks : /\ t = s.work.by /\ Steps(s, t) /\ CallOK(t)
                         /\ Machine(t) /\ StateOK(t) /\ c \in Part(t) /\ Part(t) \in SUBSET Cpus
                         /\ smdata[t].state \in Int /\ smdata[t].active \in SUBSET Cpus
                         /\ At(s, smdata[t].state)
  BY <1>1, LoopFacts
<1>3. UNCHANGED <<hotplug, mutex, task, done, smdata>>
  BY DEF Fn
<1>4. /\ stopper' = [stopper EXCEPT ![c].pc = "ack", ![c].err = err]
      /\ ran' = [ran EXCEPT ![t][c] = @ + 1]
      /\ online' = IF task[t].op = "down" /\ ~err THEN online \ {c} ELSE online
  BY <1>2 DEF Fn
<1>5. s.curstate = RUN /\ smdata[t].state = RUN /\ c \in smdata[t].active
  BY <1>1, <1>2 DEF At, StateOK
<1>6. "ack" \in BusyPcs
  BY DEF BusyPcs
<1>7. GoesOn(s, s2, "ack", RUN, err) /\ \A d \in Cpus : d # c => stopper'[d] = stopper[d]
  BY <1>1, <1>4, <1>5 DEF GoesOn, Stoppers
<1>8. Moves(s, s2)
  BY <1>1, <1>6, <1>7, GoesOnShape
<1>9. /\ Shape'
      /\ \A u \in Tasks : u # t => \/ online' = online
                                   \/ task[u].op \notin {"machine", "try", "down", "inactive"}
      /\ task[t].op = "down" => smdata[t].active = {c}
  <2>1. CASE task[t].op = "down" /\ ~err
    BY <1>1, <1>2, <1>3, <1>4, <1>7, <1>8, <2>1, FnShape
  <2>2. CASE ~(task[t].op = "down" /\ ~err)
    <3>1. online' = online
      BY <1>4, <2>2
    <3>2. task[t].op = "down" => smdata[t].active = {c}
      BY <1>5, HotCpu DEF DownCpu
    <3> QED  BY <1>3, <1>7, <1>8, <3>1, <3>2, ShapeMove
  <2> QED  BY <2>1, <2>2
<1>10. ASSUME NEW u \in Tasks, u # t
       PROVE  CallOK(u)'
  <2>1. ran'[u] = ran[u]
    BY <1>4, <1>10 DEF Inv, Types
  <2> QED  BY <1>1, <1>2, <1>3, <1>6, <1>7, <1>9, <1>10, <2>1, GoesOnOthers
<1>11. Part(t)' = Part(t) /\ task[t].op # "try"
  BY <1>2, <1>3, <1>4, <1>5 DEF Part, Machine
<1>12. /\ \A d \in Cpus : Pending(d, t)' <=> Pending(d, t)
       /\ \A d \in Cpus : Steps(stopper'[d], t) <=> Steps(stopper[d], t)
       /\ Open(t)' = Open(t)
  BY <1>1, <1>3, <1>6, <1>7, <1>11, GoesOnOpen
<1>13. c \in Lag(t) /\ Lag(t)' = Lag(t)
  <2>1. c \in Lag(t)
    BY <1>1, <1>2 DEF Lag, Behind
  <2>2. c \in Lag(t)'
    BY <1>2, <1>3, <1>7, <1>11, <1>12 DEF Lag, Behind, GoesOn
  <2>3. \A d \in Part(t) : d # c => (d \in Lag(t)' <=> d \in Lag(t))
    BY <1>2, <1>3, <1>7, <1>11, <1>12 DEF Lag
  <2> QED  BY <1>11, <2>1, <2>2, <2>3 DEF Lag
<1>14. \A d \in Cpus : Steps(stopper[d], t) =>
              /\ At(stopper'[d], smdata[t].state)
              /\ stopper'[d].pc = "fn" => d \in smdata[t].active
              /\ stopper'[d].pc = "set_state" => d = c /\ Lag(t)' = {}
  <2> SUFFICES ASSUME NEW d \in Cpus, Steps(stopper[d], t)
               PROVE  /\ At(stopper'[d], smdata[t].state)
                      /\ stopper'[d].pc = "fn" => d \in smdata[t].active
                      /\ stopper'[d].pc # "set_state"
    BY <1>13
  <2>1. CASE d # c
    BY <1>2, <1>7, <1>13, <2>1 DEF StateOK
  <2>2. CASE d = c
    BY <1>5, <1>6, <1>7, <2>2 DEF GoesOn, At, EXIT, RUN
  <2> QED  BY <2>1, <2>2
<1>15. OpenOK(t)' /\ MachineOK(t)' /\ Machine(t)'
  <2>1. smdata'[t] = smdata[t] /\ smdata[t].state \in PREPARE .. EXIT + 1
    BY <1>2, <1>3 DEF StateOK
  <2>2. smdata[t].ack = IF smdata[t].state <= EXIT THEN Cardinality(Lag(t)') ELSE smdata[t].num
    BY <1>2, <1>13 DEF StateOK
  <2>3. smdata[t].state >= smdata[t].state
    BY <1>2
  <2> QED  BY <1>1, <1>2, <1>3, <1>6, <1>7, <1>11, <1>14, <2>1, <2>2, <2>3, LoopMove
<1>16. Ran(t)' = Ran(t) \cup {c} /\ c \notin Ran(t) /\ Ran(t) \in SUBSET Cpus
  <2>1. \A d \in smdata[t].active : d # c => (HasRun(stopper'[d], t, smdata[t].state)
                                                <=> HasRun(stopper[d], t, smdata[t].state))
    BY <1>2, <1>7
  <2>2. ~HasRun(s, t, smdata[t].state)
    BY <1>1, <1>5 DEF HasRun, RUN, EXIT
  <2>3. HasRun(s2, t, smdata[t].state)
    BY <1>2, <1>5, <1>7, <1>12 DEF HasRun, GoesOn
  <2> QED  BY <1>2, <1>3, <1>5, <2>1, <2>2, <2>3 DEF Ran
<1>17. RanOK(t)'
  <2>1. ran[t] = OnceOn(Ran(t)) /\ task[t].op \notin {"one", "try"}
    BY <1>2 DEF CallOK, RanOK, Machine
  <2>2. ran'[t] = OnceOn(Ran(t) \cup {c})
    BY <1>4, <1>16, <2>1, OnceMore DEF Inv
  <2> QED  BY <1>3, <1>16, <2>1, <2>2 DEF RanOK
<1>18. DownOK(t)'
  <2> SUFFICES ASSUME task[t].op = "down"
               PROVE  c \in online' <=> Failed(t)'
    BY <1>3, <1>9, <1>16 DEF DownOK
  <2>1. Ran(t) = {}
    BY <1>9, <1>16 DEF Ran
  <2>2. c \in online /\ ~Failed(t)
    BY <1>2, <1>5, <2>1 DEF CallOK, DownOK
  <2>3. Failed(t)' <=> err
    <3>1. ~done'[t].ret /\ \A d \in Cpus : d # c => ~(Steps(stopper'[d], t) /\ stopper'[d].err)
      BY <1>3, <1>7, <2>2 DEF Failed
    <3>2. Steps(s2, t) /\ s2.err = err
      BY <1>2, <1>7, <1>12 DEF GoesOn
    <3> QED  BY <3>1, <3>2 DEF Failed
  <2> QED  BY <1>4, <2>2, <2>3
<1> QED  BY <1>9, <1>10, <1>15, <1>17, <1>18 DEF Inv, Shape, CallOK

(* ack_state(): one less to wait for. *)
LEMMA AckStep ==
    ASSUME Inv, Types', NEW c \in Cpus, ack_state(c)
    PROVE  Inv'
<1> DEFINE s == stopper[c]
           s2 == stopper'[c]
<1>1. s.pc = "ack" /\ s.pc \in BusyPcs /\ s.work.fn = "sm" /\ stopper \in [Cpus -> Stoppers]
  BY LoopFacts DEF ack_state, Inv, Types
<1>2. PICK t \in Tasks : /\ t = s.work.by /\ Steps(s, t) /\ CallOK(t)
                         /\ Machine(t) /\ StateOK(t) /\ c \in Part(t) /\ Part(t) \in SUBSET Cpus
                         /\ smdata[t].state \in Int /\ smdata[t].active \in SUBSET Cpus
                         /\ At(s, smdata[t].state)
  BY <1>1, LoopFacts
<1> DEFINE state == smdata[t].state
           p == IF smdata[t].ack = 1 THEN "set_state"
                ELSE IF s.curstate = EXIT THEN "signal" ELSE "loop"
<1>3. UNCHANGED <<online, hotplug, mutex, task, done, ran>>
  BY DEF ack_state
<1>4. /\ stopper' = [stopper EXCEPT ![c].pc = p]
      /\ smdata' = [smdata EXCEPT ![t].ack = @ - 1]
  BY <1>2 DEF ack_state, SGoto, AfterAck
<1>5. s.curstate = state /\ state <= EXIT
  BY <1>1, <1>2 DEF At
<1>6. p \in BusyPcs /\ p \in {"set_state", "signal", "loop"}
  BY DEF BusyPcs
<1>7. /\ p = "set_state" <=> smdata[t].ack = 1
      /\ p = "signal" => state = EXIT
      /\ p = "loop" => state # EXIT
  BY <1>5
<1> HIDE DEF p
<1>8. GoesOn(s, s2, p, s.curstate, s.err) /\ \A d \in Cpus : d # c => stopper'[d] = stopper[d]
  BY <1>1, <1>4 DEF GoesOn, Stoppers
<1>9. /\ \A u \in Tasks : /\ smdata'[u].active = smdata[u].active
                          /\ u # t => smdata'[u] = smdata[u]
      /\ smdata'[t].ack = smdata[t].ack - 1 /\ smdata'[t].num = smdata[t].num
      /\ smdata'[t].state = state
  BY <1>4 DEF Inv, Types, Datas
<1>10. Shape'
  <2>1. Moves(s, s2)
    BY <1>1, <1>6, <1>8, GoesOnShape
  <2> QED  BY <1>3, <1>8, <1>9, <2>1, ShapeMove
<1>11. ASSUME NEW u \in Tasks, u # t
       PROVE  CallOK(u)'
  BY <1>1, <1>2, <1>3, <1>6, <1>8, <1>9, <1>11, GoesOnOthers
<1>12. Part(t)' = Part(t)
  BY <1>3, <1>9 DEF Part
<1>13. /\ \A d \in Cpus : Pending(d, t)' <=> Pending(d, t)
       /\ \A d \in Cpus : Steps(stopper'[d], t) <=> Steps(stopper[d], t)
  BY <1>1, <1>3, <1>6, <1>8, <1>12, GoesOnOpen
<1>14. c \in Lag(t) /\ Lag(t)' = Lag(t) \ {c} /\ Lag(t) \in SUBSET Cpus
  <2>1. c \in Lag(t) /\ Lag(t) \in SUBSET Cpus
    BY <1>1, <1>2 DEF Lag, Behind
  <2>2. ~Pending(c, t)
    BY <1>2 DEF StateOK
  <2>3. c \notin Lag(t)'
    BY <1>5, <1>6, <1>8, <1>9, <1>13, <2>2 DEF Lag, Behind, GoesOn
  <2>4. \A d \in Part(t) : d # c => (d \in Lag(t)' <=> d \in Lag(t))
    BY <1>2, <1>8, <1>9, <1>12, <1>13 DEF Lag
  <2> QED  BY <1>12, <2>1, <2>3, <2>4 DEF Lag
<1>15. /\ smdata[t].ack = Cardinality(Lag(t))
       /\ smdata'[t].ack = Cardinality(Lag(t)')
       /\ p = "set_state" => Lag(t)' = {}
  <2>1. smdata[t].ack = Cardinality(Lag(t))
    BY <1>2, <1>5 DEF StateOK
  <2>2. smdata'[t].ack = Cardinality(Lag(t)')
    BY <1>9, <1>14, <2>1, Sizes
  <2>3. p = "set_state" => Lag(t) = {c}
    BY <1>7, <1>14, <2>1, OnlyOne
  <2> QED  BY <1>14, <2>1, <2>2, <2>3
<1>16. \A d \in Cpus : Steps(stopper[d], t) =>
              /\ At(stopper'[d], state)
              /\ stopper'[d].pc = "fn" => d \in smdata[t].active
              /\ stopper'[d].pc = "set_state" => d = c /\ Lag(t)' = {}
  <2> SUFFICES ASSUME NEW d \in Cpus, Steps(stopper[d], t)
               PROVE  /\ At(stopper'[d], state)
                      /\ stopper'[d].pc = "fn" => d \in smdata[t].active
                      /\ stopper'[d].pc = "set_state" => d = c /\ Lag(t)' = {}
    OBVIOUS
  <2>1. CASE d # c
    BY <1>2, <1>8, <1>14, <2>1 DEF StateOK
  <2>2. CASE d = c
    BY <1>5, <1>6, <1>7, <1>8, <1>15, <2>2 DEF GoesOn, At, BusyPcs
  <2> QED  BY <2>1, <2>2
<1>17. OpenOK(t)' /\ MachineOK(t)' /\ Machine(t)'
  <2>1. state \in PREPARE .. EXIT + 1 /\ state >= smdata[t].state
    BY <1>2 DEF StateOK
  <2>2. smdata'[t].ack = IF state <= EXIT THEN Cardinality(Lag(t)') ELSE smdata[t].num
    BY <1>5, <1>15
  <2>3. smdata'[t].active = smdata[t].active
    BY <1>9
  <2> QED  BY <1>1, <1>2, <1>3, <1>6, <1>8, <1>9, <1>12, <1>16, <2>1, <2>2, <2>3, LoopMove
<1>18. RanOK(t)' /\ DownOK(t)'
  <2>1. \A d \in smdata[t].active : HasRun(stopper'[d], t, state) <=> HasRun(stopper[d], t, state)
    BY <1>1, <1>2, <1>6, <1>8, <1>13 DEF HasRun, GoesOn
  <2>2. Ran(t)' = Ran(t)
    BY <1>9, <2>1 DEF Ran
  <2>3. Failed(t)' <=> Failed(t)
    BY <1>3, <1>8, <1>13 DEF Failed, GoesOn
  <2> QED  BY <1>3, <1>9, <1>17, <2>2, <2>3, LoopRan
<1> QED  BY <1>10, <1>11, <1>17, <1>18 DEF Inv, Shape, CallOK

(* set_state(): everybody has acknowledged, and all are behind again. *)
LEMMA SetStateStep ==
    ASSUME Inv, Types', NEW c \in Cpus, set_state(c)
    PROVE  Inv'
<1> DEFINE s == stopper[c]
           s2 == stopper'[c]
<1>1. s.pc = "set_state" /\ s.pc \in BusyPcs /\ s.work.fn = "sm"
      /\ stopper \in [Cpus -> Stoppers]
  BY LoopFacts DEF set_state, Inv, Types
<1>2. PICK t \in Tasks : /\ t = s.work.by /\ Steps(s, t) /\ CallOK(t)
                         /\ Machine(t) /\ StateOK(t) /\ c \in Part(t) /\ Part(t) \in SUBSET Cpus
                         /\ smdata[t].state \in Int /\ smdata[t].active \in SUBSET Cpus
                         /\ At(s, smdata[t].state)
  BY <1>1, LoopFacts
<1> DEFINE state == smdata[t].state
           p == IF s.curstate = EXIT THEN "signal" ELSE "loop"
<1>3. UNCHANGED <<online, hotplug, mutex, task, done, ran>>
  BY DEF set_state
<1>4. /\ stopper' = [stopper EXCEPT ![c].pc = p]
      /\ smdata' = [smdata EXCEPT ![t].ack = smdata[t].num, ![t].state = @ + 1]
  BY <1>2 DEF set_state, SGoto, AfterAck, ResetAck
<1>5. s.curstate = state /\ state <= EXIT /\ Lag(t) = {} /\ state \in 1 .. 4
  <2>1. s.curstate = state /\ state <= EXIT
    BY <1>1, <1>2 DEF At
  <2>2. Lag(t) = {} /\ state \in PREPARE .. EXIT + 1
    BY <1>1, <1>2 DEF StateOK
  <2> QED  BY <2>1, <2>2 DEF PREPARE, EXIT
<1>6. p \in BusyPcs /\ p \in {"signal", "loop"}
  BY DEF BusyPcs
<1>7. p = IF state + 1 <= EXIT THEN "loop" ELSE "signal"
  BY <1>5 DEF EXIT
<1> HIDE DEF p
<1>8. GoesOn(s, s2, p, s.curstate, s.err) /\ \A d \in Cpus : d # c => stopper'[d] = stopper[d]
  BY <1>1, <1>4 DEF GoesOn, Stoppers
<1>9. /\ \A u \in Tasks : /\ smdata'[u].active = smdata[u].active
                          /\ u # t => smdata'[u] = smdata[u]
      /\ smdata'[t].ack = smdata[t].num /\ smdata'[t].num = smdata[t].num
      /\ smdata'[t].state = state + 1
  BY <1>4 DEF Inv, Types, Datas
<1>10. Shape'
  <2>1. Moves(s, s2)
    BY <1>1, <1>6, <1>8, GoesOnShape
  <2> QED  BY <1>3, <1>8, <1>9, <2>1, ShapeMove
<1>11. ASSUME NEW u \in Tasks, u # t
       PROVE  CallOK(u)'
  BY <1>1, <1>2, <1>3, <1>6, <1>8, <1>9, <1>11, GoesOnOthers
<1>12. Part(t)' = Part(t)
  BY <1>3, <1>9 DEF Part
<1>13. /\ \A d \in Cpus : Pending(d, t)' <=> Pending(d, t)
       /\ \A d \in Cpus : Steps(stopper'[d], t) <=> Steps(stopper[d], t)
  BY <1>1, <1>3, <1>6, <1>8, <1>12, GoesOnOpen
<1>14. /\ \A d \in Part(t) : ~Pending(d, t)
       /\ \A d \in Cpus : Steps(stopper[d], t) => stopper[d].curstate = state
                                                  /\ stopper[d].pc \notin {"fn", "ack"}
  <2>1. \A d \in Part(t) : ~Pending(d, t) /\ ~Behind(stopper[d], t, state)
    BY <1>5 DEF Lag
  <2>2. \A d \in Cpus : Steps(stopper[d], t) => d \in Part(t)
    BY <1>2 DEF StateOK
  <2> QED  BY <2>1, <2>2 DEF Behind
<1>15. \A d \in Cpus : Steps(stopper[d], t) =>
              /\ At(stopper'[d], state + 1)
              /\ stopper'[d].pc = "fn" => d \in smdata[t].active
              /\ stopper'[d].pc # "set_state"
              /\ stopper'[d].curstate = state
  <2> SUFFICES ASSUME NEW d \in Cpus, Steps(stopper[d], t)
               PROVE  /\ At(stopper'[d], state + 1)
                      /\ stopper'[d].pc = "fn" => d \in smdata[t].active
                      /\ stopper'[d].pc # "set_state"
                      /\ stopper'[d].curstate = state
    OBVIOUS
  <2>1. CASE d # c
    <3>1. stopper'[d] = stopper[d] /\ stopper[d].curstate = state
      BY <1>8, <1>14, <2>1
    <3>2. stopper[d].pc # "set_state"
      BY <1>1, <1>2, <2>1 DEF StateOK
    <3>3. At(stopper[d], state)
      BY <1>2 DEF StateOK
    <3>4. stopper[d].pc \in {"loop", "signal"}
      BY <1>14, <3>2, <3>3 DEF At, BusyPcs
    <3>5. At(stopper[d], state + 1)
      BY <1>5, <3>1, <3>3, <3>4 DEF At, EXIT
    <3> QED  BY <3>1, <3>4, <3>5
  <2>2. CASE d = c
    BY <1>5, <1>6, <1>7, <1>8, <2>2 DEF GoesOn, At, BusyPcs
  <2> QED  BY <2>1, <2>2
<1>16. state + 1 <= EXIT => Lag(t)' = Part(t)
  <2> SUFFICES ASSUME state + 1 <= EXIT, NEW d \in Part(t)
               PROVE  d \in Lag(t)'
    BY <1>12 DEF Lag
  <2>1. Steps(stopper[d], t)
    BY <1>2, <1>5, <1>14 DEF StateOK, RUN, EXIT
  <2>2. Steps(stopper'[d], t) /\ stopper'[d].curstate # state + 1
    BY <1>2, <1>13, <1>15, <2>1
  <2> QED  BY <1>9, <1>12, <2>2 DEF Lag, Behind
<1>17. OpenOK(t)' /\ MachineOK(t)' /\ Machine(t)'
  <2>1. state + 1 \in PREPARE .. EXIT + 1 /\ state + 1 >= smdata[t].state
    BY <1>5 DEF PREPARE, EXIT
  <2>2. smdata'[t].ack = IF state + 1 <= EXIT THEN Cardinality(Lag(t)') ELSE smdata[t].num
    BY <1>2, <1>9, <1>16 DEF StateOK
  <2>3. smdata'[t].active = smdata[t].active
    BY <1>9
  <2>4. \A d \in Cpus : Steps(stopper[d], t) =>
           /\ At(stopper'[d], state + 1)
           /\ stopper'[d].pc = "fn" => d \in smdata[t].active
           /\ stopper'[d].pc = "set_state" => d = c /\ Lag(t)' = {}
    BY <1>15
  <2>5. smdata'[t].state = state + 1 /\ smdata'[t].num = smdata[t].num
    BY <1>9
  <2>6. PICK n : n = state + 1
    OBVIOUS
  <2> HIDE DEF state
  <2> QED  BY <1>1, <1>2, <1>3, <1>6, <1>8, <1>12, <1>14, <2>1, <2>2, <2>3, <2>4, <2>5, <2>6,
              LoopMove
<1>18. RanOK(t)' /\ DownOK(t)'
  <2>1. \A d \in smdata[t].active : HasRun(stopper'[d], t, state + 1)
                                      <=> HasRun(stopper[d], t, state)
    <3> SUFFICES ASSUME NEW d \in smdata[t].active
                 PROVE  HasRun(stopper'[d], t, state + 1) <=> HasRun(stopper[d], t, state)
      OBVIOUS
    <3>0. d \in Cpus /\ d \in Part(t)
      BY <1>2 DEF Part
    <3>1. CASE state = EXIT
      BY <3>1 DEF HasRun, EXIT
    <3>2. CASE state = RUN
      <4>1. Steps(stopper[d], t)
        BY <1>2, <1>14, <3>0, <3>2 DEF StateOK
      <4>2. HasRun(stopper[d], t, state)
        BY <1>14, <3>0, <3>2, <4>1 DEF HasRun
      <4> QED  BY <3>2, <4>2 DEF HasRun, EXIT, RUN
    <3>3. CASE state \in 1 .. 2
      BY <1>13, <1>15, <3>0, <3>3 DEF HasRun, EXIT, RUN
    <3> QED  BY <1>5, <3>1, <3>2, <3>3 DEF EXIT, RUN
  <2>2. Ran(t)' = Ran(t)
    BY <1>9, <2>1 DEF Ran
  <2>3. Failed(t)' <=> Failed(t)
    BY <1>3, <1>8, <1>13 DEF Failed, GoesOn
  <2> QED  BY <1>3, <1>9, <1>17, <2>2, <2>3, LoopRan
<1> QED  BY <1>10, <1>11, <1>17, <1>18 DEF Inv, Shape, CallOK
-----------------------------------------------------------------------------
(* A work is done. *)

LEMMA SignalEffect ==
    ASSUME Inv, NEW c \in Cpus, SignalDone(c)
    PROVE  /\ stopper[c].pc = "signal" /\ stopper[c].pc \in BusyPcs
           /\ stopper[c].work \in Works
           /\ stopper'[c].enabled = stopper[c].enabled /\ stopper'[c].works = stopper[c].works
           /\ stopper'[c].awake = stopper[c].awake /\ stopper'[c].pc = "sleep"
           /\ stopper'[c].curstate = NONE /\ ~stopper'[c].err
           /\ \A d \in Cpus : d # c => stopper'[d] = stopper[d]
           /\ UNCHANGED <<online, hotplug, mutex, task, smdata, ran>>
           /\ \A t \in Tasks : ~Mine(stopper[c].work, t) => done'[t] = done[t]
           /\ \A t \in Tasks : Mine(stopper[c].work, t) =>
                 /\ done'[t].nr_todo = done[t].nr_todo - 1 /\ done'[t].executed
                 /\ done'[t].ret <=> (done[t].ret \/ stopper[c].err)
           /\ Moves(stopper[c], stopper'[c])
<1> DEFINE s == stopper[c]
           s2 == stopper'[c]
<1>0. stopper \in [Cpus -> Stoppers] /\ s \in Stoppers /\ done \in [Tasks -> Dones]
  BY DEF Inv, Types
<1>1. s.pc = "signal" /\ s.pc \in BusyPcs /\ s.work \in Works
  BY DEF SignalDone, BusyPcs, Inv, Types
<1>2. stopper' = [stopper EXCEPT ![c].pc = "sleep", ![c].work = NoWork, ![c].curstate = NONE,
                                 ![c].err = FALSE]
  BY DEF SignalDone
<1>3. /\ s2.enabled = s.enabled /\ s2.works = s.works /\ s2.awake = s.awake /\ s2.pc = "sleep"
      /\ s2.curstate = NONE /\ s2.err = FALSE
      /\ \A d \in Cpus : d # c => stopper'[d] = stopper[d]
  BY <1>0, <1>2 DEF Stoppers
<1>4. UNCHANGED <<online, hotplug, mutex, task, smdata, ran>>
  BY DEF SignalDone
<1>5. done' = [t \in Tasks |->
               IF s.work.done /\ s.work.by = t
               THEN [nr_todo |-> done[t].nr_todo - 1,
                     executed |-> done[t].executed \/ TRUE,
                     ret |-> done[t].ret \/ s.err]
               ELSE done[t]]
  BY DEF SignalDone, cpu_stop_signal_done
<1>6. \A t \in Tasks : (s.work.done /\ s.work.by = t) <=> Mine(s.work, t)
  BY DEF Mine
<1>7. \A t \in Tasks : ~Mine(s.work, t) => done'[t] = done[t]
  BY <1>5, <1>6
<1>8. \A t \in Tasks : Mine(s.work, t) =>
                 /\ done'[t].nr_todo = done[t].nr_todo - 1 /\ done'[t].executed
                 /\ done'[t].ret <=> (done[t].ret \/ s.err)
  BY <1>5, <1>6
<1>9. FnsOK(s)
  BY DEF Inv, StopperOK, FnsOK
<1>10. FnsOK(s2)
  BY <1>3, <1>9 DEF FnsOK, BusyPcs
<1>11. Moves(s, s2)
  BY <1>1, <1>3, <1>10 DEF Moves, Quiet, BusyPcs
<1> QED  BY <1>1, <1>3, <1>4, <1>7, <1>8, <1>11

(* What the call whose work it was still waits for. *)
LEMMA SignalOpen ==
    ASSUME Inv, Types', NEW c \in Cpus, SignalDone(c), NEW t \in Tasks,
           stopper[c].work.by = t, stopper[c].work.done
    PROVE  /\ OpenOK(t)' /\ c \in Open(t) /\ Open(t)' = Open(t) \ {c}
           /\ Waiting(t) /\ Waiting(t)' /\ task[t].pc # "mutex"
           /\ c \notin task[t].todo /\ ~Lists(stopper[c], t)
<1> DEFINE s == stopper[c]
           s2 == stopper'[c]
<1>0. CallOK(t) /\ Types /\ task[t].todo \in SUBSET Cpus
  BY DEF Inv, Types, Frames
<1>1. Runs(s, t) /\ Mine(s.work, t)
  BY SignalEffect DEF Runs, Mine
<1>2. Waiting(t) /\ c \in Open(t) /\ task[t].pc # "mutex"
  BY <1>1, OpenWaits
<1>3. c \notin task[t].todo /\ ~Lists(s, t)
  BY <1>0, <1>1 DEF CallOK, OpenOK
<1>4. ~Lists(s2, t) /\ ~Runs(s2, t) /\ \A fn : ListOK(s, t, fn) <=> ListOK(s2, t, fn)
  BY <1>3, SignalEffect DEF Lists, Runs, ListOK, BusyPcs
<1>5. task' = task /\ online' = online /\ smdata' = smdata
  BY SignalEffect
<1>6. \A d \in Cpus : d # c => stopper'[d] = stopper[d]
  BY SignalEffect
<1>7. Open(t)' = Open(t) \ {c}
  BY <1>3, <1>4, <1>5, <1>6 DEF Open
<1>8. done'[t].nr_todo = done[t].nr_todo - 1
  BY <1>1, SignalEffect
<1>9. done'[t].nr_todo = Cardinality(Open(t)')
  <2>1. Open(t) \in SUBSET Cpus
    BY DEF Open
  <2> QED  BY <1>0, <1>2, <1>7, <1>8, <2>1, Sizes DEF CallOK, OpenOK
<1>10. /\ Waiting(t)' /\ (Machine(t)' <=> Machine(t)) /\ Part(t)' = Part(t)
  BY <1>2, <1>5 DEF Waiting, Machine, Part
<1>11. \A d \in Cpus : /\ Lists(stopper'[d], t) => ~Runs(stopper'[d], t)
                       /\ Runs(stopper'[d], t) => stopper'[d].work.fn = FnOf(task[t].op)
                       /\ ListOK(stopper'[d], t, FnOf(task[t].op))
  BY <1>0, <1>4, <1>6 DEF CallOK, OpenOK
<1>12. \A d \in task[t].todo : ~Lists(stopper'[d], t) /\ ~Runs(stopper'[d], t)
  BY <1>0, <1>3, <1>6 DEF CallOK, OpenOK
<1>13. /\ task[t].op = "try" => Open(t)' \subseteq online
       /\ Machine(t) => Open(t)' \subseteq Part(t)
  BY <1>0, <1>7 DEF CallOK, OpenOK
<1>14. OpenOK(t)'
  BY <1>5, <1>9, <1>10, <1>11, <1>12, <1>13 DEF OpenOK
<1> QED  BY <1>2, <1>3, <1>7, <1>10, <1>14

(* The end of a call's function that waits for nobody. *)
LEMMA SignalPlain ==
    ASSUME Inv, Types', NEW c \in Cpus, SignalDone(c), NEW t \in Tasks,
           stopper[c].work.by = t, stopper[c].work.done, stopper[c].work.fn = "plain"
    PROVE  CallOK(t)'
<1> DEFINE s == stopper[c]
           s2 == stopper'[c]
<1>0. CallOK(t) /\ Types
  BY DEF Inv
<1>1. /\ OpenOK(t)' /\ c \in Open(t) /\ Open(t)' = Open(t) \ {c} /\ Waiting(t)
      /\ task[t].pc # "mutex" /\ c \notin task[t].todo /\ ~Lists(s, t)
  BY SignalOpen
<1>2. Runs(s, t) /\ Mine(s.work, t) /\ Signals(s, t)
  BY SignalEffect DEF Runs, Mine, Signals
<1>3. task[t].op \in {"one", "try"}
  BY <1>0, <1>2 DEF CallOK, OpenOK, FnOf
<1>4. task' = task /\ online' = online /\ smdata' = smdata /\ ran' = ran
  BY SignalEffect
<1>5. ~Machine(t)' /\ ~Machine(t)
  BY <1>3, <1>4 DEF Machine
<1>6. MachineOK(t)' /\ DownOK(t)'
  BY <1>0, <1>1, <1>4, <1>5 DEF CallOK, MachineOK, DownOK
<1>7. done'[t].executed
  BY <1>2, SignalEffect
<1>8. ASSUME task[t].op = "one"
      PROVE  RanOK(t)'
  <2>1. Open(t)' = {}
    BY <1>0, <1>1, <1>8 DEF CallOK, RanOK
  <2>2. \E d \in Cpus : ran[t] = OnceOn({d})
    BY <1>0, <1>2, <1>8 DEF CallOK, RanOK
  <2>3. \E d \in Cpus : ran'[t] = OnceOn({d})
    BY <1>4, <2>2
  <2> QED  BY <1>4, <1>5, <1>7, <1>8, <2>1, <2>3 DEF RanOK
<1>9. ASSUME task[t].op = "try"
      PROVE  RanOK(t)'
  <2>1. ~Lists(s2, t) /\ ~Runs(s2, t) /\ s.pc # "plain"
    BY <1>1, SignalEffect DEF Lists, Runs, BusyPcs
  <2>2. \A d \in Cpus : d # c => stopper'[d] = stopper[d]
    BY SignalEffect
  <2>3. NotRun(t)' = NotRun(t)
    BY <1>1, <1>4, <2>1, <2>2 DEF NotRun
  <2> QED  BY <1>0, <1>4, <1>5, <1>9, <2>3 DEF CallOK, RanOK
<1> QED  BY <1>1, <1>3, <1>6, <1>8, <1>9 DEF CallOK

(* The end of stop_machine_cpu_stop(). *)
LEMMA SignalMachine ==
    ASSUME Inv, Types', NEW c \in Cpus, SignalDone(c), NEW t \in Tasks, Steps(stopper[c], t)
    PROVE  CallOK(t)'
<1> DEFINE s == stopper[c]
           s2 == stopper'[c]
           state == smdata[t].state
<1>0. CallOK(t) /\ Types
  BY DEF Inv
<1>1. Machine(t) /\ StateOK(t) /\ c \in Part(t) /\ At(s, state) /\ state \in Int
  BY StepsWaits DEF StateOK, Inv, Types, Datas
<1>2. task' = task /\ online' = online /\ smdata' = smdata /\ ran' = ran
  BY SignalEffect
<1>3. /\ Machine(t)' /\ task[t].pc # "mutex" /\ Part(t)' = Part(t) /\ Part(t) \in SUBSET Cpus
  BY <1>0, <1>1, <1>2 DEF Machine, Waiting, Part, Types, Datas
<1>4. \A d \in Cpus : d # c => stopper'[d] = stopper[d]
  BY SignalEffect
<1>5. ~Steps(s2, t) /\ ~Runs(s2, t) /\ (Lists(s2, t) <=> Lists(s, t))
  BY SignalEffect DEF Steps, Runs, Lists, BusyPcs
<1>6. s.pc = "signal" /\ ((state = EXIT /\ s.curstate = state) \/ state = EXIT + 1)
  <2>1. s.pc = "signal" /\ state \in PREPARE .. EXIT + 1
    BY <1>1, SignalEffect DEF StateOK
  <2>2. (s.curstate = state /\ state = EXIT) \/ ~(state <= EXIT)
    BY <1>1, <2>1 DEF At
  <2> QED  BY <2>1, <2>2 DEF PREPARE, EXIT
<1>7. OpenOK(t)'
  <2>1. CASE s.work.done
    BY <2>1, SignalOpen DEF Steps
  <2>2. CASE ~s.work.done
    <3>1. done'[t] = done[t] /\ ~Runs(s, t)
      BY <2>2, SignalEffect DEF Mine, Runs
    <3>2. Open(t)' = Open(t)
      BY <1>2, <1>4, <1>5, <3>1 DEF Open
    <3>3. \A d \in Cpus : /\ Lists(stopper'[d], t) => ~Runs(stopper'[d], t)
                          /\ Runs(stopper'[d], t) => stopper'[d].work.fn = FnOf(task[t].op)
                          /\ ListOK(stopper'[d], t, FnOf(task[t].op))
      <4>1. ListOK(s2, t, FnOf(task[t].op))
        BY <1>0, SignalEffect DEF CallOK, OpenOK, ListOK
      <4> QED  BY <1>0, <1>4, <1>5, <4>1 DEF CallOK, OpenOK
    <3>4. \A d \in task[t].todo : ~Lists(stopper'[d], t) /\ ~Runs(stopper'[d], t)
      BY <1>0, <1>4, <1>5 DEF CallOK, OpenOK, Types, Frames
    <3>5. Waiting(t)' /\ (Machine(t)' <=> Machine(t))
      BY <1>1, <1>3 DEF Machine
    <3> QED  BY <1>0, <1>2, <1>3, <3>1, <3>2, <3>3, <3>4, <3>5 DEF CallOK, OpenOK
  <2> QED  BY <2>1, <2>2
<1>8. \A d \in Cpus : Pending(d, t)' <=> Pending(d, t)
  BY <1>2, <1>4, <1>5 DEF Pending
<1>9. ~Pending(c, t)
  BY <1>1, <1>6 DEF StateOK, PREPARE, EXIT
<1>10. state = EXIT => Lag(t)' = Lag(t)
  <2>1. state = EXIT => c \notin Lag(t) /\ c \notin Lag(t)'
    BY <1>5, <1>6, <1>8, <1>9 DEF Lag, Behind, EXIT
  <2>2. \A d \in Part(t) : d # c => (d \in Lag(t)' <=> d \in Lag(t))
    BY <1>2, <1>3, <1>4, <1>8 DEF Lag
  <2> QED  BY <1>3, <2>1, <2>2 DEF Lag
<1>11. \A d \in Cpus : Steps(stopper'[d], t) => d # c /\ Steps(stopper[d], t)
                                                /\ stopper'[d] = stopper[d]
  BY <1>4, <1>5
<1>12. \A d \in Cpus : Steps(stopper[d], t) /\ stopper[d].pc = "set_state" => state = EXIT
  <2> SUFFICES ASSUME NEW d \in Cpus, Steps(stopper[d], t), stopper[d].pc = "set_state",
                      state = EXIT + 1
               PROVE  FALSE
    BY <1>6
  <2>1. At(stopper[d], state)
    BY <1>1 DEF StateOK
  <2> QED  BY <2>1 DEF At, EXIT
<1>13. StateOK(t)'
  <2>1. smdata'[t] = smdata[t] /\ task'[t] = task[t]
    BY <1>2
  <2>2. smdata[t].ack = IF state <= EXIT THEN Cardinality(Lag(t)') ELSE smdata[t].num
    BY <1>1, <1>6, <1>10 DEF StateOK, EXIT
  <2>3. \A d \in Part(t) : Pending(d, t)' => state = PREPARE /\ ~Steps(stopper'[d], t)
    BY <1>1, <1>3, <1>8, <1>11 DEF StateOK
  <2>4. ~(state <= RUN)
    BY <1>6 DEF RUN, EXIT
  <2>5. \A d \in Cpus : Steps(stopper'[d], t) =>
          /\ d \in Part(t) /\ At(stopper'[d], state)
          /\ stopper'[d].pc = "fn" => d \in smdata[t].active
          /\ stopper'[d].pc = "set_state" => Lag(t)' = {}
    BY <1>1, <1>10, <1>11, <1>12 DEF StateOK
  <2>6. \A d, f \in Cpus :
          /\ Steps(stopper'[d], t) /\ stopper'[d].pc = "set_state"
          /\ Steps(stopper'[f], t) /\ stopper'[f].pc = "set_state"
          => d = f
    BY <1>1, <1>11 DEF StateOK
  <2> QED  BY <1>1, <1>3, <2>1, <2>2, <2>3, <2>4, <2>5, <2>6 DEF StateOK
<1>14. MachineOK(t)'
  BY <1>2, <1>3, <1>13 DEF MachineOK
<1>15. Ran(t)' = Ran(t) /\ Ran(t) = smdata[t].active
  BY <1>2, <1>6 DEF Ran, HasRun, EXIT
<1>16. RanOK(t)'
  BY <1>0, <1>1, <1>2, <1>3, <1>15 DEF CallOK, RanOK, Machine
<1>17. DownOK(t)'
  <2> SUFFICES ASSUME task[t].op = "down"
               PROVE  Failed(t)' <=> Failed(t)
    BY <1>0, <1>1, <1>2, <1>3, <1>15 DEF CallOK, DownOK
  <2>1. s.work.done /\ Mine(s.work, t)
    BY DEF Inv, StopperOK, Steps, Mine
  <2>2. done'[t].ret <=> (done[t].ret \/ s.err)
    BY <2>1, SignalEffect
  <2>3. (\E d \in Cpus : Steps(stopper[d], t) /\ stopper[d].err)
           <=> (s.err \/ \E d \in Cpus : Steps(stopper'[d], t) /\ stopper'[d].err)
    BY <1>4, <1>11
  <2> QED  BY <2>2, <2>3 DEF Failed
<1> QED  BY <1>7, <1>14, <1>16, <1>17 DEF CallOK

LEMMA SignalStep ==
    ASSUME Inv, Types', NEW c \in Cpus, SignalDone(c)
    PROVE  Inv'
<1> DEFINE s == stopper[c]
           s2 == stopper'[c]
<1>1. Shape'
  BY SignalEffect, ShapeMove
<1>2. ASSUME NEW t \in Tasks
      PROVE  CallOK(t)'
  <2>1. CASE Steps(s, t)
    BY <2>1, SignalMachine
  <2>2. CASE ~Steps(s, t) /\ Mine(s.work, t)
    <3>1. s.work.fn = "plain"
      BY <2>2, SignalEffect DEF Steps, Mine, Works
    <3> QED  BY <2>2, <3>1, SignalPlain DEF Mine
  <2>3. CASE ~Steps(s, t) /\ ~Mine(s.work, t)
    <3>1. ~Runs(s, t) /\ ~Runs(s2, t) /\ ~Steps(s2, t)
      BY <2>3, SignalEffect DEF Runs, Steps, BusyPcs
    <3>2. Same(s, s2, t)
      BY <2>3, <3>1, SameList, SignalEffect
    <3> QED  BY <2>3, <3>2, SignalEffect, Others
  <2> QED  BY <2>1, <2>2, <2>3
<1> QED  BY <1>1, <1>2 DEF Inv, Shape

LEMMA StopperSteps ==
    ASSUME Inv, Types', NEW c \in Cpus, StopperStep(c)
    PROVE  Inv'
<1>1. CASE NextWork(c)
  BY <1>1, IdleSteps, TakeStep
<1> QED  BY <1>1, IdleSteps, PlainStep, NewStateStep, FnStep, AckStep, SetStateStep, SignalStep
         DEF StopperStep
-----------------------------------------------------------------------------
(* The steps of tasks: what they have in common. *)

(* A call that waits for nothing has no work anywhere. *)
LEMMA Closed ==
    ASSUME Inv, NEW t \in Tasks, ~Waiting(t) \/ done[t].nr_todo = 0
    PROVE  /\ task[t].todo = {} /\ Open(t) = {} /\ done[t].nr_todo = 0
           /\ \A c \in Cpus : ~Lists(stopper[c], t) /\ ~Runs(stopper[c], t)
<1>1. task[t].todo \in SUBSET Cpus /\ OpenOK(t)
  BY DEF Inv, Types, Frames, CallOK
<1>2. ~\E c \in Cpus : c \in task[t].todo \/ Lists(stopper[c], t) \/ Runs(stopper[c], t)
  BY OpenWaits
<1>3. Open(t) = {}
  BY <1>2 DEF Open
<1>4. done[t].nr_todo = 0
  BY <1>1 DEF OpenOK, NoDone
<1> QED  BY <1>1, <1>2, <1>3, <1>4

(* A call that has not begun to wait, or has ended. *)
LEMMA RestCall ==
    ASSUME NEW t \in Tasks, task'[t].todo = {}, done'[t] = NoDone, ~Waiting(t)',
           task'[t].op \notin {"one", "try"},
           \A c \in Cpus : ~Lists(stopper'[c], t) /\ ~Runs(stopper'[c], t),
           IF task'[t].pc = "mutex"
           THEN smdata'[t] = Data(Cardinality(Part(t)'), smdata'[t].active)
           ELSE smdata'[t].ack = 0 /\ smdata'[t].state \in NONE .. PREPARE
    PROVE  CallOK(t)'
<1>1. Open(t)' = {} /\ ~Machine(t)'
  BY DEF Open, Machine
<1>2. \A c \in Cpus : \A fn : ListOK(stopper'[c], t, fn)
  BY DEF ListOK, Lists
<1>3. done'[t].nr_todo = Cardinality(Open(t)')
  BY <1>1, FS_EmptySet DEF NoDone
<1>4. OpenOK(t)'
  BY <1>1, <1>2, <1>3 DEF OpenOK
<1>5. MachineOK(t)'
  BY <1>1 DEF MachineOK
<1>6. RanOK(t)' /\ DownOK(t)'
  BY <1>1 DEF RanOK, DownOK
<1> QED  BY <1>4, <1>5, <1>6 DEF CallOK

(* The data of a call that is not in stop_machine(). *)
LEMMA RestData ==
    /\ NoData.ack = 0 /\ NoData.state \in NONE .. PREPARE /\ NoData.active = {}
    /\ \A A : /\ Data(0, A).ack = 0 /\ Data(0, A).state \in NONE .. PREPARE
              /\ Data(0, A).active = A
    /\ \A n, A : Data(n, A).active = A /\ Data(n, A).state = PREPARE /\ Data(n, A).num = n
                 /\ Data(n, A).ack = n
  BY DEF NoData, Data, NONE, PREPARE

(* The calls of the other tasks, when no stopper changes. *)
LEMMA OtherCalls ==
    ASSUME Inv, Types', NEW t \in Tasks, UNCHANGED <<online, stopper>>,
           \A u \in Tasks : u # t => /\ task'[u] = task[u] /\ done'[u] = done[u]
                                     /\ smdata'[u] = smdata[u] /\ ran'[u] = ran[u]
    PROVE  \A u \in Tasks : u # t => CallOK(u)'
<1>1. \A u \in Tasks, c \in Cpus : Same(stopper[c], stopper'[c], u)
  BY SameSelf
<1> QED  BY <1>1, Undisturbed

(* What is left of the shape, when no stopper and no other call changes. *)
LEMMA StopperFixed ==
    ASSUME Inv, NEW t \in Tasks, UNCHANGED <<online, stopper>>,
           \A u \in Tasks : u # t => task'[u] = task[u] /\ smdata'[u] = smdata[u],
           task[t].pc # "up",
           \A c \in smdata[t].active \ online : Hot(t) => Hot(t)' /\ c \in smdata'[t].active,
           \A c \in Cpus : Steps(stopper[c], t) /\ ~stopper[c].work.done =>
              task'[t].op = "inactive" /\ task'[t].pc = "part" /\ task'[t].cpu = c
    PROVE  StopperOK'
<1>1. \A u \in Tasks : u # t => (Hot(u)' <=> Hot(u))
  BY DEF Hot
<1>2. \A c \in online : \/ stopper[c].enabled
                        \/ \E u \in Tasks : task'[u].pc = "up" /\ smdata'[u].active = {c}
  BY DEF Inv, StopperOK
<1>3. \A c \in Cpus \ online : \/ Still(stopper[c])
                               \/ \E u \in Tasks : Hot(u)' /\ c \in smdata'[u].active
  BY <1>1 DEF Inv, StopperOK
<1>4. \A c \in Cpus : \A u \in Tasks : Steps(stopper[c], u) /\ ~stopper[c].work.done =>
                task'[u].op = "inactive" /\ task'[u].pc = "part" /\ task'[u].cpu = c
  BY DEF Inv, StopperOK
<1>5. online # {} /\ \A c \in Cpus : FnsOK(stopper[c])
  BY DEF Inv, StopperOK, FnsOK
<1> QED  BY <1>2, <1>3, <1>4, <1>5 DEF StopperOK, FnsOK

HotT(t) ==
    /\ task[t].op = "down" => \E c \in Cpus : DownCpu(t, c)
    /\ task[t].op = "up" => IF task[t].pc = "BUG" THEN smdata[t].active = {}
                            ELSE \E c \in Cpus : UpCpu(t, c)
    /\ task[t].op = "inactive" => \E c \in Cpus : InactiveCpu(t, c)
    /\ task[t].op = "machine" => smdata[t].active \subseteq online
    /\ task[t].op = NULL => smdata[t].active = {}

LEMMA HotFixed ==
    ASSUME Inv, NEW t \in Tasks, UNCHANGED <<online, stopper>>,
           \A u \in Tasks : u # t => task'[u] = task[u] /\ smdata'[u] = smdata[u],
           HotT(t)'
    PROVE  HotOK'
<1>1. ASSUME NEW u \in Tasks, u # t
      PROVE  HotT(u)'
  <2>1. HotT(u)
    BY DEF Inv, HotOK, HotT
  <2>2. \A c \in Cpus : DownCpu(u, c) => DownCpu(u, c)'
    BY <1>1 DEF DownCpu
  <2>3. \A c \in Cpus : UpCpu(u, c) => UpCpu(u, c)'
    BY <1>1 DEF UpCpu
  <2>4. \A c \in Cpus : InactiveCpu(u, c) => InactiveCpu(u, c)'
    BY <1>1 DEF InactiveCpu
  <2> QED  BY <1>1, <2>1, <2>2, <2>3, <2>4 DEF HotT
<1> QED  BY <1>1 DEF HotOK, HotT

LEMMA TaskFixed ==
    ASSUME Inv, NEW t \in Tasks, online' = online,
           \A u \in Tasks : u # t => task'[u] = task[u],
           PcOK(task'[t].op, task'[t].pc), task'[t].pc = "queue" <=> task'[t].todo # {},
           task'[t].todo \subseteq online
    PROVE  TaskOK'
  BY DEF Inv, TaskOK

(* The locks: a task that is not hot stays so, and gets the mutex, keeps it *)
(* or gives it back.                                                        *)
LEMMA LockCold ==
    ASSUME Inv, NEW t \in Tasks, hotplug' = hotplug,
           \A u \in Tasks : u # t => task'[u] = task[u],
           ~Hot(t), ~Hot(t)',
           hotplug # NULL => task'[t].op \notin {"machine", "try"},
           mutex \in {NULL, t} \/ (mutex' = mutex /\ ~Holds(t)'),
           mutex \in {NULL, t} => mutex' = IF Holds(t)' THEN t ELSE NULL
    PROVE  LockOK'
<1>1. \A u \in Tasks : u # t => (Hot(u)' <=> Hot(u)) /\ (Holds(u)' <=> Holds(u))
  BY DEF Hot, Holds, Waiting
<1>2. LockOK /\ hotplug \in Tasks \cup {NULL} /\ mutex \in Tasks \cup {NULL}
  BY DEF Inv, Types
<1>3. \A u \in Tasks : mutex' = u <=> Holds(u)'
  BY <1>1, <1>2, Consts DEF LockOK
<1>4. \A u, v \in Tasks : Hot(u)' /\ Hot(v)' => u = v
  BY <1>1, <1>2 DEF LockOK
<1>5. hotplug' # NULL => /\ Hot(hotplug') /\ hotplug' # t
                         /\ \A u \in Tasks : task'[u].op \notin {"machine", "try"}
  BY <1>2 DEF LockOK
<1>6. hotplug' # NULL => Hot(hotplug)'
  BY <1>1, <1>2, <1>5
<1>7. \A u \in Tasks : Hot(u)' => hotplug' = u \/ task'[u].pc \in {"post_dead", "join", "drain"}
  BY <1>1, <1>2 DEF LockOK
<1> QED  BY <1>3, <1>4, <1>5, <1>6, <1>7 DEF LockOK

(* A task that makes no call. *)
LEMMA IdleTask ==
    ASSUME Inv, NEW t \in Tasks, ~Waiting(t)
    PROVE  /\ done[t] = NoDone /\ task[t].todo = {}
           /\ \A c \in Cpus : /\ ~Lists(stopper[c], t) /\ ~Runs(stopper[c], t)
                              /\ ~Steps(stopper[c], t)
           /\ task[t].pc # "mutex" => smdata[t].ack = 0 /\ smdata[t].state \in NONE .. PREPARE
           /\ ~Machine(t) /\ ~Holds(t) /\ mutex # t
<1>1. CallOK(t) /\ LockOK
  BY DEF Inv
<1>2. ~Machine(t) /\ ~Holds(t) /\ mutex # t
  BY <1>1 DEF Machine, Holds, LockOK
<1>3. \A c \in Cpus : ~Steps(stopper[c], t)
  BY <1>2, StepsWaits
<1>4. done[t] = NoDone
  BY <1>1 DEF CallOK, OpenOK
<1>5. task[t].pc # "mutex" => smdata[t].ack = 0 /\ smdata[t].state \in NONE .. PREPARE
  BY <1>1, <1>2 DEF CallOK, MachineOK
<1> QED  BY <1>2, <1>3, <1>4, <1>5, Closed

(* stop_machine() *)
LEMMA MachineCall ==
    ASSUME Inv, Types', NEW t \in Tasks, stop_machine(t)
    PROVE  Inv'
<1>0. Types /\ task[t].pc = "idle" /\ hotplug = NULL /\ online # {}
  BY DEF Inv, StopperOK, stop_machine, MayCall
<1>1. UNCHANGED <<online, hotplug, mutex, stopper, done, ran>>
  BY DEF stop_machine
<1>2. PICK A \in SUBSET online : __stop_machine(t, "machine", NULL, A)
  <2>1. First(online) \in online
    BY <1>0, FirstOf DEF Types
  <2> QED  BY <2>1 DEF stop_machine
<1>3. /\ task' = [task EXCEPT ![t].op = "machine", ![t].pc = "mutex", ![t].cpu = NULL]
      /\ smdata' = [smdata EXCEPT ![t] = Data(Cardinality(online), A)]
  BY <1>2 DEF __stop_machine, num_online_cpus
<1>4. /\ task'[t].op = "machine" /\ task'[t].pc = "mutex" /\ task'[t].todo = task[t].todo
      /\ \A u \in Tasks : u # t => task'[u] = task[u] /\ smdata'[u] = smdata[u]
      /\ smdata'[t] = Data(Cardinality(online), A)
  BY <1>0, <1>3 DEF Types, Frames
<1>5. task[t].op = NULL /\ ~Waiting(t) /\ ~Waiting(t)' /\ ~Hot(t) /\ ~Hot(t)' /\ ~Holds(t)'
  BY <1>0, <1>4, Places, Consts DEF Waiting, Hot, Holds
<1>6. smdata'[t].active = A /\ Part(t)' = online
  BY <1>1, <1>4, RestData DEF Part
<1>7. CallOK(t)'
  BY <1>1, <1>4, <1>5, <1>6, IdleTask, RestCall
<1>8. \A u \in Tasks : u # t => CallOK(u)'
  BY <1>1, <1>4, OtherCalls
<1>9. TaskOK'
  <2>1. PcOK(task'[t].op, task'[t].pc)
    BY <1>4, Consts DEF PcOK
  <2>2. task'[t].todo = {}
    BY <1>4, <1>5, IdleTask
  <2> QED  BY <1>1, <1>4, <2>1, <2>2, TaskFixed
<1>10. LockOK'
  <2>1. mutex \in {NULL, t} => mutex' = IF Holds(t)' THEN t ELSE NULL
    BY <1>1, <1>5, IdleTask
  <2> QED  BY <1>0, <1>1, <1>4, <1>5, <2>1, LockCold
<1>11. StopperOK'
  BY <1>0, <1>1, <1>4, <1>5, IdleTask, StopperFixed
<1>12. HotOK'
  BY <1>1, <1>4, <1>6, Consts, HotFixed DEF HotT
<1> QED  BY <1>7, <1>8, <1>9, <1>10, <1>11, <1>12 DEF Inv

(* The call of t begins to wait for all that are online. *)
LEMMA StartOpen ==
    ASSUME Inv, NEW t \in Tasks, ~Waiting(t), UNCHANGED <<online, stopper>>,
           task'[t].todo = online, task'[t].pc = "queue",
           done'[t].nr_todo = Cardinality(online)
    PROVE  /\ Open(t)' = online /\ OpenOK(t)' /\ Waiting(t)'
           /\ NotRun(t)' = online
<1>1. \A c \in Cpus : ~Lists(stopper[c], t) /\ ~Runs(stopper[c], t)
  BY IdleTask
<1>2. online \subseteq Cpus
  BY DEF Inv, Types
<1>3. Open(t)' = online /\ NotRun(t)' = online
  BY <1>1, <1>2 DEF Open, NotRun
<1>4. Waiting(t)'
  BY DEF Waiting
<1>5. \A c \in Cpus : \A fn : ListOK(stopper[c], t, fn)
  BY <1>1 DEF ListOK, Lists
<1>6. Open(t)' \subseteq online' /\ Open(t)' \subseteq Part(t)'
  BY <1>3 DEF Part
<1>7. OpenOK(t)'
  BY <1>1, <1>2, <1>3, <1>4, <1>5, <1>6 DEF OpenOK
<1> QED  BY <1>3, <1>4, <1>7

LEMMA StartMachine ==
    ASSUME Inv, Types', NEW t \in Tasks, ~Waiting(t), UNCHANGED <<online, stopper>>,
           task'[t].op \in {"machine", "down", "inactive"},
           task'[t].todo = online, task'[t].pc = "queue", task'[t].cpu \in Part(t)',
           done'[t] = [NoDone EXCEPT !.nr_todo = Cardinality(online)], ran'[t] = OnceOn({}),
           smdata'[t] = Data(Cardinality(Part(t)'), smdata'[t].active),
           \A c \in Part(t)' : c \in online \/ (task'[t].op = "inactive" /\ c = task'[t].cpu),
           task'[t].op = "down" => smdata'[t].active \subseteq online
    PROVE  CallOK(t)'
<1>1. done'[t].nr_todo = Cardinality(online) /\ ~done'[t].ret
  BY DEF NoDone
<1>2. OpenOK(t)' /\ Waiting(t)'
  BY <1>1, StartOpen
<1>3. Machine(t)'
  BY <1>2 DEF Machine
<1>4. \A c \in Cpus : ~Steps(stopper'[c], t)
  BY IdleTask
<1>5. \A c \in Part(t)' : Pending(c, t)'
  BY DEF Pending
<1>6. Part(t)' \subseteq Cpus
  BY DEF Types, Datas, Part
<1>7. Lag(t)' = Part(t)'
  BY <1>5 DEF Lag
<1>8. /\ smdata'[t].state = PREPARE /\ smdata'[t].num = Cardinality(Part(t)')
      /\ smdata'[t].ack = Cardinality(Part(t)')
  BY RestData
<1>9. StateOK(t)'
  BY <1>4, <1>5, <1>6, <1>7, <1>8 DEF StateOK, PREPARE, EXIT
<1>10. MachineOK(t)'
  BY <1>3, <1>9 DEF MachineOK
<1>11. Ran(t)' = {}
  BY <1>8 DEF Ran, HasRun, PREPARE, RUN, EXIT
<1>12. RanOK(t)'
  BY <1>11 DEF RanOK
<1>13. ~Failed(t)'
  BY <1>1, <1>4 DEF Failed
<1>14. DownOK(t)'
  BY <1>11, <1>13 DEF DownOK
<1> QED  BY <1>2, <1>10, <1>12, <1>14 DEF CallOK

(* stop_cpus() gets the mutex. *)
LEMMA StopCpusStep ==
    ASSUME Inv, Types', NEW t \in Tasks, stop_cpus(t)
    PROVE  Inv'
<1>0. Types /\ task[t].pc = "mutex" /\ online # {} /\ mutex = NULL /\ CallOK(t)
  BY DEF Inv, StopperOK, stop_cpus, __stop_cpus
<1>1. UNCHANGED <<online, hotplug, stopper, smdata>>
  BY DEF stop_cpus
<1>2. PICK c \in online : /\ task' = [task EXCEPT ![t].pc = "queue", ![t].cpu = c, ![t].todo = online]
                          /\ mutex' = t
                          /\ done' = [done EXCEPT ![t] = [NoDone EXCEPT !.nr_todo = Cardinality(online)]]
                          /\ ran' = [ran EXCEPT ![t] = OnceOn({})]
  BY DEF stop_cpus, __stop_cpus, cpu_stop_init_done, cpumask_weight
<1>3. /\ task'[t].op = task[t].op /\ task'[t].pc = "queue" /\ task'[t].todo = online
      /\ task'[t].cpu = c
      /\ done'[t] = [NoDone EXCEPT !.nr_todo = Cardinality(online)] /\ ran'[t] = OnceOn({})
      /\ \A u \in Tasks : u # t => /\ task'[u] = task[u] /\ done'[u] = done[u]
                                   /\ smdata'[u] = smdata[u] /\ ran'[u] = ran[u]
  BY <1>0, <1>1, <1>2 DEF Types, Frames
<1>4. /\ task[t].op \in {"machine", "down"} /\ ~Waiting(t) /\ Waiting(t)'
      /\ Hot(t) <=> Hot(t)'
      /\ Holds(t)' /\ ~Holds(t)
  BY <1>0, <1>3, Places DEF Waiting, Hot, Holds
<1>5. smdata[t].active \subseteq online
  <2>1. CASE task[t].op = "machine"
    BY <2>1 DEF Inv, HotOK
  <2>2. CASE task[t].op = "down"
    BY <1>0, <2>2, HotCpu DEF DownCpu
  <2> QED  BY <1>4, <2>1, <2>2
<1>6. Part(t) = online /\ Part(t)' = online
  BY <1>1, <1>5 DEF Part
<1>7. smdata[t] = Data(Cardinality(Part(t)), smdata[t].active)
  BY <1>0 DEF CallOK, MachineOK
<1>8. CallOK(t)'
  BY <1>1, <1>3, <1>4, <1>5, <1>6, <1>7, StartMachine
<1>9. \A u \in Tasks : u # t => CallOK(u)'
  BY <1>1, <1>3, OtherCalls
<1>10. TaskOK'
  <2>1. PcOK(task'[t].op, task'[t].pc)
    BY <1>3, <1>4, Consts DEF PcOK
  <2> QED  BY <1>0, <1>1, <1>3, <2>1, TaskFixed
<1>11. LockOK'
  <2>1. \A u \in Tasks : u # t => (Hot(u)' <=> Hot(u)) /\ (Holds(u)' <=> Holds(u))
    BY <1>3 DEF Hot, Holds, Waiting
  <2>2. LockOK /\ hotplug \in Tasks \cup {NULL}
    BY <1>0 DEF Inv, Types
  <2>3. \A u \in Tasks : mutex' = u <=> Holds(u)'
    BY <1>0, <1>2, <1>4, <2>1, <2>2, Consts DEF LockOK
  <2>4. \A u \in Tasks : Hot(u)' => hotplug = u \/ task'[u].pc \in {"post_dead", "join", "drain"}
    BY <1>0, <1>3, <1>4, <2>1, <2>2 DEF LockOK
  <2>5. hotplug # NULL => Hot(hotplug)' /\ \A u \in Tasks : task'[u].op \notin {"machine", "try"}
    BY <1>1, <1>3, <1>4, <2>1, <2>2 DEF LockOK
  <2>6. \A u, v \in Tasks : Hot(u)' /\ Hot(v)' => u = v
    BY <1>4, <2>1, <2>2 DEF LockOK
  <2> QED  BY <1>1, <2>3, <2>4, <2>5, <2>6 DEF LockOK
<1>12. StopperOK'
  BY <1>0, <1>1, <1>3, <1>4, IdleTask, StopperFixed
<1>13. HotOK'
  <2>1. task[t].op = "down" => DownCpu(t, Cpu(t)) /\ Cpu(t) \in Cpus
    BY HotCpu
  <2>2. \A d \in Cpus : DownCpu(t, d) => DownCpu(t, d)'
    BY <1>0, <1>1, <1>3 DEF DownCpu
  <2>3. HotT(t)'
    BY <1>1, <1>3, <1>4, <1>5, <2>1, <2>2, Consts DEF HotT
  <2> QED  BY <1>1, <1>3, <2>3, HotFixed
<1> QED  BY <1>8, <1>9, <1>10, <1>11, <1>12, <1>13 DEF Inv

(* try_stop_cpus() *)
LEMMA TryStep ==
    ASSUME Inv, Types', NEW t \in Tasks, try_stop_cpus(t)
    PROVE  Inv'
<1>0. Types /\ task[t].pc = "idle" /\ hotplug = NULL /\ online # {} /\ mutex = NULL
  BY DEF Inv, StopperOK, try_stop_cpus, __stop_cpus, MayCall
<1>1. UNCHANGED <<online, hotplug, stopper, smdata>>
  BY DEF try_stop_cpus
<1>2. PICK c \in online : /\ task' = [task EXCEPT ![t] = [op |-> "try", pc |-> "queue", cpu |-> c,
                                                          todo |-> online]]
                          /\ mutex' = t
                          /\ done' = [done EXCEPT ![t] = [NoDone EXCEPT !.nr_todo = Cardinality(online)]]
                          /\ ran' = [ran EXCEPT ![t] = OnceOn({})]
  BY DEF try_stop_cpus, __stop_cpus, cpu_stop_init_done, cpumask_weight
<1>3. /\ task'[t].op = "try" /\ task'[t].pc = "queue" /\ task'[t].todo = online
      /\ done'[t] = [NoDone EXCEPT !.nr_todo = Cardinality(online)] /\ ran'[t] = OnceOn({})
      /\ \A u \in Tasks : u # t => /\ task'[u] = task[u] /\ done'[u] = done[u]
                                   /\ smdata'[u] = smdata[u] /\ ran'[u] = ran[u]
  BY <1>0, <1>1, <1>2 DEF Types, Frames
<1>4. /\ ~Waiting(t) /\ Waiting(t)' /\ ~Hot(t) /\ ~Hot(t)' /\ Holds(t)' /\ ~Machine(t)'
  BY <1>0, <1>3, Places, Consts DEF Waiting, Hot, Holds, Machine
<1>5. done'[t].nr_todo = Cardinality(online)
  BY <1>3 DEF NoDone
<1>6. OpenOK(t)' /\ NotRun(t)' = online
  BY <1>1, <1>3, <1>4, <1>5, StartOpen
<1>7. MachineOK(t)'
  BY <1>0, <1>1, <1>3, <1>4, IdleTask DEF MachineOK
<1>8. RanOK(t)'
  <2>1. online' \ NotRun(t)' = {}
    BY <1>1, <1>6
  <2> QED  BY <1>3, <1>4, <2>1 DEF RanOK
<1>9. CallOK(t)'
  BY <1>4, <1>6, <1>7, <1>8 DEF CallOK, DownOK
<1>10. \A u \in Tasks : u # t => CallOK(u)'
  BY <1>1, <1>3, OtherCalls
<1>11. TaskOK'
  <2>1. PcOK(task'[t].op, task'[t].pc)
    BY <1>3, Consts DEF PcOK
  <2> QED  BY <1>0, <1>1, <1>3, <2>1, TaskFixed
<1>12. LockOK'
  BY <1>0, <1>1, <1>2, <1>3, <1>4, LockCold
<1>13. StopperOK'
  BY <1>0, <1>1, <1>3, <1>4, IdleTask, StopperFixed
<1>14. HotOK'
  BY <1>1, <1>3, Consts, HotFixed DEF HotT
<1> QED  BY <1>9, <1>10, <1>11, <1>12, <1>13, <1>14 DEF Inv

(* A call that leaves. *)
LEMMA LeaveFacts ==
    ASSUME Types, NEW t \in Tasks, Leave(t)
    PROVE  /\ task'[t] = NotCalling /\ smdata'[t] = NoData
           /\ task'[t].op = NULL /\ task'[t].pc = "idle" /\ task'[t].todo = {}
           /\ smdata'[t].active = {}
           /\ \A u \in Tasks : u # t => task'[u] = task[u] /\ smdata'[u] = smdata[u]
           /\ ~Waiting(t)' /\ ~Hot(t)' /\ ~Holds(t)' /\ HotT(t)'
           /\ PcOK(task'[t].op, task'[t].pc)
<1>1. /\ task'[t] = NotCalling /\ smdata'[t] = NoData
      /\ \A u \in Tasks : u # t => task'[u] = task[u] /\ smdata'[u] = smdata[u]
  BY DEF Leave, Types
<1>2. task'[t].op = NULL /\ task'[t].pc = "idle" /\ task'[t].todo = {} /\ smdata'[t].active = {}
  BY <1>1 DEF NotCalling, NoData
<1>3. ~Waiting(t)' /\ ~Hot(t)' /\ ~Holds(t)'
  BY <1>2, Consts DEF Waiting, Hot, Holds
<1>4. HotT(t)' /\ PcOK(task'[t].op, task'[t].pc)
  BY <1>2, Consts DEF HotT, PcOK
<1> QED  BY <1>1, <1>2, <1>3, <1>4

LEMMA LeaveCall ==
    ASSUME Types, NEW t \in Tasks, Leave(t), done'[t] = NoDone,
           \A c \in Cpus : ~Lists(stopper'[c], t) /\ ~Runs(stopper'[c], t)
    PROVE  CallOK(t)'
<1>1. smdata'[t].ack = 0 /\ smdata'[t].state \in NONE .. PREPARE
  BY LeaveFacts, RestData
<1>2. /\ task'[t].todo = {} /\ ~Waiting(t)' /\ task'[t].pc # "mutex"
      /\ task'[t].op \notin {"one", "try"}
  BY LeaveFacts, Consts
<1> QED  BY <1>1, <1>2, RestCall

LEMMA ReturnStep ==
    ASSUME Inv, Types', NEW t \in Tasks, Return(t)
    PROVE  Inv'
<1>0. /\ Types /\ task[t].pc = "wait" /\ done[t].nr_todo = 0 /\ Leave(t)
      /\ task[t].op \in {"one", "machine", "try"}
  BY DEF Inv, Return, Completed
<1>1. UNCHANGED <<online, hotplug, stopper>> /\ mutex' = IF mutex = t THEN NULL ELSE mutex
  BY DEF Return
<1>2. /\ done'[t] = NoDone
      /\ \A u \in Tasks : u # t => done'[u] = done[u] /\ ran'[u] = ran[u]
  BY <1>0 DEF Return, Forget, Types
<1>3. \A c \in Cpus : ~Lists(stopper[c], t) /\ ~Runs(stopper[c], t)
  BY <1>0, Closed
<1>4. CallOK(t)'
  BY <1>0, <1>1, <1>2, <1>3, LeaveCall
<1>5. \A u \in Tasks : u # t => CallOK(u)'
  BY <1>0, <1>1, <1>2, LeaveFacts, OtherCalls
<1>6. TaskOK'
  BY <1>0, <1>1, LeaveFacts, TaskFixed
<1>7. LockOK'
  <2>1. ~Hot(t)
    BY <1>0 DEF Hot
  <2>2. mutex \in {NULL, t} \/ (mutex' = mutex /\ ~Holds(t)')
    BY <1>0, <1>1, LeaveFacts
  <2>3. mutex \in {NULL, t} => mutex' = IF Holds(t)' THEN t ELSE NULL
    BY <1>0, <1>1, LeaveFacts
  <2>4. task'[t].op \notin {"machine", "try"}
    BY <1>0, LeaveFacts, Consts
  <2> QED  BY <1>0, <1>1, <2>1, <2>2, <2>3, <2>4, LeaveFacts, LockCold
<1>8. StopperOK'
  <2>1. \A c \in Cpus : ~(Steps(stopper[c], t) /\ ~stopper[c].work.done)
    BY <1>0 DEF Inv, StopperOK
  <2>2. ~Hot(t)
    BY <1>0 DEF Hot
  <2> QED  BY <1>0, <1>1, <2>1, <2>2, LeaveFacts, StopperFixed
<1>9. HotOK'
  BY <1>0, <1>1, LeaveFacts, HotFixed
<1> QED  BY <1>4, <1>5, <1>6, <1>7, <1>8, <1>9 DEF Inv

LEMMA Stutter ==
    ASSUME Inv, UNCHANGED vars
    PROVE  Inv'
<1> USE DEF vars
<1>1. Types'
  BY DEF Inv, Types
<1>2. TaskOK'
  BY DEF Inv, TaskOK
<1>3. \A t \in Tasks : (Hot(t)' <=> Hot(t)) /\ (Holds(t)' <=> Holds(t))
  BY DEF Hot, Holds, Waiting
<1>4. LockOK'
  <2>1. hotplug \in Tasks \cup {NULL} /\ LockOK
    BY DEF Inv, Types
  <2> QED  BY <1>3, <2>1 DEF LockOK
<1>5. StopperOK'
  <2>1. StopperOK /\ UNCHANGED <<online, stopper, task, smdata>>
    BY DEF Inv
  <2>2. \A c \in Cpus \ online' : \/ Still(stopper'[c])
                                  \/ \E t \in Tasks : Hot(t)' /\ c \in smdata'[t].active
    BY <1>3, <2>1 DEF StopperOK
  <2>3. \A c \in Cpus : FnsOK(stopper'[c])
    BY <2>1 DEF StopperOK, FnsOK
  <2> QED  BY <2>1, <2>2, <2>3 DEF StopperOK, FnsOK
<1>6. HotOK'
  <2>1. \A t \in Tasks, c \in Cpus : /\ DownCpu(t, c)' <=> DownCpu(t, c)
                                     /\ UpCpu(t, c)' <=> UpCpu(t, c)
                                     /\ InactiveCpu(t, c)' <=> InactiveCpu(t, c)
    BY DEF DownCpu, UpCpu, InactiveCpu
  <2> QED  BY <2>1 DEF Inv, HotOK
<1>7. \A t \in Tasks : CallOK(t)'
  <2>1. \A t \in Tasks, c \in Cpus : Same(stopper[c], stopper'[c], t)
    BY SameSelf
  <2> QED  BY <1>1, <2>1, Undisturbed
<1> QED  BY <1>1, <1>2, <1>4, <1>5, <1>6, <1>7 DEF Inv

-----------------------------------------------------------------------------
(* cpu_stop_queue_work() *)

LEMMA EnqueueFacts ==
    ASSUME Types, NEW c \in Cpus, NEW w \in Works, stopper' = Enqueue(c, w)
    PROVE  LET s == stopper[c]
               s2 == stopper'[c]
           IN  /\ s \in Stoppers /\ s2.works = Append(s.works, w)
               /\ s2.enabled = s.enabled /\ s2.pc = s.pc /\ s2.work = s.work
               /\ s2.curstate = s.curstate /\ s2.err = s.err
               /\ \A d \in Cpus : d # c => stopper'[d] = stopper[d]
               /\ \A i \in DOMAIN s2.works :
                     s2.works[i] = w \/ \E j \in DOMAIN s.works : s2.works[i] = s.works[j]
<1> DEFINE s == stopper[c]
           s2 == stopper'[c]
<1>1. s \in Stoppers /\ stopper \in [Cpus -> Stoppers]
  BY DEF Types
<1>2. /\ s2.works = Append(s.works, w)
      /\ s2.enabled = s.enabled /\ s2.pc = s.pc /\ s2.work = s.work
      /\ s2.curstate = s.curstate /\ s2.err = s.err
      /\ \A d \in Cpus : d # c => stopper'[d] = stopper[d]
  BY <1>1 DEF Enqueue, Stoppers
<1>3. s.works \in Seq(Works)
  BY <1>1, FieldTypes
<1> DEFINE n == Len(s.works)
<1>4. n \in Nat /\ DOMAIN s.works = 1 .. n
  BY <1>3, LenProperties
<1>5. /\ s2.works \in Seq(Works) /\ Len(s2.works) = n + 1
      /\ \A i \in 1 .. n : s2.works[i] = s.works[i]
      /\ s2.works[n + 1] = w
  BY <1>2, <1>3, AppendProperties
<1>6. DOMAIN s2.works = 1 .. (n + 1)
  BY <1>5, LenProperties
<1> HIDE DEF n
<1>7. \A i \in 1 .. (n + 1) : i \in 1 .. n \/ i = n + 1
  BY <1>4
<1>8. \A i \in DOMAIN s2.works :
         s2.works[i] = w \/ \E j \in DOMAIN s.works : s2.works[i] = s.works[j]
  BY <1>4, <1>5, <1>6, <1>7
<1> QED  BY <1>1, <1>2, <1>8

(* What the caller's step may be, while the work is added to a list. *)
Queues(t) ==
    \/ task'[t] = task[t]
    \/ task[t].pc = "idle" /\ task'[t].op = "one" /\ task'[t].pc = "wait"
    \/ /\ task[t].pc = "queue" /\ task'[t].pc \in {"queue", "wait"}
       /\ task'[t].op = task[t].op /\ task'[t].cpu = task[t].cpu

LEMMA QueueShape ==
    ASSUME Inv, NEW t \in Tasks, NEW c \in Cpus, NEW w \in Works, w.done \/ w.fn = "plain",
           stopper[c].enabled, stopper' = Enqueue(c, w), UNCHANGED <<online, smdata>>,
           \A u \in Tasks : u # t => task'[u] = task[u], Queues(t)
    PROVE  StopperOK' /\ HotOK'
<1> DEFINE s == stopper[c]
           s2 == stopper'[c]
<1>0. Types /\ StopperOK /\ HotOK
  BY DEF Inv
<1>1. /\ s2.enabled = s.enabled /\ s2.pc = s.pc /\ s2.work = s.work
      /\ s2.curstate = s.curstate /\ s2.err = s.err
      /\ \A d \in Cpus : d # c => stopper'[d] = stopper[d]
      /\ \A i \in DOMAIN s2.works :
            s2.works[i] = w \/ \E j \in DOMAIN s.works : s2.works[i] = s.works[j]
  BY <1>0, EnqueueFacts
<1>2. ASSUME NEW u \in Tasks
      PROVE  /\ Hot(u) => Hot(u)'
             /\ task[u].pc = "up" => task'[u].pc = "up"
             /\ task[u].op = "inactive" /\ task[u].pc = "part" => task'[u] = task[u]
  BY Places, Consts DEF Hot, Queues
<1>3. \A d \in Cpus : FnsOK(stopper'[d])
  <2>1. \A d \in Cpus : FnsOK(stopper[d])
    BY <1>0 DEF StopperOK, FnsOK
  <2>2. \A i \in DOMAIN s2.works : ~s2.works[i].done => s2.works[i].fn = "plain"
    BY <1>1, <2>1 DEF FnsOK
  <2>3. FnsOK(s2)
    BY <1>1, <2>1, <2>2 DEF FnsOK
  <2> QED  BY <1>1, <2>1, <2>3
<1>4. \A d \in online : \/ stopper'[d].enabled
                        \/ \E u \in Tasks : task'[u].pc = "up" /\ smdata'[u].active = {d}
  <2> SUFFICES ASSUME NEW d \in online, ~stopper'[d].enabled
               PROVE  \E u \in Tasks : task'[u].pc = "up" /\ smdata'[u].active = {d}
    OBVIOUS
  <2>1. ~stopper[d].enabled
    BY <1>0, <1>1 DEF Types
  <2> QED  BY <1>0, <1>2, <2>1 DEF StopperOK
<1>5. \A d \in Cpus \ online : \/ Still(stopper'[d])
                               \/ \E u \in Tasks : Hot(u)' /\ d \in smdata'[u].active
  <2> SUFFICES ASSUME NEW d \in Cpus \ online,
                      ~\E u \in Tasks : Hot(u)' /\ d \in smdata'[u].active
               PROVE  Still(stopper'[d])
    OBVIOUS
  <2>1. Still(stopper[d])
    BY <1>0, <1>2 DEF StopperOK
  <2> QED  BY <1>1, <2>1 DEF Still
<1>6. \A d \in Cpus : \A u \in Tasks : Steps(stopper'[d], u) /\ ~stopper'[d].work.done =>
         task'[u].op = "inactive" /\ task'[u].pc = "part" /\ task'[u].cpu = d
  <2> SUFFICES ASSUME NEW d \in Cpus, NEW u \in Tasks, Steps(stopper'[d], u), ~stopper'[d].work.done
               PROVE  task'[u].op = "inactive" /\ task'[u].pc = "part" /\ task'[u].cpu = d
    OBVIOUS
  <2>1. Steps(stopper[d], u) /\ ~stopper[d].work.done
    BY <1>1 DEF Steps
  <2> QED  BY <1>0, <1>2, <2>1 DEF StopperOK
<1>7. StopperOK'
  BY <1>0, <1>3, <1>4, <1>5, <1>6 DEF StopperOK, FnsOK
<1>8. ASSUME NEW u \in Tasks
      PROVE  HotT(u)'
  <2>1. HotT(u)
    BY <1>0 DEF HotOK, HotT
  <2>2. CASE task'[u].op = "one"
    BY <2>2, Consts DEF HotT
  <2>3. CASE /\ task'[u].op = task[u].op /\ task'[u].cpu = task[u].cpu
             /\ \/ task'[u].pc = task[u].pc
                \/ task[u].pc = "queue" /\ task'[u].pc \in {"queue", "wait"}
    <3>1. \A d \in Cpus : DownCpu(u, d) => DownCpu(u, d)'
      BY <1>1, <2>3 DEF DownCpu
    <3>2. \A d \in Cpus : UpCpu(u, d) => UpCpu(u, d)'
      <4> SUFFICES ASSUME NEW d \in Cpus, UpCpu(u, d)
                   PROVE  UpCpu(u, d)'
        OBVIOUS
      <4>1. d # c
        BY DEF UpCpu, Empty
      <4> QED  BY <1>1, <2>3, <4>1 DEF UpCpu
    <3>3. \A d \in Cpus : InactiveCpu(u, d) => InactiveCpu(u, d)'
      <4> SUFFICES ASSUME NEW d \in Cpus, InactiveCpu(u, d)
                   PROVE  InactiveCpu(u, d)'
        OBVIOUS
      <4>1. d # c
        BY DEF InactiveCpu, Empty
      <4> QED  BY <1>1, <2>3, <4>1 DEF InactiveCpu
    <3> QED  BY <2>1, <2>3, <3>1, <3>2, <3>3 DEF HotT
  <2> QED  BY <2>2, <2>3 DEF Queues
<1>9. HotOK'
  BY <1>8 DEF HotOK, HotT
<1> QED  BY <1>7, <1>9

(* stop_one_cpu_nowait() *)
LEMMA NowaitStep ==
    ASSUME Inv, Types', NEW t \in Tasks, NEW c \in Cpus, stop_one_cpu_nowait(t, c)
    PROVE  Inv'
<1> DEFINE w == Work(t, "plain", FALSE)
<1>0. Types /\ w \in Works /\ ~w.done /\ w.fn = "plain" /\ w.by = t
  BY Records DEF Inv, Work
<1>1. /\ UNCHANGED <<online, hotplug, mutex, drained, task, smdata, ran>>
      /\ cpu_stop_queue_work(c, w, done)
  BY DEF stop_one_cpu_nowait
<1> HIDE DEF w
<1>2. CASE ~stopper[c].enabled
  <2>1. UNCHANGED stopper /\ done' = [done EXCEPT ![t].nr_todo = @]
    BY <1>0, <1>1, <1>2 DEF cpu_stop_queue_work
  <2>2. done' = done
    BY <1>0, <2>1 DEF Types, Dones
  <2> QED  BY <1>1, <2>1, <2>2, Stutter DEF vars
<1>3. CASE stopper[c].enabled
  <2>1. stopper' = Enqueue(c, w) /\ done' = done
    BY <1>1, <1>3 DEF cpu_stop_queue_work
  <2>2. StopperOK' /\ HotOK'
    BY <1>0, <1>1, <1>3, <2>1, QueueShape DEF Queues
  <2>3. \A u \in Tasks : Same(stopper[c], stopper'[c], u)
    BY <1>0, <2>1, EnqueueFacts, Appending DEF Mine
  <2>4. \A d \in Cpus : d # c => stopper'[d] = stopper[d]
    BY <1>0, <2>1, EnqueueFacts
  <2>5. \A u \in Tasks : CallOK(u)'
    BY <1>1, <2>1, <2>3, <2>4, Others
  <2>6. TaskOK'
    BY <1>1 DEF Inv, TaskOK
  <2>7. \A u \in Tasks : (Hot(u)' <=> Hot(u)) /\ (Holds(u)' <=> Holds(u))
    BY <1>1 DEF Hot, Holds, Waiting
  <2>8. LockOK'
    <3>1. hotplug \in Tasks \cup {NULL} /\ LockOK
      BY DEF Inv, Types
    <3> QED  BY <1>1, <2>7, <3>1 DEF LockOK
  <2> QED  BY <2>2, <2>5, <2>6, <2>8 DEF Inv
<1> QED  BY <1>2, <1>3

(* stop_one_cpu() *)
LEMMA OneStep ==
    ASSUME Inv, Types', NEW t \in Tasks, NEW c \in Cpus, stop_one_cpu(t, c)
    PROVE  Inv'
<1> DEFINE w == Work(t, "plain", TRUE)
           one == [NoDone EXCEPT !.nr_todo = 1]
<1>0. Types /\ w \in Works /\ w.done /\ w.fn = "plain" /\ w.by = t /\ task[t].pc = "idle"
  BY Records DEF Inv, Work, stop_one_cpu, MayCall
<1>1. /\ UNCHANGED <<online, hotplug, mutex, smdata>>
      /\ cpu_stop_queue_work(c, w, [done EXCEPT ![t] = one])
      /\ task' = [task EXCEPT ![t].op = "one", ![t].pc = "wait"]
      /\ ran' = [ran EXCEPT ![t] = OnceOn({})]
  BY DEF stop_one_cpu, cpu_stop_init_done
<1> HIDE DEF w
<1>2. /\ task'[t].op = "one" /\ task'[t].pc = "wait" /\ task'[t].todo = task[t].todo
      /\ ran'[t] = OnceOn({})
      /\ \A u \in Tasks : u # t => task'[u] = task[u] /\ smdata'[u] = smdata[u] /\ ran'[u] = ran[u]
  BY <1>0, <1>1 DEF Types, Frames
<1>3. /\ task[t].op = NULL /\ ~Waiting(t) /\ Waiting(t)' /\ ~Machine(t)' /\ ~Hot(t) /\ ~Hot(t)'
      /\ ~Holds(t)'
  BY <1>0, <1>2, Places, Consts DEF Waiting, Machine, Hot, Holds
<1>4. /\ task[t].todo = {} /\ mutex # t
      /\ \A d \in Cpus : ~Lists(stopper[d], t) /\ ~Runs(stopper[d], t) /\ ~Steps(stopper[d], t)
      /\ smdata[t].ack = 0 /\ smdata[t].state \in NONE .. PREPARE
  BY <1>0, <1>3, IdleTask
<1>5. TaskOK'
  <2>1. PcOK(task'[t].op, task'[t].pc)
    BY <1>2, Consts DEF PcOK
  <2> QED  BY <1>1, <1>2, <1>4, <2>1, TaskFixed
<1>6. LockOK'
  <2>1. mutex \in {NULL, t} \/ (mutex' = mutex /\ ~Holds(t)')
    BY <1>1, <1>3
  <2>2. mutex \in {NULL, t} => mutex' = IF Holds(t)' THEN t ELSE NULL
    BY <1>1, <1>3, <1>4
  <2> QED  BY <1>1, <1>2, <1>3, <2>1, <2>2, LockCold
<1>7. MachineOK(t)' /\ DownOK(t)'
  BY <1>1, <1>2, <1>3, <1>4 DEF MachineOK, DownOK
<1>8. FnOf(task'[t].op) = "plain"
  BY <1>2 DEF FnOf
<1>9. one.nr_todo = 1 /\ ~one.executed
  BY DEF NoDone
<1>10. CASE ~stopper[c].enabled
  <2>1. UNCHANGED stopper /\ done' = [[done EXCEPT ![t] = one] EXCEPT ![t].nr_todo = @ - 1]
    BY <1>0, <1>1, <1>10 DEF cpu_stop_queue_work
  <2>2. /\ done'[t].nr_todo = 0 /\ ~done'[t].executed
        /\ \A u \in Tasks : u # t => done'[u] = done[u]
    BY <1>0, <2>1 DEF Types, Dones, NoDone
  <2>3. Open(t)' = {}
    BY <1>2, <1>4, <2>1 DEF Open
  <2>4. \A d \in Cpus : ListOK(stopper'[d], t, FnOf(task'[t].op))
    BY <1>4, <2>1 DEF ListOK, Lists
  <2>5. done'[t].nr_todo = Cardinality(Open(t)')
    BY <2>2, <2>3, FS_EmptySet
  <2>6. OpenOK(t)'
    BY <1>2, <1>3, <1>4, <2>1, <2>4, <2>5 DEF OpenOK
  <2>7. RanOK(t)'
    <3>1. ~\E d \in Cpus : Signals(stopper'[d], t)
      BY <1>4, <2>1 DEF Signals
    <3> QED  BY <1>2, <1>3, <2>2, <2>3, <3>1 DEF RanOK
  <2>8. \A u \in Tasks : u # t => CallOK(u)'
    BY <1>1, <1>2, <2>1, <2>2, OtherCalls
  <2>9. StopperOK'
    BY <1>0, <1>1, <1>2, <1>3, <1>4, <2>1, StopperFixed
  <2>10. HotOK'
    BY <1>1, <1>2, <2>1, Consts, HotFixed DEF HotT
  <2> QED  BY <1>5, <1>6, <1>7, <2>6, <2>7, <2>8, <2>9, <2>10 DEF Inv, CallOK
<1>11. CASE stopper[c].enabled
  <2>1. stopper' = Enqueue(c, w) /\ done' = [done EXCEPT ![t] = one]
    BY <1>1, <1>11 DEF cpu_stop_queue_work
  <2>2. /\ done'[t].nr_todo = 1 /\ ~done'[t].executed
        /\ \A u \in Tasks : u # t => done'[u] = done[u]
    BY <1>0, <1>9, <2>1 DEF Types
  <2>3. /\ \A d \in Cpus : d # c => stopper'[d] = stopper[d]
        /\ \A u \in Tasks : u # t => Same(stopper[c], stopper'[c], u)
        /\ Lists(stopper'[c], t) /\ ListOK(stopper'[c], t, "plain") /\ ~Runs(stopper'[c], t)
    <3>1. Mine(w, t) /\ \A u \in Tasks : u # t => ~Mine(w, u)
      BY <1>0 DEF Mine
    <3>2. ~Lists(stopper[c], t) /\ ~Runs(stopper[c], t)
      BY <1>4
    <3>3. /\ stopper[c] \in Stoppers /\ stopper'[c].works = Append(stopper[c].works, w)
          /\ stopper'[c].enabled = stopper[c].enabled /\ stopper'[c].pc = stopper[c].pc
          /\ stopper'[c].work = stopper[c].work /\ stopper'[c].curstate = stopper[c].curstate
          /\ stopper'[c].err = stopper[c].err
          /\ \A d \in Cpus : d # c => stopper'[d] = stopper[d]
      BY <1>0, <2>1, EnqueueFacts
    <3>4. \A u : /\ ~Mine(w, u) => Same(stopper[c], stopper'[c], u)
                 /\ Mine(w, u) /\ stopper[c].enabled => Lists(stopper'[c], u)
                 /\ Mine(w, u) /\ ~Lists(stopper[c], u) => ListOK(stopper'[c], u, w.fn)
                 /\ Runs(stopper'[c], u) <=> Runs(stopper[c], u)
      BY <1>0, <3>3, Appending
    <3> QED  BY <1>0, <1>11, <3>1, <3>2, <3>3, <3>4
  <2>4. Open(t)' = {c}
    BY <1>2, <1>4, <2>3 DEF Open
  <2>5. \A d \in Cpus : ListOK(stopper'[d], t, FnOf(task'[t].op))
    <3>1. \A d \in Cpus : d # c => ListOK(stopper'[d], t, "plain")
      BY <1>4, <2>3 DEF ListOK, Lists
    <3> QED  BY <1>8, <2>3, <3>1
  <2>6. done'[t].nr_todo = Cardinality(Open(t)')
    BY <2>2, <2>4, FS_Singleton
  <2>7. \A d \in Cpus : ~Runs(stopper'[d], t)
    BY <1>4, <2>3
  <2>8. OpenOK(t)'
    BY <1>2, <1>3, <1>4, <2>5, <2>6, <2>7 DEF OpenOK
  <2>9. RanOK(t)'
    <3>1. ~\E d \in Cpus : Signals(stopper'[d], t)
      BY <2>7 DEF Signals
    <3> QED  BY <1>2, <1>3, <2>2, <2>4, <3>1 DEF RanOK
  <2>10. \A u \in Tasks : u # t => CallOK(u)'
    BY <1>1, <1>2, <2>2, <2>3, Others
  <2>11. StopperOK' /\ HotOK'
    BY <1>0, <1>1, <1>2, <1>11, <2>1, QueueShape DEF Queues
  <2> QED  BY <1>5, <1>6, <1>7, <2>8, <2>9, <2>10, <2>11 DEF Inv, CallOK
<1> QED  BY <1>10, <1>11

(* While a task queues works, every CPU that is online takes them. *)
LEMMA OnlineEnabled ==
    ASSUME Inv, NEW t \in Tasks, Waiting(t) \/ task[t].pc = "mutex", task[t].op # "one"
    PROVE  \A c \in online : stopper[c].enabled
<1>1. \A u \in Tasks : task[u].pc # "up"
  <2> SUFFICES ASSUME NEW u \in Tasks, task[u].pc = "up"
               PROVE  FALSE
    OBVIOUS
  <2>1. task[u].op = "up" /\ Hot(u)
    BY Places DEF Hot
  <2>2. hotplug = u /\ u # NULL
    BY <2>1, Consts DEF Inv, LockOK
  <2>3. task[t].op \notin {"machine", "try"}
    BY <2>2 DEF Inv, LockOK
  <2>4. task[t].op \in {"down", "inactive"}
    BY <2>3, Places DEF Waiting, PcOK
  <2> QED  BY <2>1, <2>4 DEF Inv, LockOK, Hot
<1> QED  BY <1>1 DEF Inv, StopperOK

(* A round of the loop of queue_stop_cpus_work(): the CPU it gives a work   *)
(* to is on the list of those to come no more, but one of the list has it.  *)
LEMMA QueueCall ==
    ASSUME Inv, Types', NEW t \in Tasks, NEW c \in task[t].todo, c \in Cpus,
           UNCHANGED <<online, smdata, done, ran>>, task[t].pc = "queue",
           task'[t].pc \in {"queue", "wait"}, task'[t].op = task[t].op, task'[t].cpu = task[t].cpu,
           task'[t].todo = task[t].todo \ {c},
           \A d \in Cpus : d # c => stopper'[d] = stopper[d],
           stopper'[c].pc = stopper[c].pc, stopper'[c].work = stopper[c].work,
           stopper'[c].curstate = stopper[c].curstate, stopper'[c].err = stopper[c].err,
           Lists(stopper'[c], t), ListOK(stopper'[c], t, FnOf(task[t].op))
    PROVE  CallOK(t)'
<1>0. CallOK(t) /\ Types /\ c \in Cpus /\ task[t].todo \in SUBSET Cpus
  BY DEF Inv, Types, Frames
<1>1. Waiting(t) /\ Waiting(t)' /\ (Machine(t)' <=> Machine(t))
  BY DEF Waiting, Machine
<1>2. \A d \in Cpus : /\ stopper'[d].pc = stopper[d].pc /\ stopper'[d].work = stopper[d].work
                      /\ stopper'[d].curstate = stopper[d].curstate
                      /\ stopper'[d].err = stopper[d].err
  OBVIOUS
<1>3. \A d \in Cpus : /\ Runs(stopper'[d], t) <=> Runs(stopper[d], t)
                      /\ Steps(stopper'[d], t) <=> Steps(stopper[d], t)
  BY <1>2 DEF Runs, Steps
<1>4. \A d \in Cpus : d \in task'[t].todo \/ Lists(stopper'[d], t)
                      <=> d \in task[t].todo \/ Lists(stopper[d], t)
  OBVIOUS
<1>5. Open(t)' = Open(t)
  BY <1>3, <1>4 DEF Open
<1>6. OpenOK(t)'
  <2>1. OpenOK(t)
    BY <1>0 DEF CallOK
  <2>2. \A d \in task'[t].todo : ~Lists(stopper'[d], t) /\ ~Runs(stopper'[d], t)
    BY <1>0, <2>1 DEF OpenOK
  <2>3. \A d \in Cpus : /\ Lists(stopper'[d], t) => ~Runs(stopper'[d], t)
                        /\ Runs(stopper'[d], t) => stopper'[d].work.fn = FnOf(task'[t].op)
    <3>1. ~Runs(stopper[c], t)
      BY <2>1 DEF OpenOK
    <3> QED  BY <1>2, <1>3, <2>1, <3>1 DEF OpenOK
  <2>4. \A d \in Cpus : ListOK(stopper'[d], t, FnOf(task'[t].op))
    BY <2>1 DEF OpenOK
  <2>5. Machine(t)' => Open(t)' \subseteq Part(t)'
    BY <1>1, <1>5, <2>1 DEF OpenOK, Part
  <2>6. task'[t].op = "try" => Open(t)' \subseteq online'
    BY <1>5, <2>1 DEF OpenOK
  <2> QED  BY <1>1, <1>5, <2>1, <2>2, <2>3, <2>4, <2>5, <2>6 DEF OpenOK
<1>7. MachineOK(t)'
  <2>1. \A d : d \in Cpus => (Pending(d, t)' <=> Pending(d, t))
    BY <1>4 DEF Pending
  <2>2. CASE Machine(t)
    <3>1. Part(t)' = Part(t) /\ Part(t) \subseteq Cpus
      BY <1>0 DEF Part, Types, Datas
    <3>2. Lag(t)' = Lag(t)
      BY <1>2, <1>3, <2>1, <3>1 DEF Lag, Behind
    <3>3. StateOK(t)
      BY <1>0, <2>2 DEF CallOK, MachineOK
    <3>4. \A d \in Cpus : Steps(stopper[d], t) => At(stopper'[d], smdata[t].state)
      BY <1>2, <3>3 DEF StateOK, At
    <3>5. StateOK(t)'
      BY <1>2, <1>3, <2>1, <3>1, <3>2, <3>3, <3>4 DEF StateOK
    <3> QED  BY <1>1, <2>2, <3>5 DEF MachineOK
  <2>3. CASE ~Machine(t)
    BY <1>0, <1>1, <2>3 DEF CallOK, MachineOK
  <2> QED  BY <2>2, <2>3
<1>8. RanOK(t)'
  <2>1. NotRun(t)' = NotRun(t)
    BY <1>2, <1>3, <1>4 DEF NotRun
  <2>2. \A d \in Cpus, state \in Int : HasRun(stopper'[d], t, state) <=> HasRun(stopper[d], t, state)
    BY <1>2, <1>3 DEF HasRun
  <2>3. Ran(t)' = Ran(t)
    <3>1. smdata[t].active \in SUBSET Cpus /\ smdata[t].state \in Int
      BY <1>0 DEF Types, Datas
    <3> QED  BY <2>2, <3>1 DEF Ran
  <2>4. task[t].op # "one"
    BY Places
  <2> QED  BY <1>0, <1>1, <2>1, <2>3, <2>4 DEF CallOK, RanOK
<1>9. DownOK(t)'
  <2>2. \A d \in Cpus, state \in Int : HasRun(stopper'[d], t, state) <=> HasRun(stopper[d], t, state)
    BY <1>2, <1>3 DEF HasRun
  <2>3. Ran(t)' = Ran(t)
    <3>1. smdata[t].active \in SUBSET Cpus /\ smdata[t].state \in Int
      BY <1>0 DEF Types, Datas
    <3> QED  BY <2>2, <3>1 DEF Ran
  <2>4. Failed(t)' <=> Failed(t)
    BY <1>2, <1>3 DEF Failed
  <2> QED  BY <1>0, <1>1, <2>3, <2>4 DEF CallOK, DownOK
<1> QED  BY <1>6, <1>7, <1>8, <1>9 DEF CallOK

LEMMA QueueStep ==
    ASSUME Inv, Types', NEW t \in Tasks, queue_stop_cpus_work(t)
    PROVE  Inv'
<1> DEFINE c == First(task[t].todo)
           w == Work(t, IF task[t].op = "try" THEN "plain" ELSE "sm", TRUE)
           rest == task[t].todo \ {c}
           p == IF rest = {} THEN "wait" ELSE task[t].pc
<1>0. /\ Types /\ task[t].pc = "queue" /\ task[t].todo # {} /\ task[t].todo \subseteq online
      /\ online \subseteq Cpus
  BY DEF Inv, Types, queue_stop_cpus_work, TaskOK
<1>1. c \in task[t].todo /\ c \in Cpus /\ c \in online
  BY <1>0, FirstOf
<1>2. w \in Works /\ w.done /\ w.by = t /\ w.fn = FnOf(task[t].op)
  <2>1. task[t].op # "one"
    BY <1>0, Places
  <2> QED  BY <2>1, Records DEF Work, FnOf
<1>3. /\ UNCHANGED <<online, hotplug, mutex, smdata, ran>>
      /\ cpu_stop_queue_work(c, w, done)
      /\ task' = [task EXCEPT ![t].todo = rest, ![t].pc = p]
  BY DEF queue_stop_cpus_work
<1>4. p \in {"queue", "wait"} /\ (p = "queue" <=> rest # {})
  BY <1>0
<1> HIDE DEF c, w, p
<1>5. /\ task'[t].op = task[t].op /\ task'[t].cpu = task[t].cpu /\ task'[t].todo = rest
      /\ task'[t].pc = p
      /\ \A u \in Tasks : u # t => task'[u] = task[u]
  BY <1>0, <1>3 DEF Types, Frames
<1>6. Waiting(t) /\ Waiting(t)' /\ task[t].op \in {"machine", "try", "down", "inactive"}
  BY <1>0, <1>4, <1>5, Places DEF Waiting
<1>7. stopper[c].enabled
  BY <1>1, <1>6, OnlineEnabled
<1>8. stopper' = Enqueue(c, w) /\ done' = done
  BY <1>3, <1>7 DEF cpu_stop_queue_work
<1>9. /\ stopper[c] \in Stoppers /\ stopper'[c].works = Append(stopper[c].works, w)
      /\ stopper'[c].enabled = stopper[c].enabled /\ stopper'[c].pc = stopper[c].pc
      /\ stopper'[c].work = stopper[c].work /\ stopper'[c].curstate = stopper[c].curstate
      /\ stopper'[c].err = stopper[c].err
      /\ \A d \in Cpus : d # c => stopper'[d] = stopper[d]
  BY <1>0, <1>1, <1>2, <1>8, EnqueueFacts
<1>10. \A u : /\ ~Mine(w, u) => Same(stopper[c], stopper'[c], u)
              /\ Mine(w, u) /\ stopper[c].enabled => Lists(stopper'[c], u)
              /\ Mine(w, u) /\ ~Lists(stopper[c], u) => ListOK(stopper'[c], u, w.fn)
  BY <1>2, <1>9, Appending
<1>11. CallOK(t)'
  <2>1. ~Lists(stopper[c], t) /\ Mine(w, t)
    BY <1>1, <1>2 DEF Inv, CallOK, OpenOK, Mine
  <2>2. Lists(stopper'[c], t) /\ ListOK(stopper'[c], t, FnOf(task[t].op))
    BY <1>2, <1>7, <1>10, <2>1
  <2> QED  BY <1>0, <1>1, <1>3, <1>4, <1>5, <1>8, <1>9, <2>2, QueueCall
<1>12. ASSUME NEW u \in Tasks, u # t
       PROVE  CallOK(u)'
  <2>1. Same(stopper[c], stopper'[c], u)
    BY <1>2, <1>10, <1>12 DEF Mine
  <2> QED  BY <1>1, <1>3, <1>5, <1>8, <1>9, <1>12, <2>1, Others
<1>13. TaskOK'
  <2>1. PcOK(task'[t].op, task'[t].pc)
    BY <1>4, <1>5, <1>6, Consts DEF PcOK
  <2> QED  BY <1>0, <1>3, <1>4, <1>5, <2>1, TaskFixed
<1>14. LockOK'
  <2>1. \A u \in Tasks : (Hot(u)' <=> Hot(u)) /\ (Holds(u)' <=> Holds(u))
    BY <1>5, <1>6 DEF Hot, Holds, Waiting
  <2>2. LockOK /\ hotplug \in Tasks \cup {NULL}
    BY <1>0 DEF Inv, Types
  <2>3. \A u \in Tasks : task'[u].op = task[u].op
                         /\ (task[u].pc \in {"post_dead", "join", "drain"} => task'[u].pc = task[u].pc)
    BY <1>0, <1>5
  <2> QED  BY <1>3, <2>1, <2>2, <2>3 DEF LockOK
<1>15. StopperOK' /\ HotOK'
  <2>1. Queues(t)
    BY <1>0, <1>4, <1>5 DEF Queues
  <2>2. w.done \/ w.fn = "plain"
    BY <1>2
  <2> QED  BY <1>1, <1>2, <1>3, <1>5, <1>7, <1>8, <2>1, <2>2, QueueShape
<1> QED  BY <1>11, <1>12, <1>13, <1>14, <1>15 DEF Inv

-----------------------------------------------------------------------------
(* CPU hotplug: what the steps of an operation have in common. *)

(* There is one operation at a time. *)
LEMMA OnlyHot ==
    ASSUME Inv, NEW t \in Tasks, Hot(t)
    PROVE  /\ \A u \in Tasks : u # t => ~Hot(u)
           /\ hotplug \in {t, NULL}
           /\ hotplug = t \/ task[t].pc \in {"post_dead", "join", "drain"}
           /\ hotplug = t => \A u \in Tasks : task[u].op \notin {"machine", "try"}
<1>1. LockOK /\ hotplug \in Tasks \cup {NULL}
  BY DEF Inv, Types
<1> QED  BY <1>1, Consts DEF LockOK

LEMMA HotLock ==
    ASSUME Inv, NEW t \in Tasks,
           \A u \in Tasks : u # t => task'[u] = task[u] /\ ~Hot(u),
           hotplug' = NULL => ~Hot(t)' \/ task'[t].pc \in {"post_dead", "join", "drain"},
           hotplug' # NULL => /\ hotplug' = t /\ Hot(t)'
                              /\ \A u \in Tasks : u # t => task[u].op \notin {"machine", "try"},
           \/ mutex' = mutex /\ (Holds(t)' <=> Holds(t))
           \/ mutex \in {NULL, t} /\ mutex' = IF Holds(t)' THEN t ELSE NULL
    PROVE  LockOK'
<1>1. LockOK /\ mutex \in Tasks \cup {NULL}
  BY DEF Inv, Types
<1>2. \A u \in Tasks : u # t => ~Hot(u)' /\ (Holds(u)' <=> Holds(u))
  BY DEF Hot, Holds, Waiting
<1>3. \A u \in Tasks : mutex' = u <=> Holds(u)'
  BY <1>1, <1>2, Consts DEF LockOK
<1>4. Hot(t)' => task'[t].op \notin {"machine", "try"}
  BY DEF Hot
<1>5. hotplug' # NULL => /\ Hot(hotplug)'
                         /\ \A u \in Tasks : task'[u].op \notin {"machine", "try"}
  <2> SUFFICES ASSUME hotplug' # NULL
               PROVE  /\ Hot(hotplug)'
                      /\ \A u \in Tasks : task'[u].op \notin {"machine", "try"}
    OBVIOUS
  <2>1. hotplug' = t /\ Hot(t)'
    OBVIOUS
  <2>2. Hot(hotplug)'
    BY <2>1 DEF Hot
  <2> QED  BY <1>4, <2>1, <2>2
<1>6. \A u, v \in Tasks : Hot(u)' /\ Hot(v)' => u = v
  BY <1>2
<1>7. \A u \in Tasks : Hot(u)' => hotplug' = u \/ task'[u].pc \in {"post_dead", "join", "drain"}
  BY <1>2
<1> QED  BY <1>3, <1>5, <1>6, <1>7 DEF LockOK

LEMMA HotShape ==
    ASSUME Inv, NEW t \in Tasks, NEW c \in Cpus,
           online' = online \/ online' = online \cup {c},
           \A d \in Cpus : d # c => stopper'[d] = stopper[d],
           \A u \in Tasks : u # t => /\ task'[u] = task[u] /\ smdata'[u] = smdata[u]
                                     /\ ~Hot(u),
           FnsOK(stopper'[c]),
           \A d \in online : d # c => stopper[d].enabled,
           c \in online' => \/ stopper'[c].enabled
                            \/ task'[t].pc = "up" /\ smdata'[t].active = {c},
           c \notin online' => Still(stopper'[c]) \/ (Hot(t)' /\ c \in smdata'[t].active),
           \A d \in smdata[t].active \ online : d # c /\ Hot(t) => Hot(t)' /\ d \in smdata'[t].active,
           \A u \in Tasks : Steps(stopper'[c], u) /\ ~stopper'[c].work.done =>
              task'[u].op = "inactive" /\ task'[u].pc = "part" /\ task'[u].cpu = c,
           \A d \in Cpus : d # c => ~(Steps(stopper[d], t) /\ ~stopper[d].work.done),
           HotT(t)'
    PROVE  StopperOK' /\ HotOK'
<1>0. StopperOK /\ HotOK /\ online \subseteq Cpus /\ online \subseteq online' /\ online' \subseteq Cpus
  BY DEF Inv, Types
<1>1. \A d \in Cpus : FnsOK(stopper'[d])
  <2>1. \A d \in Cpus : FnsOK(stopper[d])
    BY <1>0 DEF StopperOK, FnsOK
  <2> QED  BY <2>1
<1>2. \A d \in online' : \/ stopper'[d].enabled
                         \/ \E u \in Tasks : task'[u].pc = "up" /\ smdata'[u].active = {d}
  <2> SUFFICES ASSUME NEW d \in online', d # c
               PROVE  stopper'[d].enabled
    OBVIOUS
  <2>1. d \in online /\ d \in Cpus /\ stopper'[d] = stopper[d]
    BY <1>0
  <2> QED  BY <2>1, Zenon
<1>3. \A d \in Cpus \ online' : \/ Still(stopper'[d])
                                \/ \E u \in Tasks : Hot(u)' /\ d \in smdata'[u].active
  <2> SUFFICES ASSUME NEW d \in Cpus \ online', d # c, ~Still(stopper'[d])
               PROVE  Hot(t)' /\ d \in smdata'[t].active
    OBVIOUS
  <2>1. d \in Cpus \ online /\ ~Still(stopper[d])
    BY <1>0
  <2>2. PICK u \in Tasks : Hot(u) /\ d \in smdata[u].active
    BY <1>0, <2>1 DEF StopperOK
  <2> QED  BY <2>1, <2>2
<1>4. \A d \in Cpus : \A u \in Tasks : Steps(stopper'[d], u) /\ ~stopper'[d].work.done =>
         task'[u].op = "inactive" /\ task'[u].pc = "part" /\ task'[u].cpu = d
  <2> SUFFICES ASSUME NEW d \in Cpus, NEW u \in Tasks, d # c, Steps(stopper'[d], u),
                      ~stopper'[d].work.done
               PROVE  task'[u].op = "inactive" /\ task'[u].pc = "part" /\ task'[u].cpu = d
    OBVIOUS
  <2>1. Steps(stopper[d], u) /\ ~stopper[d].work.done /\ u # t
    OBVIOUS
  <2> QED  BY <1>0, <2>1 DEF StopperOK
<1>5. StopperOK'
  BY <1>0, <1>1, <1>2, <1>3, <1>4 DEF StopperOK, FnsOK
<1>6. ASSUME NEW u \in Tasks, u # t
      PROVE  HotT(u)'
  <2>1. task'[u].op \notin {"down", "up", "inactive"}
    BY <1>6 DEF Hot
  <2>2. task'[u].op = "machine" => smdata'[u].active \subseteq online'
    BY <1>0, <1>6 DEF HotOK
  <2>3. task'[u].op = NULL => smdata'[u].active = {}
    BY <1>0, <1>6 DEF HotOK
  <2> QED  BY <2>1, <2>2, <2>3 DEF HotT
<1> QED  BY <1>5, <1>6 DEF HotOK, HotT

(* The task of the operation waits for no stopper, before and after. *)
LEMMA HotRest ==
    ASSUME Inv, NEW t \in Tasks, ~Waiting(t), ~Waiting(t)', task[t].pc # "mutex",
           task'[t].pc # "mutex", task'[t].op \notin {"one", "try"}, task'[t].todo = task[t].todo,
           done'[t] = done[t], smdata'[t] = smdata[t],
           \A c \in Cpus : Same(stopper[c], stopper'[c], t)
    PROVE  CallOK(t)'
<1>1. /\ done[t] = NoDone /\ task[t].todo = {}
      /\ \A c \in Cpus : ~Lists(stopper[c], t) /\ ~Runs(stopper[c], t)
      /\ smdata[t].ack = 0 /\ smdata[t].state \in NONE .. PREPARE
  BY IdleTask
<1>2. \A c \in Cpus : ~Lists(stopper'[c], t) /\ ~Runs(stopper'[c], t)
  BY <1>1 DEF Same
<1> QED  BY <1>1, <1>2, RestCall

(* The CPU of the operation apart, those that are online are enabled. *)
LEMMA OthersEnabled ==
    ASSUME Inv, NEW t \in Tasks, Hot(t) \/ (\A u \in Tasks : ~Hot(u))
    PROVE  \A c \in online : stopper[c].enabled \/ (task[t].pc = "up" /\ smdata[t].active = {c})
<1>1. \A u \in Tasks : task[u].pc = "up" => Hot(u)
  BY Places DEF Hot
<1>2. \A u \in Tasks : Hot(u) => u = t
  BY OnlyHot
<1> QED  BY <1>1, <1>2 DEF Inv, StopperOK

(* Of a task that is idle or waits for no stopper. *)
LEMMA PlainTask ==
    ASSUME Inv, NEW t \in Tasks
    PROVE  /\ Hot(t) => task[t].op # NULL
           /\ task[t].pc \in {"dying", "post_dead", "join", "drain", "prepared", "starting", "up"} =>
                 /\ Hot(t) /\ ~Waiting(t) /\ ~Holds(t) /\ task[t].op \in {"down", "up"}
                 /\ Cpu(t) \in Cpus /\ smdata[t].active = {Cpu(t)}
                 /\ \A d \in Cpus : ~Steps(stopper[d], t)
<1>1. Hot(t) => task[t].op # NULL
  BY Consts DEF Hot
<1>2. ASSUME task[t].pc \in {"dying", "post_dead", "join", "drain", "prepared", "starting", "up"}
      PROVE  /\ Hot(t) /\ ~Waiting(t) /\ ~Holds(t) /\ task[t].op \in {"down", "up"}
             /\ Cpu(t) \in Cpus /\ smdata[t].active = {Cpu(t)}
             /\ \A d \in Cpus : ~Steps(stopper[d], t)
  <2>1. Hot(t) /\ ~Waiting(t) /\ ~Holds(t) /\ task[t].op \in {"down", "up"}
    BY <1>2, Places DEF Hot, Waiting, Holds
  <2>2. task[t].pc # "BUG"
    BY <1>2
  <2> QED  BY <2>1, <2>2, HotCpu, IdleTask
<1> QED  BY <1>1, <1>2

LEMMA FnsHold ==
    ASSUME Inv
    PROVE  /\ \A c \in Cpus : FnsOK(stopper[c])
           /\ \A t \in Tasks : \A d \in Cpus : Steps(stopper[d], t) /\ ~stopper[d].work.done =>
                task[t].op = "inactive" /\ task[t].pc = "part" /\ task[t].cpu = d
  BY DEF Inv, StopperOK, FnsOK

(* cpu_down() *)
LEMMA CpuDownStep ==
    ASSUME Inv, Types', NEW t \in Tasks, NEW c \in Cpus, cpu_down(t, c)
    PROVE  Inv'
<1>0. /\ Types /\ task[t].pc = "idle" /\ MayHotplug /\ c \in online /\ online # {c}
      /\ online \subseteq Cpus
  BY DEF Inv, Types, cpu_down, MayCall
<1>1. UNCHANGED <<online, mutex, stopper, done, ran>> /\ hotplug' = t
  BY DEF cpu_down
<1>2. /\ task' = [task EXCEPT ![t].op = "down", ![t].pc = "mutex", ![t].cpu = c]
      /\ smdata' = [smdata EXCEPT ![t] = Data(Cardinality(online), {c})]
  BY DEF cpu_down, __stop_machine, num_online_cpus
<1>3. /\ task'[t].op = "down" /\ task'[t].pc = "mutex" /\ task'[t].todo = task[t].todo
      /\ \A u \in Tasks : u # t => task'[u] = task[u] /\ smdata'[u] = smdata[u]
      /\ smdata'[t] = Data(Cardinality(online), {c})
  BY <1>0, <1>2 DEF Types, Frames
<1>4. /\ \A u \in Tasks : ~Hot(u) /\ task[u].op \notin {"machine", "try"}
      /\ ~Waiting(t) /\ ~Waiting(t)' /\ Hot(t)' /\ ~Holds(t) /\ ~Holds(t)'
  BY <1>0, <1>3 DEF MayHotplug, Hot, Waiting, Holds
<1>5. smdata'[t].active = {c} /\ Part(t)' = online
  BY <1>0, <1>1, <1>3, RestData DEF Part
<1>6. CallOK(t)'
  BY <1>1, <1>3, <1>4, <1>5, IdleTask, RestCall
<1>7. \A u \in Tasks : u # t => CallOK(u)'
  BY <1>1, <1>3, OtherCalls
<1>8. TaskOK'
  <2>1. PcOK(task'[t].op, task'[t].pc)
    BY <1>3, Consts DEF PcOK
  <2>2. task'[t].todo = {}
    BY <1>3, <1>4, IdleTask
  <2> QED  BY <1>1, <1>3, <2>1, <2>2, TaskFixed
<1>9. LockOK'
  BY <1>1, <1>3, <1>4, Consts, HotLock
<1>10. StopperOK'
  BY <1>0, <1>1, <1>3, <1>4, IdleTask, StopperFixed
<1>11. HotOK'
  <2>1. stopper[c].enabled
    BY <1>0, <1>4, OthersEnabled
  <2>2. online \ {c} # {}
    BY <1>0
  <2>3. DownCpu(t, c)'
    BY <1>0, <1>1, <1>3, <1>5, <2>1, <2>2 DEF DownCpu
  <2>4. HotT(t)'
    BY <1>3, <2>3, Consts DEF HotT
  <2> QED  BY <1>1, <1>3, <2>4, HotFixed
<1> QED  BY <1>6, <1>7, <1>8, <1>9, <1>10, <1>11 DEF Inv

(* cpu_up() *)
LEMMA CpuUpStep ==
    ASSUME Inv, Types', NEW t \in Tasks, NEW c \in Cpus, cpu_up(t, c)
    PROVE  Inv'
<1> DEFINE s == stopper[c]
           s2 == stopper'[c]
<1>0. /\ Types /\ task[t].pc = "idle" /\ MayHotplug /\ c \notin online /\ List(c) = <<>>
      /\ online \subseteq Cpus
  BY DEF Inv, Types, cpu_up, MayCall
<1>a. s.works = <<>>
  <2>1. s.works \in Seq(Works)
    BY <1>0, FieldTypes DEF Types
  <2> QED  BY <1>0, <2>1 DEF List
<1>1. UNCHANGED <<online, mutex, done, ran>> /\ hotplug' = t
  BY DEF cpu_up
<1>2. /\ task' = [task EXCEPT ![t].op = "up", ![t].pc = "prepared"]
      /\ smdata' = [smdata EXCEPT ![t] = Data(0, {c})]
      /\ stopper' = [stopper EXCEPT ![c].pc = "sleep"]
  BY DEF cpu_up
<1>3. /\ task'[t].op = "up" /\ task'[t].pc = "prepared" /\ task'[t].todo = task[t].todo
      /\ \A u \in Tasks : u # t => task'[u] = task[u] /\ smdata'[u] = smdata[u]
      /\ smdata'[t] = Data(0, {c})
  BY <1>0, <1>2 DEF Types, Frames
<1>4. /\ s2.enabled = s.enabled /\ s2.works = s.works /\ s2.awake = s.awake /\ s2.pc = "sleep"
      /\ s2.curstate = s.curstate /\ s2.err = s.err
      /\ \A d \in Cpus : d # c => stopper'[d] = stopper[d]
  BY <1>0, <1>2 DEF Types, Stoppers
<1>5. /\ \A u \in Tasks : ~Hot(u) /\ task[u].op \notin {"machine", "try"}
      /\ ~Waiting(t) /\ ~Waiting(t)' /\ Hot(t)' /\ ~Holds(t) /\ ~Holds(t)'
  BY <1>0, <1>3 DEF MayHotplug, Hot, Waiting, Holds
<1>6. Still(s)
  BY <1>0, <1>5 DEF Inv, StopperOK
<1>7. s.pc \notin BusyPcs /\ s2.pc \notin BusyPcs
  BY <1>4, <1>6 DEF Still, BusyPcs
<1>8. \A u \in Tasks : Same(s, s2, u) /\ ~Runs(s2, u) /\ ~Steps(s2, u)
  BY <1>4, <1>7, SameList DEF Runs, Steps
<1>9. CallOK(t)'
  <2>1. /\ done[t] = NoDone /\ task[t].todo = {}
        /\ \A d \in Cpus : ~Lists(stopper[d], t) /\ ~Runs(stopper[d], t)
    BY <1>5, IdleTask
  <2>2. \A d \in Cpus : ~Lists(stopper'[d], t) /\ ~Runs(stopper'[d], t)
    BY <1>4, <1>8, <2>1 DEF Same
  <2>3. smdata'[t].ack = 0 /\ smdata'[t].state \in NONE .. PREPARE
    BY <1>3, RestData
  <2> QED  BY <1>1, <1>3, <1>5, <2>1, <2>2, <2>3, RestCall
<1>10. \A u \in Tasks : u # t => CallOK(u)'
  BY <1>1, <1>3, <1>4, <1>8, Others
<1>11. TaskOK'
  <2>1. PcOK(task'[t].op, task'[t].pc)
    BY <1>3, Consts DEF PcOK
  <2>2. task'[t].todo = {}
    BY <1>3, <1>5, IdleTask
  <2> QED  BY <1>1, <1>3, <2>1, <2>2, TaskFixed
<1>12. LockOK'
  BY <1>1, <1>3, <1>5, Consts, HotLock
<1>13. smdata'[t].active = {c}
  BY <1>3, RestData
<1>14. HotT(t)'
  <2>1. UpCpu(t, c)'
    BY <1>0, <1>a, <1>1, <1>3, <1>4, <1>6, <1>7, <1>13 DEF UpCpu, Empty, Quiet, Still
  <2> QED  BY <1>3, <2>1, Consts DEF HotT
<1>15. StopperOK' /\ HotOK'
  <2>1. FnsOK(s2)
    <3>1. FnsOK(s)
      BY FnsHold
    <3>2. s2.pc \notin {"plain", "loop", "fn", "ack", "set_state"}
      BY <1>4
    <3> QED  BY <1>4, <1>7, <3>1, <3>2 DEF FnsOK
  <2>2. \A d \in online : d # c => stopper[d].enabled
    <3>1. task[t].pc # "up"
      BY <1>0
    <3> QED  BY <1>5, <3>1, OthersEnabled
  <2>3. \A d \in Cpus : ~(Steps(stopper[d], t) /\ ~stopper[d].work.done)
    BY <1>5, IdleTask
  <2>4. c \notin online' /\ online' = online /\ c \in smdata'[t].active
    BY <1>0, <1>1, <1>13
  <2> QED  BY <1>3, <1>4, <1>5, <1>8, <1>14, <2>1, <2>2, <2>3, <2>4, HotShape
<1> QED  BY <1>9, <1>10, <1>11, <1>12, <1>15 DEF Inv

LEMMA HGotoFacts ==
    ASSUME Types, NEW t \in Tasks, NEW p, HGoto(t, p)
    PROVE  /\ task'[t].pc = p /\ task'[t].op = task[t].op /\ task'[t].cpu = task[t].cpu
           /\ task'[t].todo = task[t].todo
           /\ \A u \in Tasks : u # t => task'[u] = task[u]
  BY DEF HGoto, Types, Frames

(* BUG_ON() *)
LEMMA BugOnStep ==
    ASSUME Inv, Types', NEW t \in Tasks, NEW c \in Cpus, BugOn(t, c)
    PROVE  Inv'
<1>0. Types /\ task[t].pc = "idle" /\ MayHotplug /\ online \subseteq Cpus
  BY DEF Inv, Types, BugOn, MayCall
<1>1. UNCHANGED <<online, mutex, stopper, done, smdata, ran>> /\ hotplug' = t
  BY DEF BugOn
<1>2. task' = [task EXCEPT ![t].op = "up", ![t].pc = "BUG"]
  BY DEF BugOn
<1>3. /\ task'[t].op = "up" /\ task'[t].pc = "BUG" /\ task'[t].todo = task[t].todo
      /\ \A u \in Tasks : u # t => task'[u] = task[u] /\ smdata'[u] = smdata[u]
  BY <1>0, <1>1, <1>2 DEF Types, Frames
<1>4. /\ \A u \in Tasks : ~Hot(u) /\ task[u].op \notin {"machine", "try"}
      /\ ~Waiting(t) /\ ~Waiting(t)' /\ Hot(t)' /\ ~Holds(t) /\ ~Holds(t)'
  BY <1>0, <1>3 DEF MayHotplug, Hot, Waiting, Holds
<1>5. /\ done[t] = NoDone /\ task[t].todo = {}
      /\ \A d \in Cpus : /\ ~Lists(stopper[d], t) /\ ~Runs(stopper[d], t)
                         /\ ~Steps(stopper[d], t)
      /\ smdata[t].ack = 0 /\ smdata[t].state \in NONE .. PREPARE
  BY <1>0, <1>4, IdleTask
<1>6. CallOK(t)'
  BY <1>1, <1>3, <1>4, <1>5, RestCall
<1>7. \A u \in Tasks : u # t => CallOK(u)'
  BY <1>1, <1>3, OtherCalls
<1>8. TaskOK'
  <2>1. PcOK(task'[t].op, task'[t].pc)
    BY <1>3, Consts DEF PcOK
  <2> QED  BY <1>1, <1>3, <1>5, <2>1, TaskFixed
<1>9. LockOK'
  BY <1>1, <1>3, <1>4, Consts, HotLock
<1>10. StopperOK'
  BY <1>0, <1>1, <1>3, <1>4, <1>5, StopperFixed
<1>11. HotOK'
  <2>1. smdata[t].active = {}
    BY <1>0, Places DEF Inv, HotOK
  <2>2. HotT(t)'
    BY <1>1, <1>3, <2>1 DEF HotT
  <2> QED  BY <1>1, <1>3, <2>2, HotFixed
<1> QED  BY <1>6, <1>7, <1>8, <1>9, <1>10, <1>11 DEF Inv

(* A step of the operation that changes the place of its task, and the      *)
(* stopper of its CPU at most.                                              *)
LEMMA HotMove ==
    ASSUME Inv, Types', NEW t \in Tasks, NEW p,
           task[t].pc \in {"dying", "post_dead", "join", "prepared", "starting"},
           p \in {"post_dead", "join", "drain", "up"}, PcOK(task[t].op, p),
           task'[t].pc = p, task'[t].op = task[t].op, task'[t].todo = task[t].todo,
           \A u \in Tasks : u # t => task'[u] = task[u],
           UNCHANGED <<mutex, done, smdata, ran>>,
           p = "up" => hotplug' = t,
           hotplug' \in {t, NULL}, hotplug' = t => hotplug = t,
           online' = IF p = "up" THEN online \cup {Cpu(t)} ELSE online,
           \A d \in Cpus : d # Cpu(t) => stopper'[d] = stopper[d],
           \A u \in Tasks : Same(stopper[Cpu(t)], stopper'[Cpu(t)], u),
           FnsOK(stopper'[Cpu(t)]),
           task[t].op = "down" => DownCpu(t, Cpu(t))',
           task[t].op = "up" => UpCpu(t, Cpu(t))'
    PROVE  Inv'
<1>0. Types /\ p \notin {"queue", "mutex"} /\ task[t].pc \notin {"queue", "mutex", "up"}
  BY DEF Inv
<1>1. PICK c \in Cpus : c = Cpu(t)
  BY PlainTask
<1>a. Cpu(t)' = c
  BY <1>1 DEF Cpu
<1>2. /\ task'[t].pc = p /\ task'[t].op = task[t].op /\ task'[t].todo = task[t].todo
      /\ \A u \in Tasks : u # t => task'[u] = task[u] /\ smdata'[u] = smdata[u]
  OBVIOUS
<1>3. /\ Hot(t) /\ ~Waiting(t) /\ ~Holds(t) /\ task[t].op \in {"down", "up"}
      /\ smdata[t].active = {c} /\ \A d \in Cpus : ~Steps(stopper[d], t)
  BY <1>1, PlainTask
<1>4. Hot(t)' /\ ~Waiting(t)' /\ ~Holds(t)'
  BY <1>2, <1>3 DEF Hot, Waiting, Holds
<1>5. /\ \A u \in Tasks : u # t => ~Hot(u)
      /\ hotplug = t \/ task[t].pc \in {"post_dead", "join", "drain"}
      /\ hotplug = t => \A u \in Tasks : task[u].op \notin {"machine", "try"}
  BY <1>3, OnlyHot
<1>6. online' = online \/ online' = online \cup {c}
  BY <1>1
<1>7. /\ \A d \in Cpus : d # c => stopper'[d] = stopper[d]
      /\ \A u \in Tasks : Same(stopper[c], stopper'[c], u)
  BY <1>1
<1>8. CallOK(t)'
  <2>1. \A d \in Cpus : Same(stopper[d], stopper'[d], t)
    BY <1>7, SameSelf
  <2>2. task'[t].op \notin {"one", "try"}
    BY <1>2, <1>3
  <2> QED  BY <1>0, <1>2, <1>3, <1>4, <2>1, <2>2, HotRest
<1>9. ASSUME NEW u \in Tasks, u # t
      PROVE  CallOK(u)'
  <2>1. online' = online \/ task[u].op \notin {"machine", "try", "down", "inactive"}
    <3>1. CASE p = "up"
      <4>1. hotplug = t
        BY <3>1
      <4> QED  BY <1>5, <1>9, <4>1 DEF Hot
    <3> QED  BY <3>1
  <2> QED  BY <1>2, <1>7, <1>9, <2>1, Others
<1>10. TaskOK'
  <2>1. PcOK(task'[t].op, task'[t].pc)
    BY <1>2
  <2>2. task[t].todo = {}
    BY <1>3, IdleTask
  <2>3. \A u \in Tasks : task[u].todo \subseteq online'
    BY <1>6 DEF Inv, TaskOK
  <2> QED  BY <1>0, <1>2, <2>1, <2>2, <2>3 DEF Inv, TaskOK
<1>11. LockOK'
  <2>1. hotplug' = NULL => ~Hot(t)' \/ task'[t].pc \in {"post_dead", "join", "drain"}
    BY <1>2, Consts
  <2>2. hotplug' # NULL => /\ hotplug' = t /\ Hot(t)'
                           /\ \A u \in Tasks : u # t => task[u].op \notin {"machine", "try"}
    BY <1>4, <1>5
  <2> QED  BY <1>2, <1>3, <1>4, <1>5, <2>1, <2>2, HotLock
<1>12. HotT(t)'
  <2>1. /\ task[t].op = "down" => DownCpu(t, c)'
        /\ task[t].op = "up" => UpCpu(t, c)'
    BY <1>a DEF DownCpu, UpCpu
  <2> QED  BY <1>2, <1>3, <2>1, Consts DEF HotT
<1>13. StopperOK' /\ HotOK'
  <2>1. \A d \in online : d # c => stopper[d].enabled
    <3>1. task[t].pc # "up"
      BY <1>0
    <3> QED  BY <1>3, <3>1, OthersEnabled
  <2>2. c \in online' => \/ stopper'[c].enabled
                         \/ task'[t].pc = "up" /\ smdata'[t].active = {c}
    <3>1. CASE p = "up"
      BY <1>2, <1>3, <3>1
    <3>2. CASE p # "up"
      <4>1. c \notin online'
        <5>1. CASE task[t].op = "down"
          <6>1. DownCpu(t, c)'
            BY <1>a, <5>1 DEF DownCpu
          <6> QED  BY <1>2, <3>2, <6>1 DEF DownCpu
        <5>2. CASE task[t].op = "up"
          <6>1. UpCpu(t, c)'
            BY <1>a, <5>2 DEF UpCpu
          <6> QED  BY <1>2, <3>2, <6>1 DEF UpCpu
        <5> QED  BY <1>3, <5>1, <5>2
      <4> QED  BY <4>1
    <3> QED  BY <3>1, <3>2
  <2>3. \A u \in Tasks : ~(Steps(stopper'[c], u) /\ ~stopper'[c].work.done)
    <3> SUFFICES ASSUME NEW u \in Tasks, Steps(stopper'[c], u), ~stopper'[c].work.done
                 PROVE  FALSE
      OBVIOUS
    <3>1. Steps(stopper[c], u) /\ stopper'[c].work = stopper[c].work
      BY <1>7 DEF Same
    <3>2. task[u].op = "inactive"
      BY <3>1, FnsHold
    <3> QED  BY <1>3, <1>5, <3>2 DEF Hot
  <2>4. \A d \in Cpus : ~(Steps(stopper[d], t) /\ ~stopper[d].work.done)
    BY <1>3
  <2>5. FnsOK(stopper'[c]) /\ smdata'[t].active = {c} /\ c \in smdata'[t].active
    BY <1>1, <1>3
  <2>6. c \notin online' => Still(stopper'[c]) \/ (Hot(t)' /\ c \in smdata'[t].active)
    BY <1>4, <2>5
  <2>7. \A d \in smdata[t].active \ online : d # c /\ Hot(t) => Hot(t)' /\ d \in smdata'[t].active
    BY <1>3
  <2> QED  BY <1>2, <1>5, <1>6, <1>7, <1>12, <2>1, <2>2, <2>3, <2>4, <2>5, <2>6, <2>7, HotShape
<1> QED  BY <1>8, <1>9, <1>10, <1>11, <1>13 DEF Inv

LEMMA DeadStep ==
    ASSUME Inv, Types', NEW t \in Tasks, Dead(t)
    PROVE  Inv'
<1>0. Types /\ task[t].pc = "dying" /\ HGoto(t, "post_dead") /\ hotplug' = NULL
  BY DEF Inv, Dead
<1>1. UNCHANGED <<online, mutex, stopper, done, smdata, ran>>
  BY DEF Dead
<1>2. task[t].op = "down" /\ Cpu(t) \in Cpus /\ Cpu(t)' = Cpu(t)
  BY <1>0, <1>1, Places, HotCpu DEF Cpu
<1>3. DownCpu(t, Cpu(t)) /\ task'[t].pc = "post_dead"
  BY <1>0, <1>2, HotCpu, HGotoFacts
<1>4. DownCpu(t, Cpu(t))'
  BY <1>0, <1>1, <1>2, <1>3 DEF DownCpu
<1>5. FnsOK(stopper'[Cpu(t)]) /\ \A u \in Tasks : Same(stopper[Cpu(t)], stopper'[Cpu(t)], u)
  BY <1>1, <1>2, FnsHold, SameSelf
<1>6. PcOK(task[t].op, "post_dead")
  BY <1>2, Consts DEF PcOK
<1>7. hotplug' \in {t, NULL} /\ (hotplug' = t => hotplug = t)
  BY <1>0, Consts
<1> QED  BY <1>0, <1>1, <1>2, <1>4, <1>5, <1>6, <1>7, HotMove, HGotoFacts

LEMMA UpCanceledStep ==
    ASSUME Inv, Types', NEW t \in Tasks, UpCanceled(t)
    PROVE  Inv'
<1>0. Types /\ task[t].pc = "prepared" /\ HGoto(t, "post_dead")
  BY DEF Inv, UpCanceled
<1>1. UNCHANGED <<online, hotplug, mutex, stopper, done, smdata, ran>>
  BY DEF UpCanceled
<1>2. task[t].op = "up" /\ Cpu(t) \in Cpus /\ Cpu(t)' = Cpu(t) /\ Hot(t)
  BY <1>0, <1>1, Places, HotCpu DEF Cpu, Hot
<1>3. UpCpu(t, Cpu(t)) /\ task'[t].pc = "post_dead"
  BY <1>0, <1>2, HotCpu, HGotoFacts
<1>4. UpCpu(t, Cpu(t))'
  BY <1>0, <1>1, <1>2, <1>3 DEF UpCpu
<1>5. FnsOK(stopper'[Cpu(t)]) /\ \A u \in Tasks : Same(stopper[Cpu(t)], stopper'[Cpu(t)], u)
  BY <1>1, <1>2, FnsHold, SameSelf
<1>6. PcOK(task[t].op, "post_dead")
  BY <1>2, Consts DEF PcOK
<1>7. hotplug' \in {t, NULL} /\ (hotplug' = t => hotplug = t)
  BY <1>1, <1>2, OnlyHot
<1> QED  BY <1>0, <1>1, <1>2, <1>4, <1>5, <1>6, <1>7, HotMove, HGotoFacts

LEMMA KthreadStopStep ==
    ASSUME Inv, Types', NEW t \in Tasks, kthread_stop(t)
    PROVE  Inv'
<1>0. Types /\ task[t].pc = "post_dead" /\ HGoto(t, "join")
  BY DEF Inv, kthread_stop
<1>1. UNCHANGED <<online, hotplug, mutex, done, smdata, ran>>
  BY DEF kthread_stop
<1>2. PICK c \in Cpus : c = Cpu(t)
  BY <1>0, PlainTask
<1>3. task[t].op \in {"down", "up"} /\ Cpu(t)' = c /\ Hot(t)
  BY <1>0, <1>1, <1>2, PlainTask DEF Cpu
<1>4. stopper' = [stopper EXCEPT ![c].should_stop = TRUE, ![c].awake = TRUE]
  BY <1>2 DEF kthread_stop
<1> DEFINE s == stopper[c]
           s2 == stopper'[c]
<1>5. /\ s2.enabled = s.enabled /\ s2.works = s.works /\ s2.pc = s.pc /\ s2.work = s.work
      /\ s2.curstate = s.curstate /\ s2.err = s.err
      /\ \A d \in Cpus : d # c => stopper'[d] = stopper[d]
  BY <1>0, <1>4 DEF Types, Stoppers
<1>6. task'[t].pc = "join"
  BY <1>0, HGotoFacts
<1>7. FnsOK(s2) /\ \A u \in Tasks : Same(s, s2, u)
  <2>1. FnsOK(s)
    BY FnsHold
  <2> QED  BY <1>5, <2>1, SameWork DEF FnsOK
<1>8. task[t].op = "down" => DownCpu(t, c)'
  <2> SUFFICES ASSUME task[t].op = "down"
               PROVE  DownCpu(t, c)'
    OBVIOUS
  <2>1. DownCpu(t, c)
    BY <1>2, HotCpu
  <2> QED  BY <1>0, <1>1, <1>5, <1>6, <2>1 DEF DownCpu
<1>9. task[t].op = "up" => UpCpu(t, c)'
  <2> SUFFICES ASSUME task[t].op = "up"
               PROVE  UpCpu(t, c)'
    OBVIOUS
  <2>1. UpCpu(t, c)
    BY <1>0, <1>2, HotCpu
  <2> QED  BY <1>0, <1>1, <1>5, <1>6, <2>1 DEF UpCpu, Empty
<1>10. /\ task[t].op = "down" => DownCpu(t, Cpu(t))'
       /\ task[t].op = "up" => UpCpu(t, Cpu(t))'
  BY <1>3, <1>8, <1>9 DEF DownCpu, UpCpu
<1>11. PcOK(task[t].op, "join")
  BY <1>3, Consts DEF PcOK
<1>12. hotplug' \in {t, NULL} /\ (hotplug' = t => hotplug = t)
  BY <1>1, <1>3, OnlyHot
<1> QED  BY <1>0, <1>1, <1>2, <1>5, <1>7, <1>10, <1>11, <1>12, HotMove, HGotoFacts

LEMMA UpStep ==
    ASSUME Inv, Types', NEW t \in Tasks, Up(t)
    PROVE  Inv'
<1>0. Types /\ task[t].pc \in {"prepared", "starting"} /\ HGoto(t, "up")
  BY DEF Inv, Up
<1>1. UNCHANGED <<hotplug, mutex, stopper, done, smdata, ran>> /\ online' = online \cup {Cpu(t)}
  BY DEF Up
<1>2. task[t].op = "up" /\ Cpu(t) \in Cpus /\ Cpu(t)' = Cpu(t) /\ Hot(t)
  BY <1>0, <1>1, Places, HotCpu DEF Cpu, Hot
<1>3. UpCpu(t, Cpu(t)) /\ task'[t].pc = "up"
  BY <1>0, <1>2, HotCpu, HGotoFacts
<1>4. UpCpu(t, Cpu(t))'
  BY <1>0, <1>1, <1>2, <1>3 DEF UpCpu
<1>5. FnsOK(stopper'[Cpu(t)]) /\ \A u \in Tasks : Same(stopper[Cpu(t)], stopper'[Cpu(t)], u)
  BY <1>1, <1>2, FnsHold, SameSelf
<1>6. PcOK(task[t].op, "up")
  BY <1>2, Consts DEF PcOK
<1>7. hotplug' = t /\ hotplug = t
  BY <1>0, <1>1, <1>2, OnlyHot
<1> QED  BY <1>0, <1>1, <1>2, <1>4, <1>5, <1>6, <1>7, HotMove, HGotoFacts

LEMMA OnlineStep ==
    ASSUME Inv, Types', NEW t \in Tasks, Online(t)
    PROVE  Inv'
<1>0. Types /\ task[t].pc = "up" /\ Leave(t) /\ hotplug' = NULL
  BY DEF Inv, Online
<1>1. UNCHANGED <<online, mutex, done, ran>>
  BY DEF Online
<1>2. PICK c \in Cpus : c = Cpu(t)
  BY <1>0, PlainTask
<1>3. /\ task[t].op = "up" /\ Hot(t) /\ ~Waiting(t) /\ ~Holds(t) /\ smdata[t].active = {c}
      /\ \A d \in Cpus : ~Steps(stopper[d], t)
  BY <1>0, <1>2, Places, PlainTask
<1>4. UpCpu(t, c)
  BY <1>0, <1>2, <1>3, HotCpu
<1> DEFINE s == stopper[c]
           s2 == stopper'[c]
<1>5. ~s.enabled /\ s.works = <<>> /\ s.pc = "sleep" /\ c \in online
  BY <1>0, <1>4 DEF UpCpu, Empty, Quiet
<1>6. stopper' = [stopper EXCEPT ![c].enabled = TRUE, ![c].awake = TRUE]
  BY <1>2 DEF Online
<1>7. /\ s2.enabled /\ s2.works = <<>> /\ s2.pc = "sleep"
      /\ s2.curstate = s.curstate /\ s2.err = s.err
      /\ \A d \in Cpus : d # c => stopper'[d] = stopper[d]
  BY <1>0, <1>5, <1>6 DEF Types, Stoppers
<1>8. \A u \in Tasks : Same(s, s2, u) /\ ~Steps(s2, u)
  <2>1. DOMAIN s2.works = {}
    BY <1>7
  <2>2. s.pc \notin BusyPcs /\ s2.pc \notin BusyPcs
    BY <1>5, <1>7 DEF BusyPcs
  <2> QED  BY <1>5, <2>1, <2>2 DEF Same, Lists, Runs, Steps, ListOK
<1>9. FnsOK(s2)
  <2>1. FnsOK(s)
    BY FnsHold
  <2>2. DOMAIN s2.works = {} /\ s.pc \notin BusyPcs
    BY <1>5, <1>7 DEF BusyPcs
  <2> QED  BY <1>7, <2>1, <2>2 DEF FnsOK
<1>10. CallOK(t)'
  <2>1. done[t] = NoDone /\ \A d \in Cpus : ~Lists(stopper[d], t) /\ ~Runs(stopper[d], t)
    BY <1>3, IdleTask
  <2>2. \A d \in Cpus : ~Lists(stopper'[d], t) /\ ~Runs(stopper'[d], t)
    BY <1>7, <1>8, <2>1 DEF Same
  <2> QED  BY <1>0, <1>1, <2>1, <2>2, LeaveCall
<1>11. \A u \in Tasks : u # t => CallOK(u)'
  BY <1>0, <1>1, <1>7, <1>8, LeaveFacts, Others
<1>12. TaskOK'
  BY <1>0, <1>1, LeaveFacts, TaskFixed
<1>13. LockOK'
  BY <1>0, <1>1, <1>3, LeaveFacts, OnlyHot, HotLock
<1>14. StopperOK' /\ HotOK'
  <2>1. \A d \in online : d # c => stopper[d].enabled
    <3>1. \A d \in online : d # c => smdata[t].active # {d}
      BY <1>3
    <3> QED  BY <1>3, <3>1, OthersEnabled
  <2>2. smdata[t].active \ online = {}
    BY <1>3, <1>5
  <2>3. \A u \in Tasks : u # t => /\ task'[u] = task[u] /\ smdata'[u] = smdata[u]
                                  /\ ~Hot(u)
    BY <1>0, <1>3, LeaveFacts, OnlyHot
  <2>4. HotT(t)'
    BY <1>0, LeaveFacts
  <2> QED  BY <1>1, <1>3, <1>5, <1>7, <1>8, <1>9, <2>1, <2>2, <2>3, <2>4, HotShape
<1> QED  BY <1>10, <1>11, <1>12, <1>13, <1>14 DEF Inv

LEMMA AllStoppedStep ==
    ASSUME Inv, Types', NEW t \in Tasks, AllStopped(t)
    PROVE  Inv'
<1>0. /\ Types /\ task[t].pc = "part" /\ stopper[task[t].cpu].pc = "sleep"
      /\ done[t].nr_todo = 0 /\ mutex' = NULL /\ UNCHANGED <<online, hotplug, stopper>>
  BY DEF Inv, AllStopped
<1>1. task[t].op = "inactive" /\ Hot(t) /\ Waiting(t) /\ Holds(t) /\ mutex = t
  BY <1>0, Places DEF Hot, Waiting, Holds, Inv, LockOK
<1>2. PICK c \in Cpus : c = task[t].cpu
  BY <1>1, HotCpu
<1>3. InactiveCpu(t, c) /\ stopper[c].pc = "sleep"
  BY <1>0, <1>1, <1>2, HotCpu
<1>4. /\ task' = [task EXCEPT ![t] = [NotCalling EXCEPT !.op = "up", !.pc = "starting"]]
      /\ smdata' = [smdata EXCEPT ![t] = Data(0, {c})]
      /\ done' = [done EXCEPT ![t] = NoDone] /\ ran' = [ran EXCEPT ![t] = OnceOn({})]
  BY <1>2 DEF AllStopped, Forget
<1>5. /\ task'[t].op = "up" /\ task'[t].pc = "starting" /\ task'[t].todo = {}
      /\ done'[t] = NoDone /\ smdata'[t] = Data(0, {c})
      /\ \A u \in Tasks : u # t => /\ task'[u] = task[u] /\ done'[u] = done[u]
                                   /\ smdata'[u] = smdata[u] /\ ran'[u] = ran[u]
  BY <1>0, <1>4 DEF Types, NotCalling
<1>6. Hot(t)' /\ ~Waiting(t)' /\ ~Holds(t)'
  BY <1>5 DEF Hot, Waiting, Holds
<1>7. \A d \in Cpus : ~Lists(stopper[d], t) /\ ~Runs(stopper[d], t)
  BY <1>0, Closed
<1>8. CallOK(t)'
  <2>1. smdata'[t].ack = 0 /\ smdata'[t].state \in NONE .. PREPARE
    BY <1>5, RestData
  <2> QED  BY <1>0, <1>5, <1>6, <1>7, <2>1, RestCall
<1>9. \A u \in Tasks : u # t => CallOK(u)'
  BY <1>0, <1>5, OtherCalls
<1>10. TaskOK'
  <2>1. PcOK(task'[t].op, task'[t].pc)
    BY <1>5, Consts DEF PcOK
  <2> QED  BY <1>0, <1>5, <2>1, TaskFixed
<1>11. hotplug = t /\ \A u \in Tasks : task[u].op \notin {"machine", "try"}
  BY <1>0, <1>1, OnlyHot
<1>12. \A u \in Tasks : u # t => ~Hot(u)
  BY <1>1, OnlyHot
<1>13. LockOK'
  BY <1>0, <1>1, <1>5, <1>6, <1>11, <1>12, Consts, HotLock
<1>14. smdata'[t].active = {c}
  BY <1>5, RestData
<1>15. HotT(t)'
  <2>1. UpCpu(t, c)'
    <3>1. stopper'[c].pc \notin BusyPcs
      BY <1>0, <1>3 DEF BusyPcs
    <3> QED  BY <1>0, <1>3, <1>5, <1>14, <3>1 DEF UpCpu, InactiveCpu, Quiet, Empty
  <2> QED  BY <1>5, <2>1, Consts DEF HotT
<1>16. StopperOK' /\ HotOK'
  <2>1. \A d \in online : d # c => stopper[d].enabled
    BY <1>0, <1>1, OthersEnabled
  <2>2. c \notin online /\ smdata[t].active \ online = {c}
    BY <1>3 DEF InactiveCpu
  <2>3. \A u \in Tasks : ~Steps(stopper[c], u)
    BY <1>3 DEF Steps, BusyPcs
  <2>4. \A d \in Cpus : d # c => ~(Steps(stopper[d], t) /\ ~stopper[d].work.done)
    BY <1>2, FnsHold
  <2>5. FnsOK(stopper[c])
    BY FnsHold
  <2> QED  BY <1>0, <1>5, <1>6, <1>12, <1>14, <1>15, <2>1, <2>2, <2>3, <2>4, <2>5, HotShape
<1> QED  BY <1>8, <1>9, <1>10, <1>13, <1>16 DEF Inv

(* When stop_machine() is told that all are done, no stopper is in it, and  *)
(* its function has been run on all it was to be run on.                    *)
LEMMA AllRan ==
    ASSUME Inv, NEW t \in Tasks, task[t].op \in {"machine", "down"}, task[t].pc = "wait",
           done[t].nr_todo = 0
    PROVE  Machine(t) /\ Ran(t) = smdata[t].active /\ \A c \in Cpus : ~Steps(stopper[c], t)
<1>1. Machine(t)
  BY DEF Machine, Waiting
<1>2. StateOK(t) /\ Types
  BY <1>1 DEF Inv, CallOK, MachineOK
<1>3. task[t].todo = {} /\ \A c \in Cpus : ~Lists(stopper[c], t) /\ ~Runs(stopper[c], t)
  BY Closed
<1>4. \A c \in Cpus : ~Steps(stopper[c], t)
  <2> SUFFICES ASSUME NEW c \in Cpus, Steps(stopper[c], t)
               PROVE  FALSE
    OBVIOUS
  <2>1. stopper[c].work.done
    BY FnsHold
  <2> QED  BY <1>3, <2>1 DEF Steps, Runs, Mine
<1>6. Part(t) \subseteq Cpus /\ task[t].cpu \in Part(t)
  BY <1>2 DEF Part, Types, Datas, StateOK
<1>7. ~Pending(task[t].cpu, t)
  BY <1>3, <1>6 DEF Pending
<1>8. smdata[t].state \in Int /\ ~(smdata[t].state <= RUN)
  BY <1>2, <1>4, <1>6, <1>7 DEF StateOK, PREPARE, EXIT
<1>9. smdata[t].state >= EXIT
  BY <1>8 DEF RUN, EXIT
<1>10. Ran(t) = smdata[t].active
  BY <1>9 DEF Ran, HasRun
<1> QED  BY <1>1, <1>4, <1>10

(* cpu_down() is told the truth. *)
LEMMA DownTold ==
    ASSUME Inv, NEW t \in Tasks, task[t].op = "down", task[t].pc = "wait", done[t].nr_todo = 0
    PROVE  /\ Cpu(t) \in online <=> done[t].ret
           /\ \A c \in Cpus : ~Steps(stopper[c], t)
<1>1. Machine(t) /\ Ran(t) = smdata[t].active /\ \A c \in Cpus : ~Steps(stopper[c], t)
  BY AllRan
<1>2. DownOK(t)
  BY DEF Inv, CallOK
<1>3. Failed(t) <=> done[t].ret
  BY <1>1 DEF Failed
<1>4. smdata[t].active = {Cpu(t)}
  BY HotCpu
<1>5. Cpu(t) \in online <=> Failed(t)
  BY <1>1, <1>2, <1>4 DEF DownOK
<1> QED  BY <1>1, <1>3, <1>5

LEMMA DownStep ==
    ASSUME Inv, Types', NEW t \in Tasks, Down(t)
    PROVE  Inv'
<1>0. /\ Types /\ task[t].pc = "wait" /\ done[t].nr_todo = 0 /\ task[t].op = "down"
      /\ mutex' = NULL /\ UNCHANGED <<online, stopper>> /\ Forget(t)
  BY DEF Inv, Down, Completed
<1>1. Hot(t) /\ Waiting(t) /\ Holds(t) /\ mutex = t
  BY <1>0 DEF Hot, Waiting, Holds, Inv, LockOK
<1>2. PICK c \in Cpus : c = Cpu(t) /\ smdata[t].active = {c} /\ DownCpu(t, c)
  BY <1>0, HotCpu
<1>3. (c \in online <=> done[t].ret) /\ \A d \in Cpus : ~Steps(stopper[d], t)
  BY <1>0, <1>2, DownTold
<1>4. /\ done'[t] = NoDone
      /\ \A u \in Tasks : u # t => done'[u] = done[u] /\ ran'[u] = ran[u]
  BY <1>0 DEF Forget, Types
<1>5. task[t].todo = {} /\ \A d \in Cpus : ~Lists(stopper[d], t) /\ ~Runs(stopper[d], t)
  BY <1>0, Closed
<1>6. /\ hotplug = t /\ \A u \in Tasks : task[u].op \notin {"machine", "try"}
      /\ \A u \in Tasks : u # t => ~Hot(u)
  BY <1>0, <1>1, OnlyHot
<1>7. CASE done[t].ret
  <2>1. Leave(t) /\ hotplug' = NULL
    BY <1>7 DEF Down
  <2>2. CallOK(t)'
    BY <1>0, <1>4, <1>5, <2>1, LeaveCall
  <2>3. \A u \in Tasks : u # t => CallOK(u)'
    BY <1>0, <1>4, <2>1, LeaveFacts, OtherCalls
  <2>4. TaskOK'
    BY <1>0, <2>1, LeaveFacts, TaskFixed
  <2>5. LockOK'
    BY <1>0, <1>1, <1>6, <2>1, LeaveFacts, HotLock
  <2>6. StopperOK'
    <3>1. smdata[t].active \ online = {} /\ task[t].pc # "up"
      BY <1>0, <1>2, <1>3, <1>7
    <3> QED  BY <1>0, <1>3, <2>1, <3>1, LeaveFacts, StopperFixed
  <2>7. HotOK'
    BY <1>0, <2>1, LeaveFacts, HotFixed
  <2> QED  BY <2>2, <2>3, <2>4, <2>5, <2>6, <2>7 DEF Inv
<1>8. CASE ~done[t].ret
  <2>1. HGoto(t, "dying") /\ smdata' = [smdata EXCEPT ![t] = Data(0, {c})] /\ UNCHANGED hotplug
    BY <1>2, <1>8 DEF Down
  <2>2. /\ task'[t].op = "down" /\ task'[t].pc = "dying" /\ task'[t].todo = {}
        /\ \A u \in Tasks : u # t => task'[u] = task[u] /\ smdata'[u] = smdata[u]
        /\ smdata'[t] = Data(0, {c})
    BY <1>0, <1>5, <2>1, HGotoFacts DEF Types
  <2>3. Hot(t)' /\ ~Waiting(t)' /\ ~Holds(t)'
    BY <2>2 DEF Hot, Waiting, Holds
  <2>4. smdata'[t].active = {c} /\ smdata'[t].ack = 0 /\ smdata'[t].state \in NONE .. PREPARE
    BY <2>2, RestData
  <2>5. CallOK(t)'
    BY <1>0, <1>4, <1>5, <2>2, <2>3, <2>4, RestCall
  <2>6. \A u \in Tasks : u # t => CallOK(u)'
    BY <1>0, <1>4, <2>2, OtherCalls
  <2>7. TaskOK'
    <3>1. PcOK(task'[t].op, task'[t].pc)
      BY <2>2, Consts DEF PcOK
    <3> QED  BY <1>0, <2>2, <3>1, TaskFixed
  <2>8. LockOK'
    BY <1>0, <1>1, <1>6, <2>1, <2>2, <2>3, Consts, HotLock
  <2>9. StopperOK'
    BY <1>0, <1>2, <1>3, <2>2, <2>3, <2>4, StopperFixed
  <2>10. HotOK'
    <3>1. DownCpu(t, c)'
      BY <1>0, <1>2, <1>3, <1>8, <2>2, <2>4 DEF DownCpu
    <3>2. HotT(t)'
      BY <2>2, <3>1, Consts DEF HotT
    <3> QED  BY <1>0, <2>2, <3>2, HotFixed
  <2> QED  BY <2>5, <2>6, <2>7, <2>8, <2>9, <2>10 DEF Inv
<1> QED  BY <1>7, <1>8

LEMMA InactiveStep ==
    ASSUME Inv, Types', NEW t \in Tasks, stop_machine_from_inactive_cpu(t)
    PROVE  Inv'
<1>0. /\ Types /\ task[t].pc = "prepared" /\ mutex = NULL /\ mutex' = t
      /\ UNCHANGED <<online, hotplug, stopper>> /\ online \subseteq Cpus
  BY DEF Inv, Types, stop_machine_from_inactive_cpu, __stop_cpus
<1>1. /\ task[t].op = "up" /\ Hot(t) /\ ~Waiting(t) /\ ~Holds(t)
      /\ \A d \in Cpus : ~Steps(stopper[d], t)
  BY <1>0, Places, PlainTask
<1>2. PICK c \in Cpus : c = Cpu(t) /\ smdata[t].active = {c} /\ UpCpu(t, c)
  BY <1>0, <1>1, HotCpu
<1>3. c \notin online /\ Empty(stopper[c]) /\ Quiet(stopper[c])
  BY <1>0, <1>2 DEF UpCpu
<1>4. /\ smdata' = [smdata EXCEPT ![t] = Data(Cardinality(online) + 1, {c} \cup online)]
      /\ task' = [task EXCEPT ![t] = [op |-> "inactive", pc |-> "queue", cpu |-> c,
                                      todo |-> online]]
      /\ done' = [done EXCEPT ![t] = [NoDone EXCEPT !.nr_todo = Cardinality(online)]]
      /\ ran' = [ran EXCEPT ![t] = OnceOn({})]
  BY <1>2 DEF stop_machine_from_inactive_cpu, __stop_cpus, cpu_stop_init_done, cpumask_weight,
              num_online_cpus
<1>5. /\ task'[t].op = "inactive" /\ task'[t].pc = "queue" /\ task'[t].todo = online
      /\ task'[t].cpu = c
      /\ done'[t] = [NoDone EXCEPT !.nr_todo = Cardinality(online)] /\ ran'[t] = OnceOn({})
      /\ smdata'[t] = Data(Cardinality(online) + 1, {c} \cup online)
      /\ \A u \in Tasks : u # t => /\ task'[u] = task[u] /\ done'[u] = done[u]
                                   /\ smdata'[u] = smdata[u] /\ ran'[u] = ran[u]
  BY <1>0, <1>4 DEF Types
<1>6. Hot(t)' /\ Waiting(t)' /\ Holds(t)'
  BY <1>5 DEF Hot, Waiting, Holds
<1>7. smdata'[t].active = online \cup {c} /\ Part(t)' = online \cup {c}
  <2>1. smdata'[t].active = {c} \cup online
    BY <1>5, RestData
  <2> QED  BY <1>0, <2>1 DEF Part
<1>8. Cardinality(Part(t)') = Cardinality(online) + 1
  BY <1>0, <1>3, <1>7, Sizes
<1>9. CallOK(t)'
  <2>1. smdata'[t] = Data(Cardinality(Part(t)'), smdata'[t].active)
    <3>1. {c} \cup online = online \cup {c}
      OBVIOUS
    <3> QED  BY <1>5, <1>7, <1>8, <3>1
  <2>2. \A d \in Part(t)' : d \in online \/ (task'[t].op = "inactive" /\ d = task'[t].cpu)
    BY <1>5, <1>7
  <2>3. task'[t].cpu \in Part(t)' /\ task'[t].op # "down"
    BY <1>5, <1>7
  <2> QED  BY <1>0, <1>1, <1>5, <2>1, <2>2, <2>3, StartMachine
<1>10. \A u \in Tasks : u # t => CallOK(u)'
  BY <1>0, <1>5, OtherCalls
<1>11. TaskOK'
  <2>1. PcOK(task'[t].op, task'[t].pc)
    BY <1>5, Consts DEF PcOK
  <2>2. online # {}
    BY DEF Inv, StopperOK
  <2> QED  BY <1>0, <1>5, <2>1, <2>2, TaskFixed
<1>12. LockOK'
  <2>1. /\ hotplug = t /\ \A u \in Tasks : task[u].op \notin {"machine", "try"}
        /\ \A u \in Tasks : u # t => ~Hot(u)
    BY <1>0, <1>1, OnlyHot
  <2> QED  BY <1>0, <1>5, <1>6, <2>1, Consts, HotLock
<1>13. StopperOK'
  BY <1>0, <1>1, <1>2, <1>5, <1>6, <1>7, StopperFixed
<1>14. HotOK'
  <2>1. InactiveCpu(t, c)'
    BY <1>0, <1>3, <1>5, <1>7 DEF InactiveCpu, Quiet
  <2>2. HotT(t)'
    BY <1>5, <2>1, Consts DEF HotT
  <2> QED  BY <1>0, <1>5, <2>2, HotFixed
<1> QED  BY <1>9, <1>10, <1>11, <1>12, <1>13, <1>14 DEF Inv

(* The CPU that comes up takes part in its own call. *)
LEMMA PartCall ==
    ASSUME Inv, Types', NEW t \in Tasks, NEW c \in Cpus, c = task[t].cpu,
           task[t].op = "inactive", task[t].pc = "wait",
           UNCHANGED <<online, smdata, done, ran>>,
           task'[t].pc = "part", task'[t].op = task[t].op, task'[t].cpu = task[t].cpu,
           task'[t].todo = task[t].todo,
           \A d \in Cpus : d # c => stopper'[d] = stopper[d],
           stopper[c].pc \notin BusyPcs, ~stopper[c].enabled, ~stopper'[c].enabled,
           stopper'[c].pc = "loop", stopper'[c].work = Work(t, "sm", FALSE),
           stopper'[c].curstate = NONE
    PROVE  CallOK(t)'
<1> DEFINE s == stopper[c]
           s2 == stopper'[c]
<1>0. CallOK(t) /\ Types /\ task[t].todo = {}
  BY DEF Inv, TaskOK
<1>1. Machine(t) /\ Machine(t)' /\ Waiting(t) /\ Waiting(t)'
  BY DEF Machine, Waiting
<1>2. ~Runs(s, t) /\ ~Runs(s2, t) /\ ~Steps(s, t) /\ Steps(s2, t) /\ ~Lists(s, t) /\ ~Lists(s2, t)
  BY DEF Runs, Steps, Mine, Work, Lists, BusyPcs
<1>3. Open(t)' = Open(t)
  BY <1>2 DEF Open
<1>4. OpenOK(t)'
  <2>1. OpenOK(t)
    BY <1>0 DEF CallOK
  <2>2. \A fn : ListOK(s2, t, fn)
    BY DEF ListOK
  <2>3. \A d \in Cpus : ListOK(stopper'[d], t, FnOf(task'[t].op))
    BY <2>1, <2>2 DEF OpenOK
  <2>4. \A d \in Cpus : /\ Lists(stopper'[d], t) => ~Runs(stopper'[d], t)
                        /\ Runs(stopper'[d], t) => stopper'[d].work.fn = FnOf(task'[t].op)
    BY <1>2, <2>1 DEF OpenOK
  <2>5. Machine(t)' => Open(t)' \subseteq Part(t)'
    BY <1>1, <1>3, <2>1 DEF OpenOK, Part
  <2> QED  BY <1>0, <1>1, <1>3, <2>1, <2>3, <2>4, <2>5 DEF OpenOK
<1>5. StateOK(t) /\ Part(t)' = Part(t) /\ Part(t) \subseteq Cpus /\ c \in Part(t)
  BY <1>0, <1>1 DEF CallOK, MachineOK, StateOK, Part, Types, Datas
<1>6. Pending(c, t) /\ ~Pending(c, t)'
  BY <1>0, <1>2 DEF Pending
<1>7. smdata[t].state = PREPARE
  BY <1>5, <1>6 DEF StateOK
<1>8. \A d : d \in Cpus /\ d # c => (Pending(d, t)' <=> Pending(d, t))
  BY DEF Pending
<1>9. Lag(t)' = Lag(t)
  <2>1. Behind(s2, t, PREPARE)
    BY <1>2 DEF Behind, NONE, PREPARE
  <2>2. c \in Lag(t) /\ c \in Lag(t)'
    BY <1>5, <1>6, <1>7, <2>1 DEF Lag
  <2>3. \A d \in Part(t) : d # c => (d \in Lag(t)' <=> d \in Lag(t))
    BY <1>5, <1>8 DEF Lag
  <2>4. Lag(t) \subseteq Part(t) /\ Lag(t)' \subseteq Part(t)
    BY <1>5 DEF Lag
  <2> QED  BY <2>2, <2>3, <2>4
<1>10. At(s2, PREPARE)
  BY DEF At, BusyPcs, NONE, PREPARE, EXIT
<1>11. StateOK(t)'
  <2>1. \A d \in Cpus : Steps(stopper'[d], t) =>
          /\ d \in Part(t)' /\ At(stopper'[d], smdata'[t].state)
          /\ stopper'[d].pc = "fn" => d \in smdata'[t].active
          /\ stopper'[d].pc = "set_state" => Lag(t)' = {}
    <3> SUFFICES ASSUME NEW d \in Cpus, Steps(stopper'[d], t)
                 PROVE  /\ d \in Part(t)' /\ At(stopper'[d], smdata'[t].state)
                        /\ stopper'[d].pc = "fn" => d \in smdata'[t].active
                        /\ stopper'[d].pc = "set_state" => Lag(t)' = {}
      OBVIOUS
    <3>1. CASE d = c
      BY <1>5, <1>7, <1>10, <3>1
    <3>2. CASE d # c
      BY <1>5, <1>9, <3>2 DEF StateOK
    <3> QED  BY <3>1, <3>2
  <2>2. \A d \in Part(t)' : Pending(d, t)' => smdata'[t].state = PREPARE /\ ~Steps(stopper'[d], t)
    BY <1>5, <1>6, <1>7, <1>8 DEF StateOK
  <2>3. \A d \in Part(t)' : Pending(d, t)' \/ Steps(stopper'[d], t)
    <3>1. \A d \in Part(t) : Pending(d, t) \/ Steps(stopper[d], t)
      BY <1>5, <1>7 DEF StateOK, PREPARE, RUN
    <3> QED  BY <1>2, <1>5, <1>8, <3>1
  <2>4. \A d, e \in Cpus :
          /\ Steps(stopper'[d], t) /\ stopper'[d].pc = "set_state"
          /\ Steps(stopper'[e], t) /\ stopper'[e].pc = "set_state"
          => d = e
    <3>1. \A d \in Cpus : stopper'[d].pc = "set_state" => stopper'[d] = stopper[d]
      OBVIOUS
    <3> QED  BY <1>5, <3>1 DEF StateOK
  <2>5. /\ smdata'[t].num = Cardinality(Part(t)') /\ task'[t].cpu \in Part(t)'
        /\ smdata'[t].state \in PREPARE .. EXIT + 1
        /\ smdata'[t].ack = IF smdata'[t].state <= EXIT THEN Cardinality(Lag(t)') ELSE smdata'[t].num
    BY <1>5, <1>9 DEF StateOK
  <2> QED  BY <2>1, <2>2, <2>3, <2>4, <2>5 DEF StateOK
<1>12. MachineOK(t)'
  BY <1>1, <1>11 DEF MachineOK
<1>13. RanOK(t)'
  <2>1. Ran(t) = {} /\ Ran(t)' = {}
    BY <1>7 DEF Ran, HasRun, PREPARE, RUN, EXIT
  <2> QED  BY <1>0, <1>1, <2>1 DEF CallOK, RanOK
<1>14. DownOK(t)'
  BY DEF DownOK
<1> QED  BY <1>4, <1>12, <1>13, <1>14 DEF CallOK

LEMMA TakePartStep ==
    ASSUME Inv, Types', NEW t \in Tasks, TakePart(t)
    PROVE  Inv'
<1>0. /\ Types /\ task[t].op = "inactive" /\ task[t].pc = "wait" /\ HGoto(t, "part")
      /\ UNCHANGED <<online, hotplug, mutex, done, smdata, ran>>
  BY DEF Inv, TakePart
<1>1. PICK c \in Cpus : c = task[t].cpu /\ InactiveCpu(t, c)
  BY <1>0, HotCpu
<1> DEFINE s == stopper[c]
           s2 == stopper'[c]
           w == Work(t, "sm", FALSE)
<1>2. stopper' = [stopper EXCEPT ![c].pc = "loop", ![c].work = w]
  BY <1>1 DEF TakePart
<1>3. w.by = t /\ w.fn = "sm" /\ w.done = FALSE
  BY DEF Work
<1> HIDE DEF w
<1>4. /\ s2.enabled = s.enabled /\ s2.works = s.works /\ s2.awake = s.awake /\ s2.pc = "loop"
      /\ s2.work = w /\ s2.curstate = s.curstate /\ s2.err = s.err
      /\ \A d \in Cpus : d # c => stopper'[d] = stopper[d]
  BY <1>0, <1>2 DEF Types, Stoppers
<1>5. s.pc = "sleep" /\ ~s.enabled /\ s.works = <<>> /\ ~s.awake /\ c \notin online
      /\ smdata[t].active = online \cup {c}
  BY <1>0, <1>1 DEF InactiveCpu, Empty
<1>6. s.pc \notin BusyPcs /\ s2.pc \in BusyPcs /\ s.curstate = NONE /\ ~s.err
  <2>1. FnsOK(s) /\ s.pc \notin BusyPcs /\ s2.pc \in BusyPcs
    BY <1>4, <1>5, FnsHold DEF BusyPcs
  <2> QED  BY <2>1 DEF FnsOK
<1>7. /\ task'[t].pc = "part" /\ task'[t].op = task[t].op /\ task'[t].cpu = task[t].cpu
      /\ task'[t].todo = task[t].todo
      /\ \A u \in Tasks : u # t => task'[u] = task[u] /\ smdata'[u] = smdata[u]
  BY <1>0, HGotoFacts
<1>8. Hot(t) /\ Hot(t)' /\ Holds(t) /\ Holds(t)'
  BY <1>0, <1>7 DEF Hot, Holds, Waiting
<1>9. CallOK(t)'
  <2>1. ~s2.enabled /\ s2.curstate = NONE
    BY <1>4, <1>5, <1>6
  <2> QED  BY <1>0, <1>1, <1>4, <1>5, <1>6, <1>7, <2>1, PartCall DEF w
<1>10. \A u \in Tasks : u # t => CallOK(u)'
  <2>1. \A u \in Tasks : u # t => Same(s, s2, u)
    BY <1>3, <1>4, <1>6, SameList DEF Runs, Steps, Mine
  <2> QED  BY <1>0, <1>4, <1>7, <2>1, Others
<1>11. TaskOK'
  <2>1. PcOK(task'[t].op, task'[t].pc)
    BY <1>0, <1>7, Consts DEF PcOK
  <2>2. task[t].todo = {}
    BY <1>0 DEF Inv, TaskOK
  <2> QED  BY <1>0, <1>7, <2>1, <2>2, TaskFixed
<1>12. /\ hotplug = t /\ \A u \in Tasks : task[u].op \notin {"machine", "try"}
       /\ \A u \in Tasks : u # t => ~Hot(u)
  BY <1>0, <1>8, OnlyHot
<1>13. LockOK'
  BY <1>0, <1>7, <1>8, <1>12, Consts, HotLock
<1>14. FnsOK(s2)
  <2>1. DOMAIN s2.works = {}
    BY <1>4, <1>5
  <2> QED  BY <1>3, <1>4, <1>6, <2>1 DEF FnsOK
<1>15. HotT(t)'
  <2>1. InactiveCpu(t, c)'
    BY <1>0, <1>1, <1>4, <1>5, <1>6, <1>7 DEF InactiveCpu, Empty, w
  <2> QED  BY <1>0, <1>7, <2>1, Consts DEF HotT
<1>16. StopperOK' /\ HotOK'
  <2>1. \A d \in online : d # c => stopper[d].enabled
    BY <1>0, <1>8, OthersEnabled
  <2>2. \A u \in Tasks : Steps(s2, u) /\ ~s2.work.done =>
           task'[u].op = "inactive" /\ task'[u].pc = "part" /\ task'[u].cpu = c
    BY <1>0, <1>1, <1>3, <1>4, <1>7 DEF Steps
  <2>3. \A d \in Cpus : ~(Steps(stopper[d], t) /\ ~stopper[d].work.done)
    BY <1>0, FnsHold
  <2> QED  BY <1>0, <1>4, <1>5, <1>7, <1>8, <1>12, <1>14, <1>15, <2>1, <2>2, <2>3, HotShape
<1> QED  BY <1>9, <1>10, <1>11, <1>13, <1>16 DEF Inv

(* The drain begins. *)
LEMMA DrainLockStep ==
    ASSUME Inv, Types', NEW t \in Tasks, DrainLock(t)
    PROVE  Inv'
<1>0. Types /\ task[t].pc = "join" /\ stopper[Cpu(t)].pc = "exited"
      /\ UNCHANGED <<online, hotplug, mutex, stopper, done, smdata, ran>>
  BY DEF Inv, DrainLock
<1>1. PICK d \in online : task' = [task EXCEPT ![t].pc = "drain", ![t].cpu = d]
  BY DEF DrainLock
<1>2. /\ task'[t].pc = "drain" /\ task'[t].op = task[t].op /\ task'[t].todo = task[t].todo
      /\ \A u \in Tasks : u # t => task'[u] = task[u]
  BY <1>0, <1>1 DEF Types, Frames
<1>3. /\ task[t].op \in {"down", "up"} /\ Hot(t) /\ Cpu(t) \in Cpus /\ Cpu(t)' = Cpu(t)
  BY <1>0, PlainTask DEF Cpu
<1>4. /\ task[t].op = "down" => DownCpu(t, Cpu(t))
      /\ task[t].op = "up" => UpCpu(t, Cpu(t))
  BY <1>0, HotCpu
<1>5. /\ task[t].op = "down" => DownCpu(t, Cpu(t))'
      /\ task[t].op = "up" => UpCpu(t, Cpu(t))'
  BY <1>0, <1>2, <1>3, <1>4 DEF DownCpu, UpCpu
<1>6. FnsOK(stopper'[Cpu(t)]) /\ \A u \in Tasks : Same(stopper[Cpu(t)], stopper'[Cpu(t)], u)
  BY <1>0, <1>3, FnsHold, SameSelf
<1>7. PcOK(task[t].op, "drain")
  BY <1>3, Consts DEF PcOK
<1>8. hotplug' \in {t, NULL} /\ (hotplug' = t => hotplug = t)
  BY <1>0, <1>3, OnlyHot
<1> QED  BY <1>0, <1>2, <1>3, <1>5, <1>6, <1>7, <1>8, HotMove

(* Only stop_one_cpu() can have given a work to a CPU that is gone. *)
LEMMA DrainCall ==
    ASSUME Inv, Types', NEW u \in Tasks, NEW c \in Cpus, ~Hot(u), c \notin online,
           Lists(stopper[c], u), stopper[c].pc \notin BusyPcs, stopper'[c].pc \notin BusyPcs,
           ~Lists(stopper'[c], u), \A d \in Cpus : d # c => stopper'[d] = stopper[d],
           done'[u].nr_todo = done[u].nr_todo - 1, done'[u].executed <=> done[u].executed,
           task'[u] = task[u], smdata'[u] = smdata[u], ran'[u] = ran[u]
    PROVE  CallOK(u)'
<1>0. CallOK(u) /\ Waiting(u) /\ c \in Open(u)
  BY OpenWaits DEF Inv
<1>1. task[u].op = "one"
  <2>1. task[u].op # "try"
    BY <1>0 DEF CallOK, OpenOK
  <2>2. task[u].op # "machine"
    <3> SUFFICES ASSUME task[u].op = "machine"
                 PROVE  FALSE
      OBVIOUS
    <3>1. Machine(u)
      BY <1>0 DEF Machine
    <3>2. c \in Part(u) /\ smdata[u].active \subseteq online
      BY <1>0, <3>1 DEF CallOK, OpenOK, Inv, HotOK
    <3> QED  BY <3>2 DEF Part
  <2>3. task[u].op # NULL
    BY <1>0, Places DEF Waiting, PcOK
  <2> QED  BY <2>1, <2>2, <2>3, Places DEF Hot
<1>2. task[u].pc = "wait" /\ task[u].todo = {}
  BY <1>1, Places DEF PcOK, Inv, TaskOK
<1>3. Open(u) = {c} /\ ~done[u].executed /\ done[u].nr_todo = 1
  <2>1. Open(u) = {c} /\ ~done[u].executed
    BY <1>0, <1>1 DEF CallOK, RanOK
  <2>2. Cardinality({c}) = 1
    BY FS_Singleton
  <2> QED  BY <1>0, <2>1, <2>2 DEF CallOK, OpenOK
<1>4. \A d \in Cpus : ~Lists(stopper'[d], u) /\ ~Runs(stopper'[d], u)
  <2>1. \A d \in Cpus : d # c => ~Lists(stopper[d], u) /\ ~Runs(stopper[d], u)
    BY <1>3 DEF Open
  <2> QED  BY <2>1 DEF Lists, Runs
<1>5. Open(u)' = {}
  BY <1>2, <1>4 DEF Open
<1>6. done'[u].nr_todo = 0 /\ ~done'[u].executed
  BY <1>3
<1>7. Waiting(u)' /\ ~Machine(u)' /\ ~Machine(u)
  BY <1>1, <1>2 DEF Waiting, Machine
<1>8. OpenOK(u)'
  <2>1. \A d \in Cpus : \A fn : ListOK(stopper'[d], u, fn)
    BY <1>4 DEF ListOK, Lists
  <2>2. done'[u].nr_todo = Cardinality(Open(u)')
    BY <1>5, <1>6, FS_EmptySet
  <2> QED  BY <1>2, <1>4, <1>5, <1>7, <2>1, <2>2 DEF OpenOK
<1>9. MachineOK(u)' /\ DownOK(u)'
  BY <1>0, <1>1, <1>2, <1>7 DEF CallOK, MachineOK, DownOK
<1>10. RanOK(u)'
  <2>1. ~\E d \in Cpus : Signals(stopper[d], u)
    BY <1>3 DEF Signals, Open, Runs
  <2>2. ran[u] = OnceOn({})
    BY <1>0, <1>1, <1>3, <2>1 DEF CallOK, RanOK
  <2>3. ~\E d \in Cpus : Signals(stopper'[d], u)
    BY <1>4 DEF Signals
  <2> QED  BY <1>1, <1>5, <1>6, <1>7, <2>2, <2>3 DEF RanOK
<1> QED  BY <1>8, <1>9, <1>10 DEF CallOK

(* What is known of the CPU whose list is drained. *)
LEMMA DrainCpu ==
    ASSUME Inv, NEW t \in Tasks, task[t].pc = "drain"
    PROVE  /\ Cpu(t) \in Cpus /\ smdata[t].active = {Cpu(t)} /\ Cpu(t) \notin online
           /\ stopper[Cpu(t)].enabled \/ stopper[Cpu(t)].works = <<>>
           /\ stopper[Cpu(t)].pc \notin BusyPcs
           /\ stopper[Cpu(t)].pc = "exited" \/ stopper[Cpu(t)].works = <<>>
<1>1. task[t].op \in {"down", "up"} /\ Cpu(t) \in Cpus /\ smdata[t].active = {Cpu(t)}
  BY PlainTask
<1>2. /\ task[t].op = "down" => DownCpu(t, Cpu(t))
      /\ task[t].op = "up" => UpCpu(t, Cpu(t))
  BY HotCpu
<1> QED  BY <1>1, <1>2 DEF DownCpu, UpCpu, Empty, BusyPcs

(* One of the works is signalled. *)
LEMMA DrainOneStep ==
    ASSUME Inv, Types', NEW t \in Tasks, DrainOne(t)
    PROVE  Inv'
<1>0. Types /\ task[t].pc = "drain" /\ UNCHANGED <<online, hotplug, mutex, task, smdata, ran>>
  BY DEF Inv, DrainOne
<1>1. PICK c \in Cpus : /\ c = Cpu(t) /\ c \notin online
                        /\ stopper[c].enabled \/ stopper[c].works = <<>>
                        /\ stopper[c].pc = "exited" \/ stopper[c].works = <<>>
  BY <1>0, DrainCpu
<1> DEFINE s == stopper[c]
           s2 == stopper'[c]
           w == Head(s.works)
<1>2. /\ s.works # <<>> /\ s.enabled /\ cpu_stop_signal_done(w, FALSE, FALSE)
      /\ stopper' = [stopper EXCEPT ![c].works = Tail(s.works)]
  BY <1>1 DEF DrainOne
<1>3. s \in Stoppers /\ s.works \in Seq(Works) /\ s.pc = "exited"
  BY <1>0, <1>1, <1>2, FieldTypes DEF Types
<1>4. /\ s2.works = Tail(s.works) /\ s2.enabled = s.enabled /\ s2.pc = s.pc /\ s2.work = s.work
      /\ s2.curstate = s.curstate /\ s2.err = s.err /\ s2.awake = s.awake
      /\ \A d \in Cpus : d # c => stopper'[d] = stopper[d]
  BY <1>0, <1>2, <1>3 DEF Types, Stoppers
<1>5. s.pc \notin BusyPcs /\ s2.pc \notin BusyPcs
  BY <1>3, <1>4 DEF BusyPcs
<1>6. \A u \in Tasks : /\ ~Mine(w, u) => done'[u] = done[u]
                       /\ Mine(w, u) => /\ done'[u].nr_todo = done[u].nr_todo - 1
                                        /\ done'[u].executed <=> done[u].executed
  <2>1. done' = [u \in Tasks |->
               IF w.done /\ w.by = u
               THEN [nr_todo |-> done[u].nr_todo - 1,
                     executed |-> done[u].executed \/ FALSE,
                     ret |-> done[u].ret \/ FALSE]
               ELSE done[u]]
    BY <1>2 DEF cpu_stop_signal_done
  <2> HIDE DEF w
  <2> QED  BY <2>1 DEF Mine
<1>7. ASSUME NEW u \in Tasks
      PROVE  CallOK(u)'
  <2>1. OpenOK(u) /\ FnOf(task[u].op) \in {"plain", "sm"}
    BY DEF Inv, CallOK, FnOf
  <2>2. ListOK(s, u, FnOf(task[u].op))
    BY <2>1 DEF OpenOK
  <2>3. CASE Mine(w, u)
    <3>1. Lists(s, u) /\ ~Lists(s2, u)
      <4>1. s2.works = Tail(s.works) /\ s2.enabled = s.enabled
        BY <1>4
      <4>2. PICK fn \in {"plain", "sm"} : ListOK(s, u, fn)
        BY <2>1, <2>2
      <4> QED  BY <1>2, <1>3, <2>3, <4>1, <4>2, Taking
    <3>2. Waiting(u)
      BY <3>1, OpenWaits
    <3>3. u # t
      BY <1>0, <3>2 DEF Waiting
    <3>4. ~Hot(u)
      BY <1>0, <3>3, PlainTask, OnlyHot
    <3>5. done'[u].nr_todo = done[u].nr_todo - 1 /\ (done'[u].executed <=> done[u].executed)
      BY <1>6, <2>3
    <3> QED  BY <1>0, <1>1, <1>4, <1>5, <3>1, <3>4, <3>5, DrainCall
  <2>4. CASE ~Mine(w, u)
    <3>1. /\ Lists(s2, u) <=> Lists(s, u)
          /\ \A fn \in {"plain", "sm"} : ListOK(s, u, fn) => ListOK(s2, u, fn)
      BY <1>2, <1>3, <1>4, <2>4, Taking
    <3>2. Same(s, s2, u)
      BY <1>4, <1>5, <3>1 DEF Same, Runs, Steps
    <3>3. done'[u] = done[u]
      BY <1>6, <2>4
    <3> QED  BY <1>0, <1>4, <3>2, <3>3, Others
  <2> QED  BY <2>3, <2>4
<1>8. FnsOK(s2)
  <2>1. FnsOK(s)
    BY FnsHold
  <2>2. \A i \in DOMAIN s2.works : \E j \in DOMAIN s.works : s2.works[i] = s.works[j]
    BY <1>2, <1>3, <1>4, TakenWorks
  <2> QED  BY <1>4, <2>1, <2>2 DEF FnsOK
<1>9. Moves(s, s2)
  BY <1>2, <1>3, <1>4, <1>5, <1>8 DEF Moves, Quiet
<1>10. Shape'
  BY <1>0, <1>4, <1>9, ShapeMove
<1> QED  BY <1>7, <1>10 DEF Inv, Shape

(* The drain ends. *)
LEMMA DrainEndStep ==
    ASSUME Inv, Types', NEW t \in Tasks, DrainEnd(t)
    PROVE  Inv'
<1>0. Types /\ task[t].pc = "drain" /\ Leave(t) /\ UNCHANGED <<online, mutex, done, ran>>
      /\ hotplug' = IF hotplug = t THEN NULL ELSE hotplug
  BY DEF Inv, DrainEnd
<1>1. /\ task[t].op \in {"down", "up"} /\ Hot(t) /\ ~Waiting(t) /\ ~Holds(t)
      /\ \A d \in Cpus : ~Steps(stopper[d], t)
  BY <1>0, PlainTask
<1>2. PICK c \in Cpus : c = Cpu(t) /\ smdata[t].active = {c} /\ c \notin online
                        /\ stopper[c].pc \notin BusyPcs
  BY <1>0, DrainCpu
<1> DEFINE s == stopper[c]
           s2 == stopper'[c]
<1>5. s.works = <<>> /\ stopper' = [stopper EXCEPT ![c] = NoStopper]
  BY <1>2 DEF DrainEnd
<1>6. /\ s2.works = <<>> /\ s2.enabled = FALSE /\ s2.pc = "none" /\ s2.awake = FALSE
      /\ s2.curstate = NONE /\ s2.err = FALSE
      /\ \A d \in Cpus : d # c => stopper'[d] = stopper[d]
  BY <1>0, <1>5 DEF Types, NoStopper
<1>8. s.pc \notin BusyPcs /\ s2.pc \notin BusyPcs
  BY <1>2, <1>6 DEF BusyPcs
<1>9. \A u \in Tasks : /\ ~Lists(s2, u) /\ ~Runs(s2, u) /\ ~Steps(s2, u)
                       /\ ~Lists(s, u) /\ ~Runs(s, u) /\ ~Steps(s, u)
  BY <1>5, <1>6, <1>8 DEF Lists, Runs, Steps
<1>10. CallOK(t)'
  <2>1. done[t] = NoDone /\ \A d \in Cpus : ~Lists(stopper[d], t) /\ ~Runs(stopper[d], t)
    BY <1>1, IdleTask
  <2>2. \A d \in Cpus : ~Lists(stopper'[d], t) /\ ~Runs(stopper'[d], t)
    BY <1>6, <1>9, <2>1
  <2> QED  BY <1>0, <2>1, <2>2, LeaveCall
<1>11. \A u \in Tasks : u # t => ~Hot(u) /\ task'[u] = task[u] /\ smdata'[u] = smdata[u]
  BY <1>0, <1>1, LeaveFacts, OnlyHot
<1>12. ASSUME NEW u \in Tasks, u # t
       PROVE  CallOK(u)'
  <2>1. Same(s, s2, u)
    BY <1>6, <1>9 DEF Same, ListOK
  <2> QED  BY <1>0, <1>6, <1>11, <1>12, <2>1, Others
<1>13. TaskOK'
  BY <1>0, LeaveFacts, TaskFixed
<1>14. LockOK'
  <2>1. hotplug' = NULL
    BY <1>0, <1>1, OnlyHot
  <2> QED  BY <1>0, <1>1, <1>11, <2>1, LeaveFacts, HotLock
<1>15. FnsOK(s2)
  BY <1>6, <1>8 DEF FnsOK
<1>16. StopperOK' /\ HotOK'
  <2>1. \A d \in online : d # c => stopper[d].enabled
    <3>1. task[t].pc # "up"
      BY <1>0
    <3> QED  BY <1>1, <3>1, OthersEnabled
  <2>2. Still(s2)
    BY <1>6 DEF Still
  <2>3. HotT(t)'
    BY <1>0, LeaveFacts
  <2>4. \A d \in smdata[t].active \ online : d = c
    BY <1>2
  <2> QED  BY <1>0, <1>1, <1>2, <1>6, <1>9, <1>11, <1>15, <2>1, <2>2, <2>3, <2>4, HotShape
<1> QED  BY <1>10, <1>12, <1>13, <1>14, <1>16 DEF Inv

-----------------------------------------------------------------------------
(* The invariant. *)

LEMMA InvInit ==
    ASSUME Init
    PROVE  Inv
<1>1. Types
  <2>1. [NoStopper EXCEPT !.enabled = TRUE, !.pc = "sleep"] \in Stoppers
    <3>1. <<>> \in Seq(Works)
      OBVIOUS
    <3>2. NoStopper \in Stoppers
      BY <3>1 DEF NoStopper, Stoppers, NONE
    <3>3. \A s \in Stoppers : [s EXCEPT !.enabled = TRUE, !.pc = "sleep"] \in Stoppers
      BY DEF Stoppers
    <3> QED  BY <3>2, <3>3
  <2>2. stopper \in [Cpus -> Stoppers]
    BY <2>1 DEF Init
  <2>3. \A c \in Cpus : stopper[c].pc \notin BusyPcs
    BY DEF Init, NoStopper, BusyPcs
  <2>4. ran \in [Tasks -> [Cpus -> Nat]]
    BY Once DEF Init
  <2> QED  BY <2>2, <2>3, <2>4, Records DEF Init, Types
<1>2. \A c \in Cpus : /\ stopper[c].enabled /\ stopper[c].works = <<>> /\ stopper[c].pc = "sleep"
                      /\ stopper[c].curstate = NONE /\ ~stopper[c].err
  BY DEF Init, NoStopper
<1>3. \A t \in Tasks : /\ task[t].op = NULL /\ task[t].pc = "idle" /\ task[t].todo = {}
                       /\ done[t] = NoDone /\ smdata[t] = NoData
  BY DEF Init, NotCalling
<1>4. \A t \in Tasks : ~Hot(t) /\ ~Waiting(t) /\ ~Machine(t) /\ ~Holds(t)
  BY <1>3, Consts DEF Hot, Waiting, Machine, Holds
<1>5. TaskOK
  BY <1>3, Consts DEF TaskOK, PcOK
<1>6. LockOK
  BY <1>4, Consts DEF LockOK, Init
<1>7. \A c \in Cpus : DOMAIN stopper[c].works = {} /\ stopper[c].pc \notin BusyPcs
  BY <1>2 DEF BusyPcs
<1>8. StopperOK
  <2>1. online # {} /\ online = Cpus
    BY StopMachineAssumption DEF Init
  <2>2. \A c \in Cpus, t \in Tasks : ~Steps(stopper[c], t)
    BY <1>7 DEF Steps
  <2> QED  BY <1>2, <1>7, <2>1, <2>2 DEF StopperOK
<1>9. HotOK
  BY <1>3, Consts DEF HotOK, NoData
<1>10. ASSUME NEW t \in Tasks
       PROVE  CallOK(t)
  <2>1. \A c \in Cpus : ~Lists(stopper[c], t) /\ ~Runs(stopper[c], t)
    BY <1>7 DEF Lists, Runs
  <2>2. Open(t) = {}
    BY <1>3, <2>1 DEF Open
  <2>3. done[t].nr_todo = Cardinality(Open(t))
    BY <1>3, <2>2, FS_EmptySet DEF NoDone
  <2>4. \A c \in Cpus : \A fn : ListOK(stopper[c], t, fn)
    BY <2>1 DEF ListOK, Lists
  <2>5. OpenOK(t)
    BY <1>3, <1>4, <2>1, <2>2, <2>3, <2>4 DEF OpenOK
  <2>6. MachineOK(t)
    BY <1>3, <1>4, RestData DEF MachineOK
  <2>7. RanOK(t) /\ DownOK(t)
    BY <1>3, <1>4, Consts DEF RanOK, DownOK
  <2> QED  BY <2>5, <2>6, <2>7 DEF CallOK
<1> QED  BY <1>1, <1>5, <1>6, <1>8, <1>9, <1>10 DEF Inv

LEMMA InvStep ==
    ASSUME Inv, [Next]_vars
    PROVE  Inv'
<1>1. CASE UNCHANGED vars
  BY <1>1, Stutter
<1>2. CASE Next
  <2>1. Types'
    BY <1>2, TypesStep
  <2>2. ASSUME NEW c \in Cpus, StopperStep(c)
        PROVE  Inv'
    BY <2>1, <2>2, StopperSteps
  <2>3. ASSUME NEW t \in Tasks, Call(t)
        PROVE  Inv'
    BY <2>1, <2>3, MachineCall, TryStep, OneStep, NowaitStep, CpuDownStep, CpuUpStep,
       BugOnStep DEF Call
  <2>4. ASSUME NEW t \in Tasks, HotplugStep(t)
        PROVE  Inv'
    BY <2>1, <2>4, DownStep, DeadStep, KthreadStopStep, DrainLockStep, DrainOneStep,
       DrainEndStep, UpCanceledStep, TakePartStep, AllStoppedStep, UpStep, OnlineStep DEF HotplugStep
  <2>5. ASSUME NEW t \in Tasks, TaskStep(t)
        PROVE  Inv'
    BY <2>1, <2>4, <2>5, StopCpusStep, QueueStep, ReturnStep DEF TaskStep
  <2>6. ASSUME NEW t \in Tasks, stop_machine_from_inactive_cpu(t)
        PROVE  Inv'
    BY <2>1, <2>6, InactiveStep
  <2> QED  BY <1>2, <2>2, <2>3, <2>5, <2>6 DEF Next
<1> QED  BY <1>1, <1>2

(* The invariant of the calls and the stoppers that they wait for. *)
THEOREM InvCorrect == Spec => []Inv
<1>1. Init => Inv
  BY InvInit
<1>2. Inv /\ [Next]_vars => Inv'
  BY InvStep
<1> QED  BY <1>1, <1>2, PTL DEF Spec

-----------------------------------------------------------------------------
(* curstate is a variable of stop_machine_cpu_stop(): with any other        *)
(* function it stays what it was.  A stopper that is not enabled has no     *)
(* works that are still to be signalled.                                    *)

CurOK == \A c \in Cpus :
    /\ stopper[c].pc \in BusyPcs /\ stopper[c].work.fn = "plain" => stopper[c].curstate = NONE
    /\ ~stopper[c].enabled => stopper[c].works = <<>>

Keeps(s, s2) ==
    /\ \/ s2.pc \notin BusyPcs
       \/ s2.work.fn = "sm"
       \/ s2.curstate = s.curstate /\ (s.pc \notin BusyPcs \/ s2.work = s.work)
    /\ s.enabled \/ s.works = <<>> => s2.enabled \/ s2.works = <<>>

LEMMA KeepsCur ==
    ASSUME Inv, CurOK, \A c \in Cpus : Keeps(stopper[c], stopper'[c])
    PROVE  CurOK'
<1>1. \A c \in Cpus : stopper[c].pc \notin BusyPcs => stopper[c].curstate = NONE
  BY DEF Inv, StopperOK
<1> QED  BY <1>1 DEF CurOK, Keeps

(* Every step keeps it. *)
LEMMA StopperKeeps ==
    ASSUME Inv, NEW c \in Cpus, StopperStep(c)
    PROVE  \A d \in Cpus : Keeps(stopper[d], stopper'[d])
<1>0. stopper \in [Cpus -> Stoppers] /\ stopper[c] \in Stoppers
  BY DEF Inv, Types
<1>1. FnsOK(stopper[c])
  BY FnsHold
<1>2. (\A d \in Cpus : d # c => stopper'[d] = stopper[d]) /\ Keeps(stopper[c], stopper'[c])
  <2>1. CASE Repeat(c)
    BY <1>0, <2>1 DEF Repeat, Keeps, Stoppers, BusyPcs
  <2>2. CASE kthread_should_stop(c)
    BY <1>0, <2>2 DEF kthread_should_stop, SGoto, Keeps, Stoppers, BusyPcs
  <2>3. CASE NextWork(c)
    <3>1. CASE stopper[c].works = <<>>
      BY <1>0, <2>3, <3>1 DEF NextWork, SGoto, Keeps, Stoppers, BusyPcs
    <3>2. CASE stopper[c].works # <<>>
      <4> DEFINE w == Head(stopper[c].works)
                 ws == Tail(stopper[c].works)
                 p == IF w.fn = "sm" THEN "loop" ELSE "plain"
      <4>1. stopper' = [stopper EXCEPT ![c].works = ws, ![c].awake = TRUE, ![c].work = w, ![c].pc = p]
        BY <2>3, <3>2 DEF NextWork
      <4>2. stopper[c].pc \notin BusyPcs
        BY <2>3 DEF NextWork, BusyPcs
      <4> HIDE DEF w, ws, p
      <4>3. /\ stopper'[c].curstate = stopper[c].curstate
            /\ stopper'[c].enabled = stopper[c].enabled
            /\ \A d \in Cpus : d # c => stopper'[d] = stopper[d]
        BY <1>0, <4>1 DEF Stoppers
      <4> QED  BY <3>2, <4>2, <4>3 DEF Keeps
    <3> QED  BY <3>1, <3>2
  <2>4. CASE PlainFn(c)
    BY <1>0, <2>4 DEF PlainFn, SGoto, Keeps, Stoppers
  <2>5. CASE NewState(c)
    <3>1. stopper[c].work.fn = "sm"
      BY <1>1, <2>5 DEF NewState, FnsOK
    <3>2. PICK k, p : stopper' = [stopper EXCEPT ![c].curstate = k, ![c].pc = p]
      BY <2>5 DEF NewState
    <3>3. /\ stopper'[c].work = stopper[c].work
          /\ stopper'[c].enabled = stopper[c].enabled /\ stopper'[c].works = stopper[c].works
          /\ \A d \in Cpus : d # c => stopper'[d] = stopper[d]
      BY <1>0, <3>2 DEF Stoppers
    <3> QED  BY <3>1, <3>3 DEF Keeps
  <2>6. ASSUME NEW err \in BOOLEAN, Fn(c, err)
        PROVE  (\A d \in Cpus : d # c => stopper'[d] = stopper[d]) /\ Keeps(stopper[c], stopper'[c])
    <3>1. stopper' = [stopper EXCEPT ![c].pc = "ack", ![c].err = err]
      BY <2>6 DEF Fn
    <3> QED  BY <1>0, <3>1 DEF Keeps, Stoppers
  <2>7. CASE ack_state(c)
    <3>1. PICK p : stopper' = [stopper EXCEPT ![c].pc = p]
      BY <2>7 DEF ack_state, SGoto
    <3> QED  BY <1>0, <3>1 DEF Keeps, Stoppers
  <2>8. CASE set_state(c)
    <3>1. PICK p : stopper' = [stopper EXCEPT ![c].pc = p]
      BY <2>8 DEF set_state, SGoto
    <3> QED  BY <1>0, <3>1 DEF Keeps, Stoppers
  <2>9. CASE SignalDone(c)
    BY <2>9, SignalEffect DEF Keeps, BusyPcs
  <2> QED  BY <2>1, <2>2, <2>3, <2>4, <2>5, <2>6, <2>7, <2>8, <2>9 DEF StopperStep
<1> QED  BY <1>2 DEF Keeps

LEMMA QueueKeeps ==
    ASSUME Inv, NEW c \in Cpus, NEW w \in Works, NEW mine, cpu_stop_queue_work(c, w, mine)
    PROVE  \A d \in Cpus : Keeps(stopper[d], stopper'[d])
<1>1. CASE stopper[c].enabled
  <2>1. stopper' = Enqueue(c, w)
    BY <1>1 DEF cpu_stop_queue_work
  <2>2. /\ stopper'[c].curstate = stopper[c].curstate /\ stopper'[c].work = stopper[c].work
        /\ stopper'[c].pc = stopper[c].pc /\ stopper'[c].enabled
        /\ \A d \in Cpus : d # c => stopper'[d] = stopper[d]
    BY <1>1, <2>1, EnqueueFacts DEF Inv
  <2> QED  BY <2>2 DEF Keeps
<1>2. CASE ~stopper[c].enabled
  BY <1>2 DEF cpu_stop_queue_work, Keeps
<1> QED  BY <1>1, <1>2

LEMMA TaskKeeps ==
    ASSUME Inv, NEW t \in Tasks, Call(t) \/ TaskStep(t) \/ stop_machine_from_inactive_cpu(t)
    PROVE  \A d \in Cpus : Keeps(stopper[d], stopper'[d])
<1>0. stopper \in [Cpus -> Stoppers] /\ task[t].todo \in SUBSET Cpus
  BY DEF Inv, Types, Frames
<1>1. CASE UNCHANGED stopper
  BY <1>1 DEF Keeps
<1>2. ASSUME NEW c \in Cpus, NEW w, stopper' = [stopper EXCEPT ![c] = w],
             Keeps(stopper[c], w)
      PROVE  \A d \in Cpus : Keeps(stopper[d], stopper'[d])
  BY <1>0, <1>2 DEF Keeps
<1>3. ASSUME NEW c \in Cpus, stop_one_cpu(t, c)
      PROVE  \A d \in Cpus : Keeps(stopper[d], stopper'[d])
  BY <1>3, Records, QueueKeeps DEF stop_one_cpu
<1>4. ASSUME NEW c \in Cpus, stop_one_cpu_nowait(t, c)
      PROVE  \A d \in Cpus : Keeps(stopper[d], stopper'[d])
  BY <1>4, Records, QueueKeeps DEF stop_one_cpu_nowait
<1>5. CASE queue_stop_cpus_work(t)
  <2>1. First(task[t].todo) \in Cpus
    BY <1>0, <1>5, FirstOf DEF queue_stop_cpus_work, Inv, TaskOK
  <2>2. PICK fn \in {"plain", "sm"} :
           cpu_stop_queue_work(First(task[t].todo), Work(t, fn, TRUE), done)
    BY <1>5 DEF queue_stop_cpus_work
  <2>3. Work(t, fn, TRUE) \in Works
    BY Records
  <2> QED  BY <2>1, <2>2, <2>3, QueueKeeps
<1>6. ASSUME NEW c \in Cpus, cpu_up(t, c)
      PROVE  \A d \in Cpus : Keeps(stopper[d], stopper'[d])
  <2>1. stopper' = [stopper EXCEPT ![c].pc = "sleep"]
    BY <1>6 DEF cpu_up
  <2> QED  BY <1>0, <2>1 DEF Keeps, Stoppers, BusyPcs
<1>7. CASE kthread_stop(t)
  <2>1. PICK c \in Cpus : stopper' = [stopper EXCEPT ![c].should_stop = TRUE, ![c].awake = TRUE]
    BY <1>7, PlainTask DEF kthread_stop
  <2> QED  BY <1>0, <2>1 DEF Keeps, Stoppers
<1>8. CASE DrainEnd(t)
  <2>1. PICK c \in Cpus : stopper' = [stopper EXCEPT ![c] = NoStopper]
    BY <1>8, DrainCpu DEF DrainEnd
  <2>2. /\ stopper'[c].pc = "none" /\ stopper'[c].works = <<>>
        /\ \A d \in Cpus : d # c => stopper'[d] = stopper[d]
    BY <1>0, <2>1 DEF NoStopper
  <2> QED  BY <2>2 DEF Keeps, BusyPcs
<1>12. CASE DrainOne(t)
  <2>1. PICK c \in Cpus : /\ stopper[c].enabled
                          /\ stopper' = [stopper EXCEPT ![c].works = Tail(stopper[c].works)]
    BY <1>12, DrainCpu DEF DrainOne
  <2>2. /\ stopper'[c].enabled = stopper[c].enabled /\ stopper'[c].pc = stopper[c].pc
        /\ stopper'[c].work = stopper[c].work /\ stopper'[c].curstate = stopper[c].curstate
        /\ \A d \in Cpus : d # c => stopper'[d] = stopper[d]
    BY <1>0, <2>1 DEF Stoppers
  <2> QED  BY <2>1, <2>2 DEF Keeps
<1>9. CASE TakePart(t)
  <2>1. PICK c \in Cpus : stopper' = [stopper EXCEPT ![c].pc = "loop", ![c].work = Work(t, "sm", FALSE)]
    BY <1>9, HotCpu DEF TakePart
  <2>2. /\ stopper'[c].work = Work(t, "sm", FALSE)
        /\ stopper'[c].enabled = stopper[c].enabled /\ stopper'[c].works = stopper[c].works
        /\ \A d \in Cpus : d # c => stopper'[d] = stopper[d]
    BY <1>0, <2>1 DEF Stoppers
  <2>3. stopper'[c].work.fn = "sm"
    BY <2>2 DEF Work
  <2> QED  BY <2>2, <2>3 DEF Keeps
<1>10. CASE Online(t)
  <2>1. PICK c \in Cpus : stopper' = [stopper EXCEPT ![c].enabled = TRUE, ![c].awake = TRUE]
    BY <1>10, PlainTask DEF Online
  <2> QED  BY <1>0, <2>1 DEF Keeps, Stoppers
<1>11. stop_machine(t) \/ try_stop_cpus(t) \/ (\E c \in Cpus : cpu_down(t, c)) \/ stop_cpus(t)
       \/ Return(t) \/ Down(t) \/ Dead(t) \/ UpCanceled(t) \/ AllStopped(t) \/ Up(t)
       \/ DrainLock(t) \/ (\E c \in Cpus : BugOn(t, c))
       \/ stop_machine_from_inactive_cpu(t) => UNCHANGED stopper
  BY DEF stop_machine, try_stop_cpus, cpu_down, stop_cpus, Return, Down, Dead, UpCanceled,
         AllStopped, Up, DrainLock, BugOn, stop_machine_from_inactive_cpu
<1>13. CASE Call(t)
  BY <1>1, <1>3, <1>4, <1>6, <1>11, <1>13 DEF Call
<1>14. ASSUME HotplugStep(t)
       PROVE  \A d \in Cpus : Keeps(stopper[d], stopper'[d])
  BY <1>1, <1>7, <1>8, <1>9, <1>10, <1>11, <1>12, <1>14 DEF HotplugStep
<1>15. CASE TaskStep(t)
  <2>1. CASE HotplugStep(t)
    BY <1>14, <2>1
  <2>2. CASE stop_cpus(t) \/ Return(t)
    BY <1>1, <1>11, <2>2
  <2> QED  BY <1>5, <1>15, <2>1, <2>2 DEF TaskStep
<1> QED  BY <1>1, <1>11, <1>13, <1>15

LEMMA CurCorrect == Spec => []CurOK
<1>1. Init => CurOK
  <2> SUFFICES ASSUME Init, NEW c \in Cpus
               PROVE  stopper[c].pc \notin BusyPcs /\ stopper[c].enabled
    BY DEF CurOK
  <2> QED  BY DEF Init, NoStopper, BusyPcs
<1>2. Inv /\ CurOK /\ [Next]_vars => CurOK'
  <2> SUFFICES ASSUME Inv, CurOK, [Next]_vars
               PROVE  \A c \in Cpus : Keeps(stopper[c], stopper'[c])
    BY KeepsCur
  <2>1. CASE UNCHANGED vars
    BY <2>1 DEF vars, Keeps
  <2> QED  BY <2>1, StopperKeeps, TaskKeeps DEF Next
<1> QED  BY <1>1, <1>2, InvCorrect, PTL DEF Spec

-----------------------------------------------------------------------------
(* The properties. *)

LEMMA CurstateRange ==
    ASSUME Inv, CurOK, NEW c \in Cpus
    PROVE  stopper[c].curstate \in NONE .. EXIT
<1> DEFINE s == stopper[c]
<1>1. CASE s.pc \notin BusyPcs
  BY <1>1 DEF Inv, StopperOK, NONE, EXIT
<1>2. CASE s.pc \in BusyPcs /\ s.work.fn = "plain"
  BY <1>2 DEF CurOK, NONE, EXIT
<1>3. CASE s.pc \in BusyPcs /\ s.work.fn = "sm"
  <2>1. PICK t \in Tasks : s.work.by = t
    BY <1>3 DEF Inv, Types, Works
  <2>2. Steps(s, t)
    BY <1>3, <2>1 DEF Steps
  <2>3. StateOK(t)
    BY <2>2, StepsWaits
  <2>4. At(s, smdata[t].state) /\ smdata[t].state \in PREPARE .. EXIT + 1
    BY <2>2, <2>3 DEF StateOK
  <2> QED  BY <2>4 DEF At, NONE, PREPARE, EXIT
<1>4. s.pc \in BusyPcs => s.work.fn \in {"plain", "sm"}
  BY DEF Inv, Types, Works
<1> QED  BY <1>1, <1>2, <1>3, <1>4

LEMMA DataRange ==
    ASSUME Inv, NEW t \in Tasks
    PROVE  /\ smdata[t].state \in NONE .. EXIT + 1
           /\ smdata[t].ack \in 0 .. Cardinality(Cpus)
<1>0. MachineOK(t) /\ Types
  BY DEF Inv, CallOK
<1>1. Part(t) \in SUBSET Cpus /\ Lag(t) \in SUBSET Cpus
  BY <1>0 DEF Part, Lag, Types, Datas
<1>2. /\ Cardinality(Part(t)) \in 0 .. Cardinality(Cpus)
      /\ Cardinality(Lag(t)) \in 0 .. Cardinality(Cpus)
      /\ 0 \in 0 .. Cardinality(Cpus)
  BY <1>1, Sizes, FS_EmptySet
<1>3. CASE Machine(t)
  <2>1. StateOK(t)
    BY <1>0, <1>3 DEF MachineOK
  <2>2. smdata[t].state \in PREPARE .. EXIT + 1
    BY <2>1 DEF StateOK
  <2>3. smdata[t].ack \in {Cardinality(Part(t)), Cardinality(Lag(t))}
    BY <2>1 DEF StateOK
  <2> QED  BY <1>2, <2>2, <2>3 DEF NONE, PREPARE, EXIT
<1>4. CASE task[t].pc = "mutex"
  <2>1. smdata[t] = Data(Cardinality(Part(t)), smdata[t].active)
    BY <1>0, <1>4 DEF MachineOK
  <2>2. smdata[t].state = PREPARE /\ smdata[t].ack = Cardinality(Part(t))
    BY <2>1, RestData
  <2> QED  BY <1>2, <2>2 DEF NONE, PREPARE, EXIT
<1>5. CASE ~Machine(t) /\ task[t].pc # "mutex"
  <2>1. smdata[t].ack = 0 /\ smdata[t].state \in NONE .. PREPARE
    BY <1>0, <1>5 DEF MachineOK
  <2> QED  BY <1>2, <2>1 DEF NONE, PREPARE, EXIT
<1> QED  BY <1>3, <1>4, <1>5

LEMMA InvType ==
    ASSUME Inv, CurOK
    PROVE  TypeOK
<1>0. Types /\ online # {}
  BY DEF Inv, StopperOK
<1>1. ASSUME NEW c \in Cpus
      PROVE  /\ {stopper[c].enabled, stopper[c].awake, stopper[c].should_stop} \subseteq BOOLEAN
             /\ stopper[c].curstate \in NONE .. EXIT
             /\ stopper[c].pc \in {"none", "sleep", "test", "next", "exited", "plain", "loop",
                                   "fn", "ack", "set_state", "signal"}
  <2>1. stopper[c] \in Stoppers
    BY <1>0 DEF Types
  <2>2. stopper[c].pc \in {"none", "sleep", "test", "next", "exited"} \cup BusyPcs
    BY <2>1 DEF Stoppers
  <2>3. /\ stopper[c].enabled \in BOOLEAN /\ stopper[c].awake \in BOOLEAN
        /\ stopper[c].should_stop \in BOOLEAN
    BY <2>1 DEF Stoppers
  <2>4. {stopper[c].enabled, stopper[c].awake, stopper[c].should_stop} \subseteq BOOLEAN
    BY <2>3, Zenon
  <2> QED  BY <2>2, <2>4, CurstateRange DEF BusyPcs
<1>2. ASSUME NEW t \in Tasks
      PROVE  /\ task[t].todo \subseteq Cpus
             /\ done[t].nr_todo \in 0 .. Cardinality(Cpus)
             /\ smdata[t].state \in NONE .. EXIT + 1
             /\ smdata[t].ack \in 0 .. Cardinality(Cpus)
  <2>1. task[t].todo \subseteq Cpus
    BY <1>0 DEF Types, Frames
  <2>2. Open(t) \in SUBSET Cpus /\ done[t].nr_todo = Cardinality(Open(t))
    BY DEF Open, Inv, CallOK, OpenOK
  <2> QED  BY <2>1, <2>2, Sizes, DataRange
<1> QED  BY <1>0, <1>1, <1>2 DEF TypeOK, Types

(* stop_machine_cpu_stop() runs the function in the state RUN, which is not *)
(* reached before all have seen DISABLE_IRQ nor left before all have        *)
(* acknowledged it.                                                         *)
LEMMA InvFrozen ==
    ASSUME Inv
    PROVE  Frozen
<1> SUFFICES ASSUME NEW c \in Cpus, stopper[c].pc = "fn",
                    NEW d \in online \cup {c, task[stopper[c].work.by].cpu}
             PROVE  /\ Busy(d) /\ stopper[d].work.by = stopper[c].work.by
                    /\ stopper[d].curstate \in {DISABLE_IRQ, RUN}
  BY DEF Frozen
<1>1. PICK t \in Tasks : t = stopper[c].work.by
  BY DEF Inv, Types, Works, BusyPcs
<1>2. Steps(stopper[c], t)
  BY <1>1, FnsHold DEF FnsOK, Steps, BusyPcs
<1>3. StateOK(t) /\ c \in Part(t)
  BY <1>2, StepsWaits
<1>4. smdata[t].state = RUN
  <2>1. At(stopper[c], smdata[t].state) /\ smdata[t].state \in PREPARE .. EXIT + 1
    BY <1>2, <1>3 DEF StateOK
  <2> QED  BY <2>1 DEF At
<1>5. d \in Part(t) /\ Part(t) \subseteq Cpus
  BY <1>1, <1>3 DEF Part, StateOK, Inv, Types, Datas
<1>6. Steps(stopper[d], t)
  BY <1>3, <1>4, <1>5 DEF StateOK, RUN, PREPARE
<1>7. At(stopper[d], RUN)
  BY <1>3, <1>4, <1>5, <1>6 DEF StateOK
<1>8. stopper[d].curstate \in {DISABLE_IRQ, RUN}
  BY <1>7 DEF At, DISABLE_IRQ, RUN
<1> QED  BY <1>1, <1>6, <1>8 DEF Busy, Steps, BusyPcs

LEMMA InvNoUse ==
    ASSUME Inv, CurOK
    PROVE  NoUseAfterReturn
<1> SUFFICES ASSUME NEW c \in Cpus,
                    NEW w \in {stopper[c].works[i] : i \in DOMAIN stopper[c].works}
                              \cup (IF Busy(c) THEN {stopper[c].work} ELSE {}),
                    w.done
             PROVE  Waiting(w.by) /\ done[w.by].nr_todo > 0
  BY DEF NoUseAfterReturn
<1>1. stopper[c] \in Stoppers /\ stopper[c].works \in Seq(Works)
  BY FieldTypes DEF Inv, Types
<1>2. CASE \E i \in DOMAIN stopper[c].works : w = stopper[c].works[i]
  <2>1. PICK i \in DOMAIN stopper[c].works : w = stopper[c].works[i]
    BY <1>2
  <2>2. w \in Works
    BY <1>1, <2>1, ElementOfSeq, LenProperties
  <2>3. PICK t \in Tasks : t = w.by
    BY <2>2 DEF Works
  <2>4. stopper[c].works # <<>>
    BY <2>1
  <2>5. stopper[c].enabled
    BY <2>4 DEF CurOK
  <2>6. Lists(stopper[c], t)
    BY <2>1, <2>3, <2>5 DEF Lists, Mine
  <2> QED  BY <2>3, <2>6, OpenWaits
<1>3. CASE Busy(c) /\ w = stopper[c].work
  <2>1. stopper[c].pc \in BusyPcs
    BY <1>3 DEF Busy, BusyPcs
  <2>2. w \in Works
    BY <1>3, <2>1 DEF Inv, Types
  <2>3. PICK t \in Tasks : t = w.by
    BY <2>2 DEF Works
  <2>4. Runs(stopper[c], t)
    BY <1>3, <2>1, <2>3 DEF Runs, Mine
  <2> QED  BY <2>3, <2>4, OpenWaits
<1> QED  BY <1>2, <1>3

LEMMA InvResult ==
    ASSUME Inv
    PROVE  ResultIsTrue
<1> SUFFICES ASSUME NEW t \in Tasks, Completed(t)
             PROVE  CASE task[t].op = "one" ->
                            IF done[t].executed THEN \E c \in Cpus : ran[t] = OnceOn({c})
                            ELSE ran[t] = OnceOn({})
                      [] task[t].op = "try" -> ran[t] = OnceOn(online)
                      [] task[t].op \in {"machine", "down"} -> ran[t] = OnceOn(smdata[t].active)
                      [] OTHER -> TRUE
  BY DEF ResultIsTrue
<1>0. task[t].pc = "wait" /\ done[t].nr_todo = 0 /\ RanOK(t) /\ Types
  BY DEF Completed, Inv, CallOK
<1>1. task[t].todo = {} /\ \A c \in Cpus : ~Lists(stopper[c], t) /\ ~Runs(stopper[c], t)
  BY <1>0, Closed
<1>2. CASE task[t].op = "one"
  <2>1. ~\E c \in Cpus : Signals(stopper[c], t)
    BY <1>1 DEF Signals
  <2>2. IF done[t].executed THEN \E c \in Cpus : ran[t] = OnceOn({c}) ELSE ran[t] = OnceOn({})
    BY <1>0, <1>2, <2>1 DEF RanOK
  <2> QED  BY <1>2, <2>2
<1>3. CASE task[t].op = "try"
  <2>1. NotRun(t) = {}
    BY <1>1 DEF NotRun
  <2>2. online \ NotRun(t) = online
    BY <2>1
  <2>3. ran[t] = OnceOn(online)
    BY <1>0, <1>3, <2>2 DEF RanOK
  <2> QED  BY <1>3, <2>3
<1>4. CASE task[t].op \in {"machine", "down"}
  <2>1. Machine(t) /\ Ran(t) = smdata[t].active
    BY <1>0, <1>4, AllRan
  <2>2. ran[t] = OnceOn(smdata[t].active)
    BY <1>0, <2>1 DEF RanOK
  <2> QED  BY <1>4, <2>2
<1> QED  BY <1>2, <1>3, <1>4

(* The shape of the stoppers, the calls and what is on the callers' stacks: *)
(* no counter of a call goes below zero or above the number of CPUs.        *)
THEOREM TypeCorrect == Spec => []TypeOK
  BY InvType, InvCorrect, CurCorrect, PTL

(* While the function of stop_machine() runs on a CPU, all that are online  *)
(* and the one that goes down or comes up sit in the same call with their   *)
(* interrupts disabled.                                                     *)
THEOREM FrozenCorrect == Spec => []Frozen
  BY InvFrozen, InvCorrect, PTL

(* A work that a stopper executes or will take, or that a drain will        *)
(* signal, is one of a call that has not returned and waits for it.  The    *)
(* works that cpu_stop_cpu_callback() has signalled and not unlinked are    *)
(* what the theorem does not speak of.                                      *)
THEOREM NoUseCorrect == Spec => []NoUseAfterReturn
  BY InvNoUse, InvCorrect, CurCorrect, PTL

(* A call that returns has had its function executed once on each CPU it    *)
(* was asked to and nowhere else, and stop_one_cpu() says whether it has.   *)
THEOREM ResultCorrect == Spec => []ResultIsTrue
  BY InvResult, InvCorrect, PTL

(* What cpu_down() is told: take_cpu_down() has failed if and only if the   *)
(* CPU is still online.                                                     *)
DownTrue ==
    \A t \in Tasks : Completed(t) /\ task[t].op = "down" => (done[t].ret <=> Cpu(t) \in online)

(* What __stop_cpus() gives cpu_down() back is true of the CPU. *)
THEOREM DownCorrect == Spec => []DownTrue
<1>1. Inv => DownTrue
  BY DownTold DEF DownTrue, Completed
<1> QED  BY <1>1, InvCorrect, PTL

(* All CPUs that step through the states of stop_machine() do so for one    *)
(* call: two calls never each hold some CPUs and wait for the others.       *)
OneMachine ==
    \A c, d \in Cpus : \A t, u \in Tasks :
       Steps(stopper[c], t) /\ Steps(stopper[d], u) => t = u

(* stop_cpus_mutex keeps the calls of stop_machine() apart. *)
THEOREM OneMachineCorrect == Spec => []OneMachine
<1>1. Inv => OneMachine
  <2> SUFFICES ASSUME Inv, NEW c \in Cpus, NEW d \in Cpus, NEW t \in Tasks, NEW u \in Tasks,
                      Steps(stopper[c], t), Steps(stopper[d], u)
               PROVE  t = u
    BY DEF OneMachine
  <2>1. Machine(t) /\ Machine(u)
    BY StepsWaits
  <2>2. Holds(t) /\ Holds(u)
    BY <2>1 DEF Machine, Holds
  <2> QED  BY <2>2 DEF Inv, LockOK
<1> QED  BY <1>1, InvCorrect, PTL

=============================================================================
