---------------------------- MODULE SoftirqProofs ----------------------------
(***************************************************************************)
(* Proofs about Softirq, for every number of CPUs, tasks and tasklets.     *)
(***************************************************************************)
EXTENDS Softirq, FiniteSetTheorems, TLAPS

-----------------------------------------------------------------------------
(* Types. *)

Heads == [seq : Seq(Tasklets), atHead : BOOLEAN]

InHand == {"count", "clear", "unlock"}
Working == {"count", "clear", "unlock", "func"}

Contexts == [pc : {"none", "walk"} \cup Working, bits : SUBSET Bits, list : Seq(Tasklets),
             t : Tasklets \cup {NULL}, restart : Nat]

(* The user holds the SCHED bit of uarg, or has incremented its count. *)
Holding == {"add", "kill_wait", "kill_clear"}
Disabling == {"disabled_nosync", "disabled"}

Types ==
    /\ sched \in SUBSET Tasklets /\ run \in SUBSET Tasklets
    /\ count \in [Tasklets -> Int]
    /\ vec \in [Cpus -> [Bits -> Heads]]
    /\ pending \in [Cpus -> SUBSET Bits]
    /\ soft \in [Cpus -> Contexts]
    /\ bh \in [Cpus -> Users \cup {NULL}]
    /\ kstate \in [Cpus -> BOOLEAN]
    /\ kpc \in [Cpus -> {"test", "sleep", "work", "again", "dead"}]
    /\ online \in SUBSET Cpus
    /\ upc \in [Users -> {"idle"} \cup Holding \cup Disabling]
    /\ uarg \in [Users -> Tasklets \cup {NULL}]

(* Every tasklet has a bit. *)
LEMMA BitType == \A k \in Tasklets : Bit(k) \in Bits
BY SoftirqAssumption DEF Bit, Bits

(* What the list operations return. *)
LEMMA ListTypes ==
    /\ \A h \in Heads, s \in Seq(Tasklets) : AddTail(h, s) \in Heads
    /\ \A h \in Heads, k \in Tasklets : AddFirst(h, k) \in Heads
    /\ \A k \in Tasklets : <<k>> \in Seq(Tasklets)
    /\ EmptyHead \in Heads
<1>1. \A h \in Heads, s \in Seq(Tasklets) : h.seq \o s \in Seq(Tasklets)
  BY DEF Heads
<1>2. \A k \in Tasklets : <<k>> \in Seq(Tasklets)
  OBVIOUS
<1>3. \A h \in Heads, k \in Tasklets : <<k>> \o h.seq \in Seq(Tasklets)
  BY <1>2 DEF Heads
<1>4. \A h \in Heads, s \in Seq(Tasklets) : AddTail(h, s) \in Heads
  BY <1>1 DEF AddTail, Heads
<1>5. \A h \in Heads, k \in Tasklets : AddFirst(h, k) \in Heads
  BY <1>3 DEF AddFirst, Heads
<1>6. EmptyHead \in Heads
  BY DEF EmptyHead, Heads
<1> QED  BY <1>2, <1>4, <1>5, <1>6

(* Writing a field of a context leaves a context. *)
LEMMA ContextFields ==
    ASSUME NEW x \in Contexts
    PROVE  /\ \A p \in {"none", "walk"} \cup Working : [x EXCEPT !.pc = p] \in Contexts
           /\ \A bits \in SUBSET Bits : [x EXCEPT !.bits = bits] \in Contexts
           /\ \A list \in Seq(Tasklets) : [x EXCEPT !.list = list] \in Contexts
           /\ \A k \in Tasklets \cup {NULL} : [x EXCEPT !.t = k] \in Contexts
           /\ \A r \in Nat : [x EXCEPT !.restart = r] \in Contexts
BY DEF Contexts

(* A context that starts, or has ended. *)
LEMMA ContextTypes ==
    /\ AtRest \in Contexts
    /\ \A bits \in SUBSET Bits, r \in Nat :
          [AtRest EXCEPT !.pc = "walk", !.bits = bits, !.restart = r] \in Contexts
<1>1. AtRest \in Contexts
  BY DEF AtRest, Contexts
<1> QED  BY <1>1, ContextFields

(* What a step on CPU c does to the lists and the bits. *)
LEMMA QueueType ==
    ASSUME Types, NEW c \in Cpus, NEW k \in Tasklets, Queue(c, k)
    PROVE  vec' \in [Cpus -> [Bits -> Heads]]
<1>1. Bit(k) \in Bits /\ AddTail(vec[c][Bit(k)], <<k>>) \in Heads
  BY BitType, ListTypes DEF Types
<1> QED  BY <1>1 DEF Types, Queue

(* A tasklet that goes back on a list is on a list of its CPU. *)
LEMMA RequeueType ==
    ASSUME Types, NEW c \in Cpus, NEW k \in Tasklets, Requeue(c, k)
    PROVE  vec' \in [Cpus -> [Bits -> Heads]] /\ pending' \in [Cpus -> SUBSET Bits]
BY QueueType, BitType DEF Types, Requeue

(* Raising a softirq sets a bit, and may wake the thread. *)
LEMMA RaiseType ==
    ASSUME Types, NEW c \in Cpus, NEW k \in Tasklets, raise_softirq_irqoff(c, {Bit(k)})
    PROVE  pending' \in [Cpus -> SUBSET Bits] /\ kstate' \in [Cpus -> BOOLEAN]
BY BitType DEF Types, raise_softirq_irqoff, wakeup_softirqd

(* A softirq that starts leaves a context and no pending bits. *)
LEMMA StartType ==
    ASSUME Types, NEW c \in Cpus, NEW bits \in SUBSET Bits, NEW r \in Nat, Start(c, bits, r)
    PROVE  soft' \in [Cpus -> Contexts] /\ pending' \in [Cpus -> SUBSET Bits]
BY ContextTypes DEF Types, Start

(* A task that goes somewhere is somewhere. *)
LEMMA UGotoType ==
    ASSUME Types, NEW u \in Users, NEW where \in {"idle"} \cup Holding \cup Disabling,
           NEW k \in Tasklets \cup {NULL}, UGoto(u, where, k)
    PROVE  /\ upc' \in [Users -> {"idle"} \cup Holding \cup Disabling]
           /\ uarg' \in [Users -> Tasklets \cup {NULL}]
BY DEF Types, UGoto

-----------------------------------------------------------------------------
(* The contexts: who is where. *)

SoftOK(c) ==
    /\ soft[c].pc = "none" =>
          soft[c].bits = {} /\ soft[c].list = <<>> /\ soft[c].restart = 0
    /\ soft[c].pc # "none" =>
          soft[c].restart \in 1 .. MAX_SOFTIRQ_RESTART /\ c \in online
    /\ soft[c].pc \in Working => soft[c].t \in Tasklets
    /\ bh[c] # NULL => c \in online
    /\ kpc[c] = "dead" => c \notin online /\ \A b \in Bits : vec[c][b].atHead

UserOK(u) == upc[u] # "idle" => uarg[u] \in Tasklets

Structure ==
    /\ Types
    /\ \A c \in Cpus : SoftOK(c)
    /\ \A u \in Users : UserOK(u)

(* The structure is kept by the steps of __do_softirq(). *)
LEMMA SoftirqStructure ==
    ASSUME Structure, NEW c \in Cpus, do_softirq_step(c)
    PROVE  Structure'
<1>0. Types /\ SoftOK(c) /\ \A d \in Cpus : SoftOK(d)
  BY DEF Structure
<1>1. CASE tasklet_action(c)
  <2> DEFINE b == IF "HI" \in soft[c].bits THEN "HI" ELSE "TASKLET"
  <2>1. /\ soft[c].pc = "walk" /\ b \in Bits
        /\ soft' = [soft EXCEPT ![c].bits = @ \ {b}, ![c].list = vec[c][b].seq]
        /\ vec' = [vec EXCEPT ![c][b] = EmptyHead]
        /\ UNCHANGED <<taskletVars, pending, bh, kVars, online, userVars>>
    BY <1>1 DEF tasklet_action, Bits
  <2>2. vec[c][b].seq \in Seq(Tasklets)
    BY <1>0, <2>1 DEF Types, Heads
  <2> HIDE DEF b
  <2>3. soft' \in [Cpus -> Contexts]
    <3>1. soft \in [Cpus -> Contexts] /\ soft[c].bits \ {b} \in SUBSET Bits
      BY <1>0 DEF Types, Contexts
    <3> QED  BY <2>1, <2>2, <3>1, ContextFields
  <2>4. vec' \in [Cpus -> [Bits -> Heads]]
    BY <1>0, <2>1, ListTypes DEF Types
  <2>5. Types'
    BY <1>0, <2>1, <2>3, <2>4 DEF Types, taskletVars, kVars, userVars
  <2>6. ASSUME NEW d \in Cpus  PROVE SoftOK(d)'
    <3>1. SoftOK(d)
      BY <1>0
    <3>2. /\ soft'[d].pc = soft[d].pc /\ soft'[d].restart = soft[d].restart
          /\ soft'[d].t = soft[d].t
          /\ d # c => soft'[d] = soft[d]
      BY <1>0, <2>1 DEF Types, Contexts
    <3>3. \A e \in Bits : vec[d][e].atHead => vec'[d][e].atHead
      BY <1>0, <2>1 DEF Types, EmptyHead
    <3> QED  BY <2>1, <3>1, <3>2, <3>3 DEF SoftOK, kVars
  <2> QED  BY <2>1, <2>5, <2>6 DEF Structure, UserOK, userVars
<1>2. CASE EndOfSoftirq(c)
  <2>1. /\ soft' = [soft EXCEPT ![c] = AtRest] \/ Start(c, pending[c], soft[c].restart - 1)
        /\ soft[c].pc = "walk"
        /\ UNCHANGED <<taskletVars, vec, bh, kpc, online, userVars>>
    BY <1>2 DEF EndOfSoftirq
  <2>2. soft[c].restart \in 1 .. MAX_SOFTIRQ_RESTART /\ c \in online
    BY <1>0, <2>1 DEF SoftOK
  <2>3. soft' \in [Cpus -> Contexts]
    <3>1. soft[c].restart - 1 \in Nat /\ pending[c] \in SUBSET Bits
      BY <1>0, <2>2, SoftirqAssumption DEF Types
    <3> QED  BY <1>0, <2>1, <3>1, StartType, ContextTypes DEF Types
  <2>4. kstate' \in [Cpus -> BOOLEAN] /\ pending' \in [Cpus -> SUBSET Bits]
    BY <1>0, <1>2 DEF EndOfSoftirq, wakeup_softirqd, Types, Start
  <2>5. Types'
    BY <1>0, <2>1, <2>3, <2>4 DEF Types, taskletVars, userVars
  <2>6. SoftOK(c)'
    <3>1. CASE pending[c] # {} /\ MayRestart(c)
      <4>1. soft'[c] = [AtRest EXCEPT !.pc = "walk", !.bits = pending[c],
                                       !.restart = soft[c].restart - 1]
        BY <1>0, <1>2, <3>1 DEF EndOfSoftirq, Start, Types
      <4>2. soft'[c].restart \in 1 .. MAX_SOFTIRQ_RESTART
        BY <2>2, <3>1, <4>1, SoftirqAssumption DEF MayRestart, AtRest
      <4>3. soft'[c].pc = "walk"
        BY <4>1 DEF AtRest
      <4> QED  BY <1>0, <2>1, <2>2, <4>2, <4>3 DEF SoftOK, Working
    <3>2. CASE ~(pending[c] # {} /\ MayRestart(c))
      <4>1. soft'[c] = AtRest
        BY <1>0, <1>2, <3>2 DEF EndOfSoftirq, Types
      <4> QED  BY <1>0, <2>1, <4>1 DEF SoftOK, AtRest, Working
    <3> QED  BY <3>1, <3>2
  <2>7. ASSUME NEW d \in Cpus \ {c}  PROVE SoftOK(d)'
    <3>1. soft'[d] = soft[d]
      BY <1>0, <2>1 DEF Types, Start
    <3> QED  BY <1>0, <2>1, <3>1 DEF SoftOK
  <2> QED  BY <2>1, <2>5, <2>6, <2>7 DEF Structure, UserOK, userVars
<1>3. ASSUME UNCHANGED <<count, bh, kVars, online, userVars>>,
             sched' \in SUBSET Tasklets, run' \in SUBSET Tasklets,
             soft[c].pc # "none",
             soft' \in [Cpus -> Contexts], \A d \in Cpus \ {c} : soft'[d] = soft[d],
             soft'[c].pc # "none", soft'[c].restart = soft[c].restart,
             soft'[c].pc \in Working => soft'[c].t \in Tasklets,
             \/ UNCHANGED <<vec, pending>>
             \/ \E k \in Tasklets : Requeue(c, k)
      PROVE  Structure'
  <2>1. vec' \in [Cpus -> [Bits -> Heads]] /\ pending' \in [Cpus -> SUBSET Bits]
    BY <1>0, <1>3, RequeueType DEF Types
  <2>2. Types'
    BY <1>0, <1>3, <2>1 DEF Types, kVars, userVars
  <2>3. \A d \in Cpus \ {c} : vec'[d] = vec[d]
    BY <1>0, <1>3 DEF Types, Requeue, Queue
  <2>4. ASSUME NEW d \in Cpus \ {c}  PROVE SoftOK(d)'
    BY <1>0, <1>3, <2>3 DEF SoftOK, kVars
  <2>5. SoftOK(c)'
    BY <1>0, <1>3 DEF SoftOK, kVars
  <2> QED  BY <1>3, <2>2, <2>4, <2>5 DEF Structure, UserOK, userVars
<1>4. CASE Trylock(c)
  <2> DEFINE k == Head(soft[c].list)
  <2>0. soft[c].list \in Seq(Tasklets) /\ soft[c].list # <<>> /\ soft[c].pc = "walk"
    BY <1>0, <1>4 DEF Trylock, Types, Contexts
  <2>1. k \in Tasklets /\ Tail(soft[c].list) \in Seq(Tasklets)
    BY <2>0
  <2>2. CASE tasklet_trylock(k)
    <3>1. /\ soft' = [soft EXCEPT ![c].list = Tail(@), ![c].t = k, ![c].pc = "count"]
          /\ run' = run \cup {k}
          /\ UNCHANGED <<vec, pending, sched, count, bh, kVars, online, userVars>>
      BY <1>4, <2>2 DEF Trylock
    <3> HIDE DEF k
    <3>2. soft' \in [Cpus -> Contexts]
      <4>1. soft \in [Cpus -> Contexts] /\ k \in Tasklets \cup {NULL} /\ "count" \in Working
        BY <1>0, <2>1 DEF Types, Working
      <4> QED  BY <2>1, <3>1, <4>1, ContextFields
    <3>3. /\ soft'[c].pc = "count" /\ soft'[c].restart = soft[c].restart /\ soft'[c].t = k
          /\ \A d \in Cpus \ {c} : soft'[d] = soft[d]
      BY <1>0, <3>1 DEF Types, Contexts
    <3> QED  BY <1>0, <1>3, <2>0, <2>1, <3>1, <3>2, <3>3 DEF Types
  <2>3. CASE ~tasklet_trylock(k)
    <3>1. /\ soft' = [soft EXCEPT ![c].list = Tail(@)]
          /\ Requeue(c, k)
          /\ UNCHANGED <<run, sched, count, bh, kVars, online, userVars>>
      BY <1>4, <2>3 DEF Trylock
    <3> HIDE DEF k
    <3>2. soft' \in [Cpus -> Contexts]
      BY <1>0, <2>1, <3>1 DEF Types, Contexts
    <3>3. /\ soft'[c].pc = "walk" /\ soft'[c].restart = soft[c].restart
          /\ \A d \in Cpus \ {c} : soft'[d] = soft[d]
      BY <1>0, <2>0, <3>1 DEF Types, Contexts
    <3> QED  BY <1>0, <1>3, <2>0, <2>1, <3>1, <3>2, <3>3 DEF Types, Working
  <2> QED  BY <2>2, <2>3
<1>5. CASE ReadCount(c) \/ ClearSched(c)
  <2>1. /\ soft[c].pc \in {"count", "clear"}
        /\ \E where \in Working : soft' = [soft EXCEPT ![c].pc = where]
        /\ UNCHANGED <<run, count, vec, pending, bh, kVars, online, userVars>>
        /\ sched' \in SUBSET Tasklets
    BY <1>0, <1>5 DEF ReadCount, ClearSched, taskletVars, Working, Types
  <2>2. /\ soft' \in [Cpus -> Contexts] /\ soft'[c].pc \in Working
        /\ soft'[c].t = soft[c].t /\ soft'[c].restart = soft[c].restart
        /\ \A d \in Cpus \ {c} : soft'[d] = soft[d]
    <3>1. soft \in [Cpus -> Contexts]
      BY <1>0 DEF Types
    <3>2. soft' \in [Cpus -> Contexts]
      BY <2>1, <3>1, ContextFields
    <3> QED  BY <2>1, <3>1, <3>2 DEF Contexts
  <2>3. soft[c].t \in Tasklets
    BY <1>0, <2>1 DEF SoftOK, Working
  <2>4. soft'[c].pc # "none" /\ soft[c].pc # "none"
    BY <2>1, <2>2 DEF Working
  <2> QED  BY <1>0, <1>3, <2>1, <2>2, <2>3, <2>4 DEF Types
<1>6. CASE tasklet_unlock(c)
  <2>1. /\ soft[c].pc \in {"func", "unlock"}
        /\ soft' = [soft EXCEPT ![c].pc = "walk", ![c].t = NULL]
        /\ UNCHANGED <<sched, count, bh, kVars, online, userVars>>
        /\ run' \in SUBSET Tasklets
    BY <1>0, <1>6 DEF tasklet_unlock, Types
  <2>2. /\ soft' \in [Cpus -> Contexts] /\ soft'[c].pc = "walk"
        /\ soft'[c].restart = soft[c].restart
        /\ \A d \in Cpus \ {c} : soft'[d] = soft[d]
    <3>1. soft \in [Cpus -> Contexts]
      BY <1>0 DEF Types
    <3>2. soft' \in [Cpus -> Contexts]
      BY <2>1, <3>1, ContextFields
    <3> QED  BY <2>1, <3>1, <3>2 DEF Contexts
  <2>3. soft[c].t \in Tasklets
    BY <1>0, <2>1 DEF SoftOK, Working
  <2>4. Requeue(c, soft[c].t) \/ UNCHANGED <<vec, pending>>
    BY <1>6 DEF tasklet_unlock
  <2> QED  BY <1>0, <1>3, <2>1, <2>2, <2>3, <2>4 DEF Types, Working
<1> QED  BY <1>1, <1>2, <1>4, <1>5, <1>6 DEF do_softirq_step

(* So it is by a tasklet function, an interrupt or a trap on CPU c ... *)
LEMMA InterruptStructure ==
    ASSUME Structure, NEW c \in Cpus,
           \/ \E k \in Tasklets : FuncSchedules(c, k) \/ tasklet_hi_schedule_first(c, k)
           \/ \E S \in {{}} \cup {{k} : k \in Tasklets} : Interrupt(c, S)
    PROVE  Structure'
<1>0. Types /\ SoftOK(c) /\ \A d \in Cpus : SoftOK(d)
  BY DEF Structure
<1>1. ASSUME UNCHANGED <<run, count, bh, kpc, online, userVars>>,
             sched' \in SUBSET Tasklets, c \in online,
             vec' \in [Cpus -> [Bits -> Heads]], \A d \in Cpus \ {c} : vec'[d] = vec[d],
             pending' \in [Cpus -> SUBSET Bits], kstate' \in [Cpus -> BOOLEAN],
             \/ UNCHANGED soft
             \/ \E bits \in SUBSET Bits : Start(c, bits, MAX_SOFTIRQ_RESTART)
      PROVE  Structure'
  <2>1. soft' \in [Cpus -> Contexts] /\ \A d \in Cpus \ {c} : soft'[d] = soft[d]
    <3>1. CASE UNCHANGED soft
      BY <1>0, <3>1 DEF Types
    <3>2. CASE \E bits \in SUBSET Bits : Start(c, bits, MAX_SOFTIRQ_RESTART)
      <4>1. MAX_SOFTIRQ_RESTART \in Nat
        BY SoftirqAssumption
      <4>2. soft' \in [Cpus -> Contexts]
        BY <1>0, <3>2, <4>1, StartType
      <4>3. \A d \in Cpus \ {c} : soft'[d] = soft[d]
        BY <1>0, <3>2 DEF Start, Types
      <4> QED  BY <4>2, <4>3
    <3> QED  BY <1>1, <3>1, <3>2
  <2>2. Types'
    BY <1>0, <1>1, <2>1 DEF Types, userVars
  <2>3. SoftOK(c)'
    <3>1. CASE UNCHANGED soft
      BY <1>0, <1>1, <3>1 DEF SoftOK
    <3>2. CASE \E bits \in SUBSET Bits : Start(c, bits, MAX_SOFTIRQ_RESTART)
      <4>1. soft'[c].pc = "walk" /\ soft'[c].restart = MAX_SOFTIRQ_RESTART
        BY <1>0, <3>2 DEF Start, AtRest, Types
      <4>2. MAX_SOFTIRQ_RESTART \in 1 .. MAX_SOFTIRQ_RESTART
        BY SoftirqAssumption
      <4> QED  BY <1>0, <1>1, <4>1, <4>2 DEF SoftOK, Working
    <3> QED  BY <1>1, <3>1, <3>2
  <2>4. ASSUME NEW d \in Cpus \ {c}  PROVE SoftOK(d)'
    BY <1>0, <1>1, <2>1 DEF SoftOK
  <2> QED  BY <1>1, <2>2, <2>3, <2>4 DEF Structure, UserOK, userVars
<1>2. ASSUME NEW k \in Tasklets, FuncSchedules(c, k)  PROVE Structure'
  <2>1. /\ Queue(c, k) /\ raise_softirq_irqoff(c, {Bit(k)}) /\ sched' = sched \cup {k}
        /\ UNCHANGED <<run, count, soft, bh, kpc, online, userVars>> /\ soft[c].pc = "func"
    BY <1>2 DEF FuncSchedules
  <2>2. c \in online /\ sched' \in SUBSET Tasklets
    BY <1>0, <2>1 DEF SoftOK, Types
  <2>3. \A d \in Cpus \ {c} : vec'[d] = vec[d]
    BY <1>0, <2>1 DEF Queue, Types
  <2> QED  BY <1>0, <1>1, <2>1, <2>2, <2>3, QueueType, RaiseType
<1>3. ASSUME NEW k \in Tasklets, tasklet_hi_schedule_first(c, k)  PROVE Structure'
  <2>1. /\ vec' = [vec EXCEPT ![c]["HI"] = AddFirst(@, k)]
        /\ pending' = [pending EXCEPT ![c] = @ \cup {"HI"}]
        /\ sched' = sched \cup {k} /\ c \in online
        /\ UNCHANGED <<run, count, soft, bh, kVars, online, userVars>>
    BY <1>3 DEF tasklet_hi_schedule_first
  <2>2. vec' \in [Cpus -> [Bits -> Heads]] /\ \A d \in Cpus \ {c} : vec'[d] = vec[d]
    <3>1. "HI" \in Bits
      BY DEF Bits
    <3>2. AddFirst(vec[c]["HI"], k) \in Heads
      BY <1>0, <3>1, ListTypes DEF Types
    <3> QED  BY <1>0, <2>1, <3>1, <3>2 DEF Types
  <2>3. pending' \in [Cpus -> SUBSET Bits] /\ kstate' \in [Cpus -> BOOLEAN]
        /\ sched' \in SUBSET Tasklets
    BY <1>0, <2>1 DEF Types, Bits, kVars
  <2> QED  BY <1>1, <2>1, <2>2, <2>3 DEF kVars
<1>4. ASSUME NEW S \in {{}} \cup {{k} : k \in Tasklets}, Interrupt(c, S)  PROVE Structure'
  <2> DEFINE new == S \ sched
             raised == pending[c] \cup {Bit(k) : k \in new}
  <2>0. S \subseteq Tasklets
    OBVIOUS
  <2>1. /\ c \in online /\ sched' = sched \cup S
        /\ vec' = [vec EXCEPT ![c] = [b \in Bits |->
                     IF \E k \in new : Bit(k) = b
                     THEN AddTail(@[b], <<CHOOSE k \in new : TRUE>>) ELSE @[b]]]
        /\ IF raised = {} \/ in_interrupt(c)
           THEN pending' = [pending EXCEPT ![c] = raised] /\ UNCHANGED soft
           ELSE Start(c, raised, MAX_SOFTIRQ_RESTART)
        /\ UNCHANGED <<run, count, bh, kVars, online, userVars>>
    BY <1>4 DEF Interrupt
  <2>2. raised \in SUBSET Bits
    BY <1>0, <2>0, BitType DEF Types
  <2>3. vec' \in [Cpus -> [Bits -> Heads]] /\ \A d \in Cpus \ {c} : vec'[d] = vec[d]
    <3>1. ASSUME NEW b \in Bits
          PROVE  (IF \E k \in new : Bit(k) = b
                  THEN AddTail(vec[c][b], <<CHOOSE k \in new : TRUE>>) ELSE vec[c][b]) \in Heads
      <4>1. vec[c][b] \in Heads
        BY <1>0 DEF Types
      <4>2. (\E k \in new : Bit(k) = b) => (CHOOSE k \in new : TRUE) \in Tasklets
        BY <2>0
      <4> QED  BY <4>1, <4>2, ListTypes
    <3> QED  BY <1>0, <2>1, <3>1 DEF Types
  <2> HIDE DEF raised
  <2>4. pending' \in [Cpus -> SUBSET Bits]
    BY <1>0, <2>1, <2>2 DEF Types, Start
  <2>5. sched' \in SUBSET Tasklets /\ kstate' \in [Cpus -> BOOLEAN]
    BY <1>0, <2>0, <2>1 DEF Types, kVars
  <2> QED  BY <1>1, <2>1, <2>2, <2>3, <2>4, <2>5 DEF kVars
<1> QED  BY <1>2, <1>3, <1>4

(* ... by ksoftirqd and by hotplug ... *)
LEMMA ThreadStructure ==
    ASSUME Structure, NEW c \in Cpus,
           ksoftirqd_step(c) \/ cpu_offline(c) \/ cpu_up(c)
             \/ \E d \in Cpus : takeover_tasklets(c, d)
    PROVE  Structure'
<1>0. Types /\ SoftOK(c) /\ \A d \in Cpus : SoftOK(d)
  BY DEF Structure
<1>1. CASE KTest(c) \/ KWakes(c) \/ KAgain(c)
  <2>1. /\ kpc' \in [Cpus -> {"test", "sleep", "work", "again", "dead"}]
        /\ kstate' \in [Cpus -> BOOLEAN]
        /\ \A d \in Cpus : kpc'[d] = "dead" => kpc[d] = "dead"
        /\ UNCHANGED <<taskletVars, vec, pending, soft, bh, online, userVars>>
    BY <1>0, <1>1 DEF KTest, KWakes, KAgain, Types
  <2> QED  BY <1>0, <2>1 DEF Structure, Types, SoftOK, UserOK, taskletVars, userVars
<1>2. CASE KWork(c)
  <2>1. CASE pending[c] = {}
    <3>1. /\ kpc' = [kpc EXCEPT ![c] = "again"]
          /\ UNCHANGED <<taskletVars, vec, pending, soft, bh, kstate, online, userVars>>
      BY <1>2, <2>1 DEF KWork
    <3> QED  BY <1>0, <3>1 DEF Structure, Types, SoftOK, UserOK, taskletVars, userVars
  <2>2. CASE pending[c] # {}
    <3>1. /\ Start(c, pending[c], MAX_SOFTIRQ_RESTART) /\ c \in online
          /\ UNCHANGED <<taskletVars, vec, bh, kVars, online, userVars>>
      BY <1>2, <2>2 DEF KWork, MayRun, kVars
    <3>2. pending[c] \in SUBSET Bits /\ MAX_SOFTIRQ_RESTART \in Nat
          /\ MAX_SOFTIRQ_RESTART \in 1 .. MAX_SOFTIRQ_RESTART
      BY <1>0, SoftirqAssumption DEF Types
    <3>3. Types'
      BY <1>0, <3>1, <3>2, StartType DEF Types, taskletVars, kVars, userVars
    <3>4. /\ soft'[c].pc = "walk" /\ soft'[c].restart = MAX_SOFTIRQ_RESTART
          /\ \A d \in Cpus \ {c} : soft'[d] = soft[d]
      BY <1>0, <3>1 DEF Start, AtRest, Types
    <3>5. SoftOK(c)'
      BY <1>0, <3>1, <3>2, <3>4 DEF SoftOK, Working, kVars
    <3>6. ASSUME NEW d \in Cpus \ {c}  PROVE SoftOK(d)'
      BY <1>0, <3>1, <3>4 DEF SoftOK, kVars
    <3> QED  BY <3>1, <3>3, <3>5, <3>6 DEF Structure, UserOK, userVars
  <2> QED  BY <2>1, <2>2
<1>3. CASE cpu_offline(c)
  BY <1>0, <1>3 DEF cpu_offline, MayRun, in_interrupt, Structure, Types, SoftOK, UserOK,
                    taskletVars, kVars, userVars
<1>4. CASE cpu_up(c)
  <2>1. Types'
    BY <1>0, <1>4 DEF cpu_up, Types, taskletVars, userVars
  <2> QED  BY <1>0, <1>4, <2>1 DEF cpu_up, Structure, Types, SoftOK, UserOK, taskletVars, userVars
<1>5. ASSUME NEW d \in Cpus, takeover_tasklets(c, d)  PROVE Structure'
  <2>1. /\ c \notin online /\ d \in online /\ c # d
        /\ vec' = [vec EXCEPT
                 ![d] = [b \in Bits |-> IF vec[c][b].atHead THEN @[b]
                                        ELSE AddTail(@[b], vec[c][b].seq)],
                 ![c] = [b \in Bits |-> IF @[b].atHead THEN @[b] ELSE EmptyHead]]
        /\ pending' = [pending EXCEPT ![d] = Bits]
        /\ kstate' = [kstate EXCEPT ![d] = TRUE, ![c] = FALSE]
        /\ kpc' = [kpc EXCEPT ![c] = "dead"]
        /\ UNCHANGED <<taskletVars, soft, bh, online, userVars>>
    BY <1>5 DEF takeover_tasklets, MayRun
  <2>2. \A b \in Bits : /\ AddTail(vec[d][b], vec[c][b].seq) \in Heads
                        /\ vec[c][b] \in Heads /\ vec[d][b] \in Heads /\ EmptyHead \in Heads
    BY <1>0, ListTypes DEF Types, Heads
  <2>3. vec' \in [Cpus -> [Bits -> Heads]]
    BY <1>0, <2>1, <2>2 DEF Types
  <2>4. \A b \in Bits : vec'[c][b].atHead
    BY <1>0, <2>1, <2>2 DEF Types, EmptyHead
  <2>5. \A e \in Cpus \ {c, d} : vec'[e] = vec[e]
    BY <1>0, <2>1 DEF Types
  <2>6. Types'
    BY <1>0, <2>1, <2>3 DEF Types, taskletVars, userVars
  <2>7. ASSUME NEW e \in Cpus  PROVE SoftOK(e)'
    <3>1. CASE e = c
      BY <1>0, <2>1, <2>4, <3>1 DEF SoftOK
    <3>2. CASE e = d
      <4>1. kpc'[d] # "dead"
        BY <1>0, <2>1 DEF SoftOK, Types
      <4> QED  BY <1>0, <2>1, <3>2, <4>1 DEF SoftOK
    <3>3. CASE e \notin {c, d}
      <4>1. kpc'[e] = kpc[e]
        BY <1>0, <2>1, <3>3 DEF Types
      <4> QED  BY <1>0, <2>1, <2>5, <3>3, <4>1 DEF SoftOK
    <3> QED  BY <3>1, <3>2, <3>3
  <2> QED  BY <2>1, <2>6, <2>7 DEF Structure, UserOK, userVars
<1> QED  BY <1>1, <1>2, <1>3, <1>4, <1>5 DEF ksoftirqd_step

(* ... and by the tasks. *)
LEMMA UserStructure ==
    ASSUME Structure, NEW u \in Users,
           \/ user_step(u)
           \/ \E k \in Tasklets : Begin(u, k)
           \/ \E c \in Cpus : local_bh_disable(u, c)
    PROVE  Structure'
<1>0. Types /\ (\A d \in Cpus : SoftOK(d)) /\ \A w \in Users : UserOK(w)
  BY DEF Structure
<1>1. ASSUME NEW where \in {"idle"} \cup Holding \cup Disabling,
             NEW k \in Tasklets \cup {NULL}, UGoto(u, where, k),
             where # "idle" => k \in Tasklets,
             sched' \in SUBSET Tasklets, count' \in [Tasklets -> Int],
             UNCHANGED <<run, soft, bh, kpc, online>>,
             kstate' \in [Cpus -> BOOLEAN], pending' \in [Cpus -> SUBSET Bits],
             \/ UNCHANGED vec
             \/ \E c \in Cpus, j \in Tasklets : Queue(c, j) /\ c \in online
      PROVE  Structure'
  <2>1. vec' \in [Cpus -> [Bits -> Heads]]
    BY <1>0, <1>1, QueueType DEF Types
  <2>2. Types'
    BY <1>0, <1>1, <2>1, UGotoType DEF Types
  <2>3. ASSUME NEW d \in Cpus  PROVE SoftOK(d)'
    <3>1. \A b \in Bits : kpc[d] = "dead" => vec'[d][b].atHead
      <4>1. kpc[d] = "dead" => vec'[d] = vec[d]
        BY <1>0, <1>1 DEF Types, Queue, SoftOK
      <4> QED  BY <1>0, <4>1 DEF SoftOK
    <3> QED  BY <1>0, <1>1, <3>1 DEF SoftOK
  <2>4. ASSUME NEW w \in Users  PROVE UserOK(w)'
    BY <1>0, <1>1 DEF UserOK, UGoto, Types
  <2> QED  BY <2>2, <2>3, <2>4 DEF Structure
<1>2. ASSUME NEW c \in Cpus, local_bh_disable(u, c) \/ local_bh_enable(u, c)
      PROVE  Structure'
  <2>1. /\ c \in online
        /\ bh' \in [Cpus -> Users \cup {NULL}] /\ \A d \in Cpus \ {c} : bh'[d] = bh[d]
        /\ UNCHANGED <<taskletVars, vec, kVars, online, userVars>>
    BY <1>0, <1>2, SoftirqAssumption DEF local_bh_disable, local_bh_enable, On, Types, SoftOK
  <2>2. \/ UNCHANGED <<soft, pending>>
        \/ Start(c, pending[c], MAX_SOFTIRQ_RESTART)
    BY <1>2 DEF local_bh_disable, local_bh_enable
  <2>3. pending[c] \in SUBSET Bits /\ MAX_SOFTIRQ_RESTART \in Nat
        /\ MAX_SOFTIRQ_RESTART \in 1 .. MAX_SOFTIRQ_RESTART
    BY <1>0, SoftirqAssumption DEF Types
  <2>4. soft' \in [Cpus -> Contexts] /\ pending' \in [Cpus -> SUBSET Bits]
    BY <1>0, <2>2, <2>3, StartType DEF Types
  <2>5. Types'
    BY <1>0, <2>1, <2>4 DEF Types, taskletVars, kVars, userVars
  <2>6. \A d \in Cpus \ {c} : soft'[d] = soft[d]
    BY <1>0, <2>2 DEF Start, Types
  <2>7. SoftOK(c)'
    <3>1. CASE UNCHANGED soft
      BY <1>0, <2>1, <3>1 DEF SoftOK, kVars
    <3>2. CASE Start(c, pending[c], MAX_SOFTIRQ_RESTART)
      <4>1. soft'[c].pc = "walk" /\ soft'[c].restart = MAX_SOFTIRQ_RESTART
        BY <1>0, <3>2 DEF Start, AtRest, Types
      <4> QED  BY <1>0, <2>1, <2>3, <4>1 DEF SoftOK, kVars, Working
    <3> QED  BY <2>2, <3>1, <3>2
  <2>8. ASSUME NEW d \in Cpus \ {c}  PROVE SoftOK(d)'
    BY <1>0, <2>1, <2>6 DEF SoftOK, kVars
  <2> QED  BY <2>1, <2>5, <2>7, <2>8 DEF Structure, UserOK, userVars
<1>3. ASSUME NEW k \in Tasklets, Begin(u, k)  PROVE Structure'
  <2>1. /\ \E where \in Holding \cup Disabling : UGoto(u, where, k)
        /\ UNCHANGED <<run, soft, bh, kpc, online, kstate, pending, vec>>
        /\ sched' \in SUBSET Tasklets /\ count' \in [Tasklets -> Int]
    BY <1>0, <1>3 DEF Begin, tasklet_schedule, tasklet_disable_nosync, tasklet_kill, Holding,
                      Disabling, kVars, Types
  <2> QED  BY <1>0, <1>1, <2>1 DEF Types
<1>4. ASSUME NEW c \in Cpus, __tasklet_schedule(u, c)  PROVE Structure'
  <2>1. /\ Queue(c, uarg[u]) /\ raise_softirq_irqoff(c, {Bit(uarg[u])})
        /\ UGoto(u, "idle", NULL) /\ c \in online /\ upc[u] = "add"
        /\ UNCHANGED <<taskletVars, soft, bh, kpc, online>>
    BY <1>4 DEF __tasklet_schedule, On
  <2>2. uarg[u] \in Tasklets
    BY <1>0, <2>1 DEF UserOK
  <2>3. pending' \in [Cpus -> SUBSET Bits] /\ kstate' \in [Cpus -> BOOLEAN]
    BY <1>0, <2>1, <2>2, RaiseType
  <2> QED  BY <1>0, <1>1, <2>1, <2>2, <2>3 DEF Types, taskletVars
<1>5. CASE tasklet_disable(u) \/ tasklet_enable(u) \/ KillWaited(u) \/ KillClear(u)
  <2>1. /\ UGoto(u, "disabled", uarg[u]) \/ UGoto(u, "kill_clear", uarg[u])
              \/ UGoto(u, "idle", NULL)
        /\ UNCHANGED <<run, soft, bh, kpc, online, kstate, pending, vec>>
        /\ sched' \in SUBSET Tasklets
    BY <1>0, <1>5 DEF tasklet_disable, tasklet_enable, KillWaited, KillClear, Types, kVars,
                      taskletVars
  <2>2. uarg[u] \in Tasklets
    BY <1>0, <1>5 DEF tasklet_disable, tasklet_enable, KillWaited, KillClear, UserOK
  <2>3. count' \in [Tasklets -> Int]
    BY <1>0, <1>5 DEF tasklet_disable, tasklet_enable, CountDown, KillWaited, KillClear,
                      Types, taskletVars
  <2> QED  BY <1>0, <1>1, <2>1, <2>2, <2>3 DEF Types, Holding, Disabling
<1> QED  BY <1>2, <1>3, <1>4, <1>5 DEF user_step

(* In every reachable state the contexts are as described. *)
THEOREM StructureCorrect == Spec => []Structure
<1>1. Init => Structure
  <2> SUFFICES ASSUME Init  PROVE Structure
    OBVIOUS
  <2>1. Types
    <3>1. vec \in [Cpus -> [Bits -> Heads]]
      BY ListTypes DEF Init
    <3>2. soft \in [Cpus -> Contexts]
      BY ContextTypes DEF Init
    <3> QED  BY <3>1, <3>2 DEF Init, Types
  <2>2. \A c \in Cpus : SoftOK(c)
    BY SoftirqAssumption DEF Init, SoftOK, AtRest, Working
  <2> QED  BY <2>1, <2>2 DEF Init, Structure, UserOK
<1>2. Structure /\ [Next]_vars => Structure'
  <2>1. Structure /\ Next => Structure'
    BY SoftirqStructure, InterruptStructure, ThreadStructure, UserStructure DEF Next, Step
  <2>2. Structure /\ UNCHANGED vars => Structure'
    BY DEF Structure, Types, SoftOK, UserOK, vars, taskletVars, kVars, userVars
  <2> QED  BY <2>1, <2>2
<1> QED  BY <1>1, <1>2, PTL DEF Spec
-----------------------------------------------------------------------------
(* Sequences as lists without repetition. *)

Inj(s) == \A i, j \in DOMAIN s : s[i] = s[j] => i = j

(* The empty list and a list of one. *)
LEMMA ShortLists ==
    /\ Range(<<>>) = {} /\ Inj(<<>>)
    /\ \A k : Range(<<k>>) = {k} /\ Inj(<<k>>)
<1>1. ASSUME NEW k  PROVE Range(<<k>>) = {k} /\ Inj(<<k>>)
  <2>1. DOMAIN <<k>> = {1} /\ <<k>>[1] = k
    OBVIOUS
  <2> HIDE <2>1
  <2> QED  BY <2>1, Zenon DEF Range, Inj
<1> QED  BY <1>1 DEF Range, Inj

(* Taking the first entry off. *)
LEMMA TailList ==
    ASSUME NEW S, NEW s \in Seq(S), s # <<>>, Inj(s)
    PROVE  /\ Head(s) \in Range(s)
           /\ Range(Tail(s)) = Range(s) \ {Head(s)}
           /\ Inj(Tail(s))
<1> DEFINE n == Len(s)
<1>1. /\ n \in Nat /\ n > 0 /\ DOMAIN s = 1 .. n /\ Head(s) = s[1] /\ 1 \in 1 .. n
      /\ DOMAIN Tail(s) = 1 .. n - 1
      /\ \A i \in 1 .. n - 1 : Tail(s)[i] = s[i + 1] /\ i + 1 \in 1 .. n
  OBVIOUS
<1>2. \A i \in 2 .. n : i - 1 \in 1 .. n - 1 /\ (i - 1) + 1 = i
  BY <1>1
<1>3. ASSUME NEW x \in Range(s), x # Head(s)  PROVE x \in Range(Tail(s))
  <2>1. PICK i \in 1 .. n : s[i] = x
    BY <1>1 DEF Range
  <2>2. i \in 2 .. n
    BY <1>1, <1>3, <2>1
  <2> QED  BY <1>1, <1>2, <2>1, <2>2 DEF Range
<1>4. ASSUME NEW x \in Range(Tail(s))  PROVE x \in Range(s) /\ x # Head(s)
  <2>1. PICK i \in 1 .. n - 1 : s[i + 1] = x /\ i + 1 \in 1 .. n
    BY <1>1 DEF Range
  <2>2. i + 1 # 1
    BY <1>1
  <2> QED  BY <1>1, <2>1, <2>2 DEF Range, Inj
<1>5. Inj(Tail(s))
  <2> SUFFICES ASSUME NEW i \in 1 .. n - 1, NEW j \in 1 .. n - 1, Tail(s)[i] = Tail(s)[j]
               PROVE  i = j
    BY <1>1 DEF Inj
  <2>1. i + 1 = j + 1
    BY <1>1 DEF Inj
  <2> QED  BY <1>1, <2>1
<1> QED  BY <1>1, <1>3, <1>4, <1>5 DEF Range

(* Joining two lists. *)
LEMMA JoinLists ==
    ASSUME NEW S, NEW s \in Seq(S), NEW r \in Seq(S)
    PROVE  /\ Range(s \o r) = Range(s) \cup Range(r)
           /\ Inj(s) /\ Inj(r) /\ Range(s) \cap Range(r) = {} => Inj(s \o r)
<1> DEFINE n == Len(s)
           m == Len(r)
           j == s \o r
<1>1. /\ n \in Nat /\ m \in Nat /\ DOMAIN s = 1 .. n /\ DOMAIN r = 1 .. m
      /\ DOMAIN j = 1 .. n + m
      /\ \A i \in 1 .. n : j[i] = s[i]
      /\ \A i \in 1 .. n + m : i > n => j[i] = r[i - n]
  OBVIOUS
<1> HIDE DEF n, m, j
<1>2. \A i \in 1 .. n + m : \/ i \in 1 .. n /\ j[i] = s[i]
                            \/ i - n \in 1 .. m /\ j[i] = r[i - n] /\ i > n
  BY <1>1
<1>3. \A i \in 1 .. m : n + i \in 1 .. n + m /\ n + i > n /\ (n + i) - n = i
  BY <1>1
<1>4. ASSUME NEW x \in Range(j)  PROVE x \in Range(s) \cup Range(r)
  BY <1>1, <1>2 DEF Range
<1>5. ASSUME NEW x \in Range(s)  PROVE x \in Range(j)
  <2>1. PICK i \in 1 .. n : s[i] = x
    BY <1>1 DEF Range
  <2>2. i \in 1 .. n + m
    BY <1>1
  <2> QED  BY <1>1, <2>1, <2>2 DEF Range
<1>6. ASSUME NEW x \in Range(r)  PROVE x \in Range(j)
  <2>1. PICK i \in 1 .. m : r[i] = x
    BY <1>1 DEF Range
  <2>2. j[n + i] = x /\ n + i \in 1 .. n + m
    BY <1>1, <1>3, <2>1
  <2> QED  BY <1>1, <2>2 DEF Range
<1>7. ASSUME Inj(s), Inj(r), Range(s) \cap Range(r) = {}  PROVE Inj(j)
  <2> SUFFICES ASSUME NEW a \in 1 .. n + m, NEW b \in 1 .. n + m, j[a] = j[b]
               PROVE  a = b
    BY <1>1 DEF Inj
  <2>1. CASE a \in 1 .. n /\ b \in 1 .. n
    BY <1>1, <1>7, <2>1 DEF Inj
  <2>2. CASE a > n /\ b > n
    <3>1. a - n \in 1 .. m /\ b - n \in 1 .. m /\ r[a - n] = r[b - n]
      BY <1>1, <2>2
    <3>2. a - n = b - n
      BY <1>1, <1>7, <3>1 DEF Inj
    <3> QED  BY <1>1, <3>2
  <2>3. ASSUME NEW x \in 1 .. n + m, NEW y \in 1 .. n + m, x \in 1 .. n, y > n  PROVE j[x] # j[y]
    <3>1. j[x] \in Range(s)
      BY <1>1, <2>3 DEF Range
    <3>2. y - n \in 1 .. m /\ j[y] = r[y - n]
      BY <1>1, <2>3
    <3>3. j[y] \in Range(r)
      BY <1>1, <3>2 DEF Range
    <3> QED  BY <1>7, <3>1, <3>3
  <2> QED  BY <1>1, <1>2, <2>1, <2>2, <2>3
<1> QED  BY <1>4, <1>5, <1>6, <1>7 DEF j
-----------------------------------------------------------------------------
(* Where a tasklet is. *)

(* The tasklet in the hands of tasklet_action() on CPU c before its         *)
(* function is called, and the one whose SCHED bit user u has set.          *)
Hand(c) == IF soft[c].pc \in InHand THEN {soft[c].t} ELSE {}
Mine(u) == IF upc[u] \in Holding THEN {uarg[u]} ELSE {}

Kinds == Bits \cup {"list", "soft", "user"}
Owners == Cpus \cup Users

Has(p, x, k) ==
    \/ p \in Bits /\ x \in Cpus /\ k \in Range(vec[x][p].seq)
    \/ p = "list" /\ x \in Cpus /\ k \in Range(soft[x].list)
    \/ p = "soft" /\ x \in Cpus /\ k \in Hand(x)
    \/ p = "user" /\ x \in Users /\ k \in Mine(x)

(* A tasklet has at most one home, has its SCHED bit set there, and has one *)
(* whenever the bit is set and it is not lost; the lost were put first.     *)
Homes ==
    /\ \A k \in Tasklets, p, q \in Kinds, x, y \in Owners :
          Has(p, x, k) /\ Has(q, y, k) => p = q /\ x = y
    /\ \A k \in Tasklets, p \in Kinds, x \in Owners : Has(p, x, k) => k \in sched
    /\ \A k \in sched : k \notin lost => \E p \in Kinds, x \in Owners : Has(p, x, k)
    /\ lost \subseteq Tasklets /\ lost \subseteq sched
    /\ \A k \in lost : Vec[k] = "FIRST" /\ \A p \in Kinds, x \in Owners : ~Has(p, x, k)

(* No list holds a tasklet twice, and what a tail at the head would lose    *)
(* was put first.                                                           *)
ListsOK ==
    /\ \A c \in Cpus : Inj(soft[c].list)
    /\ \A c \in Cpus, b \in Bits :
          /\ Inj(vec[c][b].seq)
          /\ vec[c][b].atHead => \A k \in Range(vec[c][b].seq) : Vec[k] = "FIRST"

(* What a step of Next does to the lost ones. *)
Traced == lost' = lost \cup CutOff

(* No tail leaves its head: nothing is lost. *)
LEMMA NoneLost ==
    ASSUME Traced, \A c \in Cpus, b \in Bits : vec[c][b].atHead => vec'[c][b].atHead
    PROVE  lost' = lost
<1>1. CutOff = {}
  BY DEF CutOff
<1> QED  BY <1>1 DEF Traced

(* A step that gives the tasklets of M the same new home. *)
Moves(M, to, z) ==
    /\ \A k \in Tasklets, p \in Kinds, x \in Owners :
          Has(p, x, k)' => IF k \in M THEN p = to /\ x = z ELSE Has(p, x, k)
    /\ \A k \in Tasklets \ M, p \in Kinds, x \in Owners :
          Has(p, x, k) /\ k \in sched' /\ k \notin lost' => Has(p, x, k)'
    /\ \A k \in M : k \in sched' /\ Has(to, z, k)'
    /\ sched' \subseteq Tasklets /\ sched' \subseteq sched \cup M
    /\ \A k \in sched \ sched', p \in Kinds, x \in Owners : ~Has(p, x, k)'
    /\ lost \subseteq lost' /\ lost' \subseteq sched' \ M
    /\ \A k \in lost' \ lost :
          Vec[k] = "FIRST" /\ \A p \in Kinds, x \in Owners : ~Has(p, x, k)'

(* Such a step leaves every tasklet with one home. *)
LEMMA Relocate ==
    ASSUME Homes, NEW M \in SUBSET Tasklets, NEW to \in Kinds, NEW z \in Owners,
           Moves(M, to, z)
    PROVE  Homes'
<1> USE DEF Moves
<1>0. Kinds' = Kinds /\ Owners' = Owners
  BY DEF Kinds, Owners, Bits
<1>1. ASSUME NEW k \in Tasklets, NEW p \in Kinds, NEW q \in Kinds, NEW x \in Owners,
             NEW y \in Owners, Has(p, x, k)', Has(q, y, k)'
      PROVE  p = q /\ x = y
  <2>1. CASE k \in M
    BY <1>1, <2>1
  <2>2. CASE k \notin M
    BY <1>1, <2>2 DEF Homes
  <2> QED  BY <2>1, <2>2
<1>2. ASSUME NEW k \in Tasklets, NEW p \in Kinds, NEW x \in Owners, Has(p, x, k)'
      PROVE  k \in sched'
  <2>1. CASE k \in M
    BY <2>1
  <2>2. CASE k \notin M
    <3>1. k \in sched
      BY <1>2, <2>2 DEF Homes
    <3> QED  BY <1>2, <3>1
  <2> QED  BY <2>1, <2>2
<1>3. ASSUME NEW k \in sched', k \notin lost'
      PROVE  \E p \in Kinds, x \in Owners : Has(p, x, k)'
  <2>1. CASE k \in M
    BY <2>1
  <2>2. CASE k \notin M
    <3>1. k \in sched /\ k \in Tasklets
      BY <2>2
    <3>2. PICK p \in Kinds, x \in Owners : Has(p, x, k)
      BY <1>3, <3>1 DEF Homes
    <3> QED  BY <1>3, <2>2, <3>1, <3>2
  <2> QED  BY <2>1, <2>2
<1>4. ASSUME NEW k \in lost'
      PROVE  Vec[k] = "FIRST" /\ \A p \in Kinds, x \in Owners : ~Has(p, x, k)'
  <2>1. CASE k \in lost
    <3>1. k \in Tasklets \ M
      BY <1>4
    <3> QED  BY <2>1, <3>1 DEF Homes
  <2> QED  BY <1>4, <2>1
<1> QED  BY <1>0, <1>1, <1>2, <1>3, <1>4 DEF Homes

(* A step that moves nothing. *)
LEMMA NothingMoves ==
    ASSUME Structure, Structure', Homes, ListsOK, Traced, UNCHANGED <<sched, vec>>,
           \A c \in Cpus : soft'[c].list = soft[c].list /\ Hand(c)' = Hand(c),
           \A u \in Users : Mine(u)' = Mine(u)
    PROVE  Homes' /\ ListsOK'
<1>1. \A k \in Tasklets, p \in Kinds, x \in Owners : Has(p, x, k)' <=> Has(p, x, k)
  BY DEF Has
<1>2. sched \in SUBSET Tasklets
  BY DEF Structure, Types
<1>3. Kinds' = Kinds /\ Owners' = Owners
  BY DEF Kinds, Owners, Bits
<1>4. Homes'
  <2>1. lost' = lost
    BY NoneLost
  <2> QED  BY <1>1, <1>2, <1>3, <2>1 DEF Homes
<1>5. ListsOK'
  BY DEF ListsOK
<1> QED  BY <1>4, <1>5

(* What AddTail makes of a list. *)
LEMMA AddTailList ==
    ASSUME NEW h \in Heads, NEW s \in Seq(Tasklets), Inj(h.seq), Inj(s),
           Range(h.seq) \cap Range(s) = {}
    PROVE  /\ Inj(AddTail(h, s).seq) /\ ~AddTail(h, s).atHead
           /\ Range(AddTail(h, s).seq) = (IF h.atHead THEN {} ELSE Range(h.seq)) \cup Range(s)
<1>1. h.seq \in Seq(Tasklets) /\ h.atHead \in BOOLEAN
  BY DEF Heads
<1>2. /\ Range(h.seq \o s) = Range(h.seq) \cup Range(s) /\ Inj(h.seq \o s)
  BY <1>1, JoinLists
<1> QED  BY <1>1, <1>2 DEF AddTail

(* A step that queues one tasklet, taken from where it was. *)
LEMMA QueueMoves ==
    ASSUME Structure, Structure', Homes, ListsOK, Traced, NEW c \in Cpus, NEW k \in Tasklets,
           Queue(c, k), sched' = sched \cup {k}, k \notin lost,
           \A d \in Cpus, b \in Bits : k \notin Range(vec[d][b].seq),
           \A d \in Cpus : /\ Range(soft'[d].list) = Range(soft[d].list) \ {k}
                           /\ Inj(soft'[d].list)
                           /\ Hand(d)' = Hand(d) \ {k},
           \A u \in Users : Mine(u)' = Mine(u) \ {k}
    PROVE  Homes' /\ ListsOK'
<1> DEFINE b0 == Bit(k)
           old == vec[c][b0]
           new == AddTail(old, <<k>>)
<1>0. /\ b0 \in Bits /\ old \in Heads /\ vec \in [Cpus -> [Bits -> Heads]]
      /\ sched \in SUBSET Tasklets /\ <<k>> \in Seq(Tasklets)
  BY BitType DEF Structure, Types
<1>1. /\ Inj(new.seq) /\ ~new.atHead
      /\ Range(new.seq) = (IF old.atHead THEN {} ELSE Range(old.seq)) \cup {k}
  <2>1. Inj(old.seq) /\ k \notin Range(old.seq)
    BY <1>0 DEF ListsOK
  <2>2. Range(<<k>>) = {k} /\ Inj(<<k>>)
    BY ShortLists
  <2>3. Range(old.seq) \cap Range(<<k>>) = {}
    BY <2>1, <2>2
  <2> HIDE DEF old
  <2>4. Range(new.seq) = (IF old.atHead THEN {} ELSE Range(old.seq)) \cup Range(<<k>>)
        /\ Inj(new.seq) /\ ~new.atHead
    BY <1>0, <2>1, <2>2, <2>3, AddTailList
  <2> QED  BY <2>2, <2>4
<1>2. \A d \in Cpus, b \in Bits : vec'[d][b] = IF d = c /\ b = b0 THEN new ELSE vec[d][b]
  BY <1>0 DEF Queue
<1> HIDE DEF b0, old, new
<1>3. \A d \in Cpus, b \in Bits :
         /\ Range(vec'[d][b].seq) \subseteq Range(vec[d][b].seq) \cup {k}
         /\ ~(d = c /\ b = b0) => Range(vec'[d][b].seq) = Range(vec[d][b].seq)
         /\ d = c /\ b = b0 /\ ~vec[d][b].atHead =>
               Range(vec[d][b].seq) \subseteq Range(vec'[d][b].seq)
  BY <1>1, <1>2 DEF old
<1>7. /\ CutOff = IF old.atHead THEN Range(old.seq) ELSE {}
      /\ k \notin CutOff
      /\ \A j \in CutOff : Vec[j] = "FIRST" /\ j \in sched /\ j \in Tasklets
  <2>1. \A j \in Tasklets : j \in CutOff <=> old.atHead /\ j \in Range(old.seq)
    BY <1>0, <1>1, <1>2 DEF CutOff, Range, old
  <2>2. Range(old.seq) \subseteq Tasklets /\ CutOff \subseteq Tasklets
    BY <1>0 DEF Heads, Range, CutOff
  <2>3. \A j \in Range(old.seq) : j \in sched
    <3>1. \A j \in Range(old.seq) : Has(b0, c, j)
      BY <1>0 DEF Has, old
    <3> QED  BY <1>0, <2>2, <3>1 DEF Homes, Kinds, Owners
  <2>4. old.atHead => \A j \in Range(old.seq) : Vec[j] = "FIRST"
    BY <1>0 DEF ListsOK, old
  <2> QED  BY <1>0, <2>1, <2>2, <2>3, <2>4 DEF old
<1>4. k \in Range(vec'[c][b0].seq)
  BY <1>0, <1>1, <1>2
<1>5. Homes'
  <2>1. ASSUME NEW j \in Tasklets, NEW p \in Kinds, NEW x \in Owners, Has(p, x, j)'
        PROVE  IF j \in {k} THEN p = b0 /\ x = c ELSE Has(p, x, j)
    <3>1. CASE p \in Bits /\ x \in Cpus /\ j \in Range(vec'[x][p].seq)
      BY <1>3, <3>1 DEF Has
    <3>2. CASE p \notin Bits
      BY <2>1, <3>2 DEF Has
    <3> QED  BY <2>1, <3>1, <3>2 DEF Has, Bits
  <2>2. ASSUME NEW j \in Tasklets \ {k}, NEW p \in Kinds, NEW x \in Owners,
               Has(p, x, j), j \notin lost'
        PROVE  Has(p, x, j)'
    <3>1. j \notin CutOff
      BY <2>2 DEF Traced
    <3>2. CASE p \in Bits /\ x \in Cpus /\ j \in Range(vec[x][p].seq)
      <4>1. j \in Range(vec'[x][p].seq)
        BY <1>3, <1>7, <3>1, <3>2 DEF old
      <4> QED  BY <3>2, <4>1 DEF Has
    <3>3. CASE p \notin Bits
      BY <2>2, <3>3 DEF Has
    <3> QED  BY <2>2, <3>2, <3>3 DEF Has, Bits
  <2>3. Has(b0, c, k)'
    BY <1>0, <1>4 DEF Has
  <2>4. b0 \in Kinds /\ c \in Owners
    BY <1>0 DEF Kinds, Owners
  <2>5. /\ {k} \in SUBSET Tasklets /\ sched' \subseteq Tasklets /\ sched' \subseteq sched \cup {k}
        /\ sched \ sched' = {} /\ \A j \in {k} : j \in sched' /\ Has(b0, c, j)'
    BY <1>0, <2>3
  <2>7. /\ lost \subseteq lost' /\ lost' \subseteq sched' \ {k}
        /\ \A j \in lost' \ lost : Vec[j] = "FIRST" /\ j \in CutOff
    BY <1>7 DEF Traced, Homes
  <2>8. ASSUME NEW j \in CutOff, NEW p \in Kinds, NEW x \in Owners  PROVE ~Has(p, x, j)'
    <3>1. j \in Tasklets \ {k} /\ old.atHead /\ j \in Range(old.seq)
      BY <1>7, <2>8
    <3>2. Has(b0, c, j)
      BY <1>0, <3>1 DEF Has, old
    <3>3. ~Has(b0, c, j)'
      <4>1. j \notin Range(vec'[c][b0].seq)
        BY <1>0, <1>1, <1>2, <3>1
      <4> QED  BY <1>0, <4>1 DEF Has, Bits
    <3> QED  BY <2>1, <2>4, <3>1, <3>2, <3>3 DEF Homes
  <2>6. Moves({k}, b0, c)
    BY <2>1, <2>2, <2>5, <2>7, <2>8 DEF Moves
  <2> QED  BY <2>4, <2>5, <2>6, Relocate
<1>6. ListsOK'
  <2>1. ASSUME NEW d \in Cpus, NEW b \in Bits
        PROVE  /\ Inj(vec'[d][b].seq)
               /\ vec'[d][b].atHead => \A j \in Range(vec'[d][b].seq) : Vec[j] = "FIRST"
    BY <1>1, <1>2 DEF ListsOK
  <2> QED  BY <2>1 DEF ListsOK
<1> QED  BY <1>5, <1>6

(* A tasklet at home is nowhere else. *)
LEMMA OnlyHome ==
    ASSUME Homes, NEW k \in Tasklets, NEW p \in Kinds, NEW x \in Owners, Has(p, x, k)
    PROVE  /\ k \in sched /\ k \notin lost
           /\ \A d \in Cpus, b \in Bits : k \in Range(vec[d][b].seq) => p = b /\ x = d
           /\ \A d \in Cpus : k \in Range(soft[d].list) => p = "list" /\ x = d
           /\ \A d \in Cpus : k \in Hand(d) => p = "soft" /\ x = d
           /\ \A u \in Users : k \in Mine(u) => p = "user" /\ x = u
<1>1. \A q \in Kinds, y \in Owners : Has(q, y, k) => q = p /\ y = x
  BY DEF Homes
<1>2. /\ \A d \in Cpus, b \in Bits : k \in Range(vec[d][b].seq) => Has(b, d, k)
      /\ \A d \in Cpus : k \in Range(soft[d].list) => Has("list", d, k)
      /\ \A d \in Cpus : k \in Hand(d) => Has("soft", d, k)
      /\ \A u \in Users : k \in Mine(u) => Has("user", u, k)
  BY DEF Has
<1>3. Cpus \subseteq Owners /\ Users \subseteq Owners /\ Bits \subseteq Kinds
      /\ {"list", "soft", "user"} \subseteq Kinds
  BY DEF Owners, Kinds
<1>4. k \in sched /\ k \notin lost
  BY DEF Homes
<1> QED  BY <1>1, <1>2, <1>3, <1>4

(* One whose bit is clear is nowhere. *)
LEMMA NoHome ==
    ASSUME Homes, NEW k \in Tasklets, k \notin sched
    PROVE  /\ k \notin lost
           /\ \A d \in Cpus, b \in Bits : k \notin Range(vec[d][b].seq)
           /\ \A d \in Cpus : k \notin Range(soft[d].list) /\ k \notin Hand(d)
           /\ \A u \in Users : k \notin Mine(u)
<1>1. \A q \in Kinds, y \in Owners : ~Has(q, y, k)
  BY DEF Homes
<1>2. /\ \A d \in Cpus, b \in Bits : k \in Range(vec[d][b].seq) => Has(b, d, k)
      /\ \A d \in Cpus : k \in Range(soft[d].list) => Has("list", d, k)
      /\ \A d \in Cpus : k \in Hand(d) => Has("soft", d, k)
      /\ \A u \in Users : k \in Mine(u) => Has("user", u, k)
  BY DEF Has
<1>3. Cpus \subseteq Owners /\ Users \subseteq Owners /\ Bits \subseteq Kinds
      /\ {"list", "soft", "user"} \subseteq Kinds
  BY DEF Owners, Kinds
<1>4. k \notin lost
  BY DEF Homes
<1> QED  BY <1>1, <1>2, <1>3, <1>4

(* Taking over the list of a vector. *)
LEMMA ActionMoves ==
    ASSUME Structure, Structure', Homes, ListsOK, Traced, NEW c \in Cpus, tasklet_action(c)
    PROVE  Homes' /\ ListsOK'
<1> DEFINE b0 == IF "HI" \in soft[c].bits THEN "HI" ELSE "TASKLET"
           M == Range(vec[c][b0].seq)
<1>0. Types
  BY DEF Structure
<1>1. /\ soft[c].pc = "walk" /\ b0 \in Bits /\ soft[c].list = <<>>
      /\ soft' = [soft EXCEPT ![c].bits = @ \ {b0}, ![c].list = vec[c][b0].seq]
      /\ vec' = [vec EXCEPT ![c][b0] = EmptyHead]
      /\ UNCHANGED <<taskletVars, userVars>>
  BY DEF tasklet_action, Bits
<1> HIDE DEF b0
<1>2. \A d \in Cpus : /\ soft'[d].list = IF d = c THEN vec[c][b0].seq ELSE soft[d].list
                      /\ soft'[d].pc = soft[d].pc /\ soft'[d].t = soft[d].t
  BY <1>0, <1>1 DEF Types, Contexts
<1>3. \A d \in Cpus, b \in Bits :
         vec'[d][b] = IF d = c /\ b = b0 THEN EmptyHead ELSE vec[d][b]
  BY <1>0, <1>1 DEF Types
<1>4. /\ EmptyHead.seq = <<>> /\ Range(<<>>) = {} /\ Inj(<<>>)
  BY ShortLists DEF EmptyHead
<1>5. M \in SUBSET Tasklets /\ sched \in SUBSET Tasklets
  <2>1. vec[c][b0].seq \in Seq(Tasklets)
    BY <1>0, <1>1 DEF Types, Heads
  <2> QED  BY <1>0, <2>1 DEF Types, Range
<1>6. /\ \A d \in Cpus : Hand(d)' = Hand(d)
      /\ \A u \in Users : Mine(u)' = Mine(u)
  BY <1>1, <1>2 DEF Hand, Mine, userVars
<1>7. \A k \in M : /\ k \in sched /\ k \notin lost
                   /\ \A d \in Cpus, b \in Bits : k \in Range(vec[d][b].seq) => d = c /\ b = b0
                   /\ \A d \in Cpus : k \notin Range(soft[d].list) /\ k \notin Hand(d)
                   /\ \A u \in Users : k \notin Mine(u)
  <2>1. b0 \in Kinds /\ c \in Owners /\ \A k \in M : Has(b0, c, k)
    BY <1>1 DEF Kinds, Owners, Has
  <2>2. b0 \notin {"list", "soft", "user"}
    BY <1>1 DEF Bits
  <2> QED  BY <1>5, <2>1, <2>2, OnlyHome
<1>14. /\ \A d \in Cpus, b \in Bits :
            Range(vec'[d][b].seq) = IF d = c /\ b = b0 THEN {} ELSE Range(vec[d][b].seq)
       /\ \A d \in Cpus : Range(soft'[d].list) = IF d = c THEN M ELSE Range(soft[d].list)
       /\ Range(soft[c].list) = {}
  <2>1. \A d \in Cpus, b \in Bits :
            Range(vec'[d][b].seq) = IF d = c /\ b = b0 THEN {} ELSE Range(vec[d][b].seq)
    BY <1>3, <1>4
  <2>2. \A d \in Cpus : Range(soft'[d].list) = IF d = c THEN M ELSE Range(soft[d].list)
    BY <1>2
  <2>3. Range(soft[c].list) = {}
    BY <1>1, <1>4
  <2> QED  BY <2>1, <2>2, <2>3
<1>15. Range(vec[c][b0].seq) = M
  OBVIOUS
<1> HIDE DEF M
<1>8. ASSUME NEW k \in Tasklets, NEW p \in Kinds, NEW x \in Owners, Has(p, x, k)'
      PROVE  IF k \in M THEN p = "list" /\ x = c ELSE Has(p, x, k)
  BY <1>6, <1>7, <1>8, <1>14, <1>15 DEF Has
<1>9. ASSUME NEW k \in Tasklets \ M, NEW p \in Kinds, NEW x \in Owners, Has(p, x, k)
      PROVE  Has(p, x, k)'
  BY <1>6, <1>9, <1>14, <1>15 DEF Has
<1>10. \A k \in M : k \in sched' /\ Has("list", c, k)'
  BY <1>1, <1>7, <1>14 DEF Has, taskletVars
<1>16. lost' = lost /\ lost \subseteq sched' \ M
  <2>1. lost' = lost
    BY <1>3, NoneLost DEF EmptyHead
  <2> QED  BY <1>1, <1>7, <2>1 DEF Homes, taskletVars
<1>11. Moves(M, "list", c)
  BY <1>1, <1>5, <1>8, <1>9, <1>10, <1>16 DEF Moves, taskletVars
<1>12. Homes'
  BY <1>5, <1>11, Relocate DEF Kinds, Owners
<1>13. ListsOK'
  <2>1. \A d \in Cpus : Inj(soft'[d].list)
    BY <1>1, <1>2 DEF ListsOK
  <2>2. ASSUME NEW d \in Cpus, NEW b \in Bits
        PROVE  /\ Inj(vec'[d][b].seq)
               /\ vec'[d][b].atHead => \A k \in Range(vec'[d][b].seq) : Vec[k] = "FIRST"
    BY <1>3, <1>4, <1>14 DEF ListsOK
  <2> QED  BY <2>1, <2>2 DEF ListsOK
<1> QED  BY <1>12, <1>13

(* The next tasklet of the list, taken into hand or put back. *)
LEMMA TrylockMoves ==
    ASSUME Structure, Structure', Homes, ListsOK, Traced, NEW c \in Cpus, Trylock(c)
    PROVE  Homes' /\ ListsOK'
<1> DEFINE k == Head(soft[c].list)
<1>0. Types
  BY DEF Structure
<1>1. /\ soft[c].list \in Seq(Tasklets) /\ soft[c].list # <<>> /\ soft[c].pc = "walk"
      /\ UNCHANGED <<sched, userVars>> /\ sched \in SUBSET Tasklets
  BY <1>0 DEF Trylock, Types, Contexts
<1>2. /\ k \in Tasklets /\ k \in Range(soft[c].list)
      /\ Range(Tail(soft[c].list)) = Range(soft[c].list) \ {k} /\ Inj(Tail(soft[c].list))
  <2>1. k \in Tasklets /\ Inj(soft[c].list)
    BY <1>1 DEF ListsOK
  <2> QED  BY <1>1, <2>1, TailList
<1>3. \/ /\ soft' = [soft EXCEPT ![c].list = Tail(@), ![c].t = k, ![c].pc = "count"]
         /\ UNCHANGED vec
      \/ soft' = [soft EXCEPT ![c].list = Tail(@)] /\ Queue(c, k)
  BY DEF Trylock, Requeue
<1> HIDE DEF k
<1>4. /\ k \in sched /\ k \notin lost
      /\ \A d \in Cpus, b \in Bits : k \notin Range(vec[d][b].seq)
      /\ \A d \in Cpus : k \in Range(soft[d].list) => d = c
      /\ \A d \in Cpus : k \notin Hand(d)
      /\ \A u \in Users : k \notin Mine(u)
  <2>1. "list" \in Kinds /\ c \in Owners /\ Has("list", c, k)
    BY <1>2 DEF Kinds, Owners, Has
  <2>2. "list" \notin Bits
    BY DEF Bits
  <2> QED  BY <1>2, <2>1, <2>2, OnlyHome
<1>5. \A u \in Users : Mine(u)' = Mine(u)
  BY <1>1 DEF Mine, userVars
<1>6. \A d \in Cpus : /\ soft'[d].list = IF d = c THEN Tail(soft[c].list) ELSE soft[d].list
                      /\ d # c => soft'[d] = soft[d]
  <2>1. soft \in [Cpus -> Contexts]
    BY <1>0 DEF Types
  <2>2. CASE soft' = [soft EXCEPT ![c].list = Tail(@)]
    BY <2>1, <2>2 DEF Contexts
  <2>3. CASE soft' = [soft EXCEPT ![c].list = Tail(@), ![c].t = k, ![c].pc = "count"]
    BY <2>1, <2>3 DEF Contexts
  <2> QED  BY <1>3, <2>2, <2>3
<1>7. \A d \in Cpus : /\ Range(soft'[d].list) = Range(soft[d].list) \ {k}
                      /\ Inj(soft'[d].list)
  BY <1>2, <1>4, <1>6 DEF ListsOK
<1>8. CASE soft' = [soft EXCEPT ![c].list = Tail(@)] /\ Queue(c, k)
  <2>1. soft'[c].pc = "walk"
    BY <1>0, <1>1, <1>8 DEF Types, Contexts
  <2>2. \A d \in Cpus : Hand(d)' = Hand(d) \ {k}
    <3>1. Hand(c)' = {} /\ Hand(c) = {}
      BY <1>1, <2>1 DEF Hand, InHand
    <3> QED  BY <1>4, <1>6, <3>1 DEF Hand
  <2>3. sched' = sched \cup {k} /\ \A u \in Users : Mine(u)' = Mine(u) \ {k}
    BY <1>1, <1>4, <1>5
  <2> QED  BY <1>2, <1>4, <1>7, <1>8, <2>2, <2>3, QueueMoves
<1>9. CASE /\ soft' = [soft EXCEPT ![c].list = Tail(@), ![c].t = k, ![c].pc = "count"]
           /\ UNCHANGED vec
  <2>1. soft'[c].pc = "count" /\ soft'[c].t = k
    BY <1>0, <1>9 DEF Types, Contexts
  <2>2. Hand(c)' = {k} /\ Hand(c) = {} /\ \A d \in Cpus \ {c} : Hand(d)' = Hand(d)
    BY <1>1, <1>6, <2>1 DEF Hand, InHand
  <2>3. ASSUME NEW j \in Tasklets, NEW p \in Kinds, NEW x \in Owners, Has(p, x, j)'
        PROVE  IF j \in {k} THEN p = "soft" /\ x = c ELSE Has(p, x, j)
    <3>1. CASE p = "soft" /\ x \in Cpus /\ j \in Hand(x)'
      BY <1>4, <2>2, <3>1 DEF Has
    <3>2. CASE p = "list" /\ x \in Cpus /\ j \in Range(soft'[x].list)
      BY <1>7, <3>2 DEF Has
    <3>3. CASE p = "user" /\ x \in Users /\ j \in Mine(x)'
      BY <1>4, <1>5, <3>3 DEF Has
    <3>4. CASE p \in Bits /\ x \in Cpus /\ j \in Range(vec'[x][p].seq)
      BY <1>4, <1>9, <3>4 DEF Has
    <3> QED  BY <2>3, <3>1, <3>2, <3>3, <3>4 DEF Has
  <2>4. ASSUME NEW j \in Tasklets \ {k}, NEW p \in Kinds, NEW x \in Owners, Has(p, x, j)
        PROVE  Has(p, x, j)'
    BY <1>5, <1>7, <1>9, <2>2, <2>4 DEF Has
  <2>5. \A j \in {k} : j \in sched' /\ Has("soft", c, j)'
    BY <1>1, <1>4, <2>2 DEF Has
  <2>9. lost' = lost /\ lost \subseteq sched' \ {k}
    BY <1>1, <1>4, <1>9, NoneLost DEF Homes
  <2>6. Moves({k}, "soft", c)
    BY <1>1, <2>3, <2>4, <2>5, <2>9 DEF Moves
  <2>7. Homes'
    BY <1>2, <2>6, Relocate DEF Kinds, Owners
  <2>8. ListsOK'
    BY <1>7, <1>9 DEF ListsOK
  <2> QED  BY <2>7, <2>8
<1> QED  BY <1>3, <1>8, <1>9

(* The other steps of __do_softirq(). *)
LEMMA SoftirqMoves ==
    ASSUME Structure, Structure', Homes, ListsOK, Traced, NEW c \in Cpus, do_softirq_step(c)
    PROVE  Homes' /\ ListsOK'
<1>0. Types /\ SoftOK(c)
  BY DEF Structure
<1>1. CASE EndOfSoftirq(c)
  <2>1. /\ soft[c].pc = "walk" /\ soft[c].list = <<>> /\ UNCHANGED <<sched, vec, userVars>>
        /\ \A d \in Cpus \ {c} : soft'[d] = soft[d]
        /\ soft'[c].list = <<>> /\ soft'[c].pc \in {"none", "walk"}
    <3>1. /\ soft[c].pc = "walk" /\ soft[c].list = <<>> /\ UNCHANGED <<sched, vec, userVars>>
          /\ \/ soft' = [soft EXCEPT ![c] = AtRest]
             \/ \E r : Start(c, pending[c], r)
      BY <1>1 DEF EndOfSoftirq, taskletVars
    <3>2. soft \in [Cpus -> Contexts]
      BY <1>0 DEF Types
    <3>3. CASE soft' = [soft EXCEPT ![c] = AtRest]
      BY <3>1, <3>2, <3>3 DEF AtRest
    <3>4. CASE \E r : Start(c, pending[c], r)
      BY <3>1, <3>2, <3>4 DEF Start, AtRest
    <3> QED  BY <3>1, <3>3, <3>4
  <2> QED  BY <2>1, NothingMoves DEF Hand, InHand, Mine, userVars
<1>2. CASE ReadCount(c)
  <2>1. /\ soft[c].pc = "count" /\ UNCHANGED <<sched, vec, userVars>>
        /\ \A d \in Cpus \ {c} : soft'[d] = soft[d]
        /\ soft'[c].list = soft[c].list /\ soft'[c].t = soft[c].t
        /\ soft'[c].pc \in {"clear", "unlock"}
    BY <1>0, <1>2 DEF ReadCount, Types, Contexts, taskletVars
  <2> QED  BY <2>1, NothingMoves DEF Hand, InHand, Mine, userVars
<1>3. CASE ClearSched(c)
  <2> DEFINE k == soft[c].t
  <2>1. /\ soft[c].pc = "clear" /\ UNCHANGED <<vec, userVars>> /\ sched' = sched \ {k}
        /\ \A d \in Cpus \ {c} : soft'[d] = soft[d]
        /\ soft'[c].list = soft[c].list /\ soft'[c].pc = "func"
    BY <1>0, <1>3 DEF ClearSched, Types, Contexts
  <2>2. k \in Tasklets /\ k \in Hand(c) /\ Hand(c) = {k}
    BY <1>0, <2>1 DEF SoftOK, Working, Hand, InHand
  <2> HIDE DEF k
  <2>3. /\ k \notin lost
        /\ \A d \in Cpus, b \in Bits : k \notin Range(vec[d][b].seq)
        /\ \A d \in Cpus : k \notin Range(soft[d].list)
        /\ \A d \in Cpus : k \in Hand(d) => d = c
        /\ \A u \in Users : k \notin Mine(u)
    <3>1. "soft" \in Kinds /\ c \in Owners /\ Has("soft", c, k) /\ "soft" \notin Bits
      BY <2>2 DEF Kinds, Owners, Has, Bits
    <3> QED  BY <2>2, <3>1, OnlyHome
  <2>4. /\ Hand(c)' = {} /\ \A d \in Cpus \ {c} : Hand(d)' = Hand(d)
        /\ \A u \in Users : Mine(u)' = Mine(u)
        /\ \A d \in Cpus : soft'[d].list = soft[d].list
    BY <2>1 DEF Hand, InHand, Mine, userVars
  <2>5. ASSUME NEW j \in Tasklets, NEW p \in Kinds, NEW x \in Owners
        PROVE  Has(p, x, j)' <=> j # k /\ Has(p, x, j)
    BY <2>1, <2>2, <2>3, <2>4 DEF Has
  <2>6. Moves({}, "soft", c)
    <3>1. sched' \subseteq Tasklets /\ sched' \subseteq sched /\ sched \ sched' \subseteq {k}
      BY <1>0, <2>1 DEF Types
    <3>2. lost' = lost /\ lost \subseteq sched'
      BY <2>1, <2>3, NoneLost DEF Homes
    <3> QED  BY <1>0, <2>1, <2>2, <2>5, <3>1, <3>2 DEF Moves
  <2>7. Homes'
    BY <2>6, Relocate DEF Kinds, Owners
  <2>8. ListsOK'
    BY <2>1, <2>4 DEF ListsOK
  <2> QED  BY <2>7, <2>8
<1>4. CASE tasklet_unlock(c)
  <2> DEFINE k == soft[c].t
  <2>1. /\ soft[c].pc \in {"func", "unlock"} /\ UNCHANGED <<sched, userVars>>
        /\ \A d \in Cpus \ {c} : soft'[d] = soft[d]
        /\ soft'[c].list = soft[c].list /\ soft'[c].pc = "walk"
    BY <1>0, <1>4 DEF tasklet_unlock, Types, Contexts
  <2>2. k \in Tasklets
    BY <1>0, <2>1 DEF SoftOK, Working
  <2>3. /\ Hand(c)' = {} /\ \A d \in Cpus \ {c} : Hand(d)' = Hand(d)
        /\ \A u \in Users : Mine(u)' = Mine(u)
        /\ \A d \in Cpus : soft'[d].list = soft[d].list
    BY <2>1 DEF Hand, InHand, Mine, userVars
  <2>4. CASE soft[c].pc = "func"
    <3>1. UNCHANGED vec /\ Hand(c) = {}
      BY <1>4, <2>4 DEF tasklet_unlock, Hand, InHand
    <3> QED  BY <2>1, <2>3, <3>1, NothingMoves
  <2>5. CASE soft[c].pc = "unlock"
    <3>1. Queue(c, k) /\ Hand(c) = {k}
      BY <1>4, <2>5 DEF tasklet_unlock, Requeue, Hand, InHand
    <3> HIDE DEF k
    <3>2. /\ k \in sched /\ k \notin lost
          /\ \A d \in Cpus, b \in Bits : k \notin Range(vec[d][b].seq)
          /\ \A d \in Cpus : k \notin Range(soft[d].list)
          /\ \A d \in Cpus : k \in Hand(d) => d = c
          /\ \A u \in Users : k \notin Mine(u)
      <4>1. "soft" \in Kinds /\ c \in Owners /\ Has("soft", c, k) /\ "soft" \notin Bits
        BY <3>1 DEF Kinds, Owners, Has, Bits
      <4> QED  BY <2>2, <4>1, OnlyHome
    <3>3. /\ sched' = sched \cup {k}
          /\ \A d \in Cpus : /\ Range(soft'[d].list) = Range(soft[d].list) \ {k}
                             /\ Inj(soft'[d].list)
                             /\ Hand(d)' = Hand(d) \ {k}
          /\ \A u \in Users : Mine(u)' = Mine(u) \ {k}
      BY <2>1, <2>3, <3>1, <3>2 DEF ListsOK
    <3> QED  BY <2>2, <3>1, <3>2, <3>3, QueueMoves
  <2> QED  BY <2>1, <2>4, <2>5
<1> QED  BY <1>1, <1>2, <1>3, <1>4, ActionMoves, TrylockMoves DEF do_softirq_step

(* A tasklet is scheduled on CPU c, by a function, an interrupt or a trap. *)
LEMMA InterruptMoves ==
    ASSUME Structure, Structure', Homes, ListsOK, Traced, NEW c \in Cpus,
           \/ \E k \in Tasklets : FuncSchedules(c, k) \/ tasklet_hi_schedule_first(c, k)
           \/ \E S \in {{}} \cup {{k} : k \in Tasklets} : Interrupt(c, S)
    PROVE  Homes' /\ ListsOK'
<1>0. Types /\ SoftOK(c)
  BY DEF Structure
<1>1. ASSUME NEW k \in Tasklets, k \notin sched, sched' = sched \cup {k}, Queue(c, k),
             UNCHANGED userVars,
             \A d \in Cpus : soft'[d].list = soft[d].list /\ Hand(d)' = Hand(d)
      PROVE  Homes' /\ ListsOK'
  <2>1. /\ k \notin lost
        /\ \A d \in Cpus, b \in Bits : k \notin Range(vec[d][b].seq)
        /\ \A d \in Cpus : k \notin Range(soft[d].list) /\ k \notin Hand(d)
        /\ \A u \in Users : k \notin Mine(u)
    BY <1>1, NoHome
  <2>2. \A u \in Users : Mine(u)' = Mine(u)
    BY <1>1 DEF Mine, userVars
  <2>3. /\ \A d \in Cpus : /\ Range(soft'[d].list) = Range(soft[d].list) \ {k}
                           /\ Inj(soft'[d].list)
                           /\ Hand(d)' = Hand(d) \ {k}
        /\ \A u \in Users : Mine(u)' = Mine(u) \ {k}
    BY <1>1, <2>1, <2>2 DEF ListsOK
  <2> QED  BY <1>1, <2>1, <2>3, QueueMoves
<1>2. ASSUME NEW k \in Tasklets, FuncSchedules(c, k)  PROVE Homes' /\ ListsOK'
  BY <1>1, <1>2 DEF FuncSchedules, Hand
<1>3. ASSUME NEW k \in Tasklets, tasklet_hi_schedule_first(c, k)  PROVE Homes' /\ ListsOK'
  <2>1. /\ vec' = [vec EXCEPT ![c]["HI"] = AddFirst(@, k)]
        /\ k \notin sched /\ sched' = sched \cup {k} /\ Vec[k] = "FIRST"
        /\ UNCHANGED <<soft, userVars>>
    BY <1>3 DEF tasklet_hi_schedule_first
  <2>2. /\ k \notin lost
        /\ \A d \in Cpus, b \in Bits : k \notin Range(vec[d][b].seq)
        /\ \A d \in Cpus : k \notin Range(soft[d].list) /\ k \notin Hand(d)
        /\ \A u \in Users : k \notin Mine(u)
    BY <2>1, NoHome
  <2> DEFINE old == vec[c]["HI"]
             new == AddFirst(old, k)
  <2>3. /\ old \in Heads /\ old.seq \in Seq(Tasklets) /\ "HI" \in Bits
        /\ <<k>> \in Seq(Tasklets) /\ Inj(old.seq) /\ k \notin Range(old.seq)
    <3>1. "HI" \in Bits
      BY DEF Bits
    <3> QED  BY <1>0, <2>2, <3>1 DEF Types, Heads, ListsOK
  <2>4. new.seq = <<k>> \o old.seq /\ new.atHead = old.atHead
    BY <2>3 DEF AddFirst, Heads
  <2>5. Range(new.seq) = Range(old.seq) \cup {k} /\ Inj(new.seq)
    <3>1. Range(<<k>>) = {k} /\ Inj(<<k>>)
      BY ShortLists
    <3> HIDE DEF new, old
    <3>2. Range(<<k>>) \cap Range(old.seq) = {}
      BY <2>3, <3>1
    <3> DEFINE one == <<k>>
    <3>3. one \in Seq(Tasklets) /\ Range(one) = {k} /\ Inj(one)
          /\ Range(one) \cap Range(old.seq) = {} /\ new.seq = one \o old.seq
      BY <2>3, <2>4, <3>1, <3>2
    <3> HIDE DEF one
    <3>4. Range(one \o old.seq) = Range(one) \cup Range(old.seq) /\ Inj(one \o old.seq)
      BY <2>3, <3>3, JoinLists
    <3> QED  BY <3>3, <3>4
  <2>6. \A d \in Cpus, b \in Bits : vec'[d][b] = IF d = c /\ b = "HI" THEN new ELSE vec[d][b]
    BY <1>0, <2>1, <2>3 DEF Types
  <2>7. \A d \in Cpus, b \in Bits :
          Range(vec'[d][b].seq) =
             Range(vec[d][b].seq) \cup (IF d = c /\ b = "HI" THEN {k} ELSE {})
    BY <2>5, <2>6
  <2>8. /\ \A d \in Cpus : Hand(d)' = Hand(d)
        /\ \A u \in Users : Mine(u)' = Mine(u)
    BY <2>1 DEF Hand, Mine, userVars
  <2>9. ASSUME NEW j \in Tasklets, NEW p \in Kinds, NEW x \in Owners, Has(p, x, j)'
        PROVE  IF j \in {k} THEN p = "HI" /\ x = c ELSE Has(p, x, j)
    BY <2>1, <2>2, <2>7, <2>8, <2>9 DEF Has
  <2>10. ASSUME NEW j \in Tasklets \ {k}, NEW p \in Kinds, NEW x \in Owners, Has(p, x, j)
         PROVE  Has(p, x, j)'
    BY <2>1, <2>7, <2>8, <2>10 DEF Has
  <2>11. \A j \in {k} : j \in sched' /\ Has("HI", c, j)'
    BY <2>1, <2>3, <2>7 DEF Has
  <2>15. lost' = lost /\ lost \subseteq sched' \ {k}
    BY <2>1, <2>2, <2>4, <2>6, NoneLost DEF Homes
  <2>12. Moves({k}, "HI", c)
    BY <1>0, <2>1, <2>9, <2>10, <2>11, <2>15 DEF Moves, Types
  <2>13. Homes'
    BY <2>3, <2>12, Relocate DEF Kinds, Owners
  <2>14. ListsOK'
    <3>1. ASSUME NEW d \in Cpus, NEW b \in Bits
          PROVE  /\ Inj(vec'[d][b].seq)
                 /\ vec'[d][b].atHead => \A j \in Range(vec'[d][b].seq) : Vec[j] = "FIRST"
      <4>1. CASE d = c /\ b = "HI"
        <5>1. vec'[d][b] = new
          BY <2>6, <4>1
        <5>2. old.atHead => \A j \in Range(old.seq) : Vec[j] = "FIRST"
          BY <2>3 DEF ListsOK
        <5> HIDE DEF new, old
        <5> QED  BY <2>1, <2>4, <2>5, <5>1, <5>2
      <4>2. CASE ~(d = c /\ b = "HI")
        BY <2>6, <4>2 DEF ListsOK
      <4> QED  BY <4>1, <4>2
    <3> QED  BY <2>1, <3>1 DEF ListsOK
  <2> QED  BY <2>13, <2>14
<1>4. ASSUME NEW S \in {{}} \cup {{k} : k \in Tasklets}, Interrupt(c, S)
      PROVE  Homes' /\ ListsOK'
  <2> DEFINE new == S \ sched
  <2>1. /\ sched' = sched \cup S
        /\ vec' = [vec EXCEPT ![c] = [b \in Bits |->
                     IF \E k \in new : Bit(k) = b
                     THEN AddTail(@[b], <<CHOOSE k \in new : TRUE>>) ELSE @[b]]]
        /\ UNCHANGED userVars
    BY <1>4 DEF Interrupt
  <2>2. \A d \in Cpus : soft'[d].list = soft[d].list /\ Hand(d)' = Hand(d)
    <3>1. CASE UNCHANGED soft
      BY <3>1 DEF Hand
    <3>2. CASE ~in_interrupt(c) /\ \E bits : Start(c, bits, MAX_SOFTIRQ_RESTART)
      <4>1. /\ soft[c].pc = "none" /\ soft[c].list = <<>>
            /\ soft'[c].pc = "walk" /\ soft'[c].list = <<>>
            /\ \A d \in Cpus \ {c} : soft'[d] = soft[d]
        BY <1>0, <3>2 DEF in_interrupt, SoftOK, Start, AtRest, Types
      <4> QED  BY <4>1 DEF Hand, InHand
    <3> QED  BY <1>4, <3>1, <3>2 DEF Interrupt
  <2>3. CASE new = {}
    <3>1. sched' = sched
      BY <2>1, <2>3
    <3>2. vec' = vec
      <4>1. \A b \in Bits : ~\E k \in new : Bit(k) = b
        BY <2>3
      <4>2. vec' = [vec EXCEPT ![c] = [b \in Bits |-> @[b]]]
        BY <2>1, <4>1
      <4> QED  BY <1>0, <4>2 DEF Types
    <3> QED  BY <2>1, <2>2, <3>1, <3>2, NothingMoves DEF Mine, userVars
  <2>4. CASE new # {}
    <3>1. PICK k \in Tasklets : S = {k} /\ new = {k} /\ k \notin sched
      BY <2>4
    <3>2. (CHOOSE j \in new : TRUE) = k
      BY <3>1
    <3>3. Queue(c, k)
      <4>1. vec' = [vec EXCEPT ![c] = [b \in Bits |->
                      IF Bit(k) = b THEN AddTail(@[b], <<k>>) ELSE @[b]]]
        BY <2>1, <3>1, <3>2
      <4> QED  BY <1>0, <4>1, BitType DEF Types, Queue
    <3> QED  BY <1>1, <2>1, <2>2, <3>1, <3>3
  <2> QED  BY <2>3, <2>4
<1> QED  BY <1>2, <1>3, <1>4

(* The lists of a dead CPU. *)
LEMMA TakeoverMoves ==
    ASSUME Structure, Structure', Homes, ListsOK, Traced, NEW c \in Cpus, NEW d \in Cpus,
           takeover_tasklets(c, d)
    PROVE  Homes' /\ ListsOK'
<1>0. Types
  BY DEF Structure
<1>1. /\ c # d
      /\ vec' = [vec EXCEPT
               ![d] = [b \in Bits |-> IF vec[c][b].atHead THEN @[b]
                                      ELSE AddTail(@[b], vec[c][b].seq)],
               ![c] = [b \in Bits |-> IF @[b].atHead THEN @[b] ELSE EmptyHead]]
      /\ UNCHANGED <<sched, soft, userVars>>
  BY DEF takeover_tasklets, MayRun, taskletVars
<1>2. \A b \in Bits :
         /\ vec'[c][b] = IF vec[c][b].atHead THEN vec[c][b] ELSE EmptyHead
         /\ vec'[d][b] = IF vec[c][b].atHead THEN vec[d][b] ELSE AddTail(vec[d][b], vec[c][b].seq)
         /\ \A e \in Cpus \ {c, d} : vec'[e][b] = vec[e][b]
  BY <1>0, <1>1 DEF Types
<1>3. /\ EmptyHead.seq = <<>> /\ EmptyHead.atHead /\ Range(<<>>) = {} /\ Inj(<<>>)
  BY ShortLists DEF EmptyHead
<1>4. ASSUME NEW k \in Tasklets, NEW e \in Cpus, NEW f \in Cpus, NEW a \in Bits, NEW b \in Bits,
             k \in Range(vec[e][a].seq), k \in Range(vec[f][b].seq)
      PROVE  e = f /\ a = b
  <2>1. Has(a, e, k) /\ a \in Kinds /\ e \in Owners
    BY <1>4 DEF Has, Kinds, Owners
  <2> QED  BY <1>4, <2>1, OnlyHome
<1>5. \A e \in Cpus, b \in Bits : /\ vec[e][b] \in Heads /\ vec[e][b].seq \in Seq(Tasklets)
                                  /\ Range(vec[e][b].seq) \in SUBSET Tasklets
                                  /\ Inj(vec[e][b].seq)
  <2>1. \A e \in Cpus, b \in Bits : vec[e][b] \in Heads /\ vec[e][b].seq \in Seq(Tasklets)
    BY <1>0 DEF Types, Heads
  <2>2. \A s \in Seq(Tasklets) : Range(s) \in SUBSET Tasklets
    BY DEF Range
  <2> QED  BY <2>1, <2>2 DEF ListsOK
<1>6. ASSUME NEW b \in Bits, ~vec[c][b].atHead
      PROVE  /\ Inj(vec'[d][b].seq) /\ ~vec'[d][b].atHead
             /\ Range(vec'[d][b].seq) =
                   (IF vec[d][b].atHead THEN {} ELSE Range(vec[d][b].seq)) \cup Range(vec[c][b].seq)
             /\ Range(vec'[c][b].seq) = {} /\ vec'[c][b].seq = <<>>
  <2>1. Range(vec[d][b].seq) \cap Range(vec[c][b].seq) = {}
    BY <1>1, <1>4, <1>5
  <2> QED  BY <1>2, <1>3, <1>5, <1>6, <2>1, AddTailList
<1>7. ListsOK'
  <2>1. ASSUME NEW e \in Cpus, NEW b \in Bits
        PROVE  /\ Inj(vec'[e][b].seq)
               /\ vec'[e][b].atHead => \A j \in Range(vec'[e][b].seq) : Vec[j] = "FIRST"
    <3>1. CASE e \notin {c, d} \/ vec[c][b].atHead
      <4>1. vec'[e][b] = vec[e][b]
        BY <1>2, <3>1
      <4> QED  BY <4>1 DEF ListsOK
    <3>2. CASE ~vec[c][b].atHead /\ e \in {c, d}
      BY <1>3, <1>6, <3>2
    <3> QED  BY <3>1, <3>2
  <2> QED  BY <1>1, <2>1 DEF ListsOK
<1>8. /\ \A e \in Cpus : Hand(e)' = Hand(e) /\ soft'[e].list = soft[e].list
      /\ \A u \in Users : Mine(u)' = Mine(u)
  BY <1>1 DEF Hand, Mine, userVars
(* A tasklet found on a list was on the same list, or on the dead CPU's. *)
<1>9. ASSUME NEW k \in Tasklets, NEW e \in Cpus, NEW b \in Bits, k \in Range(vec'[e][b].seq)
      PROVE  \/ k \in Range(vec[e][b].seq) /\ (e = c => vec[c][b].atHead)
             \/ e = d /\ k \in Range(vec[c][b].seq) /\ ~vec[c][b].atHead
  <2>1. CASE e \notin {c, d} \/ vec[c][b].atHead
    BY <1>1, <1>2, <1>9, <2>1
  <2>2. CASE ~vec[c][b].atHead /\ e \in {c, d}
    BY <1>6, <1>9, <2>2
  <2> QED  BY <2>1, <2>2
<1>10. ASSUME NEW k \in Tasklets, NEW e \in Cpus, NEW b \in Bits, k \in Range(vec[e][b].seq),
              k \notin lost'
       PROVE  \E f \in Cpus : k \in Range(vec'[f][b].seq)
  <2>1. CASE e \notin {c, d} \/ vec[c][b].atHead
    BY <1>1, <1>2, <1>10, <2>1
  <2>2. CASE ~vec[c][b].atHead /\ e \in {c, d}
    <3>1. e = d => ~vec[d][b].atHead
      <4>1. k \notin CutOff
        BY <1>10 DEF Traced
      <4> QED  BY <1>6, <1>10, <2>2, <4>1 DEF CutOff, Range
    <3> QED  BY <1>6, <1>10, <2>2, <3>1
  <2> QED  BY <2>1, <2>2
<1>11. Homes'
  <2>0. Kinds' = Kinds /\ Owners' = Owners /\ sched \in SUBSET Tasklets
    BY <1>0 DEF Kinds, Owners, Bits, Types
  <2>1. ASSUME NEW k \in Tasklets, NEW p \in Kinds, NEW x \in Owners, Has(p, x, k)'
        PROVE  \/ Has(p, x, k) /\ ~(x = c /\ p \in Bits /\ ~vec[c][p].atHead)
               \/ x = d /\ p \in Bits /\ Has(p, c, k) /\ ~vec[c][p].atHead
    <3>1. CASE p \in Bits /\ x \in Cpus /\ k \in Range(vec'[x][p].seq)
      BY <1>9, <3>1 DEF Has
    <3>2. CASE p \notin Bits
      BY <1>8, <2>1, <3>2 DEF Has
    <3> QED  BY <2>1, <3>1, <3>2 DEF Has, Bits
  <2>2. ASSUME NEW k \in Tasklets, NEW p \in Kinds, NEW q \in Kinds, NEW x \in Owners,
               NEW y \in Owners, Has(p, x, k)', Has(q, y, k)'
        PROVE  p = q /\ x = y
    <3>1. c \in Owners /\ d \in Owners
      BY DEF Owners
    <3>2. \A p1, q1 \in Kinds, x1, y1 \in Owners :
             Has(p1, x1, k) /\ Has(q1, y1, k) => p1 = q1 /\ x1 = y1
      BY DEF Homes
    <3> QED  BY <1>1, <2>1, <2>2, <3>1, <3>2
  <2>3. ASSUME NEW k \in Tasklets, NEW p \in Kinds, NEW x \in Owners, Has(p, x, k)'
        PROVE  k \in sched'
    BY <1>1, <2>1, <2>3 DEF Homes, Owners
  <2>4. ASSUME NEW k \in sched', k \notin lost'
        PROVE  \E p \in Kinds, x \in Owners : Has(p, x, k)'
    <3>1. k \in sched /\ k \in Tasklets
      BY <1>1, <2>0
    <3>2. PICK p \in Kinds, x \in Owners : Has(p, x, k)
      BY <2>4, <3>1 DEF Homes, Traced
    <3>3. CASE p \in Bits /\ x \in Cpus /\ k \in Range(vec[x][p].seq)
      <4>1. PICK f \in Cpus : k \in Range(vec'[f][p].seq)
        BY <1>10, <2>4, <3>1, <3>3
      <4> QED  BY <3>3, <4>1 DEF Has, Owners
    <3>4. CASE p \notin Bits
      BY <1>8, <3>2, <3>4 DEF Has
    <3> QED  BY <3>2, <3>3, <3>4 DEF Has, Bits
(* What is cut off hung from a tail at the head of CPU d, and is nowhere. *)
  <2>5. ASSUME NEW k \in CutOff
        PROVE  /\ k \in Tasklets /\ k \in sched /\ Vec[k] = "FIRST"
               /\ \A p \in Kinds, x \in Owners : ~Has(p, x, k)'
    <3>1. PICK e \in Cpus, b \in Bits :
             vec[e][b].atHead /\ ~vec'[e][b].atHead /\ k \in Range(vec[e][b].seq)
      BY <2>5 DEF CutOff, Range
    <3>2. e = d /\ ~vec[c][b].atHead
      BY <1>2, <1>3, <3>1
    <3>3. k \in Tasklets /\ Vec[k] = "FIRST"
      BY <2>5, <3>1 DEF CutOff, ListsOK
    <3>4. Has(b, d, k) /\ b \in Kinds /\ d \in Owners /\ c \in Owners
      BY <3>1, <3>2 DEF Has, Kinds, Owners
    <3>5. k \notin Range(vec[c][b].seq) /\ k \notin Range(vec'[d][b].seq)
      <4>1. k \notin Range(vec[c][b].seq)
        BY <1>1, <1>4, <3>1, <3>2, <3>3
      <4> QED  BY <1>6, <3>1, <3>2, <4>1
    <3>6. ASSUME NEW p \in Kinds, NEW x \in Owners, Has(p, x, k)'  PROVE FALSE
      <4>1. CASE Has(p, x, k)
        <5>1. p = b /\ x = d
          BY <3>3, <3>4, <4>1 DEF Homes
        <5> QED  BY <3>1, <3>5, <3>6, <5>1 DEF Has, Bits
      <4>2. CASE x = d /\ p \in Bits /\ Has(p, c, k)
        <5>1. c = d
          BY <3>3, <3>4, <4>2 DEF Homes
        <5> QED  BY <1>1, <5>1
      <4> QED  BY <2>1, <3>3, <3>6, <4>1, <4>2
    <3>7. k \in sched
      BY <3>3, <3>4 DEF Homes
    <3> QED  BY <3>3, <3>6, <3>7
  <2>6. ASSUME NEW k \in lost'
        PROVE  /\ k \in Tasklets /\ k \in sched' /\ Vec[k] = "FIRST"
               /\ \A p \in Kinds, x \in Owners : ~Has(p, x, k)'
    <3>1. CASE k \in lost
      <4>1. k \in Tasklets /\ c \in Owners /\ \A p \in Kinds, x \in Owners : ~Has(p, x, k)
        BY <3>1 DEF Homes, Owners
      <4> QED  BY <1>1, <2>1, <3>1, <4>1 DEF Homes
    <3>2. CASE k \in CutOff
      BY <1>1, <2>5, <3>2
    <3> QED  BY <2>6, <3>1, <3>2 DEF Traced
  <2> QED  BY <2>0, <2>2, <2>3, <2>4, <2>6 DEF Homes
<1> QED  BY <1>7, <1>11

(* What the tasks do. *)
LEMMA UserMoves ==
    ASSUME Structure, Structure', Homes, ListsOK, Traced, NEW u \in Users,
           user_step(u) \/ \E k \in Tasklets : Begin(u, k)
    PROVE  Homes' /\ ListsOK'
<1>0. Types /\ UserOK(u) /\ \A c \in Cpus : SoftOK(c)
  BY DEF Structure
<1>1. ASSUME NEW where, NEW k, UGoto(u, where, k)
      PROVE  /\ Mine(u)' = IF where \in Holding THEN {k} ELSE {}
             /\ \A w \in Users \ {u} : Mine(w)' = Mine(w)
  BY <1>0, <1>1 DEF UGoto, Mine, Types
<1>2. ASSUME NEW c \in Cpus, __tasklet_schedule(u, c)  PROVE Homes' /\ ListsOK'
  <2> DEFINE k == uarg[u]
  <2>1. /\ upc[u] = "add" /\ Queue(c, k) /\ UGoto(u, "idle", NULL) /\ UNCHANGED <<sched, soft>>
    BY <1>2 DEF __tasklet_schedule, taskletVars
  <2>2. k \in Tasklets /\ Mine(u) = {k}
    BY <1>0, <2>1 DEF UserOK, Mine, Holding
  <2> HIDE DEF k
  <2>3. Mine(u)' = {} /\ \A w \in Users \ {u} : Mine(w)' = Mine(w)
    BY <1>1, <2>1 DEF Holding
  <2>4. /\ k \in sched /\ k \notin lost
        /\ \A d \in Cpus, b \in Bits : k \notin Range(vec[d][b].seq)
        /\ \A d \in Cpus : k \notin Range(soft[d].list) /\ k \notin Hand(d)
        /\ \A w \in Users : k \in Mine(w) => w = u
    <3>1. "user" \in Kinds /\ u \in Owners /\ Has("user", u, k) /\ "user" \notin Bits
      BY <2>2 DEF Kinds, Owners, Has, Bits
    <3> QED  BY <2>2, <3>1, OnlyHome
  <2>5. /\ sched' = sched \cup {k}
        /\ \A d \in Cpus : /\ Range(soft'[d].list) = Range(soft[d].list) \ {k}
                           /\ Inj(soft'[d].list)
                           /\ Hand(d)' = Hand(d) \ {k}
        /\ \A w \in Users : Mine(w)' = Mine(w) \ {k}
    BY <2>1, <2>2, <2>3, <2>4 DEF ListsOK, Hand
  <2> QED  BY <2>1, <2>2, <2>4, <2>5, QueueMoves
<1>3. ASSUME NEW c \in Cpus, local_bh_enable(u, c)  PROVE Homes' /\ ListsOK'
  <2>1. \A d \in Cpus : soft'[d].list = soft[d].list /\ Hand(d)' = Hand(d)
    <3>1. CASE UNCHANGED soft
      BY <3>1 DEF Hand
    <3>2. CASE soft[c].pc = "none" /\ \E bits : Start(c, bits, MAX_SOFTIRQ_RESTART)
      <4>1. /\ soft[c].list = <<>>
            /\ soft'[c].pc = "walk" /\ soft'[c].list = <<>>
            /\ \A d \in Cpus \ {c} : soft'[d] = soft[d]
        BY <1>0, <3>2 DEF SoftOK, Start, AtRest, Types
      <4> QED  BY <3>2, <4>1 DEF Hand, InHand
    <3> QED  BY <1>3, <3>1, <3>2 DEF local_bh_enable
  <2> QED  BY <1>3, <2>1, NothingMoves DEF local_bh_enable, Mine, taskletVars, userVars
<1>4. ASSUME UNCHANGED <<sched, vec, soft>>, Mine(u)' = Mine(u), \E where, k : UGoto(u, where, k)
      PROVE  Homes' /\ ListsOK'
  <2>1. \A w \in Users : Mine(w)' = Mine(w)
    BY <1>1, <1>4
  <2> QED  BY <1>4, <2>1, NothingMoves DEF Hand
<1>5. CASE tasklet_disable(u) \/ tasklet_enable(u) \/ KillWaited(u)
  <2>1. /\ UNCHANGED <<sched, vec, soft>>
        /\ \/ upc[u] \in Disabling /\ UGoto(u, "disabled", uarg[u])
           \/ upc[u] \in Disabling /\ UGoto(u, "idle", NULL)
           \/ upc[u] = "kill_wait" /\ UGoto(u, "kill_clear", uarg[u])
    BY <1>5 DEF tasklet_disable, tasklet_enable, KillWaited, taskletVars, Disabling
  <2>2. Mine(u)' = Mine(u)
    <3>1. Mine(u) = IF upc[u] \in Holding THEN {uarg[u]} ELSE {}
      BY DEF Mine
    <3> QED  BY <1>1, <2>1, <3>1 DEF Holding, Disabling
  <2> QED  BY <1>4, <2>1, <2>2
<1>6. ASSUME NEW k \in Tasklets, tasklet_disable_nosync(u, k)  PROVE Homes' /\ ListsOK'
  <2>1. UGoto(u, "disabled_nosync", k) /\ upc[u] = "idle" /\ UNCHANGED <<sched, vec, soft>>
    BY <1>6 DEF tasklet_disable_nosync
  <2>2. Mine(u)' = {} /\ Mine(u) = {}
    BY <1>1, <2>1 DEF Mine, Holding
  <2> QED  BY <1>4, <2>1, <2>2
<1>7. ASSUME NEW k \in Tasklets, tasklet_schedule(u, k) \/ tasklet_kill(u, k)
      PROVE  Homes' /\ ListsOK'
  <2>1. /\ upc[u] = "idle" /\ k \notin sched /\ sched' = sched \cup {k}
        /\ UNCHANGED <<vec, soft>> /\ \E where \in Holding : UGoto(u, where, k)
    BY <1>7 DEF tasklet_schedule, tasklet_kill, Holding
  <2>2. Mine(u)' = {k} /\ Mine(u) = {} /\ \A w \in Users \ {u} : Mine(w)' = Mine(w)
    BY <1>1, <2>1 DEF Mine, Holding
  <2>3. /\ k \notin lost
        /\ \A d \in Cpus, b \in Bits : k \notin Range(vec[d][b].seq)
        /\ \A d \in Cpus : k \notin Range(soft[d].list) /\ k \notin Hand(d)
        /\ \A w \in Users : k \notin Mine(w)
    BY <2>1, NoHome
  <2>4. \A d \in Cpus : Hand(d)' = Hand(d)
    BY <2>1 DEF Hand
  <2>5. ASSUME NEW j \in Tasklets, NEW p \in Kinds, NEW x \in Owners, Has(p, x, j)'
        PROVE  IF j \in {k} THEN p = "user" /\ x = u ELSE Has(p, x, j)
    BY <2>1, <2>2, <2>3, <2>4, <2>5 DEF Has
  <2>6. ASSUME NEW j \in Tasklets \ {k}, NEW p \in Kinds, NEW x \in Owners, Has(p, x, j)
        PROVE  Has(p, x, j)'
    BY <2>1, <2>2, <2>4, <2>6 DEF Has
  <2>10. lost' = lost /\ lost \subseteq sched' \ {k}
    BY <2>1, <2>3, NoneLost DEF Homes
  <2>7. Moves({k}, "user", u)
    BY <1>0, <2>1, <2>2, <2>5, <2>6, <2>10 DEF Moves, Types, Has
  <2>8. Homes'
    BY <2>7, Relocate DEF Kinds, Owners
  <2>9. ListsOK'
    BY <2>1 DEF ListsOK
  <2> QED  BY <2>8, <2>9
<1>8. CASE KillClear(u)
  <2> DEFINE k == uarg[u]
  <2>1. /\ upc[u] = "kill_clear" /\ sched' = sched \ {k} /\ UGoto(u, "idle", NULL)
        /\ UNCHANGED <<vec, soft>>
    BY <1>8 DEF KillClear
  <2>2. k \in Tasklets /\ Mine(u) = {k}
    BY <1>0, <2>1 DEF UserOK, Mine, Holding
  <2> HIDE DEF k
  <2>3. Mine(u)' = {} /\ \A w \in Users \ {u} : Mine(w)' = Mine(w)
    BY <1>1, <2>1 DEF Holding
  <2>4. /\ k \notin lost
        /\ \A d \in Cpus, b \in Bits : k \notin Range(vec[d][b].seq)
        /\ \A d \in Cpus : k \notin Range(soft[d].list) /\ k \notin Hand(d)
        /\ \A w \in Users : k \in Mine(w) => w = u
    <3>1. "user" \in Kinds /\ u \in Owners /\ Has("user", u, k) /\ "user" \notin Bits
      BY <2>2 DEF Kinds, Owners, Has, Bits
    <3> QED  BY <2>2, <3>1, OnlyHome
  <2>5. \A d \in Cpus : Hand(d)' = Hand(d)
    BY <2>1 DEF Hand
  <2>6. ASSUME NEW j \in Tasklets, NEW p \in Kinds, NEW x \in Owners
        PROVE  Has(p, x, j)' <=> j # k /\ Has(p, x, j)
    BY <2>1, <2>2, <2>3, <2>4, <2>5 DEF Has
  <2>7. Moves({}, "user", u)
    <3>1. sched' \subseteq Tasklets /\ sched' \subseteq sched /\ sched \ sched' \subseteq {k}
      BY <1>0, <2>1 DEF Types
    <3>2. lost' = lost /\ lost \subseteq sched'
      BY <2>1, <2>4, NoneLost DEF Homes
    <3> QED  BY <1>0, <2>1, <2>2, <2>6, <3>1, <3>2 DEF Moves
  <2>8. Homes'
    BY <2>7, Relocate DEF Kinds, Owners
  <2>9. ListsOK'
    BY <2>1 DEF ListsOK
  <2> QED  BY <2>8, <2>9
<1> QED  BY <1>2, <1>3, <1>5, <1>6, <1>7, <1>8 DEF user_step, Begin

(* In every reachable state each tasklet is where its SCHED bit says. *)
LEMMA HomesHold == Spec => [](Homes /\ ListsOK)
<1>1. Init => Homes /\ ListsOK
  <2> SUFFICES ASSUME Init  PROVE Homes /\ ListsOK
    OBVIOUS
  <2>1. /\ \A c \in Cpus, b \in Bits : vec[c][b] = EmptyHead
        /\ \A c \in Cpus : soft[c] = AtRest
        /\ \A u \in Users : upc[u] = "idle"
        /\ sched = {} /\ lost = {}
    BY DEF Init
  <2>2. /\ EmptyHead.seq = <<>> /\ AtRest.list = <<>> /\ AtRest.pc = "none"
        /\ Range(<<>>) = {} /\ Inj(<<>>)
    BY ShortLists DEF EmptyHead, AtRest
  <2>3. \A k, p, x : ~Has(p, x, k)
    BY <2>1, <2>2 DEF Has, Hand, Mine, InHand, Holding
  <2>4. Homes
    BY <2>1, <2>3 DEF Homes
  <2>5. ListsOK
    BY <2>1, <2>2 DEF ListsOK
  <2> QED  BY <2>4, <2>5
<1>2. Structure /\ Structure' /\ Homes /\ ListsOK /\ [Next]_vars => Homes' /\ ListsOK'
  <2> SUFFICES ASSUME Structure, Structure', Homes, ListsOK, [Next]_vars
               PROVE  Homes' /\ ListsOK'
    OBVIOUS
  <2>0. Types /\ (\A c \in Cpus : SoftOK(c)) /\ Traced
    <3>1. ASSUME UNCHANGED vars  PROVE Traced
      BY <3>1 DEF vars, Traced, CutOff
    <3>2. ASSUME Next  PROVE Traced
      BY <3>2 DEF Next, Traced
    <3> QED  BY <3>1, <3>2 DEF Structure
  <2>1. ASSUME UNCHANGED <<sched, vec, soft, userVars>>  PROVE Homes' /\ ListsOK'
    BY <2>0, <2>1, NothingMoves DEF Hand, Mine, userVars
  <2>2. ASSUME NEW c \in Cpus, ksoftirqd_step(c)  PROVE Homes' /\ ListsOK'
    <3>1. CASE KWork(c) /\ pending[c] # {}
      <4>1. /\ soft[c].pc = "none" /\ UNCHANGED <<sched, vec, userVars>>
            /\ Start(c, pending[c], MAX_SOFTIRQ_RESTART)
        BY <3>1 DEF KWork, MayRun, in_interrupt, taskletVars
      <4>2. /\ soft[c].list = <<>> /\ soft'[c].pc = "walk" /\ soft'[c].list = <<>>
            /\ \A d \in Cpus \ {c} : soft'[d] = soft[d]
        BY <2>0, <4>1 DEF SoftOK, Start, AtRest, Types
      <4>3. \A d \in Cpus : soft'[d].list = soft[d].list /\ Hand(d)' = Hand(d)
        BY <4>1, <4>2 DEF Hand, InHand
      <4> QED  BY <2>0, <4>1, <4>3, NothingMoves DEF Mine, userVars
    <3>2. CASE ~(KWork(c) /\ pending[c] # {})
      BY <2>1, <2>2, <3>2 DEF ksoftirqd_step, KTest, KWakes, KWork, KAgain, taskletVars
    <3> QED  BY <3>1, <3>2
  <2>3. ASSUME NEW c \in Cpus, \/ cpu_offline(c) \/ cpu_up(c)
                               \/ \E u \in Users : local_bh_disable(u, c)
        PROVE  Homes' /\ ListsOK'
    BY <2>1, <2>3 DEF cpu_offline, cpu_up, local_bh_disable, taskletVars
  <2>4. CASE UNCHANGED vars
    BY <2>1, <2>4 DEF vars, taskletVars
  <2>5. CASE Next
    BY <2>0, <2>2, <2>3, <2>5, SoftirqMoves, InterruptMoves, TakeoverMoves, UserMoves
       DEF Next, Step
  <2> QED  BY <2>4, <2>5
<1> QED  BY <1>1, <1>2, StructureCorrect, PTL DEF Spec

(* A tasklet is at one place exactly when its SCHED bit is set, unless it   *)
(* was put first and has been cut off; then it is nowhere, for ever.        *)
THEOREM OnePlace == Spec => []ScheduledAtOnePlace
<1>1. Structure /\ Homes /\ ListsOK => ScheduledAtOnePlace
  <2> SUFFICES ASSUME Structure, Homes, ListsOK, NEW k \in Tasklets
               PROVE  IF k \in lost THEN Vec[k] = "FIRST" /\ k \in sched /\ Places(k) = {}
                      ELSE Cardinality(Places(k)) = IF k \in sched THEN 1 ELSE 0
    BY DEF ScheduledAtOnePlace
  <2>0. Places(k) = Queued(k) \cup Walked(k) \cup Taken(k) \cup Held(k)
    BY DEF Places
  <2>1. \A q \in Queued(k) : \E c \in Cpus, b \in Bits : \E i \in DOMAIN vec[c][b].seq :
            q = <<"vec", c, b, i>> /\ vec[c][b].seq[i] = k
    BY DEF Queued, At
  <2>2. \A q \in Walked(k) : \E c \in Cpus : \E i \in DOMAIN soft[c].list :
            q = <<"list", c, i>> /\ soft[c].list[i] = k
    BY DEF Walked, At
  <2>3. \A q \in Taken(k) : \E c \in Cpus : q = <<"soft", c>> /\ k \in Hand(c)
    BY DEF Taken, Hand, InHand
  <2>4. \A q \in Held(k) : \E u \in Users : q = <<"user", u>> /\ k \in Mine(u)
    BY DEF Held, Mine, Holding
  <2>5. ASSUME NEW p \in Kinds, NEW x \in Owners, Has(p, x, k)  PROVE Places(k) # {}
    <3>1. CASE p \in Bits /\ x \in Cpus /\ k \in Range(vec[x][p].seq)
      <4>1. PICK i \in DOMAIN vec[x][p].seq : vec[x][p].seq[i] = k
        BY <3>1 DEF Range
      <4> DEFINE F(d, e) == {<<"vec", d, e, j>> : j \in At(vec[d][e].seq, k)}
      <4>2. <<"vec", x, p, i>> \in F(x, p)
        BY <4>1 DEF At
      <4>3. Queued(k) = UNION {F(d, e) : d \in Cpus, e \in Bits}
        BY DEF Queued
      <4> HIDE DEF F
      <4>4. F(x, p) \in {F(d, e) : d \in Cpus, e \in Bits}
        BY <3>1
      <4> QED  BY <2>0, <4>2, <4>3, <4>4
    <3>2. CASE p = "list" /\ x \in Cpus /\ k \in Range(soft[x].list)
      <4>1. PICK i \in DOMAIN soft[x].list : soft[x].list[i] = k
        BY <3>2 DEF Range
      <4>2. <<"list", x, i>> \in Walked(k)
        BY <3>2, <4>1 DEF Walked, At
      <4> QED  BY <2>0, <4>2
    <3>3. CASE p = "soft" /\ x \in Cpus /\ k \in Hand(x)
      <4>1. <<"soft", x>> \in Taken(k)
        BY <3>3 DEF Taken, Hand, InHand
      <4> QED  BY <2>0, <4>1
    <3>4. CASE p = "user" /\ x \in Users /\ k \in Mine(x)
      <4>1. <<"user", x>> \in Held(k)
        BY <3>4 DEF Held, Mine, Holding
      <4> QED  BY <2>0, <4>1
    <3> QED  BY <2>5, <3>1, <3>2, <3>3, <3>4 DEF Has
  <2>6. ASSUME NEW q \in Places(k)
        PROVE  \E p \in Kinds, x \in Owners :
                  /\ Has(p, x, k)
                  /\ \/ p \in Bits /\ x \in Cpus /\ \E i \in DOMAIN vec[x][p].seq :
                           q = <<"vec", x, p, i>> /\ vec[x][p].seq[i] = k
                     \/ p = "list" /\ x \in Cpus /\ \E i \in DOMAIN soft[x].list :
                           q = <<"list", x, i>> /\ soft[x].list[i] = k
                     \/ p = "soft" /\ q = <<"soft", x>>
                     \/ p = "user" /\ q = <<"user", x>>
    <3>1. CASE q \in Queued(k)
      BY <2>1, <3>1 DEF Kinds, Owners, Has, Range
    <3>2. CASE q \in Walked(k)
      BY <2>2, <3>2 DEF Kinds, Owners, Has, Range
    <3>3. CASE q \in Taken(k)
      BY <2>3, <3>3 DEF Kinds, Owners, Has
    <3>4. CASE q \in Held(k)
      BY <2>4, <3>4 DEF Kinds, Owners, Has
    <3> QED  BY <2>0, <3>1, <3>2, <3>3, <3>4
  <2>7. ASSUME NEW q \in Places(k), NEW r \in Places(k)  PROVE q = r
    <3>1. PICK p \in Kinds, x \in Owners :
                  /\ Has(p, x, k)
                  /\ \/ p \in Bits /\ x \in Cpus /\ \E i \in DOMAIN vec[x][p].seq :
                           q = <<"vec", x, p, i>> /\ vec[x][p].seq[i] = k
                     \/ p = "list" /\ x \in Cpus /\ \E i \in DOMAIN soft[x].list :
                           q = <<"list", x, i>> /\ soft[x].list[i] = k
                     \/ p = "soft" /\ q = <<"soft", x>>
                     \/ p = "user" /\ q = <<"user", x>>
      BY <2>6
    <3>2. PICK p2 \in Kinds, x2 \in Owners :
                  /\ Has(p2, x2, k)
                  /\ \/ p2 \in Bits /\ x2 \in Cpus /\ \E i \in DOMAIN vec[x2][p2].seq :
                           r = <<"vec", x2, p2, i>> /\ vec[x2][p2].seq[i] = k
                     \/ p2 = "list" /\ x2 \in Cpus /\ \E i \in DOMAIN soft[x2].list :
                           r = <<"list", x2, i>> /\ soft[x2].list[i] = k
                     \/ p2 = "soft" /\ r = <<"soft", x2>>
                     \/ p2 = "user" /\ r = <<"user", x2>>
      BY <2>6
    <3>3. p2 = p /\ x2 = x
      BY <3>1, <3>2 DEF Homes
    <3>4. CASE p \in Bits
      <4>1. x \in Cpus /\ Inj(vec[x][p].seq)
        BY <3>1, <3>4 DEF ListsOK, Bits
      <4>2. PICK i \in DOMAIN vec[x][p].seq : q = <<"vec", x, p, i>> /\ vec[x][p].seq[i] = k
        BY <3>1, <3>4 DEF Bits
      <4>3. PICK j \in DOMAIN vec[x][p].seq : r = <<"vec", x, p, j>> /\ vec[x][p].seq[j] = k
        BY <3>2, <3>3, <3>4 DEF Bits
      <4> QED  BY <4>1, <4>2, <4>3 DEF Inj
    <3>5. CASE p = "list"
      <4>1. x \in Cpus /\ Inj(soft[x].list)
        BY <3>1, <3>5 DEF ListsOK, Bits
      <4>2. PICK i \in DOMAIN soft[x].list : q = <<"list", x, i>> /\ soft[x].list[i] = k
        BY <3>1, <3>5 DEF Bits
      <4>3. PICK j \in DOMAIN soft[x].list : r = <<"list", x, j>> /\ soft[x].list[j] = k
        BY <3>2, <3>3, <3>5 DEF Bits
      <4> QED  BY <4>1, <4>2, <4>3 DEF Inj
    <3>6. CASE p \in {"soft", "user"}
      BY <3>1, <3>2, <3>3, <3>6 DEF Bits
    <3> QED  BY <3>4, <3>5, <3>6 DEF Kinds
  <2>8. CASE Places(k) = {}
    <3>1. Cardinality(Places(k)) = 0
      BY <2>8, FS_EmptySet
    <3>2. \A p \in Kinds, x \in Owners : ~Has(p, x, k)
      BY <2>5, <2>8
    <3>3. IF k \in lost THEN Vec[k] = "FIRST" /\ k \in sched ELSE k \notin sched
      BY <3>2 DEF Homes
    <3> QED  BY <2>8, <3>1, <3>3
  <2>9. CASE Places(k) # {}
    <3>1. PICK q : q \in Places(k)
      BY <2>9
    <3>2. Places(k) = {q}
      BY <2>7, <3>1
    <3>3. Cardinality(Places(k)) = 1
      BY <3>2, FS_Singleton
    <3>4. k \in sched /\ k \notin lost
      BY <2>6, <3>1 DEF Homes
    <3> QED  BY <3>3, <3>4
  <2> QED  BY <2>8, <2>9
<1> QED  BY <1>1, HomesHold, StructureCorrect, PTL
-----------------------------------------------------------------------------
(* The RUN bit. *)

(* Who is past tasklet_trylock() holds the bit, alone. *)
RunOK ==
    /\ \A c \in Cpus : soft[c].pc \in Working => soft[c].t \in run
    /\ \A c, d \in Cpus :
          soft[c].pc \in Working /\ soft[d].pc \in Working /\ soft[c].t = soft[d].t => c = d

(* What a step does to the contexts: tasklets in work stay in work, at most *)
(* one step further ...                                                     *)
Keeps ==
    /\ run' = run
    /\ \A c \in Cpus : soft'[c].pc \in Working =>
          /\ soft'[c].t = soft[c].t
          /\ \/ soft'[c].pc = soft[c].pc
             \/ soft[c].pc = "clear" /\ soft'[c].pc = "func"
             \/ /\ soft[c].pc = "count" /\ soft'[c].pc # "func" /\ UNCHANGED userVars
                /\ soft'[c].pc = "clear" => count[soft[c].t] = 0

(* ... or one is locked ... *)
Locks(c, k) ==
    /\ k \notin run /\ run' = run \cup {k}
    /\ soft'[c].pc = "count" /\ soft'[c].t = k
    /\ \A d \in Cpus \ {c} : soft'[d] = soft[d]
    /\ UNCHANGED userVars

(* ... or unlocked. *)
Unlocks(c) ==
    /\ soft[c].pc \in Working /\ run' = run \ {soft[c].t}
    /\ soft'[c].pc = "walk"
    /\ \A d \in Cpus \ {c} : soft'[d] = soft[d]
    /\ UNCHANGED userVars

(* A softirq that starts has no tasklet in work. *)
LEMMA StartKeeps ==
    ASSUME Types, NEW c \in Cpus, NEW bits, NEW r, Start(c, bits, r), run' = run
    PROVE  Keeps
<1>1. soft'[c].pc = "walk" /\ \A d \in Cpus \ {c} : soft'[d] = soft[d]
  BY DEF Start, AtRest, Types
<1> QED  BY <1>1 DEF Keeps, Working

(* Every step is one of these. *)
LEMMA StepsOfContexts ==
    ASSUME Structure, [Next]_vars
    PROVE  Keeps \/ \E c \in Cpus : Unlocks(c) \/ \E k \in Tasklets : Locks(c, k)
<1>0. Types /\ soft \in [Cpus -> Contexts]
  BY DEF Structure, Types
<1>1. ASSUME UNCHANGED <<soft, run>>  PROVE Keeps
  BY <1>1 DEF Keeps
<1>2. ASSUME NEW c \in Cpus, do_softirq_step(c)
      PROVE  Keeps \/ Unlocks(c) \/ \E k \in Tasklets : Locks(c, k)
  <2>1. CASE tasklet_action(c)
    <3>1. run' = run /\ \A d \in Cpus : soft'[d].pc = soft[d].pc /\ soft'[d].t = soft[d].t
      BY <1>0, <2>1 DEF tasklet_action, taskletVars, Contexts
    <3> QED  BY <3>1 DEF Keeps
  <2>2. CASE EndOfSoftirq(c)
    <3>1. CASE pending[c] # {} /\ MayRestart(c)
      BY <1>0, <2>2, <3>1, StartKeeps DEF EndOfSoftirq, taskletVars
    <3>2. CASE ~(pending[c] # {} /\ MayRestart(c))
      <4>1. /\ run' = run /\ soft'[c].pc = "none"
            /\ \A d \in Cpus \ {c} : soft'[d] = soft[d]
        BY <1>0, <2>2, <3>2 DEF EndOfSoftirq, taskletVars, AtRest
      <4> QED  BY <4>1 DEF Keeps, Working
    <3> QED  BY <3>1, <3>2
  <2>3. CASE Trylock(c)
    <3> DEFINE k == Head(soft[c].list)
    <3>0. soft[c].list \in Seq(Tasklets) /\ soft[c].list # <<>>
      BY <1>0, <2>3 DEF Trylock, Contexts
    <3>1. CASE k \notin run
      <4>1. /\ soft' = [soft EXCEPT ![c].list = Tail(@), ![c].t = k, ![c].pc = "count"]
            /\ run' = run \cup {k} /\ UNCHANGED userVars
        BY <2>3, <3>1 DEF Trylock, tasklet_trylock
      <4>2. k \in Tasklets
        BY <3>0
      <4> HIDE DEF k
      <4>3. /\ soft'[c].pc = "count" /\ soft'[c].t = k
            /\ \A d \in Cpus \ {c} : soft'[d] = soft[d]
        BY <1>0, <4>1 DEF Contexts
      <4> QED  BY <3>1, <4>1, <4>2, <4>3 DEF Locks
    <3>2. CASE k \in run
      <4>1. run' = run /\ soft' = [soft EXCEPT ![c].list = Tail(@)]
        BY <2>3, <3>2 DEF Trylock, tasklet_trylock
      <4>2. \A d \in Cpus : soft'[d].pc = soft[d].pc /\ soft'[d].t = soft[d].t
        BY <1>0, <4>1 DEF Contexts
      <4> QED  BY <4>1, <4>2 DEF Keeps
    <3> QED  BY <3>1, <3>2
  <2>4. CASE ReadCount(c)
    <3>1. /\ run' = run /\ UNCHANGED userVars /\ soft[c].pc = "count"
          /\ \A d \in Cpus : soft'[d].t = soft[d].t
          /\ \A d \in Cpus \ {c} : soft'[d].pc = soft[d].pc
          /\ soft'[c].pc = IF count[soft[c].t] = 0 THEN "clear" ELSE "unlock"
      BY <1>0, <2>4 DEF ReadCount, taskletVars, Contexts
    <3> QED  BY <3>1 DEF Keeps
  <2>5. CASE ClearSched(c)
    <3>1. /\ run' = run /\ soft[c].pc = "clear"
          /\ \A d \in Cpus : soft'[d].t = soft[d].t
          /\ \A d \in Cpus \ {c} : soft'[d].pc = soft[d].pc
          /\ soft'[c].pc = "func"
      BY <1>0, <2>5 DEF ClearSched, Contexts
    <3> QED  BY <3>1 DEF Keeps
  <2>6. CASE tasklet_unlock(c)
    <3>1. /\ soft[c].pc \in Working /\ run' = run \ {soft[c].t} /\ UNCHANGED userVars
          /\ soft' = [soft EXCEPT ![c].pc = "walk", ![c].t = NULL]
      BY <2>6 DEF tasklet_unlock, Working
    <3>2. soft'[c].pc = "walk" /\ \A d \in Cpus \ {c} : soft'[d] = soft[d]
      BY <1>0, <3>1 DEF Contexts
    <3> QED  BY <3>1, <3>2 DEF Unlocks
  <2> QED  BY <1>2, <2>1, <2>2, <2>3, <2>4, <2>5, <2>6 DEF do_softirq_step
<1>3. ASSUME NEW c \in Cpus,
             \/ ksoftirqd_step(c)
             \/ \E k \in Tasklets : FuncSchedules(c, k) \/ tasklet_hi_schedule_first(c, k)
             \/ \E S \in {{}} \cup {{k} : k \in Tasklets} : Interrupt(c, S)
             \/ \E u \in Users : local_bh_disable(u, c)
             \/ cpu_offline(c) \/ cpu_up(c)
             \/ \E d \in Cpus : takeover_tasklets(c, d)
      PROVE  Keeps
  <2>1. CASE ksoftirqd_step(c)
    <3>1. /\ run' = run
          /\ UNCHANGED soft \/ \E bits, r : Start(c, bits, r)
      BY <2>1 DEF ksoftirqd_step, KTest, KWakes, KWork, KAgain, taskletVars
    <3> QED  BY <1>0, <1>1, <3>1, StartKeeps
  <2>2. ASSUME NEW S \in {{}} \cup {{k} : k \in Tasklets}, Interrupt(c, S)  PROVE Keeps
    <3>1. /\ run' = run
          /\ UNCHANGED soft \/ \E bits, r : Start(c, bits, r)
      BY <2>2, Zenon DEF Interrupt
    <3> QED  BY <1>0, <1>1, <3>1, StartKeeps
  <2>3. ASSUME NEW k \in Tasklets, FuncSchedules(c, k) \/ tasklet_hi_schedule_first(c, k)
        PROVE  Keeps
    BY <1>1, <2>3 DEF FuncSchedules, tasklet_hi_schedule_first
  <2>4. CASE cpu_offline(c) \/ cpu_up(c) \/ \E d \in Cpus : takeover_tasklets(c, d)
    BY <1>1, <2>4 DEF cpu_offline, cpu_up, takeover_tasklets, taskletVars
  <2>5. CASE \E u \in Users : local_bh_disable(u, c)
    BY <1>1, <2>5 DEF local_bh_disable, taskletVars
  <2> QED  BY <1>3, <2>1, <2>2, <2>3, <2>4, <2>5
<1>4. ASSUME NEW u \in Users, user_step(u) \/ \E k \in Tasklets : Begin(u, k)
      PROVE  Keeps
  <2>1. ASSUME NEW c \in Cpus, local_bh_enable(u, c)  PROVE Keeps
    <3>1. /\ run' = run
          /\ UNCHANGED soft \/ \E bits, r : Start(c, bits, r)
      BY <2>1 DEF local_bh_enable, taskletVars
    <3> QED  BY <1>0, <1>1, <3>1, StartKeeps
  <2>2. ASSUME NEW c \in Cpus, __tasklet_schedule(u, c)  PROVE Keeps
    BY <1>1, <2>2 DEF __tasklet_schedule, taskletVars
  <2>3. CASE tasklet_disable(u) \/ tasklet_enable(u) \/ KillWaited(u) \/ KillClear(u)
    BY <1>1, <2>3 DEF tasklet_disable, tasklet_enable, KillWaited, KillClear, taskletVars
  <2>4. CASE \E k \in Tasklets : Begin(u, k)
    BY <1>1, <2>4 DEF Begin, tasklet_schedule, tasklet_disable_nosync, tasklet_kill
  <2> QED  BY <1>4, <2>1, <2>2, <2>3, <2>4 DEF user_step
<1>5. CASE UNCHANGED vars
  BY <1>1, <1>5 DEF vars, taskletVars
<1>6. CASE Next
  BY <1>2, <1>3, <1>4, <1>6 DEF Next, Step
<1> QED  BY <1>5, <1>6

(* The RUN bit is held by exactly one CPU at a time. *)
LEMMA RunStep ==
    ASSUME Structure, Structure', RunOK, [Next]_vars
    PROVE  RunOK'
<1>1. CASE Keeps
  <2>1. \A c \in Cpus : soft'[c].pc \in Working => soft[c].pc \in Working /\ soft'[c].t = soft[c].t
    BY <1>1 DEF Keeps, Working
  <2> QED  BY <1>1, <2>1 DEF RunOK, Keeps
<1>2. ASSUME NEW c \in Cpus, NEW k \in Tasklets, Locks(c, k)  PROVE RunOK'
  BY <1>2 DEF Locks, RunOK
<1>3. ASSUME NEW c \in Cpus, Unlocks(c)  PROVE RunOK'
  <2>1. soft'[c].pc \notin Working
    BY <1>3 DEF Unlocks, Working
  <2> QED  BY <1>3, <2>1 DEF Unlocks, RunOK
<1> QED  BY <1>1, <1>2, <1>3, StepsOfContexts

(* In every reachable state the RUN bit has one holder. *)
LEMMA RunHolds == Spec => []RunOK
<1>1. Init => RunOK
  BY DEF Init, RunOK, AtRest, Working
<1>2. Structure /\ Structure' /\ RunOK /\ [Next]_vars => RunOK'
  BY RunStep
<1> QED  BY <1>1, <1>2, StructureCorrect, PTL DEF Spec
-----------------------------------------------------------------------------
(* The count. *)

Disablers(k) == {u \in Users : upc[u] \in Disabling /\ uarg[u] = k}

(* t->count is the number of tasks that have the tasklet disabled. *)
CountOK == \A k \in Tasklets : count[k] = Cardinality(Disablers(k))

(* A step in which nobody becomes or ceases to be a disabler. *)
LEMMA SameDisablers ==
    ASSUME CountOK, count' = count,
           \A u \in Users : \/ upc'[u] \in Disabling /\ upc[u] \in Disabling /\ uarg'[u] = uarg[u]
                            \/ upc'[u] \notin Disabling /\ upc[u] \notin Disabling
    PROVE  CountOK'
<1>1. \A k \in Tasklets : Disablers(k)' = Disablers(k)
  BY DEF Disablers
<1> QED  BY <1>1 DEF CountOK

(* One more, one less. *)
LEMMA OneMoreOrLess ==
    ASSUME Structure, CountOK, NEW u \in Users, NEW k \in Tasklets,
           \A w \in Users \ {u} : upc'[w] = upc[w] /\ uarg'[w] = uarg[w],
           \/ /\ upc[u] \notin Disabling
              /\ upc'[u] \in Disabling /\ uarg'[u] = k
              /\ count' = [count EXCEPT ![k] = @ + 1]
           \/ /\ upc[u] \in Disabling /\ uarg[u] = k
              /\ upc'[u] \notin Disabling
              /\ count' = [count EXCEPT ![k] = @ - 1]
    PROVE  CountOK'
<1>0. count \in [Tasklets -> Int]
  BY DEF Structure, Types
<1>1. \A j \in Tasklets \ {k} : Disablers(j)' = Disablers(j) /\ count'[j] = count[j]
  BY <1>0 DEF Disablers
<1>2. IsFiniteSet(Disablers(k)) /\ Cardinality(Disablers(k)) \in Nat
  <2>1. Disablers(k) \subseteq Users
    BY DEF Disablers
  <2>2. IsFiniteSet(Disablers(k))
    BY <2>1, SoftirqAssumption, FS_Subset
  <2> QED  BY <2>2, FS_CardinalityType
<1>3. CASE upc[u] \notin Disabling
  <2>1. /\ u \notin Disablers(k) /\ Disablers(k)' = Disablers(k) \cup {u}
        /\ count'[k] = count[k] + 1
    BY <1>0, <1>3 DEF Disablers
  <2>2. Cardinality(Disablers(k) \cup {u}) = Cardinality(Disablers(k)) + 1
    BY <1>2, <2>1, FS_AddElement
  <2> QED  BY <1>1, <2>1, <2>2 DEF CountOK
<1>4. CASE upc[u] \in Disabling
  <2>1. /\ u \in Disablers(k) /\ Disablers(k)' = Disablers(k) \ {u}
        /\ count'[k] = count[k] - 1
    BY <1>0, <1>4 DEF Disablers
  <2>2. Cardinality(Disablers(k) \ {u}) = Cardinality(Disablers(k)) - 1
    BY <1>2, <2>1, FS_RemoveElement
  <2> QED  BY <1>1, <2>1, <2>2 DEF CountOK
<1> QED  BY <1>3, <1>4

(* What a step does to the users' places: nothing, or one goes elsewhere. *)
LEMMA CountStep ==
    ASSUME Structure, Structure', CountOK, [Next]_vars
    PROVE  CountOK'
<1>0. Types /\ \A u \in Users : UserOK(u)
  BY DEF Structure
<1>1. ASSUME UNCHANGED <<count, userVars>>  PROVE CountOK'
  BY <1>1, SameDisablers DEF userVars
<1>2. ASSUME NEW u \in Users, NEW where, NEW k, UGoto(u, where, k), count' = count,
             \/ upc[u] \notin Disabling /\ where \notin Disabling
             \/ upc[u] \in Disabling /\ where \in Disabling /\ k = uarg[u]
      PROVE  CountOK'
  BY <1>0, <1>2, SameDisablers DEF UGoto, Types
<1>3. ASSUME NEW c \in Cpus,
             \/ do_softirq_step(c) \/ ksoftirqd_step(c)
             \/ \E k \in Tasklets : FuncSchedules(c, k) \/ tasklet_hi_schedule_first(c, k)
             \/ \E u \in Users : local_bh_disable(u, c)
             \/ cpu_offline(c) \/ cpu_up(c)
             \/ \E d \in Cpus : takeover_tasklets(c, d)
      PROVE  CountOK'
  <2>1. CASE do_softirq_step(c)
    BY <1>1, <2>1, Zenon DEF do_softirq_step, tasklet_action, EndOfSoftirq, Trylock, ReadCount,
         ClearSched, tasklet_unlock, taskletVars
  <2>2. CASE ksoftirqd_step(c)
    BY <1>1, <2>2 DEF ksoftirqd_step, KTest, KWakes, KWork, KAgain, taskletVars
  <2>3. CASE \E k \in Tasklets : FuncSchedules(c, k) \/ tasklet_hi_schedule_first(c, k)
    BY <1>1, <2>3 DEF FuncSchedules, tasklet_hi_schedule_first
  <2>4. CASE \/ cpu_offline(c) \/ cpu_up(c)
             \/ \E d \in Cpus : takeover_tasklets(c, d)
             \/ \E u \in Users : local_bh_disable(u, c)
    BY <1>1, <2>4, Zenon DEF cpu_offline, cpu_up, takeover_tasklets, local_bh_disable, taskletVars
  <2> QED  BY <1>3, <2>1, <2>2, <2>3, <2>4
<1>4. ASSUME NEW c \in Cpus, NEW S, Interrupt(c, S)  PROVE CountOK'
  BY <1>1, <1>4, Zenon DEF Interrupt
<1>5. ASSUME NEW u \in Users, user_step(u)  PROVE CountOK'
  <2>1. ASSUME NEW c \in Cpus, local_bh_enable(u, c)  PROVE CountOK'
    BY <1>1, <2>1 DEF local_bh_enable, taskletVars
  <2>2. ASSUME NEW c \in Cpus, __tasklet_schedule(u, c)  PROVE CountOK'
    BY <1>2, <2>2 DEF __tasklet_schedule, taskletVars, Disabling
  <2>3. CASE tasklet_disable(u)
    BY <1>2, <2>3 DEF tasklet_disable, taskletVars, Disabling
  <2>4. CASE KillWaited(u) \/ KillClear(u)
    BY <1>2, <2>4 DEF KillWaited, KillClear, taskletVars, Disabling
  <2>5. CASE tasklet_enable(u)
    <3>1. /\ upc[u] \in Disabling /\ uarg[u] \in Tasklets
          /\ count' = [count EXCEPT ![uarg[u]] = @ - 1]
      BY <1>0, <2>5 DEF tasklet_enable, CountDown, Disabling, UserOK
    <3>2. /\ upc'[u] \notin Disabling
          /\ \A w \in Users \ {u} : upc'[w] = upc[w] /\ uarg'[w] = uarg[w]
      BY <1>0, <2>5 DEF tasklet_enable, Disabling, UGoto, Types
    <3> QED  BY <3>1, <3>2, OneMoreOrLess
  <2> QED  BY <1>5, <2>1, <2>2, <2>3, <2>4, <2>5 DEF user_step
<1>6. ASSUME NEW u \in Users, NEW k \in Tasklets, Begin(u, k)  PROVE CountOK'
  <2>1. CASE tasklet_schedule(u, k) \/ tasklet_kill(u, k)
    BY <1>2, <2>1 DEF tasklet_schedule, tasklet_kill, Disabling
  <2>2. CASE tasklet_disable_nosync(u, k)
    <3>1. /\ upc[u] \notin Disabling /\ upc'[u] \in Disabling /\ uarg'[u] = k
          /\ count' = [count EXCEPT ![k] = @ + 1]
          /\ \A w \in Users \ {u} : upc'[w] = upc[w] /\ uarg'[w] = uarg[w]
      BY <1>0, <2>2 DEF tasklet_disable_nosync, Disabling, UGoto, Types
    <3> QED  BY <3>1, OneMoreOrLess
  <2> QED  BY <1>6, <2>1, <2>2 DEF Begin
<1>7. CASE UNCHANGED vars
  BY <1>1, <1>7 DEF vars, taskletVars
<1>8. CASE Next
  BY <1>3, <1>4, <1>5, <1>6, <1>8 DEF Next, Step
<1> QED  BY <1>7, <1>8

(* In every reachable state the count is right. *)
LEMMA CountHolds == Spec => []CountOK
<1>1. Init => CountOK
  <2> SUFFICES ASSUME Init, NEW k \in Tasklets  PROVE count[k] = Cardinality(Disablers(k))
    BY DEF CountOK
  <2>1. Disablers(k) = {} /\ count[k] = 0
    BY DEF Disablers, Init, Disabling
  <2> QED  BY <2>1, FS_EmptySet
<1>2. Structure /\ Structure' /\ CountOK /\ [Next]_vars => CountOK'
  BY CountStep
<1> QED  BY <1>1, <1>2, StructureCorrect, PTL DEF Spec

(* Every reachable state has the shape TypeOK says; in particular no        *)
(* sequence of tasklet_disable() and tasklet_enable() brings the count      *)
(* below zero or above the number of tasks, and a softirq runs its vectors  *)
(* at most MAX_SOFTIRQ_RESTART times in a row.                              *)
THEOREM TypeCorrect == Spec => []TypeOK
<1>1. Structure /\ CountOK /\ Homes => TypeOK
  <2> SUFFICES ASSUME Structure, CountOK, Homes  PROVE TypeOK
    OBVIOUS
  <2>0. Types /\ (\A c \in Cpus : SoftOK(c)) /\ lost \subseteq Tasklets
    BY DEF Structure, Homes
  <2>1. ASSUME NEW k \in Tasklets  PROVE count[k] \in 0 .. Cardinality(Users)
    <3>1. Disablers(k) \subseteq Users
      BY DEF Disablers
    <3>2. /\ IsFiniteSet(Disablers(k)) /\ Cardinality(Disablers(k)) <= Cardinality(Users)
      BY <3>1, SoftirqAssumption, FS_Subset
    <3>3. Cardinality(Disablers(k)) \in Nat /\ Cardinality(Users) \in Nat
      BY <3>2, SoftirqAssumption, FS_CardinalityType
    <3> QED  BY <3>2, <3>3 DEF CountOK
  <2>2. count \in [Tasklets -> 0 .. Cardinality(Users)]
    BY <2>0, <2>1 DEF Types
  <2>3. \A c \in Cpus, b \in Bits :
           vec[c][b].seq \in Seq(Tasklets) /\ vec[c][b].atHead \in BOOLEAN
    BY <2>0 DEF Types, Heads
  <2>4. ASSUME NEW c \in Cpus
        PROVE  /\ soft[c].pc \in {"none", "walk", "count", "clear", "func", "unlock"}
               /\ soft[c].bits \subseteq Bits
               /\ soft[c].list \in Seq(Tasklets)
               /\ soft[c].restart \in IF soft[c].pc = "none" THEN {0}
                                     ELSE 1 .. MAX_SOFTIRQ_RESTART
    <3>1. soft[c] \in Contexts /\ SoftOK(c)
      BY <2>0 DEF Types
    <3>2. /\ soft[c].pc \in {"none", "walk", "count", "clear", "func", "unlock"}
          /\ soft[c].bits \subseteq Bits /\ soft[c].list \in Seq(Tasklets)
      BY <3>1 DEF Contexts, Working
    <3> QED  BY <3>1, <3>2 DEF SoftOK
  <2> QED  BY <2>0, <2>2, <2>3, <2>4 DEF TypeOK, Types
<1> QED  BY <1>1, CountHolds, HomesHold, StructureCorrect, PTL

-----------------------------------------------------------------------------
(* Serialization. *)

Quiet == {"disabled", "kill_clear"}

(* No function runs once tasklet_disable() or tasklet_kill() has waited. *)
QuietOK ==
    \A u \in Users, c \in Cpus :
       upc[u] \in Quiet /\ soft[c].t = uarg[u] => soft[c].pc \notin {"clear", "func"}

(* Who gets there has seen the RUN bit clear. *)
LEMMA QuietUsers ==
    ASSUME Structure, [Next]_vars, NEW u \in Users, upc'[u] \in Quiet
    PROVE  /\ uarg'[u] = uarg[u]
           /\ \/ upc'[u] = upc[u]
              \/ uarg[u] \notin run /\ UNCHANGED soft
<1>0. Types
  BY DEF Structure
<1>1. CASE UNCHANGED userVars
  BY <1>1 DEF userVars
<1>2. ASSUME NEW w \in Users, NEW where, NEW k, UGoto(w, where, k), where \notin Quiet
      PROVE  uarg'[u] = uarg[u] /\ upc'[u] = upc[u]
  BY <1>0, <1>2 DEF UGoto, Types
<1>3. CASE UNCHANGED vars
  BY <1>1, <1>3 DEF vars
<1>4. ASSUME NEW c \in Cpus,
             \/ do_softirq_step(c) \/ ksoftirqd_step(c)
             \/ \E k \in Tasklets : FuncSchedules(c, k) \/ tasklet_hi_schedule_first(c, k)
             \/ \E S \in {{}} \cup {{k} : k \in Tasklets} : Interrupt(c, S)
             \/ \E w \in Users : local_bh_disable(w, c)
             \/ cpu_offline(c) \/ cpu_up(c)
             \/ \E d \in Cpus : takeover_tasklets(c, d)
      PROVE  UNCHANGED userVars
  <2>1. CASE do_softirq_step(c)
    BY <2>1, Zenon DEF do_softirq_step, tasklet_action, EndOfSoftirq, Trylock, ReadCount,
         ClearSched, tasklet_unlock
  <2>2. CASE ksoftirqd_step(c)
    BY <2>2, Zenon DEF ksoftirqd_step, KTest, KWakes, KWork, KAgain
  <2>3. CASE \E k \in Tasklets : FuncSchedules(c, k) \/ tasklet_hi_schedule_first(c, k)
    BY <2>3, Zenon DEF FuncSchedules, tasklet_hi_schedule_first
  <2>4. CASE \E S \in {{}} \cup {{k} : k \in Tasklets} : Interrupt(c, S)
    BY <2>4, Zenon DEF Interrupt
  <2>5. CASE \/ cpu_offline(c) \/ cpu_up(c)
             \/ \E d \in Cpus : takeover_tasklets(c, d)
             \/ \E w \in Users : local_bh_disable(w, c)
    BY <2>5, Zenon DEF cpu_offline, cpu_up, takeover_tasklets, local_bh_disable
  <2> QED  BY <1>4, <2>1, <2>2, <2>3, <2>4, <2>5
<1>5. ASSUME NEW w \in Users, user_step(w)
      PROVE  /\ uarg'[u] = uarg[u]
             /\ \/ upc'[u] = upc[u]
                \/ uarg[u] \notin run /\ UNCHANGED soft
  <2>1. ASSUME NEW c \in Cpus, local_bh_enable(w, c)  PROVE UNCHANGED userVars
    BY <2>1, Zenon DEF local_bh_enable
  <2>2. ASSUME NEW c \in Cpus, __tasklet_schedule(w, c)
        PROVE  uarg'[u] = uarg[u] /\ upc'[u] = upc[u]
    BY <1>2, <2>2 DEF __tasklet_schedule, Quiet
  <2>3. CASE KillClear(w) \/ tasklet_enable(w)
    BY <1>2, <2>3 DEF KillClear, tasklet_enable, Quiet
  <2>4. CASE tasklet_disable(w) \/ KillWaited(w)
    BY <1>0, <2>4 DEF tasklet_disable, KillWaited, UGoto, Types
  <2> QED  BY <1>1, <1>5, <2>1, <2>2, <2>3, <2>4 DEF user_step
<1>6. ASSUME NEW w \in Users, NEW k \in Tasklets, Begin(w, k)
      PROVE  uarg'[u] = uarg[u] /\ upc'[u] = upc[u]
  BY <1>2, <1>6 DEF Begin, tasklet_schedule, tasklet_kill, tasklet_disable_nosync, Quiet
<1> QED  BY <1>1, <1>3, <1>4, <1>5, <1>6 DEF Next, Step

(* A tasklet that is disabled is not found enabled, and one whose bit       *)
(* tasklet_kill() holds is not in anybody's hands.                          *)
LEMMA NotWhileQuiet ==
    ASSUME Structure, CountOK, Homes, NEW u \in Users, NEW c \in Cpus,
           upc[u] \in Quiet, soft[c].t = uarg[u], soft[c].pc = "count"
    PROVE  count[soft[c].t] # 0
<1> DEFINE k == uarg[u]
<1>0. k \in Tasklets
  BY DEF Structure, UserOK, Quiet
<1>1. CASE upc[u] = "disabled"
  <2>1. u \in Disablers(k) /\ Disablers(k) \subseteq Users
    BY <1>1 DEF Disablers, Disabling
  <2>2. IsFiniteSet(Disablers(k))
    BY <2>1, SoftirqAssumption, FS_Subset
  <2>3. Cardinality(Disablers(k)) # 0
    BY <2>1, <2>2, FS_EmptySet
  <2> QED  BY <1>0, <2>3 DEF CountOK
<1>2. CASE upc[u] = "kill_clear"
  <2>1. k \in Mine(u) /\ k \in Hand(c)
    BY <1>2 DEF Mine, Hand, Holding, InHand
  <2>2. Has("user", u, k) /\ Has("soft", c, k)
    BY <2>1 DEF Has
  <2>3. FALSE
    BY <1>0, <2>2 DEF Homes, Kinds, Owners
  <2> QED  BY <2>3
<1> QED  BY <1>1, <1>2 DEF Quiet

(* No step starts the function of a tasklet that is to be quiet. *)
LEMMA QuietStep ==
    ASSUME Structure, Structure', CountOK, Homes, RunOK, QuietOK, [Next]_vars
    PROVE  QuietOK'
<1> SUFFICES ASSUME NEW u \in Users, NEW c \in Cpus, upc'[u] \in Quiet,
                    soft'[c].t = uarg'[u], soft'[c].pc \in {"clear", "func"}
             PROVE  FALSE
  BY DEF QuietOK, Quiet
<1>1. /\ uarg'[u] = uarg[u]
      /\ upc'[u] = upc[u] \/ (uarg[u] \notin run /\ UNCHANGED soft)
  BY QuietUsers
<1>2. CASE uarg[u] \notin run /\ UNCHANGED soft
  BY <1>1, <1>2 DEF RunOK, Working
<1>3. CASE upc'[u] = upc[u]
  <2>1. CASE Keeps
    <3>1. /\ soft[c].t = uarg[u]
          /\ \/ soft[c].pc \in {"clear", "func"}
             \/ soft[c].pc = "count" /\ count[soft[c].t] = 0
      BY <1>1, <2>1 DEF Keeps, Working
    <3> QED  BY <1>3, <3>1, NotWhileQuiet DEF QuietOK
  <2>2. ASSUME NEW d \in Cpus, NEW k \in Tasklets, Locks(d, k)  PROVE FALSE
    <3>1. c # d /\ soft'[c] = soft[c]
      BY <2>2 DEF Locks
    <3> QED  BY <1>1, <1>3, <3>1 DEF QuietOK
  <2>3. ASSUME NEW d \in Cpus, Unlocks(d)  PROVE FALSE
    <3>1. c # d /\ soft'[c] = soft[c]
      BY <2>3 DEF Unlocks
    <3> QED  BY <1>1, <1>3, <3>1 DEF QuietOK
  <2> QED  BY <2>1, <2>2, <2>3, StepsOfContexts
<1> QED  BY <1>1, <1>2, <1>3

(* A tasklet's function runs on at most one CPU, and on none once           *)
(* tasklet_disable() has returned or tasklet_kill() has waited for it.      *)
THEOREM SerializedCorrect == Spec => []Serialized
<1>1. Init => QuietOK
  BY DEF Init, QuietOK, Quiet
<1>2. Structure /\ Structure' /\ CountOK /\ Homes /\ RunOK /\ QuietOK /\ [Next]_vars => QuietOK'
  BY QuietStep
<1>3. Structure /\ RunOK /\ QuietOK => Serialized
  <2> SUFFICES ASSUME Structure, RunOK, QuietOK  PROVE Serialized
    OBVIOUS
  <2>1. ASSUME NEW k \in Tasklets  PROVE Cardinality(Running(k)) <= 1
    <3>1. \A c, d \in Running(k) : c = d
      BY DEF Running, RunOK, Working
    <3>2. CASE Running(k) = {}
      BY <3>2, FS_EmptySet
    <3>3. CASE Running(k) # {}
      <4>1. PICK c : c \in Running(k)
        BY <3>3
      <4>2. Running(k) = {c}
        BY <3>1, <4>1
      <4>3. Cardinality(Running(k)) = 1
        BY <4>2, FS_Singleton
      <4> QED  BY <4>3
    <3> QED  BY <3>2, <3>3
  <2>2. \A u \in Users : upc[u] \in Quiet => Running(uarg[u]) = {}
    BY DEF QuietOK, Running
  <2> QED  BY <2>1, <2>2 DEF Serialized, Quiet
<1> QED  BY <1>1, <1>2, <1>3, StructureCorrect, CountHolds, HomesHold, RunHolds, PTL DEF Spec
-----------------------------------------------------------------------------
(* Nothing is stranded. *)

(* The list of vector b on CPU c holds a tasklet that was not put first. *)
Ordinary(c, b) == \E k \in Range(vec[c][b].seq) : Vec[k] # "FIRST"

Looked(c) ==
    \A b \in Bits : Ordinary(c, b) =>
       Attended(c) /\ (c \in online => b \in pending[c] \cup soft[c].bits)

(* Nothing about CPU d changes. *)
Same(d) ==
    /\ vec'[d] = vec[d] /\ pending'[d] = pending[d] /\ soft'[d] = soft[d] /\ bh'[d] = bh[d]
    /\ kstate'[d] = kstate[d] /\ kpc'[d] = kpc[d]
    /\ d \in online' <=> d \in online

(* A CPU that a step does not touch stays looked after. *)
LEMMA Elsewhere ==
    ASSUME NEW d \in Cpus, Looked(d), Same(d)
    PROVE  Looked(d)'
BY DEF Looked, Same, Ordinary, Attended, in_interrupt

(* A tasklet added to a list joins what is there. *)
LEMMA AddTailRange ==
    ASSUME NEW h \in Heads, NEW s \in Seq(Tasklets)
    PROVE  Range(AddTail(h, s).seq) \subseteq Range(h.seq) \cup Range(s)
<1>1. h.seq \in Seq(Tasklets)
  BY DEF Heads
<1>2. Range(h.seq \o s) = Range(h.seq) \cup Range(s)
  BY <1>1, JoinLists
<1> QED  BY <1>2 DEF AddTail

(* After tasklet k is queued only its vector holds something new. *)
LEMMA QueueLooked ==
    ASSUME Structure, NEW c \in Cpus, NEW k \in Tasklets, Queue(c, k)
    PROVE  /\ \A b \in Bits : Ordinary(c, b)' => Ordinary(c, b) \/ b = Bit(k)
           /\ \A d \in Cpus \ {c} : vec'[d] = vec[d]
<1>0. vec \in [Cpus -> [Bits -> Heads]] /\ Bit(k) \in Bits /\ vec[c][Bit(k)] \in Heads
  BY BitType DEF Structure, Types
<1>1. \A b \in Bits \ {Bit(k)} : vec'[c][b] = vec[c][b]
  BY <1>0 DEF Queue
<1>2. \A d \in Cpus \ {c} : vec'[d] = vec[d]
  BY <1>0 DEF Queue
<1> QED  BY <1>1, <1>2 DEF Ordinary

(* A CPU that starts a softirq looks at what was pending. *)
LEMMA StartLooked ==
    ASSUME Structure, NEW c \in Cpus, NEW bits, NEW r, Start(c, bits, r),
           \A b \in Bits : Ordinary(c, b)' => b \in bits
    PROVE  Looked(c)'
<1>1. soft'[c].pc = "walk" /\ soft'[c].bits = bits
  BY DEF Structure, Types, Start, AtRest
<1> QED  BY <1>1 DEF Looked, Attended, in_interrupt

(* A CPU at rest has the bit of every ordinary tasklet pending. *)
LEMMA RestLooked ==
    ASSUME Structure, NEW c \in Cpus, Looked(c), c \in online, soft[c].bits = {}
    PROVE  \A b \in Bits : Ordinary(c, b) => b \in pending[c]
BY DEF Looked

(* The steps of __do_softirq(). *)
LEMMA SoftirqLooked ==
    ASSUME Structure, Structure', ListsOK, \A d \in Cpus : Looked(d),
           NEW c \in Cpus, do_softirq_step(c)
    PROVE  \A d \in Cpus : Looked(d)'
<1>0. /\ Types /\ SoftOK(c) /\ SoftOK(c)' /\ soft \in [Cpus -> Contexts]
      /\ vec \in [Cpus -> [Bits -> Heads]] /\ pending \in [Cpus -> SUBSET Bits]
  BY DEF Structure, Types
<1>1. CASE tasklet_action(c)
  <2>1. PICK b0 \in Bits :
        /\ soft[c].pc = "walk"
        /\ soft' = [soft EXCEPT ![c].bits = @ \ {b0}, ![c].list = vec[c][b0].seq]
        /\ vec' = [vec EXCEPT ![c][b0] = EmptyHead]
        /\ UNCHANGED <<taskletVars, pending, bh, kVars, online, userVars>>
    BY <1>1 DEF tasklet_action, Bits
  <2>2. /\ soft'[c].pc = "walk" /\ soft'[c].bits = soft[c].bits \ {b0}
        /\ \A d \in Cpus \ {c} : soft'[d] = soft[d]
    BY <1>0, <2>1 DEF Contexts
  <2>3. /\ vec'[c][b0].seq = <<>> /\ \A b \in Bits \ {b0} : vec'[c][b] = vec[c][b]
        /\ \A d \in Cpus \ {c} : vec'[d] = vec[d]
    BY <1>0, <2>1 DEF EmptyHead
  <2>4. Range(<<>>) = {}
    BY ShortLists
  <2>5. ~Ordinary(c, b0)' /\ \A b \in Bits \ {b0} : Ordinary(c, b)' => Ordinary(c, b)
    BY <2>3, <2>4 DEF Ordinary
  <2>6. Looked(c)'
    BY <2>1, <2>2, <2>5 DEF Looked, Attended, in_interrupt
  <2>7. ASSUME NEW d \in Cpus \ {c}  PROVE Looked(d)'
    BY <2>1, <2>2, <2>3, Elsewhere DEF Same, kVars
  <2> QED  BY <2>6, <2>7
<1>2. CASE EndOfSoftirq(c)
  <2>1. /\ soft[c].pc = "walk" /\ soft[c].bits = {} /\ c \in online
        /\ UNCHANGED <<taskletVars, vec, bh, kpc, online, userVars>>
    BY <1>0, <1>2 DEF EndOfSoftirq, SoftOK
  <2>2. \A b \in Bits : Ordinary(c, b)' => Ordinary(c, b) /\ b \in pending[c]
    BY <2>1, RestLooked DEF Ordinary
  <2>3. CASE pending[c] # {} /\ MayRestart(c)
    <3>1. Start(c, pending[c], soft[c].restart - 1) /\ UNCHANGED kstate
      BY <1>2, <2>3 DEF EndOfSoftirq
    <3>2. \A d \in Cpus \ {c} : soft'[d] = soft[d] /\ pending'[d] = pending[d]
      BY <1>0, <3>1 DEF Start
    <3>3. \A d \in Cpus \ {c} : Looked(d)'
      BY <2>1, <3>1, <3>2, Elsewhere DEF Same
    <3> QED  BY <2>2, <3>1, <3>3, StartLooked
  <2>4. CASE ~(pending[c] # {} /\ MayRestart(c))
    <3>1. /\ soft' = [soft EXCEPT ![c] = AtRest] /\ UNCHANGED pending
          /\ IF pending[c] # {} THEN wakeup_softirqd(c) ELSE UNCHANGED kstate
      BY <1>2, <2>4 DEF EndOfSoftirq
    <3>2. \A d \in Cpus \ {c} : soft'[d] = soft[d] /\ kstate'[d] = kstate[d]
      BY <1>0, <3>1 DEF wakeup_softirqd, Types
    <3>3. \A d \in Cpus \ {c} : Looked(d)'
      BY <2>1, <3>1, <3>2, Elsewhere DEF Same
    <3>4. pending[c] # {} => kstate'[c]
      BY <1>0, <3>1 DEF wakeup_softirqd, Types
    <3>5. Looked(c)'
      BY <2>1, <2>2, <3>1, <3>4 DEF Looked, Attended
    <3> QED  BY <3>3, <3>5
  <2> QED  BY <2>3, <2>4
<1>3. ASSUME UNCHANGED <<bh, kVars, online>>, soft[c].pc # "none", soft'[c].pc # "none",
             soft'[c].bits = soft[c].bits, \A d \in Cpus \ {c} : soft'[d] = soft[d],
             UNCHANGED <<vec, pending>> \/ \E k \in Tasklets : Requeue(c, k)
      PROVE  \A d \in Cpus : Looked(d)'
  <2>1. CASE UNCHANGED <<vec, pending>>
    <3>1. Looked(c)'
      BY <1>3, <2>1 DEF Looked, Attended, in_interrupt, Ordinary
    <3>2. ASSUME NEW d \in Cpus \ {c}  PROVE Looked(d)'
      BY <1>3, <2>1, Elsewhere DEF Same, kVars
    <3> QED  BY <3>1, <3>2
  <2>2. ASSUME NEW k \in Tasklets, Requeue(c, k)  PROVE \A d \in Cpus : Looked(d)'
    <3>1. /\ \A b \in Bits : Ordinary(c, b)' => Ordinary(c, b) \/ b = Bit(k)
          /\ \A d \in Cpus \ {c} : vec'[d] = vec[d]
      BY <2>2, QueueLooked DEF Requeue
    <3>2. /\ pending'[c] = pending[c] \cup {Bit(k)}
          /\ \A d \in Cpus \ {c} : pending'[d] = pending[d]
      BY <1>0, <2>2 DEF Requeue
    <3>3. Looked(c)'
      BY <1>3, <3>1, <3>2 DEF Looked, Attended, in_interrupt
    <3>4. ASSUME NEW d \in Cpus \ {c}  PROVE Looked(d)'
      BY <1>3, <3>1, <3>2, Elsewhere DEF Same, kVars
    <3> QED  BY <3>3, <3>4
  <2> QED  BY <1>3, <2>1, <2>2
<1>4. CASE Trylock(c)
  <2> DEFINE k == Head(soft[c].list)
  <2>1. /\ soft[c].list \in Seq(Tasklets) /\ soft[c].list # <<>> /\ soft[c].pc = "walk"
        /\ UNCHANGED <<bh, kVars, online>>
    BY <1>0, <1>4 DEF Trylock, Contexts
  <2>2. k \in Tasklets
    BY <2>1
  <2>3. /\ \/ soft' = [soft EXCEPT ![c].list = Tail(@), ![c].t = k, ![c].pc = "count"]
           \/ soft' = [soft EXCEPT ![c].list = Tail(@)]
        /\ UNCHANGED <<vec, pending>> \/ Requeue(c, k)
    BY <1>4 DEF Trylock
  <2> HIDE DEF k
  <2>4. /\ soft'[c].pc # "none" /\ soft'[c].bits = soft[c].bits
        /\ \A d \in Cpus \ {c} : soft'[d] = soft[d]
    BY <1>0, <2>1, <2>3 DEF Contexts
  <2> QED  BY <1>3, <2>1, <2>2, <2>3, <2>4
<1>5. CASE ReadCount(c) \/ ClearSched(c)
  <2>1. /\ soft[c].pc # "none" /\ soft'[c].pc # "none" /\ soft'[c].bits = soft[c].bits
        /\ \A d \in Cpus \ {c} : soft'[d] = soft[d]
    BY <1>0, <1>5 DEF ReadCount, ClearSched, Contexts
  <2> QED  BY <1>3, <1>5, <2>1 DEF ReadCount, ClearSched
<1>6. CASE tasklet_unlock(c)
  <2>1. /\ soft[c].pc \in {"func", "unlock"}
        /\ soft' = [soft EXCEPT ![c].pc = "walk", ![c].t = NULL]
        /\ UNCHANGED <<bh, kVars, online>>
        /\ UNCHANGED <<vec, pending>> \/ Requeue(c, soft[c].t)
    BY <1>6 DEF tasklet_unlock
  <2>2. /\ soft'[c].pc # "none" /\ soft'[c].bits = soft[c].bits
        /\ \A d \in Cpus \ {c} : soft'[d] = soft[d]
    BY <1>0, <2>1 DEF Contexts
  <2>3. soft[c].t \in Tasklets
    BY <1>0, <2>1 DEF SoftOK, Working
  <2> QED  BY <1>3, <2>1, <2>2, <2>3
<1> QED  BY <1>1, <1>2, <1>4, <1>5, <1>6 DEF do_softirq_step

(* A tasklet function, an interrupt or a trap. *)
LEMMA InterruptLooked ==
    ASSUME Structure, Structure', ListsOK, \A d \in Cpus : Looked(d), NEW c \in Cpus,
           \/ \E k \in Tasklets : FuncSchedules(c, k) \/ tasklet_hi_schedule_first(c, k)
           \/ \E S \in {{}} \cup {{k} : k \in Tasklets} : Interrupt(c, S)
    PROVE  \A d \in Cpus : Looked(d)'
<1>0. /\ Types /\ SoftOK(c) /\ soft \in [Cpus -> Contexts]
      /\ vec \in [Cpus -> [Bits -> Heads]] /\ pending \in [Cpus -> SUBSET Bits]
  BY DEF Structure, Types
<1>1. ASSUME NEW k \in Tasklets, FuncSchedules(c, k)  PROVE \A d \in Cpus : Looked(d)'
  <2>1. /\ soft[c].pc = "func" /\ UNCHANGED <<soft, bh, kpc, online>>
        /\ Queue(c, k) /\ raise_softirq_irqoff(c, {Bit(k)})
    BY <1>1 DEF FuncSchedules
  <2>2. UNCHANGED kstate
    BY <2>1 DEF raise_softirq_irqoff, in_interrupt
  <2>3. /\ \A b \in Bits : Ordinary(c, b)' => Ordinary(c, b) \/ b = Bit(k)
        /\ \A d \in Cpus \ {c} : vec'[d] = vec[d]
    BY <2>1, QueueLooked
  <2>4. /\ pending'[c] = pending[c] \cup {Bit(k)}
        /\ \A d \in Cpus \ {c} : pending'[d] = pending[d]
    BY <1>0, <2>1 DEF raise_softirq_irqoff
  <2>5. Looked(c)'
    BY <2>1, <2>3, <2>4 DEF Looked, Attended, in_interrupt
  <2>6. ASSUME NEW d \in Cpus \ {c}  PROVE Looked(d)'
    BY <2>1, <2>2, <2>3, <2>4, Elsewhere DEF Same
  <2> QED  BY <2>5, <2>6
<1>2. ASSUME NEW k \in Tasklets, tasklet_hi_schedule_first(c, k)
      PROVE  \A d \in Cpus : Looked(d)'
  <2>1. /\ Vec[k] = "FIRST" /\ UNCHANGED <<soft, bh, kVars, online>>
        /\ vec' = [vec EXCEPT ![c]["HI"] = AddFirst(@, k)]
        /\ pending' = [pending EXCEPT ![c] = @ \cup {"HI"}]
    BY <1>2 DEF tasklet_hi_schedule_first
  <2>2. /\ vec'[c]["HI"] = AddFirst(vec[c]["HI"], k) /\ vec'[c]["TASKLET"] = vec[c]["TASKLET"]
        /\ \A d \in Cpus \ {c} : vec'[d] = vec[d]
        /\ vec[c]["HI"] \in Heads
    BY <1>0, <2>1 DEF Bits
  <2>3. Range(AddFirst(vec[c]["HI"], k).seq) = {k} \cup Range(vec[c]["HI"].seq)
    <3> DEFINE s == <<k>>
    <3>1. s \in Seq(Tasklets) /\ Range(s) = {k} /\ vec[c]["HI"].seq \in Seq(Tasklets)
      BY <2>2, ShortLists DEF Heads
    <3>2. AddFirst(vec[c]["HI"], k).seq = s \o vec[c]["HI"].seq
      BY <2>2 DEF AddFirst, Heads
    <3> HIDE DEF s
    <3>3. Range(s \o vec[c]["HI"].seq) = Range(s) \cup Range(vec[c]["HI"].seq)
      BY <3>1, JoinLists
    <3> QED  BY <3>1, <3>2, <3>3
  <2>4. \A b \in Bits : Ordinary(c, b)' => Ordinary(c, b)
    BY <2>1, <2>2, <2>3 DEF Ordinary, Bits
  <2>5. /\ pending[c] \subseteq pending'[c]
        /\ \A d \in Cpus \ {c} : pending'[d] = pending[d]
    BY <1>0, <2>1
  <2>6. Looked(c)'
    BY <2>1, <2>4, <2>5 DEF Looked, Attended, in_interrupt, kVars
  <2>7. ASSUME NEW d \in Cpus \ {c}  PROVE Looked(d)'
    BY <2>1, <2>2, <2>5, Elsewhere DEF Same, kVars
  <2> QED  BY <2>6, <2>7
<1>3. ASSUME NEW S \in {{}} \cup {{k} : k \in Tasklets}, Interrupt(c, S)
      PROVE  \A d \in Cpus : Looked(d)'
  <2> DEFINE new == S \ sched
             raised == pending[c] \cup {Bit(k) : k \in new}
  <2>1. /\ UNCHANGED <<bh, kVars, online>> /\ c \in online
        /\ vec' = [vec EXCEPT ![c] = [b \in Bits |->
                     IF \E k \in new : Bit(k) = b
                     THEN AddTail(@[b], <<CHOOSE k \in new : TRUE>>) ELSE @[b]]]
        /\ IF raised = {} \/ in_interrupt(c)
           THEN pending' = [pending EXCEPT ![c] = raised] /\ UNCHANGED soft
           ELSE Start(c, raised, MAX_SOFTIRQ_RESTART)
    BY <1>3 DEF Interrupt
  <2>2. /\ \A b \in Bits : (\A k \in new : Bit(k) # b) => vec'[c][b] = vec[c][b]
        /\ \A d \in Cpus \ {c} : vec'[d] = vec[d]
    BY <1>0, <2>1
  <2>3. \A b \in Bits : Ordinary(c, b)' => Ordinary(c, b) \/ b \in {Bit(k) : k \in new}
    BY <2>2 DEF Ordinary
  <2>4. CASE raised = {} \/ in_interrupt(c)
    <3>1. pending' = [pending EXCEPT ![c] = raised] /\ UNCHANGED soft
      BY <2>1, <2>4
    <3> HIDE DEF new, raised
    <3>2. pending'[c] = raised /\ \A d \in Cpus \ {c} : pending'[d] = pending[d]
      BY <1>0, <3>1
    <3>3. ASSUME NEW d \in Cpus \ {c}  PROVE Looked(d)'
      BY <2>1, <2>2, <3>1, <3>2, Elsewhere DEF Same, kVars
    <3>4. Looked(c)'
      <4>1. \A b \in Bits : Ordinary(c, b)' => b \in raised \cup soft[c].bits
        BY <2>1, <2>3 DEF raised, Looked
      <4>2. CASE in_interrupt(c)
        BY <2>1, <3>1, <3>2, <4>1, <4>2 DEF Looked, Attended, in_interrupt
      <4>3. CASE raised = {} /\ soft[c].bits = {}
        BY <4>1, <4>3 DEF Looked
      <4> QED  BY <1>0, <2>4, <4>2, <4>3 DEF SoftOK, in_interrupt
    <3> QED  BY <3>3, <3>4
  <2>5. CASE ~(raised = {} \/ in_interrupt(c))
    <3>1. Start(c, raised, MAX_SOFTIRQ_RESTART) /\ soft[c].bits = {}
      BY <1>0, <2>1, <2>5 DEF SoftOK, in_interrupt
    <3>2. \A b \in Bits : Ordinary(c, b)' => b \in raised
      BY <2>1, <2>3, <3>1, RestLooked
    <3> HIDE DEF new, raised
    <3>3. \A d \in Cpus \ {c} : soft'[d] = soft[d] /\ pending'[d] = pending[d]
      BY <1>0, <3>1 DEF Start
    <3>4. ASSUME NEW d \in Cpus \ {c}  PROVE Looked(d)'
      BY <2>1, <2>2, <3>3, Elsewhere DEF Same, kVars
    <3> QED  BY <3>1, <3>2, <3>4, StartLooked
  <2> QED  BY <2>4, <2>5
<1> QED  BY <1>1, <1>2, <1>3

(* The thread and hotplug. *)
LEMMA ThreadLooked ==
    ASSUME Structure, Structure', ListsOK, \A d \in Cpus : Looked(d), NEW c \in Cpus,
           \/ ksoftirqd_step(c) \/ cpu_offline(c) \/ cpu_up(c)
           \/ \E d \in Cpus : takeover_tasklets(c, d)
    PROVE  \A d \in Cpus : Looked(d)'
<1>0. /\ Types /\ SoftOK(c) /\ SoftOK(c)' /\ soft \in [Cpus -> Contexts]
      /\ vec \in [Cpus -> [Bits -> Heads]] /\ pending \in [Cpus -> SUBSET Bits]
  BY DEF Structure, Types
<1>1. ASSUME MayRun(c), UNCHANGED vec
      PROVE  \A b \in Bits : Ordinary(c, b)' => b \in pending[c]
  BY <1>0, <1>1, RestLooked DEF MayRun, in_interrupt, SoftOK, Ordinary
<1>2. CASE KWork(c) /\ pending[c] # {}
  <2>1. /\ MayRun(c) /\ UNCHANGED <<vec, bh, kpc, kstate, online>>
        /\ Start(c, pending[c], MAX_SOFTIRQ_RESTART)
    BY <1>2 DEF KWork
  <2>2. \A d \in Cpus \ {c} : soft'[d] = soft[d] /\ pending'[d] = pending[d]
    BY <1>0, <2>1 DEF Start
  <2>3. ASSUME NEW d \in Cpus \ {c}  PROVE Looked(d)'
    BY <2>1, <2>2, Elsewhere DEF Same
  <2> QED  BY <1>1, <2>1, <2>3, StartLooked
<1>3. CASE KTest(c) \/ KWakes(c) \/ KAgain(c) \/ (KWork(c) /\ pending[c] = {})
  <2>1. /\ MayRun(c) /\ UNCHANGED <<vec, pending, soft, bh, online>>
        /\ \A d \in Cpus \ {c} : kstate'[d] = kstate[d] /\ kpc'[d] = kpc[d]
        /\ kstate'[c] \/ kpc'[c] = "test" \/ pending[c] = {}
    BY <1>0, <1>3 DEF KTest, KWakes, KAgain, KWork, Types
  <2>2. ASSUME NEW d \in Cpus \ {c}  PROVE Looked(d)'
    BY <2>1, Elsewhere DEF Same
  <2>3. Looked(c)'
    BY <1>1, <2>1 DEF Looked, Attended
  <2> QED  BY <2>2, <2>3
<1>4. CASE cpu_offline(c)
  <2>1. /\ UNCHANGED <<vec, pending, soft, bh, kVars>> /\ online' = online \ {c}
    BY <1>4 DEF cpu_offline
  <2>2. ASSUME NEW d \in Cpus \ {c}  PROVE Looked(d)'
    BY <2>1, Elsewhere DEF Same, kVars
  <2>3. Looked(c)'
    BY <2>1 DEF Looked, Attended
  <2> QED  BY <2>2, <2>3
<1>5. CASE cpu_up(c)
  <2>1. /\ UNCHANGED <<vec, pending, soft, bh>> /\ online' = online \cup {c} /\ kpc[c] = "dead"
        /\ \A d \in Cpus \ {c} : kstate'[d] = kstate[d] /\ kpc'[d] = kpc[d]
    BY <1>0, <1>5 DEF cpu_up, Types
  <2>2. ASSUME NEW d \in Cpus \ {c}  PROVE Looked(d)'
    BY <2>1, Elsewhere DEF Same
  <2>3. \A b \in Bits : ~Ordinary(c, b)'
    BY <1>0, <2>1 DEF SoftOK, ListsOK, Ordinary
  <2> QED  BY <2>2, <2>3 DEF Looked
<1>6. ASSUME NEW e \in Cpus, takeover_tasklets(c, e)  PROVE \A d \in Cpus : Looked(d)'
  <2>1. /\ c \notin online /\ e \in online /\ UNCHANGED <<soft, bh, online>>
        /\ vec' = [vec EXCEPT
                 ![e] = [b \in Bits |-> IF vec[c][b].atHead THEN @[b]
                                        ELSE AddTail(@[b], vec[c][b].seq)],
                 ![c] = [b \in Bits |-> IF @[b].atHead THEN @[b] ELSE EmptyHead]]
        /\ pending' = [pending EXCEPT ![e] = Bits]
        /\ kstate' = [kstate EXCEPT ![e] = TRUE, ![c] = FALSE]
        /\ kpc' = [kpc EXCEPT ![c] = "dead"]
    BY <1>6 DEF takeover_tasklets, MayRun
  <2>2. /\ \A d \in Cpus \ {c, e} : vec'[d] = vec[d] /\ kstate'[d] = kstate[d]
        /\ \A d \in Cpus \ {e} : pending'[d] = pending[d]
        /\ \A d \in Cpus \ {c} : kpc'[d] = kpc[d]
        /\ pending'[e] = Bits /\ kstate'[e]
    BY <1>0, <2>1 DEF Types
  <2>3. ASSUME NEW d \in Cpus \ {c, e}  PROVE Looked(d)'
    BY <2>1, <2>2, Elsewhere DEF Same
  <2>4. Looked(e)'
    BY <2>2 DEF Looked, Attended
  <2>5. Looked(c)'
    BY <2>1 DEF Looked, Attended
  <2> QED  BY <2>3, <2>4, <2>5
<1> QED  BY <1>2, <1>3, <1>4, <1>5, <1>6 DEF ksoftirqd_step

(* The tasks. *)
LEMMA UserLooked ==
    ASSUME Structure, Structure', ListsOK, \A d \in Cpus : Looked(d), NEW u \in Users,
           \/ user_step(u) \/ \E c \in Cpus : local_bh_disable(u, c)
           \/ \E k \in Tasklets : Begin(u, k)
    PROVE  \A d \in Cpus : Looked(d)'
<1>0. /\ Types /\ (\A c \in Cpus : SoftOK(c)) /\ UserOK(u) /\ soft \in [Cpus -> Contexts]
      /\ vec \in [Cpus -> [Bits -> Heads]] /\ pending \in [Cpus -> SUBSET Bits]
  BY DEF Structure, Types
<1>1. ASSUME UNCHANGED <<vec, pending, soft, bh, kVars, online>>
      PROVE  \A d \in Cpus : Looked(d)'
  BY <1>1, Elsewhere DEF Same, kVars
<1>2. CASE \E k \in Tasklets : Begin(u, k)
  BY <1>1, <1>2 DEF Begin, tasklet_schedule, tasklet_kill, tasklet_disable_nosync
<1>3. CASE tasklet_disable(u) \/ tasklet_enable(u) \/ KillWaited(u) \/ KillClear(u)
  BY <1>1, <1>3 DEF tasklet_disable, tasklet_enable, KillWaited, KillClear
<1>4. ASSUME NEW c \in Cpus, local_bh_disable(u, c)  PROVE \A d \in Cpus : Looked(d)'
  <2>1. /\ UNCHANGED <<vec, pending, soft, kVars, online>> /\ bh[c] = NULL
        /\ bh'[c] = u /\ \A d \in Cpus \ {c} : bh'[d] = bh[d]
    BY <1>0, <1>4 DEF local_bh_disable, Types
  <2>2. ASSUME NEW d \in Cpus \ {c}  PROVE Looked(d)'
    BY <2>1, Elsewhere DEF Same, kVars
  <2>3. Looked(c)'
    BY <2>1, SoftirqAssumption DEF Looked, Attended, in_interrupt, Ordinary, kVars
  <2> QED  BY <2>2, <2>3
<1>5. ASSUME NEW c \in Cpus, local_bh_enable(u, c)  PROVE \A d \in Cpus : Looked(d)'
  <2>1. /\ UNCHANGED <<vec, kVars, online>> /\ bh[c] = u /\ soft[c].pc = "none"
        /\ \A d \in Cpus \ {c} : bh'[d] = bh[d]
        /\ IF pending[c] # {} THEN Start(c, pending[c], MAX_SOFTIRQ_RESTART)
           ELSE UNCHANGED <<soft, pending>>
    BY <1>0, <1>5 DEF local_bh_enable, Types
  <2>2. c \in online /\ soft[c].bits = {}
    BY <1>0, <2>1, SoftirqAssumption DEF SoftOK
  <2>3. \A b \in Bits : Ordinary(c, b)' => b \in pending[c]
    BY <2>1, <2>2, RestLooked DEF Ordinary
  <2>4. \A d \in Cpus \ {c} : soft'[d] = soft[d] /\ pending'[d] = pending[d]
    BY <1>0, <2>1 DEF Start
  <2>5. ASSUME NEW d \in Cpus \ {c}  PROVE Looked(d)'
    BY <2>1, <2>4, Elsewhere DEF Same, kVars
  <2>6. CASE pending[c] # {}
    BY <2>1, <2>3, <2>5, <2>6, StartLooked
  <2>7. CASE pending[c] = {}
    BY <2>3, <2>5, <2>7 DEF Looked
  <2> QED  BY <2>6, <2>7
<1>6. ASSUME NEW c \in Cpus, __tasklet_schedule(u, c)  PROVE \A d \in Cpus : Looked(d)'
  <2> DEFINE k == uarg[u]
  <2>1. /\ k \in Tasklets /\ UNCHANGED <<soft, bh, kpc, online>>
        /\ Queue(c, k) /\ raise_softirq_irqoff(c, {Bit(k)})
    BY <1>0, <1>6 DEF __tasklet_schedule, UserOK
  <2> HIDE DEF k
  <2>2. /\ in_interrupt(c) \/ kstate'[c]
        /\ \A d \in Cpus \ {c} : kstate'[d] = kstate[d]
    BY <1>0, <2>1 DEF raise_softirq_irqoff, wakeup_softirqd, Types
  <2>3. /\ \A b \in Bits : Ordinary(c, b)' => Ordinary(c, b) \/ b = Bit(k)
        /\ \A d \in Cpus \ {c} : vec'[d] = vec[d]
    BY <2>1, QueueLooked
  <2>4. /\ pending'[c] = pending[c] \cup {Bit(k)}
        /\ \A d \in Cpus \ {c} : pending'[d] = pending[d]
    BY <1>0, <2>1 DEF raise_softirq_irqoff
  <2>5. Looked(c)'
    BY <2>1, <2>2, <2>3, <2>4 DEF Looked, Attended, in_interrupt
  <2>6. ASSUME NEW d \in Cpus \ {c}  PROVE Looked(d)'
    BY <2>1, <2>2, <2>3, <2>4, Elsewhere DEF Same
  <2> QED  BY <2>5, <2>6
<1> QED  BY <1>2, <1>3, <1>4, <1>5, <1>6 DEF user_step

(* No ordinary tasklet that is queued waits for a softirq that nobody will  *)
(* run: its bit is pending or taken over, and somebody is there to look.    *)
THEOREM NotStranded == Spec => []NothingStranded
<1> DEFINE LookedOK == \A c \in Cpus : Looked(c)
<1>1. Init => LookedOK
  <2> SUFFICES ASSUME Init, NEW c \in Cpus, NEW b \in Bits  PROVE ~Ordinary(c, b)
    BY DEF Looked
  <2>1. vec[c][b].seq = <<>> /\ Range(<<>>) = {}
    BY ShortLists DEF Init, EmptyHead
  <2> QED  BY <2>1 DEF Ordinary
<1>2. Structure /\ Structure' /\ ListsOK /\ LookedOK /\ [Next]_vars => LookedOK'
  <2> SUFFICES ASSUME Structure, Structure', ListsOK, \A d \in Cpus : Looked(d), [Next]_vars
               PROVE  \A d \in Cpus : Looked(d)'
    OBVIOUS
  <2>1. CASE UNCHANGED vars
    BY <2>1, Elsewhere DEF vars, Same, kVars
  <2>2. CASE Next
    BY <2>2, SoftirqLooked, InterruptLooked, ThreadLooked, UserLooked DEF Next, Step
  <2> QED  BY <2>1, <2>2
<1>3. LookedOK => NothingStranded
  <2> SUFFICES ASSUME LookedOK, NEW k \in Tasklets, NEW c \in Cpus, Vec[k] # "FIRST",
                      \E i \in DOMAIN vec[c][Bit(k)].seq : vec[c][Bit(k)].seq[i] = k
               PROVE  Attended(c) /\ (c \in online => Bit(k) \in pending[c] \cup soft[c].bits)
    BY DEF NothingStranded
  <2>1. Bit(k) \in Bits /\ k \in Range(vec[c][Bit(k)].seq)
    BY BitType DEF Range
  <2>2. Ordinary(c, Bit(k)) /\ Looked(c)
    BY <2>1 DEF Ordinary
  <2> QED  BY <2>1, <2>2 DEF Looked
<1> QED  BY <1>1, <1>2, <1>3, StructureCorrect, HomesHold, PTL DEF Spec
=============================================================================
