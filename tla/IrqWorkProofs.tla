---------------------------- MODULE IrqWorkProofs ----------------------------
(***************************************************************************)
(* Proofs about irq_work_queue(), irq_work_run() and the lock-less list,   *)
(* for any number of works, CPUs and contexts: module IrqWork.             *)
(***************************************************************************)
EXTENDS IrqWork, FiniteSetTheorems, TLAPS

-----------------------------------------------------------------------------
(* The nodes that can be reached.  The least set of its kind allows what    *)
(* induction along a list would.                                            *)

Links == [Works -> Nodes]

(* It holds where it starts and goes on as far as there are successors. *)
LEMMA ReachableCloses ==
    ASSUME NEW f \in Links, NEW x \in Nodes
    PROVE  /\ x \in Reachable(f, x) /\ Reachable(f, x) \subseteq Nodes
           /\ \A y \in Reachable(f, x) : y # NULL => f[y] \in Reachable(f, x)
<1>1. x \in Reachable(f, x) /\ Reachable(f, x) \subseteq Nodes
  BY DEF Reachable
<1>2. ASSUME NEW y \in Reachable(f, x), y # NULL  PROVE f[y] \in Reachable(f, x)
  <2>1. y \in Works /\ f[y] \in Nodes
    BY <1>1, <1>2 DEF Nodes, Links
  <2>2. ASSUME NEW S \in SUBSET Nodes, x \in S, Closed(f, S)  PROVE f[y] \in S
    <3>1. y \in S
      BY <1>2, <2>2 DEF Reachable
    <3> QED  BY <1>2, <2>2, <3>1 DEF Closed
  <2> QED  BY <2>1, <2>2 DEF Reachable
<1> QED  BY <1>1, <1>2

(* It is the least such set. *)
LEMMA ReachableLeast ==
    ASSUME NEW f, NEW x, NEW S \in SUBSET Nodes, x \in S, Closed(f, S)
    PROVE  Reachable(f, x) \subseteq S
BY DEF Reachable

(* From NULL nothing is reached. *)
LEMMA ReachableNull ==
    ASSUME NEW f \in Links
    PROVE  Reachable(f, NULL) = {NULL}
<1>1. NULL \in Nodes
  BY DEF Nodes
<1>2. {NULL} \in SUBSET Nodes /\ Closed(f, {NULL})
  BY <1>1 DEF Closed
<1>3. Reachable(f, NULL) \subseteq {NULL}
  BY <1>2, ReachableLeast
<1> QED  BY <1>1, <1>3, ReachableCloses

(* A node reaches itself and what its successor reaches. *)
LEMMA ReachableUnfolds ==
    ASSUME NEW f \in Links, NEW x \in Works
    PROVE  Reachable(f, x) = {x} \cup Reachable(f, f[x])
<1>1. x \in Nodes /\ f[x] \in Nodes /\ x # NULL
  BY IrqWorkAssumption DEF Nodes, Links
<1> DEFINE R == Reachable(f, x)
           T == Reachable(f, f[x])
<1>2. /\ x \in R /\ R \subseteq Nodes /\ \A y \in R : y # NULL => f[y] \in R
      /\ f[x] \in T /\ T \subseteq Nodes /\ \A y \in T : y # NULL => f[y] \in T
  BY <1>1, ReachableCloses
<1>3. R \subseteq {x} \cup T
  <2>1. {x} \cup T \in SUBSET Nodes /\ Closed(f, {x} \cup T)
    BY <1>1, <1>2 DEF Closed
  <2> QED  BY <2>1, ReachableLeast
<1>4. T \subseteq R
  <2>1. R \in SUBSET Nodes /\ Closed(f, R) /\ f[x] \in R
    BY <1>1, <1>2 DEF Closed
  <2> QED  BY <2>1, ReachableLeast
<1> QED  BY <1>2, <1>3, <1>4

(* Changing the successor of a node that is not reached changes nothing. *)
LEMMA ReachableFrame ==
    ASSUME NEW f \in Links, NEW g \in Links, NEW x \in Nodes, NEW w,
           \A y \in Works : y # w => g[y] = f[y],
           w \notin Reachable(f, x)
    PROVE  Reachable(g, x) = Reachable(f, x)
<1> DEFINE R == Reachable(f, x)
           T == Reachable(g, x)
<1>1. /\ x \in R /\ R \subseteq Nodes /\ \A y \in R : y # NULL => f[y] \in R
      /\ x \in T /\ T \subseteq Nodes /\ \A y \in T : y # NULL => g[y] \in T
  BY ReachableCloses
<1>2. T \subseteq R
  <2>1. Closed(g, R)
    BY <1>1 DEF Closed, Nodes
  <2> QED  BY <1>1, <2>1, ReachableLeast
<1>3. R \subseteq T
  <2>1. Closed(f, R \cap T)
    BY <1>1 DEF Closed, Nodes
  <2>2. R \cap T \in SUBSET Nodes /\ x \in R \cap T
    BY <1>1
  <2>3. R \subseteq R \cap T
    BY <2>1, <2>2, ReachableLeast
  <2> QED  BY <2>3
<1> QED  BY <1>2, <1>3

(* A node that reaches NULL is on no cycle. *)
LEMMA ReachableAcyclic ==
    ASSUME NEW f \in Links, NEW x \in Works, NULL \in Reachable(f, x)
    PROVE  x \notin Reachable(f, f[x])
<1> SUFFICES ASSUME x \in Reachable(f, f[x])  PROVE FALSE
  OBVIOUS
<1>1. x \in Nodes /\ x # NULL
  BY IrqWorkAssumption DEF Nodes
<1> DEFINE R == Reachable(f, x)
           S == {y \in R : x \in Reachable(f, y)}
<1>2. x \in R /\ R \subseteq Nodes /\ \A y \in R : y # NULL => f[y] \in R
  BY <1>1, ReachableCloses
<1>3. ASSUME NEW y \in S, y # NULL  PROVE f[y] \in S
  <2>1. y \in Works /\ f[y] \in R
    BY <1>2, <1>3 DEF Nodes
  <2>2. x \in {y} \cup Reachable(f, f[y])
    BY <1>3, <2>1, ReachableUnfolds
  <2> QED  BY <2>1, <2>2
<1>4. R \subseteq S
  <2>1. S \in SUBSET Nodes /\ x \in S /\ Closed(f, S)
    BY <1>2, <1>3 DEF Closed
  <2> HIDE DEF S
  <2> QED  BY <2>1, ReachableLeast
<1>5. x \in Reachable(f, NULL)
  BY <1>4
<1> QED  BY <1>1, <1>5, ReachableNull
-----------------------------------------------------------------------------
(* Types, and what the contexts hold where they are. *)

PlacesOK ==
    /\ \A q \in Queuers : pc[q] # "idle" => work[q] \in Works
    /\ \A q \in Queuers : pc[q] = "idle" => work[q] = NULL
    /\ \A q \in Queuers : pc[q] = "cmpxchg" => ~Pending(old[q])
    /\ \A c \in CPUs : rpc[c] \in {"flags", "func", "clear"} => cur[c] \in Works
    /\ \A c \in CPUs : rpc[c] = "idle" => llnode[c] = NULL

(* The steps of irq_work_queue(). *)
LEMMA QueueTypes ==
    ASSUME TypeOK, PlacesOK, NEW q \in Queuers, (\E w \in Works : Publish(q, w)) \/ Queue(q)
    PROVE  TypeOK' /\ PlacesOK'
<1>0. home[q] \in CPUs
  BY IrqWorkAssumption
<1>1. CASE \E w \in Works : Publish(q, w)
  BY <1>1 DEF Publish, TypeOK, PlacesOK, runVars
<1>2. CASE ClaimRead(q)
  <2>1. work[q] \in Works /\ flags[work[q]] \in 0 .. 3
    BY <1>2 DEF ClaimRead, PlacesOK, TypeOK
  <2>2. TypeOK'
    BY <1>2, <2>1 DEF ClaimRead, Return, TypeOK, runVars
  <2>3. PlacesOK'
    BY <1>2, <2>1 DEF ClaimRead, Return, Enqueued, TypeOK, PlacesOK, runVars
  <2> QED  BY <2>2, <2>3
<1>3. CASE ClaimCmpxchg(q)
  <2>1. TypeOK'
    BY <1>3 DEF ClaimCmpxchg, NewFlags, IRQ_WORK_FLAGS, TypeOK, runVars
  <2>2. PlacesOK'
    BY <1>3 DEF ClaimCmpxchg, TypeOK, PlacesOK, runVars
  <2> QED  BY <2>1, <2>2
<1>4. CASE AddRead(q)
  BY <1>0, <1>4 DEF AddRead, TypeOK, PlacesOK, runVars
<1>5. CASE AddCmpxchg(q)
  <2>1. raised' \in [CPUs -> BOOLEAN]
    BY <1>5 DEF AddCmpxchg, TypeOK
  <2>2. next' \in [Works -> Works \cup {NULL}] /\ first' \in [CPUs -> Works \cup {NULL}]
    BY <1>0, <1>5 DEF AddCmpxchg, TypeOK
  <2>3. /\ pc' \in [Queuers -> {"idle", "claim", "cmpxchg", "add", "add_cmpxchg"}]
        /\ work' \in [Queuers -> Works \cup {NULL}] /\ old' \in [Queuers -> 0 .. 3]
    BY <1>5 DEF AddCmpxchg, Return, TypeOK
  <2>4. TypeOK'
    BY <1>5, <2>1, <2>2, <2>3 DEF AddCmpxchg, TypeOK, runVars
  <2>5. PlacesOK'
    BY <1>5 DEF AddCmpxchg, Return, TypeOK, PlacesOK, runVars
  <2> QED  BY <2>4, <2>5
<1> QED  BY <1>1, <1>2, <1>3, <1>4, <1>5 DEF Queue

(* The steps of irq_work_run(). *)
LEMMA RunTypes ==
    ASSUME TypeOK, PlacesOK, NEW c \in CPUs, Run(c) \/ irq_work_run(c, FALSE)
    PROVE  TypeOK' /\ PlacesOK'
<1>1. ASSUME NEW ipi \in BOOLEAN, irq_work_run(c, ipi)  PROVE TypeOK' /\ PlacesOK'
  BY <1>1 DEF irq_work_run, TypeOK, PlacesOK, queueVars
<1>2. CASE RunNext(c)
  BY <1>2 DEF RunNext, TypeOK, PlacesOK, queueVars
<1>3. CASE RunBusy(c)
  <2>1. flags' \in [Works -> 0 .. 3] /\ rpc' \in [CPUs -> {"idle", "next", "flags", "func", "clear"}]
    <3>1. cur[c] \in Works /\ 2 \in 0 .. 3 /\ flags \in [Works -> 0 .. 3]
      BY <1>3 DEF RunBusy, PlacesOK, TypeOK
    <3>2. flags' = [flags EXCEPT ![cur[c]] = 2]
      BY <1>3 DEF RunBusy, IRQ_WORK_BUSY
    <3>3. flags' \in [Works -> 0 .. 3]
      BY <3>1, <3>2
    <3> QED  BY <1>3, <3>3 DEF RunBusy, TypeOK
  <2>2. TypeOK'
    BY <1>3, <2>1 DEF RunBusy, TypeOK, queueVars
  <2>3. PlacesOK'
    BY <1>3 DEF RunBusy, TypeOK, PlacesOK, queueVars
  <2> QED  BY <2>2, <2>3
<1>4. CASE RunFunc(c)
  BY <1>4 DEF RunFunc, TypeOK, PlacesOK, queueVars
<1>5. CASE RunClear(c)
  <2>1. flags' \in [Works -> 0 .. 3]
    <3>1. cur[c] \in Works /\ 0 \in 0 .. 3 /\ flags \in [Works -> 0 .. 3]
      BY <1>5 DEF RunClear, PlacesOK, TypeOK
    <3>2. flags' = [flags EXCEPT ![cur[c]] = 0] \/ flags' = flags
      BY <1>5, <3>1 DEF RunClear
    <3> QED  BY <3>1, <3>2
  <2>2. /\ rpc' \in [CPUs -> {"idle", "next", "flags", "func", "clear"}]
        /\ cur' \in [CPUs -> Works \cup {NULL}]
    BY <1>5 DEF RunClear, TypeOK
  <2>3. TypeOK'
    BY <1>5, <2>1, <2>2 DEF RunClear, TypeOK, queueVars
  <2>4. PlacesOK'
    BY <1>5 DEF RunClear, TypeOK, PlacesOK, queueVars
  <2> QED  BY <2>3, <2>4
<1> QED  BY <1>1, <1>2, <1>3, <1>4, <1>5 DEF Run

(* In every reachable state. *)
LEMMA TypesHold == Spec => [](TypeOK /\ PlacesOK)
<1>1. Init => TypeOK /\ PlacesOK
  BY DEF Init, TypeOK, PlacesOK
<1>2. TypeOK /\ PlacesOK /\ [Next]_vars => TypeOK' /\ PlacesOK'
  <2> SUFFICES ASSUME TypeOK, PlacesOK, [Next]_vars  PROVE TypeOK' /\ PlacesOK'
    OBVIOUS
  <2>1. CASE \E w \in Syncs : irq_work_sync(w)
    BY <2>1, IrqWorkAssumption DEF irq_work_sync, TypeOK, PlacesOK, runVars, queueVars
  <2>2. CASE SyncReturns
    BY <2>2 DEF SyncReturns, TypeOK, PlacesOK, runVars, queueVars
  <2>3. CASE UNCHANGED vars
    BY <2>3 DEF vars, TypeOK, PlacesOK, runVars, queueVars
  <2> QED  BY <2>1, <2>2, <2>3, QueueTypes, RunTypes DEF Next, Step
<1> QED  BY <1>1, <1>2, PTL DEF Spec

(* What every context keeps has its type, and the flags stay within their   *)
(* two bits.                                                                *)
THEOREM TypeCorrect == Spec => []TypeOK
BY TypesHold, PTL
-----------------------------------------------------------------------------
(* The users of a node. *)

(* Together the three sets have at most one element. *)
AtMostOne(A, B, C) ==
    /\ \A x, y \in A : x = y
    /\ \A x, y \in B : x = y
    /\ \A x, y \in C : x = y
    /\ A = {} \/ B = {}
    /\ A = {} \/ C = {}
    /\ B = {} \/ C = {}

Used(w) == Claimants(w) # {} \/ Lists(w) # {} \/ Taken(w) # {}

(* A node has at most one user, and then it is pending; the lists end; and  *)
(* a node that irq_work_run() has taken off is not on what is left.         *)
UsersOK ==
    /\ \A w \in Works : AtMostOne(Claimants(w), Lists(w), Taken(w))
    /\ \A w \in Works : Pending(flags[w]) <=> Used(w)
    /\ \A c \in CPUs : NULL \in Chain(first[c]) /\ NULL \in Chain(llnode[c])
    /\ \A c \in CPUs : rpc[c] = "flags" => cur[c] \notin Chain(llnode[c])

(* Types in the terms of the lemmas about lists. *)
LEMMA NodeTypes ==
    TypeOK => /\ next \in Links
              /\ \A c \in CPUs : first[c] \in Nodes /\ llnode[c] \in Nodes
              /\ NULL \notin Works
BY IrqWorkAssumption DEF TypeOK, Links, Nodes

(* A step that leaves the users of all nodes as they are. *)
LEMMA SameUsers ==
    ASSUME UsersOK,
           \A w \in Works : /\ Claimants(w)' = Claimants(w) /\ Lists(w)' = Lists(w)
                            /\ Taken(w)' = Taken(w)
                            /\ Pending(flags'[w]) <=> Pending(flags[w]),
           \A c \in CPUs : NULL \in Chain(first[c])' /\ NULL \in Chain(llnode[c])',
           \A c \in CPUs : rpc'[c] = "flags" => cur'[c] \notin Chain(llnode[c])'
    PROVE  UsersOK'
BY DEF UsersOK, AtMostOne, Used

(* A step that leaves the lists alone. *)
LEMMA SameLists ==
    ASSUME UNCHANGED <<next, first, llnode>>
    PROVE  /\ \A w \in Works : Lists(w)' = Lists(w)
           /\ \A c \in CPUs : /\ Chain(first[c])' = Chain(first[c])
                              /\ Chain(llnode[c])' = Chain(llnode[c])
BY DEF Lists, Chain

(* A step that leaves what runs alone. *)
LEMMA SameTaken ==
    ASSUME UNCHANGED runVars, \A c \in CPUs : Chain(llnode[c])' = Chain(llnode[c])
    PROVE  \A w \in Works : Taken(w)' = Taken(w)
BY DEF Taken, runVars

(* The claimant of a node may write its successor. *)
LEMMA ClaimantLinks ==
    ASSUME TypeOK, TypeOK', PlacesOK, UsersOK, NEW q \in Queuers,
           pc[q] \in {"add", "add_cmpxchg"}, NEW x, next' = [next EXCEPT ![work[q]] = x],
           UNCHANGED <<first, llnode>>
    PROVE  /\ \A w \in Works : Lists(w)' = Lists(w)
           /\ \A c \in CPUs : /\ Chain(first[c])' = Chain(first[c])
                              /\ Chain(llnode[c])' = Chain(llnode[c])
<1>1. /\ next \in Links /\ next' \in Links
      /\ \A c \in CPUs : first[c] \in Nodes /\ llnode[c] \in Nodes
  BY DEF TypeOK, Links, Nodes
<1>2. work[q] \in Works /\ q \in Claimants(work[q])
  BY DEF PlacesOK, Claimants
<1>3. Lists(work[q]) = {} /\ Taken(work[q]) = {}
  BY <1>2 DEF UsersOK, AtMostOne
<1>4. \A c \in CPUs : work[q] \notin Chain(first[c]) /\ work[q] \notin Chain(llnode[c])
  BY <1>3 DEF Lists, Taken
<1>5. \A y \in Works : y # work[q] => next'[y] = next[y]
  BY <1>1 DEF Links
<1>6. ASSUME NEW c \in CPUs
      PROVE  Chain(first[c])' = Chain(first[c]) /\ Chain(llnode[c])' = Chain(llnode[c])
  <2> DEFINE f == next
             g == next'
             v == work[q]
             x1 == first[c]
             x2 == llnode[c]
  <2>1. /\ f \in Links /\ g \in Links /\ x1 \in Nodes /\ x2 \in Nodes
        /\ \A y \in Works : y # v => g[y] = f[y]
    BY <1>1, <1>5
  <2>2. v \notin Reachable(f, x1) /\ v \notin Reachable(f, x2)
    BY <1>4 DEF Chain
  <2> HIDE DEF f, g, v, x1, x2
  <2>3. Reachable(g, x1) = Reachable(f, x1) /\ Reachable(g, x2) = Reachable(f, x2)
    BY <2>1, <2>2, ReachableFrame
  <2> QED  BY <2>3 DEF Chain, f, g, x1, x2
<1> QED  BY <1>6 DEF Lists

(* The steps of irq_work_queue(). *)
LEMMA QueueUsers ==
    ASSUME TypeOK, TypeOK', PlacesOK, UsersOK, NEW q \in Queuers,
           (\E w \in Works : Publish(q, w)) \/ Queue(q)
    PROVE  UsersOK'
<1>0. UsersOK
  OBVIOUS
<1>1. ASSUME UNCHANGED <<flags, next, first, runVars>>,
             \A w \in Works : Claimants(w)' = Claimants(w)
      PROVE  UsersOK'
  BY <1>1, SameUsers, SameLists, SameTaken DEF UsersOK, runVars
<1>2. CASE \E w \in Works : Publish(q, w)
  <2>1. \A w \in Works : Claimants(w)' = Claimants(w)
    BY <1>2 DEF Publish, Claimants, TypeOK
  <2> QED  BY <1>1, <1>2, <2>1 DEF Publish
<1>3. CASE ClaimRead(q)
  <2>1. \A w \in Works : Claimants(w)' = Claimants(w)
    BY <1>3 DEF ClaimRead, Return, Claimants, TypeOK
  <2> QED  BY <1>1, <1>3, <2>1 DEF ClaimRead
<1>4. CASE ClaimCmpxchg(q)
  <2>0. /\ pc[q] = "cmpxchg" /\ work[q] \in Works /\ ~Pending(old[q])
        /\ UNCHANGED <<next, first, runVars, work>>
    BY <1>4 DEF ClaimCmpxchg, PlacesOK
  <2>1. CASE flags[work[q]] # old[q]
    <3>1. \A w \in Works : Claimants(w)' = Claimants(w)
      BY <1>4, <2>1 DEF ClaimCmpxchg, SameFlags, Claimants, TypeOK
    <3> QED  BY <1>1, <1>4, <2>1, <3>1 DEF ClaimCmpxchg, SameFlags
  <2>2. CASE flags[work[q]] = old[q]
    <3>1. flags' = [flags EXCEPT ![work[q]] = 3] /\ pc' = [pc EXCEPT ![q] = "add"]
      BY <1>4, <2>2 DEF ClaimCmpxchg, SameFlags, NewFlags, IRQ_WORK_FLAGS
    <3>2. ~Used(work[q])
      BY <2>0, <2>2 DEF UsersOK
    <3>3. \A w \in Works : Claimants(w)' = IF w = work[q] THEN {q} ELSE Claimants(w)
      BY <2>0, <3>1, <3>2 DEF Claimants, Used, TypeOK
    <3>4. /\ \A w \in Works : Lists(w)' = Lists(w) /\ Taken(w)' = Taken(w)
          /\ \A c \in CPUs : /\ Chain(first[c])' = Chain(first[c])
                             /\ Chain(llnode[c])' = Chain(llnode[c])
      BY <2>0, SameLists, SameTaken DEF runVars
    <3>5. /\ Pending(flags'[work[q]])
          /\ \A w \in Works : w # work[q] => flags'[w] = flags[w]
      BY <2>0, <3>1 DEF TypeOK, Pending
    <3>6. \A w \in Works : AtMostOne(Claimants(w), Lists(w), Taken(w))'
      BY <3>2, <3>3, <3>4 DEF UsersOK, AtMostOne, Used
    <3>7. \A w \in Works : Pending(flags'[w]) <=> Used(w)'
      BY <3>3, <3>4, <3>5 DEF UsersOK, Used
    <3> QED  BY <2>0, <3>4, <3>6, <3>7 DEF UsersOK, runVars
  <2> QED  BY <2>1, <2>2
<1>5. CASE AddRead(q)
  <2>1. /\ pc[q] = "add" /\ pc' = [pc EXCEPT ![q] = "add_cmpxchg"]
        /\ next' = [next EXCEPT ![work[q]] = first[home[q]]]
        /\ UNCHANGED <<flags, first, runVars, work>>
    BY <1>5 DEF AddRead
  <2>2. /\ \A w \in Works : Lists(w)' = Lists(w)
        /\ \A c \in CPUs : /\ Chain(first[c])' = Chain(first[c])
                           /\ Chain(llnode[c])' = Chain(llnode[c])
    BY <2>1, ClaimantLinks DEF runVars
  <2>3. \A w \in Works : Claimants(w)' = Claimants(w)
    BY <2>1 DEF Claimants, TypeOK
  <2> QED  BY <2>1, <2>2, <2>3, SameTaken, SameUsers DEF UsersOK, runVars
<1>6. CASE AddCmpxchg(q)
  <2> DEFINE k == home[q]
             v == work[q]
  <2>0. /\ pc[q] = "add_cmpxchg" /\ v \in Works /\ k \in CPUs /\ UNCHANGED <<flags, runVars>>
    BY <1>6, IrqWorkAssumption DEF AddCmpxchg, PlacesOK
  <2>1. CASE first[k] # next[v]
    <3>1. next' = [next EXCEPT ![v] = first[k]] /\ UNCHANGED <<first, pc, work>>
      BY <1>6, <2>1 DEF AddCmpxchg
    <3>2. /\ \A w \in Works : Lists(w)' = Lists(w)
          /\ \A c \in CPUs : /\ Chain(first[c])' = Chain(first[c])
                             /\ Chain(llnode[c])' = Chain(llnode[c])
      BY <2>0, <3>1, ClaimantLinks DEF runVars
    <3>3. \A w \in Works : Claimants(w)' = Claimants(w)
      BY <3>1 DEF Claimants
    <3> QED  BY <2>0, <3>2, <3>3, SameTaken, SameUsers DEF UsersOK, runVars
  <2>2. CASE first[k] = next[v]
    <3>1. /\ first' = [first EXCEPT ![k] = v] /\ UNCHANGED next
          /\ pc' = [pc EXCEPT ![q] = "idle"] /\ work' = [work EXCEPT ![q] = NULL]
      BY <1>6, <2>2 DEF AddCmpxchg, Return
    <3>2. q \in Claimants(v)
      BY <2>0 DEF Claimants
    <3>3. Claimants(v) = {q} /\ Lists(v) = {} /\ Taken(v) = {}
      BY <2>0, <3>2 DEF UsersOK, AtMostOne
    <3>4. \A w \in Works : Claimants(w)' = IF w = v THEN {} ELSE Claimants(w)
      <4>1. \A p \in Queuers \ {q} : pc'[p] = pc[p] /\ work'[p] = work[p]
        BY <3>1 DEF TypeOK
      <4>2. pc'[q] = "idle"
        BY <3>1 DEF TypeOK
      <4> QED  BY <3>2, <3>3, <4>1, <4>2 DEF Claimants
    <3>5. first'[k] = v /\ \A c \in CPUs \ {k} : first'[c] = first[c]
      BY <2>0, <3>1 DEF TypeOK
    <3>6. Chain(first[k])' = {v} \cup Chain(first[k])
      <4>1. next \in Links
        BY NodeTypes
      <4>2. Reachable(next, v) = {v} \cup Reachable(next, next[v])
        BY <2>0, <4>1, ReachableUnfolds
      <4>3. Chain(first[k])' = Reachable(next', first'[k])
        BY IrqWorkAssumption DEF Chain
      <4> QED  BY <2>2, <3>1, <3>5, <4>2, <4>3 DEF Chain
    <3>7. /\ \A c \in CPUs \ {k} : Chain(first[c])' = Chain(first[c])
          /\ \A c \in CPUs : Chain(llnode[c])' = Chain(llnode[c])
      BY <2>0, <3>1, <3>5 DEF Chain, runVars
    <3>8. \A w \in Works : Taken(w)' = Taken(w)
      BY <2>0, <3>7, SameTaken
    <3>9. \A w \in Works : Lists(w)' = IF w = v THEN {k} ELSE Lists(w)
      <4>1. ASSUME NEW w \in Works, NEW c \in CPUs
            PROVE  c \in Lists(w)' <=> IF w = v THEN c = k ELSE c \in Lists(w)
        <5>1. c \in Lists(w)' <=> w \in Chain(first[c])'
          BY DEF Lists
        <5>2. c \in Lists(w) <=> w \in Chain(first[c])
          BY DEF Lists
        <5> QED  BY <3>3, <3>6, <3>7, <5>1, <5>2
      <4>2. \A w \in Works : Lists(w)' \subseteq CPUs /\ Lists(w) \subseteq CPUs
        BY DEF Lists
      <4> QED  BY <2>0, <4>1, <4>2
    <3> HIDE DEF k, v
    <3>10. \A w \in Works : AtMostOne(Claimants(w), Lists(w), Taken(w))'
      BY <3>3, <3>4, <3>8, <3>9 DEF UsersOK, AtMostOne
    <3>11. \A w \in Works : Pending(flags'[w]) <=> Used(w)'
      BY <2>0, <3>2, <3>4, <3>8, <3>9 DEF UsersOK, Used
    <3>12. \A c \in CPUs : NULL \in Chain(first[c])' /\ NULL \in Chain(llnode[c])'
      BY <3>6, <3>7 DEF UsersOK
    <3>13. \A c \in CPUs : rpc'[c] = "flags" => cur'[c] \notin Chain(llnode[c])'
      BY <2>0, <3>7 DEF UsersOK, runVars
    <3> QED  BY <3>10, <3>11, <3>12, <3>13 DEF UsersOK
  <2> QED  BY <2>1, <2>2
<1> QED  BY <1>2, <1>3, <1>4, <1>5, <1>6 DEF Queue
(* The steps of irq_work_run(). *)
LEMMA RunUsers ==
    ASSUME TypeOK, PlacesOK, UsersOK, NEW c \in CPUs, Run(c) \/ irq_work_run(c, FALSE)
    PROVE  UsersOK'
<1>0. /\ next \in Links /\ NULL \notin Works
      /\ \A b \in CPUs : first[b] \in Nodes /\ llnode[b] \in Nodes
  BY NodeTypes
<1>1. ASSUME NEW ipi \in BOOLEAN, irq_work_run(c, ipi)  PROVE UsersOK'
  <2>0. /\ rpc[c] = "idle" /\ llnode[c] = NULL /\ UNCHANGED <<flags, next, cur, pc, work>>
    BY <1>1 DEF irq_work_run, PlacesOK, queueVars
  <2>1. \A w \in Works : Claimants(w)' = Claimants(w)
    BY <2>0 DEF Claimants
  <2>2. CASE UNCHANGED <<first, llnode, rpc>>
    BY <2>0, <2>1, <2>2, SameLists, SameTaken, SameUsers DEF UsersOK, runVars
  <2>3. CASE /\ llnode' = [llnode EXCEPT ![c] = first[c]]
             /\ first' = [first EXCEPT ![c] = NULL]
             /\ rpc' = [rpc EXCEPT ![c] = "next"]
    <3>1. /\ llnode'[c] = first[c] /\ first'[c] = NULL /\ rpc'[c] = "next"
          /\ \A b \in CPUs \ {c} : /\ llnode'[b] = llnode[b] /\ first'[b] = first[b]
                                   /\ rpc'[b] = rpc[b]
      BY <2>3 DEF TypeOK
    <3>2. /\ Chain(llnode[c])' = Chain(first[c]) /\ Chain(first[c])' = {NULL}
          /\ Chain(llnode[c]) = {NULL}
          /\ \A b \in CPUs \ {c} : /\ Chain(llnode[b])' = Chain(llnode[b])
                                   /\ Chain(first[b])' = Chain(first[b])
      BY <1>0, <2>0, <3>1, ReachableNull DEF Chain
    <3>3. ASSUME NEW w \in Works
          PROVE  /\ Lists(w)' = Lists(w) \ {c}
                 /\ Taken(w)' = Taken(w) \cup (Lists(w) \cap {c})
      <4>1. Lists(w)' = Lists(w) \ {c}
        BY <1>0, <3>2 DEF Lists
      <4>2. ASSUME NEW b \in CPUs
            PROVE  b \in Taken(w)' <=> b \in Taken(w) \/ (b = c /\ b \in Lists(w))
        <5>1. CASE b = c
          BY <1>0, <2>0, <3>1, <3>2, <5>1 DEF Taken, Lists
        <5>2. CASE b # c
          BY <2>0, <3>1, <3>2, <5>2 DEF Taken
        <5> QED  BY <5>1, <5>2
      <4>3. Taken(w)' \subseteq CPUs /\ Taken(w) \subseteq CPUs
        BY DEF Taken
      <4> QED  BY <4>1, <4>2, <4>3
    <3>4. ASSUME NEW w \in Works
          PROVE  AtMostOne(Claimants(w), Lists(w), Taken(w))' /\ (Used(w)' <=> Used(w))
      <4>1. AtMostOne(Claimants(w), Lists(w), Taken(w))
        BY DEF UsersOK
      <4>2. CASE c \in Lists(w)
        <5>1. Lists(w) = {c} /\ Claimants(w) = {} /\ Taken(w) = {}
          BY <4>1, <4>2 DEF AtMostOne
        <5>2. Lists(w)' = {} /\ Claimants(w)' = {} /\ Taken(w)' = {c}
          BY <2>1, <3>3, <5>1
        <5> QED  BY <5>1, <5>2 DEF AtMostOne, Used
      <4>3. CASE c \notin Lists(w)
        <5>1. Lists(w)' = Lists(w) /\ Claimants(w)' = Claimants(w) /\ Taken(w)' = Taken(w)
          BY <2>1, <3>3, <4>3
        <5> QED  BY <4>1, <5>1 DEF AtMostOne, Used
      <4> QED  BY <4>2, <4>3
    <3>5. \A b \in CPUs : NULL \in Chain(first[b])' /\ NULL \in Chain(llnode[b])'
      BY <3>2 DEF UsersOK
    <3>6. \A b \in CPUs : rpc'[b] = "flags" => cur'[b] \notin Chain(llnode[b])'
      BY <2>0, <3>1, <3>2 DEF UsersOK
    <3> QED  BY <2>0, <3>4, <3>5, <3>6 DEF UsersOK
  <2> QED  BY <1>1, <2>2, <2>3 DEF irq_work_run
<1>2. CASE RunNext(c)
  <2>0. /\ rpc[c] = "next" /\ UNCHANGED <<flags, next, first, pc, work>>
    BY <1>2 DEF RunNext, queueVars
  <2>1. \A w \in Works : Claimants(w)' = Claimants(w)
    BY <2>0 DEF Claimants
  <2>2. CASE rpc' = [rpc EXCEPT ![c] = "idle"] /\ UNCHANGED <<cur, llnode>>
    <3>1. rpc'[c] = "idle" /\ \A b \in CPUs \ {c} : rpc'[b] = rpc[b]
      BY <2>2 DEF TypeOK
    <3>2. /\ \A w \in Works : Lists(w)' = Lists(w)
          /\ \A b \in CPUs : /\ Chain(first[b])' = Chain(first[b])
                             /\ Chain(llnode[b])' = Chain(llnode[b])
      BY <2>0, <2>2, SameLists
    <3>3. \A w \in Works : Taken(w)' = Taken(w)
      BY <2>0, <2>2, <3>1, <3>2 DEF Taken
    <3>4. \A b \in CPUs : rpc'[b] = "flags" => cur'[b] \notin Chain(llnode[b])'
      BY <2>2, <3>1, <3>2 DEF UsersOK
    <3> QED  BY <2>0, <2>1, <3>2, <3>3, <3>4, SameUsers DEF UsersOK
  <2>3. CASE /\ llnode[c] # NULL
             /\ cur' = [cur EXCEPT ![c] = llnode[c]]
             /\ llnode' = [llnode EXCEPT ![c] = next[llnode[c]]]
             /\ rpc' = [rpc EXCEPT ![c] = "flags"]
    <3>1. PICK v \in Works : v = llnode[c]
      BY <1>0, <2>3 DEF Nodes
    <3>2. /\ cur'[c] = v /\ llnode'[c] = next[v] /\ rpc'[c] = "flags"
          /\ \A b \in CPUs \ {c} : /\ llnode'[b] = llnode[b] /\ cur'[b] = cur[b]
                                   /\ rpc'[b] = rpc[b]
      BY <2>3, <3>1 DEF TypeOK
    <3>3. /\ Chain(llnode[c]) = {v} \cup Chain(llnode[c])' /\ v \notin Chain(llnode[c])'
      <4>1. Reachable(next, v) = {v} \cup Reachable(next, next[v])
        BY <1>0, ReachableUnfolds
      <4>2. NULL \in Reachable(next, v)
        BY <3>1 DEF UsersOK, Chain
      <4>3. v \notin Reachable(next, next[v])
        BY <1>0, <4>2, ReachableAcyclic
      <4>4. Chain(llnode[c])' = Reachable(next, next[v]) /\ Chain(llnode[c]) = Reachable(next, v)
        BY <2>0, <3>1, <3>2 DEF Chain
      <4> QED  BY <4>1, <4>3, <4>4
    <3>4. /\ \A w \in Works : Lists(w)' = Lists(w)
          /\ \A b \in CPUs : Chain(first[b])' = Chain(first[b])
          /\ \A b \in CPUs \ {c} : Chain(llnode[b])' = Chain(llnode[b])
      BY <2>0, <3>2 DEF Lists, Chain
    <3>5. ASSUME NEW w \in Works  PROVE Taken(w)' = Taken(w)
      <4>1. ASSUME NEW b \in CPUs  PROVE b \in Taken(w)' <=> b \in Taken(w)
        <5>1. CASE b = c
          BY <2>0, <3>2, <3>3, <5>1 DEF Taken
        <5>2. CASE b # c
          BY <3>2, <3>4, <5>2 DEF Taken
        <5> QED  BY <5>1, <5>2
      <4>2. Taken(w)' \subseteq CPUs /\ Taken(w) \subseteq CPUs
        BY DEF Taken
      <4> QED  BY <4>1, <4>2
    <3>6. NULL \in Chain(llnode[c])'
      BY <1>0, <3>3 DEF UsersOK
    <3>7. \A b \in CPUs : NULL \in Chain(first[b])' /\ NULL \in Chain(llnode[b])'
      BY <3>4, <3>6 DEF UsersOK
    <3>8. \A b \in CPUs : rpc'[b] = "flags" => cur'[b] \notin Chain(llnode[b])'
      BY <3>2, <3>3, <3>4 DEF UsersOK
    <3> QED  BY <2>0, <2>1, <3>4, <3>5, <3>7, <3>8, SameUsers
  <2> QED  BY <1>2, <2>2, <2>3 DEF RunNext
<1>3. CASE RunBusy(c)
  <2>0. PICK v \in Works : v = cur[c]
    BY <1>3 DEF RunBusy, PlacesOK
  <2>1. /\ rpc[c] = "flags" /\ flags' = [flags EXCEPT ![v] = 2] /\ rpc' = [rpc EXCEPT ![c] = "func"]
        /\ UNCHANGED <<next, first, cur, llnode, pc, work>>
    BY <1>3, <2>0 DEF RunBusy, IRQ_WORK_BUSY, queueVars
  <2>2. /\ rpc'[c] = "func" /\ \A b \in CPUs \ {c} : rpc'[b] = rpc[b]
        /\ flags'[v] = 2 /\ \A w \in Works \ {v} : flags'[w] = flags[w]
    BY <2>1 DEF TypeOK
  <2>3. ~Pending(flags'[v])
    BY <2>2 DEF Pending
  <2>4. /\ \A w \in Works : Lists(w)' = Lists(w)
        /\ \A b \in CPUs : /\ Chain(first[b])' = Chain(first[b])
                           /\ Chain(llnode[b])' = Chain(llnode[b])
    BY <2>1, SameLists
  <2>5. \A w \in Works : Claimants(w)' = Claimants(w)
    BY <2>1 DEF Claimants
  <2>6. c \in Taken(v) /\ v \notin Chain(llnode[c])
    BY <2>0, <2>1 DEF Taken, UsersOK
  <2>7. Taken(v) = {c} /\ Lists(v) = {} /\ Claimants(v) = {}
    BY <2>6 DEF UsersOK, AtMostOne
  <2>8. Taken(v)' = {}
    <3>1. ASSUME NEW b \in CPUs  PROVE b \notin Taken(v)'
      <4>1. CASE b = c
        BY <2>2, <2>4, <2>6, <4>1 DEF Taken
      <4>2. CASE b # c
        <5>1. b \notin Taken(v)
          BY <2>7, <4>2
        <5> QED  BY <2>1, <2>2, <2>4, <4>2, <5>1 DEF Taken
      <4> QED  BY <4>1, <4>2
    <3>2. Taken(v)' \subseteq CPUs
      BY DEF Taken
    <3> QED  BY <3>1, <3>2
  <2>9. ASSUME NEW w \in Works, w # v  PROVE Taken(w)' = Taken(w)
    <3>1. ASSUME NEW b \in CPUs  PROVE b \in Taken(w)' <=> b \in Taken(w)
      <4>1. CASE b = c
        BY <2>0, <2>1, <2>2, <2>4, <2>9, <4>1 DEF Taken
      <4>2. CASE b # c
        BY <2>1, <2>2, <2>4, <4>2 DEF Taken
      <4> QED  BY <4>1, <4>2
    <3>2. Taken(w)' \subseteq CPUs /\ Taken(w) \subseteq CPUs
      BY DEF Taken
    <3> QED  BY <3>1, <3>2
  <2>10. \A w \in Works : AtMostOne(Claimants(w), Lists(w), Taken(w))'
    BY <2>4, <2>5, <2>7, <2>8, <2>9 DEF UsersOK, AtMostOne
  <2>11. \A w \in Works : Pending(flags'[w]) <=> Used(w)'
    BY <2>2, <2>3, <2>4, <2>5, <2>7, <2>8, <2>9 DEF UsersOK, Used
  <2>12. \A b \in CPUs : rpc'[b] = "flags" => cur'[b] \notin Chain(llnode[b])'
    BY <2>1, <2>2, <2>4 DEF UsersOK
  <2> QED  BY <2>4, <2>10, <2>11, <2>12 DEF UsersOK
<1>4. ASSUME rpc[c] \in {"func", "clear"}, rpc'[c] \in {"next", "clear"},
             \A b \in CPUs \ {c} : rpc'[b] = rpc[b] /\ cur'[b] = cur[b],
             \A w \in Works : Pending(flags'[w]) <=> Pending(flags[w]),
             UNCHANGED <<next, first, llnode, pc, work>>
      PROVE  UsersOK'
  <2>1. /\ \A w \in Works : Lists(w)' = Lists(w)
        /\ \A b \in CPUs : /\ Chain(first[b])' = Chain(first[b])
                           /\ Chain(llnode[b])' = Chain(llnode[b])
    BY <1>4, SameLists
  <2>2. \A w \in Works : Claimants(w)' = Claimants(w)
    BY <1>4 DEF Claimants
  <2>3. ASSUME NEW w \in Works  PROVE Taken(w)' = Taken(w)
    <3>1. ASSUME NEW b \in CPUs  PROVE b \in Taken(w)' <=> b \in Taken(w)
      <4>1. CASE b = c
        BY <1>4, <2>1, <4>1 DEF Taken
      <4>2. CASE b # c
        BY <1>4, <2>1, <4>2 DEF Taken
      <4> QED  BY <4>1, <4>2
    <3>2. Taken(w)' \subseteq CPUs /\ Taken(w) \subseteq CPUs
      BY DEF Taken
    <3> QED  BY <3>1, <3>2
  <2>4. \A b \in CPUs : rpc'[b] = "flags" => cur'[b] \notin Chain(llnode[b])'
    BY <1>4, <2>1 DEF UsersOK
  <2> QED  BY <1>4, <2>1, <2>2, <2>3, <2>4, SameUsers DEF UsersOK
<1>5. CASE RunFunc(c)
  <2>1. /\ rpc[c] = "func" /\ rpc'[c] = "clear" /\ \A b \in CPUs \ {c} : rpc'[b] = rpc[b]
        /\ UNCHANGED <<flags, cur, next, first, llnode, pc, work>>
    BY <1>5 DEF RunFunc, queueVars, TypeOK
  <2> QED  BY <1>4, <2>1
<1>6. CASE RunClear(c)
  <2>0. cur[c] \in Works
    BY <1>6 DEF RunClear, PlacesOK
  <2>1. /\ rpc[c] = "clear" /\ rpc'[c] = "next"
        /\ \A b \in CPUs \ {c} : rpc'[b] = rpc[b] /\ cur'[b] = cur[b]
        /\ UNCHANGED <<next, first, llnode, pc, work>>
    BY <1>6 DEF RunClear, queueVars, TypeOK
  <2>2. \A w \in Works : flags'[w] = flags[w] \/ (flags[w] = 2 /\ flags'[w] = 0)
    BY <1>6, <2>0 DEF RunClear, IRQ_WORK_BUSY, TypeOK
  <2>3. ~Pending(2) /\ ~Pending(0)
    BY DEF Pending
  <2>4. \A w \in Works : Pending(flags'[w]) <=> Pending(flags[w])
    BY <2>2, <2>3
  <2> QED  BY <1>4, <2>1, <2>4
<1> QED  BY <1>1, <1>2, <1>3, <1>5, <1>6 DEF Run

(* In every reachable state a node has at most one user. *)
LEMMA UsersHold == Spec => []UsersOK
<1>1. Init => UsersOK
  <2> SUFFICES ASSUME Init  PROVE UsersOK
    OBVIOUS
  <2>1. /\ next \in Links /\ \A c \in CPUs : first[c] = NULL /\ llnode[c] = NULL /\ rpc[c] = "idle"
        /\ \A q \in Queuers : pc[q] = "idle"
        /\ \A w \in Works : flags[w] = 0
    BY DEF Init, Links, Nodes
  <2>2. \A c \in CPUs : Chain(first[c]) = {NULL} /\ Chain(llnode[c]) = {NULL}
    BY <2>1, ReachableNull DEF Chain
  <2>3. \A w \in Works : Claimants(w) = {} /\ Lists(w) = {} /\ Taken(w) = {}
    BY <2>1, <2>2, IrqWorkAssumption DEF Claimants, Lists, Taken
  <2>4. ~Pending(0)
    BY DEF Pending
  <2> QED  BY <2>1, <2>2, <2>3, <2>4 DEF UsersOK, AtMostOne, Used
<1>2. TypeOK /\ TypeOK' /\ PlacesOK /\ UsersOK /\ [Next]_vars => UsersOK'
  <2> SUFFICES ASSUME TypeOK, TypeOK', PlacesOK, UsersOK, [Next]_vars  PROVE UsersOK'
    OBVIOUS
  <2>1. CASE UNCHANGED <<flags, next, first, runVars, queueVars>>
    <3>1. \A w \in Works : Claimants(w)' = Claimants(w)
      BY <2>1 DEF Claimants, queueVars
    <3> QED  BY <2>1, <3>1, SameUsers, SameLists, SameTaken DEF UsersOK, runVars
  <2>2. CASE (\E w \in Syncs : irq_work_sync(w)) \/ SyncReturns \/ UNCHANGED vars
    BY <2>1, <2>2 DEF irq_work_sync, SyncReturns, vars
  <2> QED  BY <2>2, QueueUsers, RunUsers DEF Next, Step
<1> QED  BY <1>1, <1>2, TypesHold, PTL DEF Spec

(* A node has one user at a time, a claimant, a list or irq_work_run(), and *)
(* then its work is pending; the lists end.                                 *)
THEOREM NodeCorrect == Spec => []NodeOnce
<1>1. UsersOK => NodeOnce
  <2> SUFFICES ASSUME UsersOK, NEW w \in Works
               PROVE  LET users == Cardinality(Claimants(w)) + Cardinality(Lists(w))
                                     + Cardinality(Taken(w))
                      IN  users <= 1 /\ (users = 1 <=> Pending(flags[w]))
    BY DEF UsersOK, NodeOnce
  <2> DEFINE A == Claimants(w)
             B == Lists(w)
             C == Taken(w)
  <2>1. AtMostOne(A, B, C) /\ (Pending(flags[w]) <=> A # {} \/ B # {} \/ C # {})
    BY DEF UsersOK, Used
  <2> HIDE DEF A, B, C
  <2>2. \A S : (\A x, y \in S : x = y) => IF S = {} THEN Cardinality(S) = 0 ELSE Cardinality(S) = 1
    <3> SUFFICES ASSUME NEW S, \A x, y \in S : x = y
                 PROVE  IF S = {} THEN Cardinality(S) = 0 ELSE Cardinality(S) = 1
      OBVIOUS
    <3>1. CASE S = {}
      BY <3>1, FS_EmptySet
    <3>2. CASE S # {}
      <4>1. PICK x \in S : TRUE
        BY <3>2
      <4>2. S = {x}
        BY <4>1
      <4> QED  BY <4>2, FS_Singleton
    <3> QED  BY <3>1, <3>2
  <2>3. /\ Cardinality(A) = IF A = {} THEN 0 ELSE 1
        /\ Cardinality(B) = IF B = {} THEN 0 ELSE 1
        /\ Cardinality(C) = IF C = {} THEN 0 ELSE 1
    BY <2>1, <2>2 DEF AtMostOne
  <2>4. /\ Cardinality(A) + Cardinality(B) + Cardinality(C) <= 1
        /\ Cardinality(A) + Cardinality(B) + Cardinality(C) = 1 <=> A # {} \/ B # {} \/ C # {}
    BY <2>1, <2>3 DEF AtMostOne
  <2> QED  BY <2>1, <2>4 DEF A, B, C
<1> QED  BY <1>1, UsersHold, PTL
-----------------------------------------------------------------------------
(* What has been published. *)

(* A list that is not empty has its interrupt raised. *)
RaiseOK == \A c \in CPUs : first[c] # NULL => raised[c]

(* The callback is on its way to begin, or somebody is still queueing.      *)
DataOK ==
    \A w \in Works :
       data[w] => \/ Pending(flags[w])
                  \/ \E c \in CPUs : cur[c] = w /\ rpc[c] = "func"
                  \/ \E q \in Queuers : work[q] = w

(* Every step keeps both. *)
LEMMA DataStep ==
    ASSUME TypeOK, PlacesOK, UsersOK, RaiseOK, DataOK, [Next]_vars
    PROVE  RaiseOK' /\ DataOK'
<1>1. ASSUME UNCHANGED <<flags, first, raised, rpc, cur, work, data>>  PROVE RaiseOK' /\ DataOK'
  BY <1>1 DEF RaiseOK, DataOK
<1>2. ASSUME NEW q \in Queuers, NEW w \in Works, Publish(q, w)  PROVE RaiseOK' /\ DataOK'
  <2>1. RaiseOK'
    BY <1>2 DEF Publish, RaiseOK
  <2>2. /\ pc[q] = "idle" /\ work'[q] = w /\ \A p \in Queuers \ {q} : work'[p] = work[p]
        /\ \A v \in Works \ {w} : data'[v] = data[v]
        /\ UNCHANGED <<flags, rpc, cur>>
    BY <1>2 DEF Publish, TypeOK, runVars
  <2>3. work[q] = NULL /\ NULL \notin Works
    BY <2>2, IrqWorkAssumption DEF PlacesOK
  <2> QED  BY <2>1, <2>2, <2>3 DEF DataOK
<1>3. ASSUME NEW q \in Queuers, ClaimRead(q)  PROVE RaiseOK' /\ DataOK'
  <2>1. UNCHANGED <<flags, first, raised, rpc, cur, data>>
    BY <1>3 DEF ClaimRead, runVars
  <2>2. CASE UNCHANGED work
    BY <1>1, <2>1, <2>2
  <2>3. CASE Enqueued(flags[work[q]]) /\ Return(q)
    <3>1. Pending(flags[work[q]]) /\ \A p \in Queuers \ {q} : work'[p] = work[p]
      BY <2>3 DEF Enqueued, Return, TypeOK
    <3> QED  BY <2>1, <3>1 DEF RaiseOK, DataOK
  <2> QED  BY <1>3, <2>2, <2>3 DEF ClaimRead
<1>4. ASSUME NEW q \in Queuers, ClaimCmpxchg(q)  PROVE RaiseOK' /\ DataOK'
  <2>1. UNCHANGED <<first, raised, rpc, cur, work, data>>
    BY <1>4 DEF ClaimCmpxchg, runVars
  <2>2. flags' = flags \/ flags' = [flags EXCEPT ![work[q]] = 3]
    BY <1>4 DEF ClaimCmpxchg, NewFlags, IRQ_WORK_FLAGS
  <2>3. Pending(3)
    BY DEF Pending
  <2>4. \A w \in Works : Pending(flags[w]) => Pending(flags'[w])
    BY <2>2, <2>3 DEF TypeOK
  <2> QED  BY <2>1, <2>4 DEF RaiseOK, DataOK
<1>5. ASSUME NEW q \in Queuers, AddRead(q)  PROVE RaiseOK' /\ DataOK'
  BY <1>1, <1>5 DEF AddRead, runVars
<1>6. ASSUME NEW q \in Queuers, AddCmpxchg(q)  PROVE RaiseOK' /\ DataOK'
  <2>1. /\ pc[q] = "add_cmpxchg" /\ work[q] \in Works /\ home[q] \in CPUs
        /\ UNCHANGED <<flags, rpc, cur, data>>
    BY <1>6, IrqWorkAssumption DEF AddCmpxchg, PlacesOK, runVars
  <2>2. CASE first[home[q]] # next[work[q]]
    BY <1>1, <1>6, <2>1, <2>2 DEF AddCmpxchg
  <2>3. CASE first[home[q]] = next[work[q]]
    <3>1. /\ first' = [first EXCEPT ![home[q]] = work[q]] /\ work' = [work EXCEPT ![q] = NULL]
          /\ raised' = [raised EXCEPT ![home[q]] = @ \/ next[work[q]] = NULL]
      BY <1>6, <2>3 DEF AddCmpxchg, WasEmpty, Return
    <3>2. raised'[home[q]] <=> raised[home[q]] \/ first[home[q]] = NULL
      BY <2>1, <2>3, <3>1 DEF TypeOK
    <3>3. \A c \in CPUs \ {home[q]} : raised'[c] = raised[c] /\ first'[c] = first[c]
      BY <3>1 DEF TypeOK
    <3>4. RaiseOK'
      BY <2>1, <3>2, <3>3 DEF RaiseOK
    <3>5. q \in Claimants(work[q])
      BY <2>1 DEF Claimants
    <3>6. Pending(flags[work[q]])
      BY <2>1, <3>5 DEF UsersOK, Used
    <3>7. \A p \in Queuers \ {q} : work'[p] = work[p]
      BY <3>1 DEF TypeOK
    <3>8. DataOK'
      BY <2>1, <3>6, <3>7 DEF DataOK
    <3> QED  BY <3>4, <3>8
  <2> QED  BY <2>2, <2>3
<1>7. ASSUME NEW c \in CPUs, NEW ipi \in BOOLEAN, irq_work_run(c, ipi)  PROVE RaiseOK' /\ DataOK'
  <2>1. /\ rpc[c] = "idle" /\ UNCHANGED <<flags, cur, work, data>>
        /\ \A b \in CPUs \ {c} : raised'[b] = raised[b] /\ first'[b] = first[b] /\ rpc'[b] = rpc[b]
        /\ first'[c] = NULL
    BY <1>7 DEF irq_work_run, queueVars, TypeOK
  <2>2. RaiseOK'
    BY <2>1 DEF RaiseOK
  <2> QED  BY <2>1, <2>2 DEF DataOK
<1>8. ASSUME NEW c \in CPUs, RunNext(c)  PROVE RaiseOK' /\ DataOK'
  <2>1. /\ rpc[c] = "next" /\ UNCHANGED <<flags, first, raised, work, data>>
        /\ \A b \in CPUs \ {c} : cur'[b] = cur[b] /\ rpc'[b] = rpc[b]
    BY <1>8 DEF RunNext, queueVars, TypeOK
  <2> QED  BY <2>1 DEF RaiseOK, DataOK
<1>9. ASSUME NEW c \in CPUs, RunBusy(c)  PROVE RaiseOK' /\ DataOK'
  <2>1. /\ cur[c] \in Works /\ rpc[c] = "flags" /\ rpc'[c] = "func"
        /\ UNCHANGED <<first, raised, cur, work, data>>
        /\ \A b \in CPUs \ {c} : rpc'[b] = rpc[b]
        /\ \A w \in Works : w # cur[c] => flags'[w] = flags[w]
    BY <1>9 DEF RunBusy, queueVars, TypeOK, PlacesOK
  <2> QED  BY <2>1 DEF RaiseOK, DataOK
<1>10. ASSUME NEW c \in CPUs, RunFunc(c)  PROVE RaiseOK' /\ DataOK'
  <2>1. /\ cur[c] \in Works /\ rpc[c] = "func" /\ UNCHANGED <<flags, first, raised, cur, work>>
        /\ \A b \in CPUs \ {c} : rpc'[b] = rpc[b]
        /\ ~data'[cur[c]] /\ \A w \in Works : w # cur[c] => data'[w] = data[w]
    BY <1>10 DEF RunFunc, queueVars, TypeOK, PlacesOK
  <2> QED  BY <2>1 DEF RaiseOK, DataOK
<1>11. ASSUME NEW c \in CPUs, RunClear(c)  PROVE RaiseOK' /\ DataOK'
  <2>1. /\ cur[c] \in Works /\ rpc[c] = "clear" /\ UNCHANGED <<first, raised, work, data>>
        /\ \A b \in CPUs \ {c} : rpc'[b] = rpc[b] /\ cur'[b] = cur[b]
        /\ \A w \in Works : flags'[w] = flags[w] \/ flags[w] = 2
    BY <1>11 DEF RunClear, IRQ_WORK_BUSY, queueVars, TypeOK, PlacesOK
  <2>2. ~Pending(2)
    BY DEF Pending
  <2> QED  BY <2>1, <2>2 DEF RaiseOK, DataOK
<1>12. CASE (\E w \in Syncs : irq_work_sync(w)) \/ SyncReturns \/ UNCHANGED vars
  BY <1>1, <1>12 DEF irq_work_sync, SyncReturns, vars, runVars, queueVars
<1> QED
  BY <1>2, <1>3, <1>4, <1>5, <1>6, <1>7, <1>8, <1>9, <1>10, <1>11, <1>12 DEF Next, Step, Queue, Run

(* Data published before a call of irq_work_queue() that has returned is    *)
(* still to be seen by a callback, whatever the call returned.              *)
THEOREM NothingLost == Spec => []NoLostWork
<1>1. Init => RaiseOK /\ DataOK
  BY DEF Init, RaiseOK, DataOK
<1>2. TypeOK /\ PlacesOK /\ UsersOK /\ RaiseOK /\ DataOK /\ [Next]_vars => RaiseOK' /\ DataOK'
  BY DataStep
<1>3. TypeOK /\ UsersOK /\ RaiseOK /\ DataOK => NoLostWork
  <2> SUFFICES ASSUME TypeOK, UsersOK, RaiseOK, DataOK, NEW w \in Works, data[w],
                      \A q \in Queuers : work[q] # w
               PROVE  WillRun(w)
    BY DEF NoLostWork
  <2>1. CASE Pending(flags[w])
    <3>1. Used(w) /\ Claimants(w) = {}
      BY <2>1 DEF UsersOK, Claimants
    <3>2. CASE Lists(w) # {}
      <4>1. PICK c \in CPUs : w \in Chain(first[c])
        BY <3>2 DEF Lists
      <4>2. first[c] # NULL
        BY <4>1, NodeTypes, ReachableNull DEF Chain
      <4> QED  BY <4>1, <4>2 DEF RaiseOK, WillRun, Lists
    <3> QED  BY <3>1, <3>2 DEF Used, WillRun
  <2>2. CASE \E c \in CPUs : cur[c] = w /\ rpc[c] = "func"
    BY <2>2 DEF WillRun
  <2> QED  BY <2>1, <2>2 DEF DataOK
<1> QED  BY <1>1, <1>2, <1>3, TypesHold, UsersHold, PTL DEF Spec

(* irq_work_queue() reports failure only when somebody else has the work    *)
(* enqueued, and its callback has not begun.                                *)
THEOREM FailureCorrect == Spec => FailureMeansEnqueued
<1>1. TypeOK /\ UsersOK /\ PlacesOK /\ [Next]_vars =>
         [\A q \in Queuers :
             pc[q] = "claim" /\ pc'[q] = "idle"
                => Claimants(work[q]) # {} \/ Lists(work[q]) # {} \/ Taken(work[q]) # {}]_vars
  <2> SUFFICES ASSUME TypeOK, UsersOK, PlacesOK, Next, NEW q \in Queuers,
                      pc[q] = "claim", pc'[q] = "idle"
               PROVE  Used(work[q])
    BY DEF Used
  <2>1. work[q] \in Works
    BY DEF PlacesOK
  <2>2. ASSUME NEW p \in Queuers, (\E w \in Works : Publish(p, w)) \/ Queue(p)
        PROVE  p = q /\ ClaimRead(q)
    <3>1. PICK x : pc' = [pc EXCEPT ![p] = x] \/ pc' = pc
      BY <2>2 DEF Publish, Queue, ClaimRead, ClaimCmpxchg, AddRead, AddCmpxchg, Return
    <3>2. p = q
      BY <3>1 DEF TypeOK
    <3> QED  BY <2>2, <3>2 DEF Publish, Queue, ClaimCmpxchg, AddRead, AddCmpxchg
  <2>3. ASSUME ClaimRead(q)  PROVE Pending(flags[work[q]])
    BY <2>3 DEF ClaimRead, Enqueued, TypeOK
  <2>4. ~(UNCHANGED pc)
    OBVIOUS
  <2>5. ClaimRead(q)
    <3>1. ASSUME NEW c \in CPUs, Run(c) \/ irq_work_run(c, FALSE)  PROVE UNCHANGED pc
      BY <3>1 DEF Run, irq_work_run, RunNext, RunBusy, RunFunc, RunClear, queueVars
    <3>2. ASSUME (\E w \in Syncs : irq_work_sync(w)) \/ SyncReturns  PROVE UNCHANGED pc
      BY <3>2 DEF irq_work_sync, SyncReturns, queueVars
    <3> QED  BY <2>2, <2>4, <3>1, <3>2 DEF Next, Step
  <2> QED  BY <2>1, <2>3, <2>5 DEF UsersOK
<1> QED  BY <1>1, TypesHold, UsersHold, PTL DEF Spec, FailureMeansEnqueued
-----------------------------------------------------------------------------
(* BUSY.  A claim sets both flags.  BUSY is set while a callback runs that  *)
(* has not met another of the same work, and callbacks that run together    *)
(* have met.                                                                *)
BusyOK ==
    /\ \A w \in Works : flags[w] \in {0, 2, 3}
    /\ \A c, d \in CPUs : \A w \in Works : c # d /\ InFunc(c, w) /\ InFunc(d, w) => c \in twice
    /\ \A c \in CPUs : \A w \in Works : InFunc(c, w) => c \in twice \/ flags[w] # 0

(* What a step does to the flags and to the callbacks that run. *)
LEMMA FuncSteps ==
    ASSUME TypeOK, PlacesOK, BusyOK, Step
    PROVE  /\ \A w \in Works : flags'[w] \in {0, 2, 3}
           /\ \A c \in CPUs : \A w \in Works : InFunc(c, w)' => InFunc(c, w) \/ flags'[w] = 2
           /\ \A w \in Works : flags[w] # 0 /\ flags'[w] = 0 =>
                 \E d \in CPUs : InFunc(d, w) /\ ~InFunc(d, w)'
<1> USE DEF InFunc
<1>1. CASE UNCHANGED <<flags, cur, rpc>>
  BY <1>1 DEF BusyOK
<1>2. ASSUME NEW q \in Queuers, (\E w \in Works : Publish(q, w)) \/ Queue(q)
      PROVE  UNCHANGED <<flags, cur, rpc>> \/ ClaimCmpxchg(q)
  BY <1>2 DEF Publish, Queue, ClaimRead, AddRead, AddCmpxchg, runVars
<1>3. ASSUME NEW q \in Queuers, ClaimCmpxchg(q), ~UNCHANGED flags
      PROVE  UNCHANGED <<cur, rpc>> /\ flags' = [flags EXCEPT ![work[q]] = 3]
  BY <1>3 DEF ClaimCmpxchg, NewFlags, IRQ_WORK_FLAGS, runVars
<1>4. CASE \E q \in Queuers : ClaimCmpxchg(q)
  <2>1. UNCHANGED <<cur, rpc>>
    BY <1>4 DEF ClaimCmpxchg, runVars
  <2>2. \A w \in Works : flags'[w] \in {flags[w], 3}
    BY <1>3, <1>4 DEF TypeOK
  <2> QED  BY <2>1, <2>2 DEF BusyOK
<1>5. ASSUME NEW c \in CPUs, irq_work_run(c, TRUE) \/ irq_work_run(c, FALSE) \/ RunNext(c)
      PROVE  /\ UNCHANGED flags
             /\ \A d \in CPUs : \A w \in Works : InFunc(d, w)' => InFunc(d, w)
  BY <1>5 DEF irq_work_run, RunNext, TypeOK
<1>6. ASSUME NEW c \in CPUs, RunFunc(c)
      PROVE  /\ UNCHANGED flags
             /\ \A d \in CPUs : \A w \in Works : InFunc(d, w)' => InFunc(d, w)
  BY <1>6 DEF RunFunc, TypeOK
<1>7. CASE \E c \in CPUs : RunBusy(c)
  <2>1. PICK c \in CPUs : RunBusy(c)
    BY <1>7
  <2>2. /\ flags' = [flags EXCEPT ![cur[c]] = 2] /\ UNCHANGED cur
        /\ rpc' = [rpc EXCEPT ![c] = "func"]
    BY <2>1 DEF RunBusy, IRQ_WORK_BUSY
  <2>3. cur[c] \in Works
    BY <2>1 DEF RunBusy, PlacesOK
  <2>4. /\ flags'[cur[c]] = 2 /\ \A w \in Works : w # cur[c] => flags'[w] = flags[w]
        /\ \A d \in CPUs : d # c => rpc'[d] = rpc[d]
    BY <2>2, <2>3 DEF TypeOK
  <2> QED  BY <2>2, <2>4 DEF BusyOK
<1>8. CASE \E c \in CPUs : RunClear(c)
  <2>1. PICK c \in CPUs : RunClear(c)
    BY <1>8
  <2>2. /\ rpc[c] = "clear" /\ cur[c] \in Works
        /\ rpc' = [rpc EXCEPT ![c] = "next"] /\ cur' = [cur EXCEPT ![c] = NULL]
    BY <2>1 DEF RunClear, PlacesOK
  <2>3. /\ \A w \in Works : flags'[w] \in {flags[w], 0}
        /\ \A w \in Works : w # cur[c] => flags'[w] = flags[w]
    BY <2>1, <2>2 DEF RunClear, TypeOK
  <2>4. rpc'[c] = "next" /\ \A d \in CPUs : d # c => rpc'[d] = rpc[d] /\ cur'[d] = cur[d]
    BY <2>2 DEF TypeOK
  <2> QED  BY <2>2, <2>3, <2>4 DEF BusyOK
<1>9. CASE (\E w \in Syncs : irq_work_sync(w)) \/ SyncReturns
  BY <1>1, <1>9 DEF irq_work_sync, SyncReturns, runVars
<1>10. CASE \E c \in CPUs : irq_work_run(c, TRUE) \/ irq_work_run(c, FALSE) \/ RunNext(c) \/ RunFunc(c)
  BY <1>5, <1>6, <1>10 DEF BusyOK
<1> QED  BY <1>1, <1>2, <1>4, <1>7, <1>8, <1>9, <1>10 DEF Step, Run

LEMMA BusyStep ==
    ASSUME TypeOK, PlacesOK, BusyOK, [Next]_vars
    PROVE  BusyOK'
<1>1. CASE UNCHANGED vars
  BY <1>1 DEF vars, runVars, BusyOK, InFunc
<1>2. CASE Next
  <2>1. \A c, d \in CPUs : \A w \in Works : c # d /\ InFunc(c, w)' /\ InFunc(d, w)' => c \in twice'
    BY <1>2 DEF Next, Meets
  <2>2. \A c \in twice : c \in CPUs => \A w \in Works : InFunc(c, w)' => c \in twice'
    BY <1>2 DEF Next
  <2>3. ASSUME NEW c \in CPUs, NEW w \in Works, InFunc(c, w)', c \notin twice', flags'[w] = 0
        PROVE  FALSE
    <3>1. c \notin twice /\ InFunc(c, w) /\ flags[w] # 0
      BY <1>2, <2>2, <2>3, FuncSteps DEF Next, BusyOK
    <3>2. PICK d \in CPUs : InFunc(d, w) /\ ~InFunc(d, w)'
      BY <1>2, <2>3, <3>1, FuncSteps DEF Next
    <3> QED  BY <2>3, <3>1, <3>2 DEF BusyOK
  <2> QED  BY <1>2, <2>1, <2>3, FuncSteps DEF BusyOK, Next
<1> QED  BY <1>1, <1>2

(* When irq_work_sync() returns the work has no user and its callback does  *)
(* not run, but for callbacks of one work that have run on two CPUs at      *)
(* once.                                                                    *)
THEOREM SyncCorrect == Spec => SyncMeansUnused
<1>1. Init => BusyOK
  BY DEF Init, BusyOK, InFunc
<1>2. TypeOK /\ PlacesOK /\ BusyOK /\ [Next]_vars => BusyOK'
  BY BusyStep
<1>3. TypeOK /\ UsersOK /\ BusyOK /\ [Next]_vars =>
         [\A w \in Works : sync = w /\ sync' = NULL =>
             /\ Claimants(w) = {} /\ Lists(w) = {} /\ Taken(w) = {}
             /\ \A c \in CPUs : InFunc(c, w) => c \in twice]_vars
  <2> SUFFICES ASSUME TypeOK, UsersOK, BusyOK, Next, NEW w \in Works, sync = w, sync' = NULL
               PROVE  ~Used(w) /\ \A c \in CPUs : InFunc(c, w) => c \in twice
    BY DEF Used
  <2>1. ~UNCHANGED sync
    BY IrqWorkAssumption
  <2>2. SyncReturns
    <3>1. ASSUME NEW q \in Queuers, (\E v \in Works : Publish(q, v)) \/ Queue(q)
          PROVE  UNCHANGED sync
      BY <3>1 DEF Publish, Queue, ClaimRead, ClaimCmpxchg, AddRead, AddCmpxchg
    <3>2. ASSUME NEW c \in CPUs, Run(c) \/ irq_work_run(c, FALSE)  PROVE UNCHANGED sync
      BY <3>2 DEF Run, irq_work_run, RunNext, RunBusy, RunFunc, RunClear
    <3>3. ASSUME NEW v \in Syncs, irq_work_sync(v)  PROVE FALSE
      BY <3>3, IrqWorkAssumption DEF irq_work_sync
    <3> QED  BY <2>1, <3>1, <3>2, <3>3 DEF Next, Step
  <2>3. ~Busy(flags[w])
    BY <2>2 DEF SyncReturns
  <2>4. flags[w] = 0
    <3>1. 2 \div 2 = 1 /\ 3 \div 2 = 1
      OBVIOUS
    <3> QED  BY <2>3, <3>1 DEF BusyOK, Busy
  <2>5. ~Pending(flags[w])
    BY <2>4 DEF Pending
  <2> QED  BY <2>4, <2>5 DEF UsersOK, BusyOK
<1> QED  BY <1>1, <1>2, <1>3, TypesHold, UsersHold, PTL DEF Spec, SyncMeansUnused
=============================================================================
