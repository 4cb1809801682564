----------------------------- MODULE MutexProofs -----------------------------
(***************************************************************************)
(* Proofs about Mutex, for every set of tasks and every build.             *)
(***************************************************************************)
EXTENDS Mutex, TLAPS

-----------------------------------------------------------------------------
(* Type correctness. *)

(* The build is one of the three fast paths. *)
LEMMA BuildType ==
    ASSUME TypeOK
    PROVE  arch \in {"dec", "xchg", "null"}
BY MutexAssumption DEF TypeOK

(* Removing an entry leaves a list of tasks. *)
LEMMA RemoveType ==
    ASSUME wait_list \in Seq(Tasks), NEW t \in Tasks, mutex_remove_waiter(t)
    PROVE  wait_list' \in Seq(Tasks)
<1>1. PICK k \in DOMAIN wait_list : wait_list' = list_del(wait_list, k)
  BY DEF mutex_remove_waiter
<1>2. \A i \in 1 .. Len(wait_list) - 1 :
         wait_list[i] \in Tasks /\ wait_list[i + 1] \in Tasks
  OBVIOUS
<1>3. Len(wait_list) - 1 \in Nat
  BY <1>1
<1> QED  BY <1>1, <1>2, <1>3 DEF list_del

(* A task only ever moves to a place that exists. *)
LEMMA GotoType ==
    ASSUME pc \in [Tasks -> Labels], NEW t \in Tasks, NEW label \in Labels, Goto(t, label)
    PROVE  pc' \in [Tasks -> Labels]
BY DEF Goto

(* Every variable keeps its type, on every path through mutex.c. *)
THEOREM TypeCorrect == Spec => []TypeOK
<1>1. Init => TypeOK
  <2>1. Init => <<arch, spin>> \in Builds
    BY MutexAssumption DEF Init
  <2> QED  BY <2>1, MutexAssumption DEF Init, TypeOK, States, Signals, Labels
<1>2. TypeOK /\ [Next]_vars => TypeOK'
  <2> SUFFICES ASSUME TypeOK, [Next]_vars  PROVE TypeOK'
    OBVIOUS
  <2> USE DEF TypeOK, States, Signals, Labels
  <2>1. ASSUME NEW t \in Tasks, Call(t)  PROVE TypeOK'
    <3>1. ASSUME NEW st \in States, Lock(t, st)  PROVE TypeOK'
      <4>1. LockCommon \in Labels
        BY DEF LockCommon
      <4>2. count' \in Int
        BY <3>1 DEF Lock, __mutex_fastpath_lock
      <4>3. \E label \in {LockCommon, "set_owner"} : Goto(t, label)
        BY <3>1, Zenon DEF Lock, __mutex_fastpath_lock
      <4>4. pc' \in [Tasks -> Labels]
        BY <4>1, <4>3, GotoType
      <4> QED  BY <3>1, <4>2, <4>4 DEF Lock
    <3>2. CASE mutex_trylock(t)
      <4>1. \E label \in {"set_owner", "idle", "trylock_again"} : Goto(t, label)
        BY <3>2 DEF mutex_trylock, __mutex_fastpath_trylock, __mutex_trylock_slowpath
      <4>2. pc' \in [Tasks -> Labels]
        BY <4>1, GotoType
      <4>3. /\ count' \in Int /\ owner' \in Tasks \cup {NULL} /\ prev' \in [Tasks -> Int]
        BY <3>2 DEF mutex_trylock, __mutex_fastpath_trylock, __mutex_trylock_slowpath
      <4> QED  BY <3>2, <4>2, <4>3 DEF mutex_trylock
    <3> QED
      BY <2>1, <3>1, <3>2
         DEF Call, mutex_lock, mutex_lock_interruptible, mutex_lock_killable
  <2>2. ASSUME NEW t \in Tasks, mutex_set_owner(t)  PROVE TypeOK'
    BY <2>2 DEF mutex_set_owner, Goto
  <2>3. ASSUME NEW t \in Tasks, SpinReadOwner(t)  PROVE TypeOK'
    BY <2>3 DEF SpinReadOwner, Goto
  <2>4. ASSUME NEW t \in Tasks, mutex_spin_on_owner(t)  PROVE TypeOK'
    BY <2>4 DEF mutex_spin_on_owner, Goto
  <2>5. ASSUME NEW t \in Tasks, SpinCmpxchg(t)  PROVE TypeOK'
    <3>1. \E label \in {"set_owner", "spin", "slow_lock"} : Goto(t, label)
      BY <2>5 DEF SpinCmpxchg
    <3>2. pc' \in [Tasks -> Labels]
      BY <3>1, GotoType
    <3>3. count' \in Int /\ owner' \in Tasks \cup {NULL}
      BY <2>5 DEF SpinCmpxchg
    <3>4. /\ seen' \in [Tasks -> Tasks \cup {NULL}]
          /\ UNCHANGED <<arch, spin, wait_lock, wait_list, state, running, sig, prev>>
      BY <2>5 DEF SpinCmpxchg
    <3> QED  BY <3>2, <3>3, <3>4
  <2>6. ASSUME NEW t \in Tasks, SlowLock(t)  PROVE TypeOK'
    <3>1. Append(wait_list, t) \in Seq(Tasks)
      OBVIOUS
    <3> QED  BY <2>6, <3>1 DEF SlowLock, XchgTook, Goto
  <2>7. ASSUME NEW t \in Tasks, LoopRound(t)  PROVE TypeOK'
    <3>1. wait_list' \in Seq(Tasks)
      BY <2>7, RemoveType DEF LoopRound
    <3>0. \E label \in {"done", "idle", "sleep"} : Goto(t, label)
      BY <2>7 DEF LoopRound, XchgTook
    <3>2. pc' \in [Tasks -> Labels] /\ count' \in Int
      BY <2>7, <3>0, GotoType DEF LoopRound
    <3>3. running' \in [Tasks -> BOOLEAN] /\ state' \in [Tasks -> States]
      BY <2>7 DEF LoopRound
    <3>4. wait_lock' \in Tasks \cup {NULL} /\ UNCHANGED <<arch, spin, owner, sig, seen, prev>>
      BY <2>7 DEF LoopRound
    <3> QED  BY <3>1, <3>2, <3>3, <3>4
  <2>8. ASSUME NEW t \in Tasks, Done(t)  PROVE TypeOK'
    <3>1. wait_list' \in Seq(Tasks)
      BY <2>8, RemoveType DEF Done
    <3> QED  BY <2>8, <3>1 DEF Done, Goto
  <2>9. ASSUME NEW t \in Tasks, DoneCount(t)  PROVE TypeOK'
    BY <2>9 DEF DoneCount, Goto
  <2>10. ASSUME NEW t \in Tasks, mutex_unlock(t)  PROVE TypeOK'
    BY <2>10 DEF mutex_unlock, mutex_clear_owner, Goto
  <2>11. ASSUME NEW t \in Tasks, __mutex_fastpath_unlock(t)  PROVE TypeOK'
    <3>1. \E label \in {"unlock_slow", "idle"} : Goto(t, label)
      BY <2>11 DEF __mutex_fastpath_unlock
    <3>2. pc' \in [Tasks -> Labels]
      BY <3>1, GotoType
    <3>3. count' \in Int
      BY <2>11 DEF __mutex_fastpath_unlock
    <3> QED  BY <2>11, <3>2, <3>3 DEF __mutex_fastpath_unlock
  <2>12. ASSUME NEW t \in Tasks, __mutex_unlock_slowpath(t)  PROVE TypeOK'
    <3>1. wait_list # <<>> => Head(wait_list) \in Tasks
      OBVIOUS
    <3> QED  BY <2>12, <3>1 DEF __mutex_unlock_slowpath, mutex_clear_owner, WakeFirst, Goto
  <2>13. ASSUME NEW t \in Tasks, TrylockAgain(t)  PROVE TypeOK'
    BY <2>13 DEF TrylockAgain, Goto
  <2>14. ASSUME NEW t \in Tasks, Environment(t)  PROVE TypeOK'
    BY <2>14 DEF Environment, signal_wake_up, do_signal, spurious_wake_up
  <2>15. CASE UNCHANGED vars
    BY <2>15 DEF vars
  <2> QED
    BY <2>1, <2>2, <2>3, <2>4, <2>5, <2>6, <2>7, <2>8, <2>9, <2>10, <2>11, <2>12,
       <2>13, <2>14, <2>15 DEF Next, Proceed, FirstRound, NextRound
<1> QED  BY <1>1, <1>2, PTL DEF Spec

-----------------------------------------------------------------------------
(* Mutual exclusion. *)

(* What makes MutualExclusion and OwnerIsHolder inductive: the count never  *)
(* exceeds 1, the value a trylock restores is negative, and the owner field *)
(* is only set between the acquisition and the step that clears it.         *)
OwnerLabels ==
    {"done_count", "set_owner", "critical"} \cup
       (IF arch = "null" THEN {"fastpath_unlock", "unlock_slow"} ELSE {})

MutexInv ==
    /\ MutualExclusion
    /\ count <= 1
    /\ \A t \in Tasks : pc[t] = "trylock_again" => prev[t] < 0
    /\ \A t \in Tasks : owner = t => pc[t] \in OwnerLabels

(* The three ways a step of task t can affect who holds the mutex. *)
OthersSame(t) == arch' = arch /\ \A u \in Tasks \ {t} : pc'[u] = pc[u]

(* A step that leaves the set of holders and the freedom of the mutex as    *)
(* they are preserves mutual exclusion.                                     *)
LEMMA KeepsHolder ==
    ASSUME TypeOK, MutexInv, TypeOK', NEW t \in Tasks, OthersSame(t),
           Holds(t)' <=> Holds(t), count' <= 1, count' = 1 <=> count = 1
    PROVE  MutualExclusion'
<1>1. \A u \in Tasks : Holds(u)' <=> Holds(u)
  BY DEF OthersSame, Holds, needs_to_unlock
<1> QED  BY <1>1 DEF MutexInv, MutualExclusion

(* A step that makes a task the holder of a free mutex preserves it. *)
LEMMA Acquires ==
    ASSUME TypeOK, MutexInv, TypeOK', NEW t \in Tasks, OthersSame(t),
           count = 1, Holds(t)', count' # 1
    PROVE  MutualExclusion'
<1>1. \A u \in Tasks \ {t} : ~Holds(u)'
  BY DEF OthersSame, Holds, needs_to_unlock, MutexInv, MutualExclusion
<1> QED  BY <1>1 DEF MutualExclusion

(* A step in which the holder frees the mutex preserves it. *)
LEMMA Releases ==
    ASSUME TypeOK, MutexInv, TypeOK', NEW t \in Tasks, OthersSame(t),
           Holds(t), ~Holds(t)', count' = 1
    PROVE  MutualExclusion'
<1>1. \A u \in Tasks \ {t} : ~Holds(u)'
  BY DEF OthersSame, Holds, needs_to_unlock, MutexInv, MutualExclusion
<1> QED  BY <1>1 DEF MutualExclusion

(* A step of one task leaves the places of the others alone. *)
LEMMA GotoOthers ==
    ASSUME TypeOK, NEW t \in Tasks, NEW label, Goto(t, label), arch' = arch
    PROVE  OthersSame(t) /\ pc'[t] = label
BY DEF Goto, OthersSame, TypeOK

(* The parts of MutexInv besides MutualExclusion survive a step of t that   *)
(* writes the owner field only with t or NULL.                              *)
LEMMA Bookkeeping ==
    ASSUME TypeOK, TypeOK', MutexInv, NEW t \in Tasks, OthersSame(t),
           \A u \in Tasks \ {t} : prev'[u] = prev[u],
           pc'[t] = "trylock_again" => prev'[t] < 0,
           \/ owner' = NULL
           \/ owner' = t /\ pc'[t] \in OwnerLabels
           \/ owner' = owner /\ (pc[t] \in OwnerLabels => pc'[t] \in OwnerLabels)
    PROVE  /\ (\A u \in Tasks : pc[u] = "trylock_again" => prev[u] < 0)'
           /\ (\A u \in Tasks : owner = u => pc[u] \in OwnerLabels)'
<1>1. OwnerLabels' = OwnerLabels
  BY DEF OwnerLabels, OthersSame
<1>2. ASSUME NEW u \in Tasks  PROVE pc'[u] = "trylock_again" => prev'[u] < 0
  BY DEF OthersSame, MutexInv
<1>3. ASSUME NEW u \in Tasks, owner' = u  PROVE pc'[u] \in OwnerLabels
  BY <1>3, MutexAssumption DEF OthersSame, MutexInv
<1> QED  BY <1>1, <1>2, <1>3

(* The fast paths of the lock and trylock functions preserve the invariant. *)
LEMMA CallStep ==
    ASSUME TypeOK, TypeOK', MutexInv, NEW t \in Tasks, Call(t)
    PROVE  MutexInv'
<1>0. pc[t] = "idle" /\ ~Holds(t) /\ pc[t] \notin OwnerLabels
  BY DEF Call, mutex_lock, mutex_lock_interruptible, mutex_lock_killable, Lock,
         mutex_trylock, Holds, needs_to_unlock, OwnerLabels
<1> arch' = arch
  BY DEF Call, mutex_lock, mutex_lock_interruptible, mutex_lock_killable, Lock, mutex_trylock
<1>1. LockCommon \in {"spin", "slow_lock"}
  BY DEF LockCommon
<1>2. count \in Int /\ count <= 1 /\ count' \in Int
  BY DEF TypeOK, MutexInv
<1>3. ASSUME NEW st \in States, Lock(t, st)  PROVE MutexInv'
  <2>1. /\ UNCHANGED <<owner, prev>>
        /\ \/ count = 1 /\ count' = 0 /\ Goto(t, "set_owner")
           \/ count <= 0 /\ count' <= 0 /\ Goto(t, LockCommon)
           \/ count' = count /\ Goto(t, LockCommon)
    BY <1>2, <1>3, BuildType DEF Lock, __mutex_fastpath_lock
  <2>2. OthersSame(t) /\ pc'[t] \in {"set_owner", LockCommon}
    BY <2>1, GotoOthers
  <2>3. MutualExclusion'
    <3>1. CASE count = 1 /\ count' = 0 /\ Goto(t, "set_owner")
      <4>1. Holds(t)'
        BY <3>1, GotoOthers DEF Holds, needs_to_unlock
      <4> QED  BY <2>2, <3>1, <4>1, Acquires
    <3>2. CASE Goto(t, LockCommon) /\ (count = 1 <=> count' = 1) /\ count' <= 1
      <4>1. ~Holds(t)'
        BY <1>1, <3>2, GotoOthers DEF Holds, needs_to_unlock
      <4> QED  BY <1>0, <2>2, <3>2, <4>1, KeepsHolder
    <3> QED  BY <1>2, <2>1, <3>1, <3>2
  <2> QED
    BY <1>0, <1>1, <1>2, <2>1, <2>2, <2>3, Bookkeeping DEF MutexInv
<1>4. CASE mutex_trylock(t)
  <2>1. \/ count = 1 /\ count' <= 0 /\ Goto(t, "set_owner") /\ owner' \in {owner, t}
           /\ \A u \in Tasks \ {t} : prev'[u] = prev[u]
        \/ count # 1 /\ count' <= 0 /\ Goto(t, "idle") /\ owner' = owner
           /\ \A u \in Tasks \ {t} : prev'[u] = prev[u]
        \/ count # 1 /\ count' <= 0 /\ Goto(t, "trylock_again") /\ owner' = owner
           /\ prev'[t] < 0 /\ \A u \in Tasks \ {t} : prev'[u] = prev[u]
    <3>1. CASE arch = "dec"
      BY <1>2, <1>4, <3>1 DEF mutex_trylock, __mutex_fastpath_trylock
    <3>2. CASE arch = "xchg"
      BY <1>2, <1>4, <3>2 DEF mutex_trylock, __mutex_fastpath_trylock, TypeOK
    <3>3. CASE arch = "null"
      BY <1>2, <1>4, <3>3 DEF mutex_trylock, __mutex_fastpath_trylock,
                              __mutex_trylock_slowpath
    <3> QED  BY <3>1, <3>2, <3>3, BuildType
  <2>2. CASE count = 1
    <3>1. OthersSame(t) /\ pc'[t] = "set_owner" /\ count' # 1 /\ count' <= 1
      BY <1>2, <2>1, <2>2, GotoOthers
    <3>2. MutualExclusion'
      BY <2>2, <3>1, Acquires DEF Holds, needs_to_unlock
    <3>3. "set_owner" \in OwnerLabels
      BY DEF OwnerLabels
    <3> QED  BY <2>1, <3>1, <3>2, <3>3, <1>0, Bookkeeping DEF MutexInv
  <2>3. CASE count # 1
    <3>1. OthersSame(t) /\ pc'[t] \in {"idle", "trylock_again"}
      BY <2>1, <2>3, GotoOthers
    <3>2. count' # 1 /\ count' <= 1
      BY <1>2, <2>1, <2>3
    <3>3. MutualExclusion'
      BY <1>0, <2>3, <3>1, <3>2, KeepsHolder DEF Holds, needs_to_unlock
    <3>4. pc'[t] = "trylock_again" => prev'[t] < 0
      BY <2>1, <2>3, GotoOthers
    <3>5. \A u \in Tasks \ {t} : prev'[u] = prev[u]
      BY <2>1
    <3>6. owner' = owner
      BY <2>1, <2>3
    <3> QED  BY <1>0, <3>1, <3>2, <3>3, <3>4, <3>5, <3>6, Bookkeeping DEF MutexInv
  <2> QED  BY <2>2, <2>3
<1> QED
  BY <1>3, <1>4 DEF Call, mutex_lock, mutex_lock_interruptible, mutex_lock_killable, States

(* Steps that neither take nor release the mutex nor write its count. *)
LEMMA QuietStep ==
    ASSUME TypeOK, TypeOK', MutexInv, NEW t \in Tasks, NEW label, Goto(t, label),
           arch' = arch,
           count' = count \/ (count <= 0 /\ count' <= 0),
           UNCHANGED prev, label # "trylock_again",
           Holds(t)' <=> Holds(t),
           \/ owner' = NULL
           \/ owner' = t /\ label \in OwnerLabels
           \/ owner' = owner /\ (pc[t] \in OwnerLabels => label \in OwnerLabels)
    PROVE  MutexInv'
<1>1. OthersSame(t) /\ pc'[t] = label
  BY GotoOthers
<1>2. count \in Int /\ count' \in Int /\ count <= 1
  BY DEF TypeOK, MutexInv
<1>3. count' <= 1 /\ (count' = 1 <=> count = 1)
  BY <1>2
<1>4. MutualExclusion'
  BY <1>1, <1>3, KeepsHolder
<1> QED  BY <1>1, <1>3, <1>4, Bookkeeping DEF MutexInv

(* Steps that take the mutex: count goes from 1 to 0 or below. *)
LEMMA AcquireStep ==
    ASSUME TypeOK, TypeOK', MutexInv, NEW t \in Tasks, NEW label, Goto(t, label),
           arch' = arch,
           label \in {"set_owner", "done"}, count = 1, count' <= 0,
           \A u \in Tasks \ {t} : prev'[u] = prev[u],
           \/ owner' = owner /\ pc[t] \notin OwnerLabels
           \/ owner' = t /\ label \in OwnerLabels
    PROVE  MutexInv'
<1>1. OthersSame(t) /\ pc'[t] = label
  BY GotoOthers
<1>2. count' # 1 /\ count' <= 1
  BY DEF TypeOK
<1>3. MutualExclusion'
  BY <1>1, <1>2, Acquires DEF Holds, needs_to_unlock
<1> QED  BY <1>1, <1>2, <1>3, Bookkeeping DEF MutexInv

(* Steps that release it: the holder sets the count to 1. *)
LEMMA ReleaseStep ==
    ASSUME TypeOK, TypeOK', MutexInv, NEW t \in Tasks, NEW label, Goto(t, label),
           arch' = arch,
           Holds(t), ~Holds(t)', count' = 1, label # "trylock_again",
           UNCHANGED prev, owner' = NULL \/ (owner' = owner /\ pc[t] \notin OwnerLabels)
    PROVE  MutexInv'
<1>1. OthersSame(t) /\ pc'[t] = label
  BY GotoOthers
<1>2. MutualExclusion'
  BY <1>1, Releases
<1> QED  BY <1>1, <1>2, Bookkeeping DEF MutexInv

(* So does every step inside mutex.c, action by action. *)
LEMMA ProceedStep ==
    ASSUME TypeOK, TypeOK', MutexInv, NEW t \in Tasks, Proceed(t)
    PROVE  MutexInv'
<1>0. count \in Int /\ count' \in Int /\ count <= 1
  BY DEF TypeOK, MutexInv
<1> arch' = arch
  BY DEF Proceed, mutex_set_owner, SpinReadOwner, mutex_spin_on_owner, SpinCmpxchg,
         SlowLock, FirstRound, NextRound, LoopRound, Done, DoneCount, mutex_unlock,
         __mutex_fastpath_unlock, __mutex_unlock_slowpath, TrylockAgain
<1>1. Holds(t) => count <= 0
  BY <1>0 DEF MutexInv, MutualExclusion
<1>2. \A label : Goto(t, label) => pc'[t] = label
  BY GotoOthers
<1>3. CASE mutex_set_owner(t)
  BY <1>2, <1>3, QuietStep DEF mutex_set_owner, Holds, needs_to_unlock, OwnerLabels
<1>4. CASE SpinReadOwner(t)
  <2>1. PICK label \in {"spin_cmpxchg", "spin_on_owner"} : Goto(t, label)
    BY <1>4 DEF SpinReadOwner
  <2> QED  BY <1>2, <1>4, <2>1, QuietStep DEF SpinReadOwner, Holds, needs_to_unlock, OwnerLabels
<1>5. CASE mutex_spin_on_owner(t)
  <2>1. PICK label \in {"spin_cmpxchg", "slow_lock"} : Goto(t, label)
    BY <1>5 DEF mutex_spin_on_owner
  <2> QED  BY <1>2, <1>5, <2>1, QuietStep DEF mutex_spin_on_owner, Holds, needs_to_unlock, OwnerLabels
<1>6. CASE SpinCmpxchg(t)
  <2>1. CASE count = 1
    BY <1>6, <2>1, AcquireStep DEF SpinCmpxchg, OwnerLabels
  <2>2. CASE count # 1
    <3>1. PICK label \in {"spin", "slow_lock"} : Goto(t, label)
      BY <1>6, <2>2 DEF SpinCmpxchg
    <3>2. UNCHANGED <<count, owner, prev>> /\ pc[t] = "spin_cmpxchg"
      BY <1>6, <2>2 DEF SpinCmpxchg
    <3> QED  BY <1>2, <3>1, <3>2, QuietStep DEF Holds, needs_to_unlock, OwnerLabels
  <2> QED  BY <2>1, <2>2
<1>7. CASE SlowLock(t)
  <2>0. pc[t] = "slow_lock" /\ count' = -1 /\ UNCHANGED <<owner, prev>>
    BY <1>7 DEF SlowLock, XchgTook
  <2>1. CASE count = 1
    BY <1>7, <2>0, <2>1, AcquireStep DEF SlowLock, XchgTook, OwnerLabels
  <2>2. CASE count # 1
    <3>1. Goto(t, "xchg")
      BY <1>7, <2>2 DEF SlowLock, XchgTook
    <3> QED  BY <1>0, <1>2, <2>0, <2>2, <3>1, QuietStep DEF Holds, needs_to_unlock, OwnerLabels
  <2> QED  BY <2>1, <2>2
<1>8. CASE pc[t] \in {"xchg", "sleep"} /\ LoopRound(t)
  <2>0. count' = -1 /\ UNCHANGED <<owner, prev>>
    BY <1>8 DEF LoopRound, XchgTook
  <2>1. CASE count = 1
    <3>1. Goto(t, "done")
      BY <1>8, <2>1 DEF LoopRound, XchgTook
    <3> QED  BY <1>8, <2>0, <2>1, <3>1, AcquireStep DEF OwnerLabels
  <2>2. CASE count # 1
    <3>1. PICK label \in {"idle", "sleep"} : Goto(t, label)
      BY <1>8, <2>2 DEF LoopRound, XchgTook
    <3> QED  BY <1>0, <1>2, <1>8, <2>0, <2>2, <3>1, QuietStep DEF Holds, needs_to_unlock, OwnerLabels
  <2> QED  BY <2>1, <2>2
<1>9. CASE Done(t)
  BY <1>2, <1>9, QuietStep DEF Done, Holds, needs_to_unlock, OwnerLabels
<1>10. CASE DoneCount(t)
  <2>1. Holds(t)
    BY <1>10 DEF DoneCount, Holds, needs_to_unlock
  <2> QED  BY <1>1, <1>2, <1>10, <2>1, QuietStep DEF DoneCount, Holds, needs_to_unlock, OwnerLabels
<1>11. CASE mutex_unlock(t)
  BY <1>2, <1>11, QuietStep DEF mutex_unlock, mutex_clear_owner, Holds, needs_to_unlock, OwnerLabels
<1>12. CASE __mutex_fastpath_unlock(t)
  <2>0. /\ pc[t] = "fastpath_unlock" /\ UNCHANGED <<owner, prev>> /\ Holds(t)
    BY <1>12 DEF __mutex_fastpath_unlock, Holds, needs_to_unlock
  <2>1. CASE arch = "dec"
    <3>1. CASE count + 1 <= 0
      <4>1. Goto(t, "unlock_slow") /\ count' = count + 1
        BY <1>12, <2>1, <3>1 DEF __mutex_fastpath_unlock
      <4> QED
        BY <1>0, <1>2, <2>0, <2>1, <3>1, <4>1, QuietStep
           DEF Holds, needs_to_unlock, OwnerLabels
    <3>2. CASE ~(count + 1 <= 0)
      <4>1. Goto(t, "idle") /\ count' = count + 1 /\ count' = 1
        BY <1>0, <1>1, <1>12, <2>0, <2>1, <3>2 DEF __mutex_fastpath_unlock
      <4> QED  BY <1>2, <2>0, <2>1, <4>1, ReleaseStep DEF Holds, needs_to_unlock, OwnerLabels
    <3> QED  BY <3>1, <3>2
  <2>2. CASE arch = "xchg"
    <3>1. PICK label \in {"unlock_slow", "idle"} : Goto(t, label)
      BY <1>12, <2>2 DEF __mutex_fastpath_unlock
    <3>2. count' = 1
      BY <1>12, <2>2 DEF __mutex_fastpath_unlock
    <3>3. ~Holds(t)'
      BY <1>2, <2>2, <3>1 DEF Holds, needs_to_unlock
    <3> QED  BY <2>0, <2>2, <3>1, <3>2, <3>3, ReleaseStep DEF OwnerLabels
  <2>3. CASE arch = "null"
    <3>1. Goto(t, "unlock_slow") /\ UNCHANGED count
      BY <1>12, <2>3 DEF __mutex_fastpath_unlock
    <3> QED
      BY <1>2, <2>0, <2>3, <3>1, QuietStep DEF Holds, needs_to_unlock, OwnerLabels
  <2> QED  BY <2>1, <2>2, <2>3, BuildType
<1>13. CASE __mutex_unlock_slowpath(t)
  <2>0. pc[t] = "unlock_slow" /\ Goto(t, "idle") /\ UNCHANGED prev
    BY <1>13 DEF __mutex_unlock_slowpath, mutex_clear_owner
  <2>1. CASE needs_to_unlock
    <3>1. count' = 1 /\ Holds(t) /\ ~Holds(t)'
      BY <1>2, <1>13, <2>0, <2>1 DEF __mutex_unlock_slowpath, mutex_clear_owner, Holds, needs_to_unlock
    <3>2. owner' = NULL \/ (owner' = owner /\ pc[t] \notin OwnerLabels)
      BY <1>13, <2>0 DEF __mutex_unlock_slowpath, mutex_clear_owner, OwnerLabels
    <3> QED  BY <2>0, <3>1, <3>2, ReleaseStep
  <2>2. CASE ~needs_to_unlock
    <3>1. count' = count /\ ~Holds(t) /\ ~Holds(t)' /\ owner' = owner
      BY <1>2, <1>13, <2>0, <2>2 DEF __mutex_unlock_slowpath, mutex_clear_owner, Holds, needs_to_unlock
    <3>2. pc[t] \notin OwnerLabels
      BY <2>0, <2>2 DEF OwnerLabels, needs_to_unlock
    <3> QED  BY <2>0, <3>1, <3>2, QuietStep
  <2> QED  BY <2>1, <2>2
<1>14. CASE TrylockAgain(t)
  <2>0. /\ pc[t] = "trylock_again" /\ count' = prev[t] /\ prev[t] < 0
        /\ owner' = owner /\ pc[t] \notin OwnerLabels
        /\ \A u \in Tasks \ {t} : prev'[u] = prev[u]
        /\ ~Holds(t)
    BY <1>14 DEF TrylockAgain, MutexInv, OwnerLabels, TypeOK, Holds, needs_to_unlock
  <2>1. CASE count = 1
    <3>1. Goto(t, "set_owner")
      BY <1>14, <2>1 DEF TrylockAgain
    <3> QED  BY <1>0, <2>0, <2>1, <3>1, AcquireStep
  <2>2. CASE count # 1
    <3>1. Goto(t, "idle")
      BY <1>14, <2>2 DEF TrylockAgain
    <3>2. OthersSame(t) /\ pc'[t] = "idle" /\ ~Holds(t)'
      BY <1>2, <3>1, GotoOthers DEF Holds, needs_to_unlock
    <3>3. count' <= 1 /\ count' # 1
      BY <1>0, <2>0
    <3>4. MutualExclusion'
      BY <2>0, <2>2, <3>2, <3>3, KeepsHolder
    <3> QED  BY <2>0, <3>2, <3>3, <3>4, Bookkeeping DEF MutexInv
  <2> QED  BY <2>1, <2>2
<1> QED
  BY <1>3, <1>4, <1>5, <1>6, <1>7, <1>8, <1>9, <1>10, <1>11, <1>12, <1>13, <1>14
     DEF Proceed, FirstRound, NextRound

(* The invariant is inductive, given that types are kept. *)
LEMMA MutexInvPreserved == TypeOK /\ TypeOK' /\ MutexInv /\ [Next]_vars => MutexInv'
<1> SUFFICES ASSUME TypeOK, TypeOK', MutexInv, [Next]_vars  PROVE MutexInv'
  OBVIOUS
<1>1. ASSUME UNCHANGED <<arch, count, owner, pc, prev>>  PROVE MutexInv'
  BY <1>1 DEF MutexInv, MutualExclusion, Holds, needs_to_unlock, OwnerLabels
<1>2. ASSUME NEW t \in Tasks, Environment(t)  PROVE MutexInv'
  BY <1>1, <1>2 DEF Environment, signal_wake_up, do_signal, spurious_wake_up
<1> QED  BY <1>1, <1>2, CallStep, ProceedStep DEF Next, vars

(* It holds in every reachable state. *)
LEMMA MutexInvHolds == Spec => []MutexInv
<1>1. Init => MutexInv
  BY MutexAssumption DEF Init, MutexInv, MutualExclusion, Holds, needs_to_unlock
<1> QED  BY <1>1, MutexInvPreserved, TypeCorrect, PTL DEF Spec

(* On every fast path, with and without the spin, at most one task holds    *)
(* the mutex, and the count says whether one does.                          *)
THEOREM Exclusion == Spec => []MutualExclusion
<1>1. MutexInv => MutualExclusion
  BY DEF MutexInv
<1> QED  BY <1>1, MutexInvHolds, PTL

(* The owner field a spinner follows never names a task that does not hold  *)
(* the mutex.                                                               *)
THEOREM OwnerCorrect == Spec => []OwnerIsHolder
<1>1. MutexInv => OwnerIsHolder
  BY DEF MutexInv, OwnerIsHolder, OwnerLabels, Holds, needs_to_unlock
<1> QED  BY <1>1, MutexInvHolds, PTL

(* A step moves one task only. *)
LEMMA OneTaskMoves ==
    ASSUME TypeOK, Next
    PROVE  \E t \in Tasks : OthersSame(t)
<1>0. arch' = arch
  BY DEF Next, Call, mutex_lock, mutex_lock_interruptible, mutex_lock_killable, Lock,
         mutex_trylock, Proceed, mutex_set_owner, SpinReadOwner, mutex_spin_on_owner,
         SpinCmpxchg, SlowLock, FirstRound, NextRound, LoopRound, Done, DoneCount,
         mutex_unlock, __mutex_fastpath_unlock, __mutex_unlock_slowpath, TrylockAgain,
         Environment, signal_wake_up, do_signal, spurious_wake_up
<1>1. ASSUME NEW t \in Tasks, \E label : Goto(t, label)  PROVE OthersSame(t)
  BY <1>0, <1>1, GotoOthers
<1>2. ASSUME NEW t \in Tasks, Call(t)  PROVE \E label : Goto(t, label)
  BY <1>2 DEF Call, mutex_lock, mutex_lock_interruptible, mutex_lock_killable, Lock,
              mutex_trylock, __mutex_fastpath_lock, __mutex_fastpath_trylock,
              __mutex_trylock_slowpath
<1>3. ASSUME NEW t \in Tasks, Proceed(t)  PROVE \E label : Goto(t, label)
  BY <1>3 DEF Proceed, mutex_set_owner, SpinReadOwner, mutex_spin_on_owner, SpinCmpxchg,
              SlowLock, FirstRound, NextRound, LoopRound, Done, DoneCount, mutex_unlock,
              __mutex_fastpath_unlock, __mutex_unlock_slowpath, TrylockAgain
<1>4. ASSUME NEW t \in Tasks, Environment(t)  PROVE OthersSame(t)
  BY <1>4 DEF Environment, signal_wake_up, do_signal, spurious_wake_up, OthersSame
<1> QED  BY <1>1, <1>2, <1>3, <1>4 DEF Next

(* The mutex implements a lock with a single permit, taken by one task and  *)
(* given back by the same one: since one task moves at a time and the       *)
(* holder is unique, a change of holder passes through the free state.      *)
THEOREM ImplementsPermitLock == Spec => PermitSpec
<1> DEFINE free == IF count = 1 THEN 1 ELSE 0
           holding == [t \in Tasks |-> IF Holds(t) THEN 1 ELSE 0]
<1>1. Init => Permit!LockInit
  BY DEF Init, Permit!LockInit, Holds, needs_to_unlock
<1>2. ASSUME TypeOK, MutexInv, MutexInv', [Next]_vars
      PROVE  Permit!LockNext \/ UNCHANGED <<free, holding>>
  <2> USE <1>2
  <2>0. ASSUME \A u \in Tasks : Holds(u)' <=> Holds(u), count' = 1 <=> count = 1
        PROVE  UNCHANGED <<free, holding>>
    <3>1. free' = free
      BY <2>0
    <3>2. holding' = holding
      BY <2>0
    <3> QED  BY <3>1, <3>2
  <2>1. CASE UNCHANGED vars
    BY <2>0, <2>1 DEF vars, Holds, needs_to_unlock
  <2>2. CASE Next
    <3>1. PICK t \in Tasks : OthersSame(t)
      BY <2>2, OneTaskMoves
    <3>2. \A u \in Tasks \ {t} : Holds(u)' <=> Holds(u)
      BY <3>1 DEF OthersSame, Holds, needs_to_unlock
    <3>3. CASE count = 1 /\ count' = 1
      BY <2>0, <3>3 DEF MutexInv, MutualExclusion
    <3>4. CASE count = 1 /\ count' # 1
      <4>1. ~Holds(t) /\ Holds(t)'
        BY <3>2, <3>4 DEF MutexInv, MutualExclusion
      <4>2. \A u \in Tasks : holding'[u] = IF u = t THEN holding[t] + 1 ELSE holding[u]
        BY <3>2, <4>1
      <4>3. holding' = [holding EXCEPT ![t] = @ + 1]
        BY <4>2
      <4>4. free > 0 /\ free' = free - 1
        BY <3>4
      <4> QED  BY <4>3, <4>4 DEF Permit!Take, Permit!LockNext
    <3>5. CASE count # 1 /\ count' = 1
      <4>1. Holds(t) /\ ~Holds(t)'
        BY <3>2, <3>5 DEF MutexInv, MutualExclusion
      <4>2. \A u \in Tasks : holding'[u] = IF u = t THEN holding[t] - 1 ELSE holding[u]
        BY <3>2, <4>1
      <4>3. holding' = [holding EXCEPT ![t] = @ - 1]
        BY <4>2
      <4>4. free' = free + 1 /\ holding[t] > 0
        BY <3>5, <4>1
      <4> QED  BY <4>3, <4>4 DEF Permit!Give, Permit!LockNext
    <3>6. CASE count # 1 /\ count' # 1
      <4>1. Holds(t)' <=> Holds(t)
        <5>1. PICK h \in Tasks : Holds(h)
          BY <3>6 DEF MutexInv, MutualExclusion
        <5>2. PICK g \in Tasks : Holds(g)'
          BY <3>6 DEF MutexInv, MutualExclusion
        <5>3. CASE h = t
          <6>1. \A u \in Tasks \ {t} : ~Holds(u)'
            BY <3>2, <5>1, <5>3 DEF MutexInv, MutualExclusion
          <6> QED  BY <5>1, <5>2, <5>3, <6>1
        <5>4. CASE h # t
          <6>1. ~Holds(t) /\ Holds(h)'
            BY <3>2, <5>1, <5>4 DEF MutexInv, MutualExclusion
          <6>2. ~Holds(t)'
            BY <5>4, <6>1 DEF MutexInv, MutualExclusion
          <6> QED  BY <6>1, <6>2
        <5> QED  BY <5>3, <5>4
      <4> QED  BY <2>0, <3>2, <3>6, <4>1
    <3> QED  BY <3>3, <3>4, <3>5, <3>6
  <2> QED  BY <2>1, <2>2
<1>3. TypeOK /\ MutexInv /\ MutexInv' /\ [Next]_vars => [Permit!LockNext]_<<free, holding, 0>>
  BY <1>2
<1> QED
  BY <1>1, <1>3, TypeCorrect, MutexInvHolds, PTL
     DEF Spec, PermitSpec, Permit!OwnedSpec, Permit!lockVars
-----------------------------------------------------------------------------
(* No lost wakeup. *)

(* The wait list holds, once each, the tasks between SlowLock and their     *)
(* removal; only the wait_lock's holder works on it, and only there does a  *)
(* task sleep.                                                              *)
Queued == {"xchg", "sleep", "done"}
UnderWaitLock == {"xchg", "done", "done_count"}

QueueInv ==
    /\ \A i, j \in DOMAIN wait_list : wait_list[i] = wait_list[j] => i = j
    /\ \A t \in Tasks : t \in Range(wait_list) <=> pc[t] \in Queued
    /\ \A t \in Tasks : pc[t] \in UnderWaitLock => wait_lock = t
    /\ \A t \in Tasks : ~running[t] => pc[t] = "sleep"

(* A task that is bound to write a negative count while it queues or is     *)
(* queued, or to wake the first waiter.                                     *)
Coming(t) ==
    \/ pc[t] = "sleep" /\ running[t]
    \/ pc[t] \in {"xchg", "unlock_slow", "slow_lock", "trylock_again"}

(* The strengthening of NoLostWakeup: a count that does not tell of the     *)
(* waiters is dangerous already while the mutex is held, because the next   *)
(* unlock will take the fast path.                                          *)
NotStranded == wait_list # <<>> /\ count >= 0 => \E t \in Tasks : Coming(t)

(* What a step of t may do to the wait_lock and to the sleepers. *)
LockDiscipline(t) ==
    /\ wait_lock' = wait_lock \/ wait_lock \in {NULL, t}
    /\ pc'[t] \in UnderWaitLock => wait_lock' = t
    /\ \A u \in Tasks \ {t} : running[u] => running'[u]
    /\ running'[t] \/ pc'[t] = "sleep"

(* A disciplined step keeps the last two parts of the invariant. *)
LEMMA Discipline ==
    ASSUME TypeOK, TypeOK', QueueInv, NEW t \in Tasks, OthersSame(t), LockDiscipline(t)
    PROVE  /\ \A u \in Tasks : pc'[u] \in UnderWaitLock => wait_lock' = u
           /\ \A u \in Tasks : ~running'[u] => pc'[u] = "sleep"
<1>1. ASSUME NEW u \in Tasks, pc'[u] \in UnderWaitLock  PROVE wait_lock' = u
  <2>1. CASE u = t
    BY <1>1, <2>1 DEF LockDiscipline
  <2>2. CASE u # t
    <3>1. pc[u] \in UnderWaitLock
      BY <1>1, <2>2 DEF OthersSame
    <3>2. wait_lock = u
      BY <3>1 DEF QueueInv
    <3> QED  BY <2>2, <3>2, MutexAssumption DEF LockDiscipline
  <2> QED  BY <2>1, <2>2
<1>2. ASSUME NEW u \in Tasks, ~running'[u]  PROVE pc'[u] = "sleep"
  BY <1>2 DEF LockDiscipline, QueueInv, OthersSame
<1> QED  BY <1>1, <1>2

(* A step that leaves the list alone. *)
LEMMA SameQueue ==
    ASSUME TypeOK, TypeOK', QueueInv, NEW t \in Tasks, OthersSame(t), LockDiscipline(t),
           UNCHANGED wait_list, pc'[t] \in Queued <=> pc[t] \in Queued
    PROVE  QueueInv'
<1>1. \A u \in Tasks : u \in Range(wait_list)' <=> pc'[u] \in Queued
  BY DEF OthersSame, QueueInv, Range
<1>2. UnderWaitLock' = UnderWaitLock /\ Queued' = Queued
  BY DEF UnderWaitLock, Queued
<1> QED  BY <1>1, <1>2, Discipline DEF QueueInv

(* A step that appends t to the list. *)
LEMMA Enqueues ==
    ASSUME TypeOK, TypeOK', QueueInv, NEW t \in Tasks, OthersSame(t), LockDiscipline(t),
           wait_list' = Append(wait_list, t), pc[t] \notin Queued, pc'[t] \in Queued
    PROVE  QueueInv'
<1> DEFINE n == Len(wait_list)
<1>1. /\ wait_list \in Seq(Tasks) /\ n \in Nat
      /\ DOMAIN wait_list = 1 .. n /\ DOMAIN wait_list' = 1 .. n + 1
      /\ \A i \in 1 .. n : wait_list'[i] = wait_list[i]
      /\ wait_list'[n + 1] = t
  BY DEF TypeOK
<1>2. \A i \in 1 .. n : wait_list[i] # t
  BY <1>1 DEF QueueInv, Range
<1>3. \A i, j \in DOMAIN wait_list' : wait_list'[i] = wait_list'[j] => i = j
  <2> SUFFICES ASSUME NEW i \in 1 .. n + 1, NEW j \in 1 .. n + 1,
                      wait_list'[i] = wait_list'[j]
               PROVE  i = j
    BY <1>1
  <2>1. (i \in 1 .. n \/ i = n + 1) /\ (j \in 1 .. n \/ j = n + 1)
    BY <1>1
  <2> QED  BY <1>1, <1>2, <2>1 DEF QueueInv
<1>4. ASSUME NEW u \in Tasks  PROVE u \in Range(wait_list)' <=> pc'[u] \in Queued
  <2>1. u \in Range(wait_list)' <=> (u \in Range(wait_list) \/ u = t)
    <3>1. ASSUME u \in Range(wait_list)  PROVE u \in Range(wait_list)'
      <4>1. PICK i \in 1 .. n : wait_list[i] = u
        BY <1>1, <3>1 DEF Range
      <4>2. i \in 1 .. n + 1
        BY <1>1
      <4> QED  BY <1>1, <4>1, <4>2 DEF Range
    <3>2. t \in Range(wait_list)'
      <4>1. n + 1 \in 1 .. n + 1
        BY <1>1
      <4> QED  BY <1>1, <4>1 DEF Range
    <3>3. ASSUME u \in Range(wait_list)'  PROVE u \in Range(wait_list) \/ u = t
      <4>1. PICK i \in 1 .. n + 1 : wait_list'[i] = u
        BY <1>1, <3>3 DEF Range
      <4>2. i \in 1 .. n \/ i = n + 1
        BY <1>1
      <4> QED  BY <1>1, <4>1, <4>2 DEF Range
    <3> QED  BY <3>1, <3>2, <3>3
  <2> QED  BY <2>1 DEF OthersSame, QueueInv
<1>5. UnderWaitLock' = UnderWaitLock /\ Queued' = Queued
  BY DEF UnderWaitLock, Queued
<1> QED  BY <1>3, <1>4, <1>5, Discipline DEF QueueInv

(* A step that removes t from it: the other entries stay. *)
LEMMA Dequeues ==
    ASSUME TypeOK, TypeOK', QueueInv, NEW t \in Tasks, OthersSame(t), LockDiscipline(t),
           mutex_remove_waiter(t), pc'[t] \notin Queued
    PROVE  QueueInv'
<1> DEFINE n == Len(wait_list)
<1>1. PICK k \in DOMAIN wait_list : wait_list[k] = t /\ wait_list' = list_del(wait_list, k)
  BY DEF mutex_remove_waiter
<1>2. /\ n \in Nat /\ DOMAIN wait_list = 1 .. n /\ k \in 1 .. n
      /\ DOMAIN wait_list' = 1 .. n - 1
      /\ \A i \in 1 .. n - 1 :
            wait_list'[i] = IF i < k THEN wait_list[i] ELSE wait_list[i + 1]
  <2>1. n \in Nat /\ DOMAIN wait_list = 1 .. n
    BY DEF TypeOK
  <2>2. k \in 1 .. n /\ n - 1 \in Nat
    BY <1>1, <2>1
  <2> QED  BY <1>1, <2>1, <2>2 DEF list_del
<1>3. \A i \in 1 .. n : wait_list[i] = t <=> i = k
  BY <1>1, <1>2 DEF QueueInv
<1>4. \A i, j \in DOMAIN wait_list' : wait_list'[i] = wait_list'[j] => i = j
  <2> SUFFICES ASSUME NEW i \in 1 .. n - 1, NEW j \in 1 .. n - 1,
                      wait_list'[i] = wait_list'[j]
               PROVE  i = j
    BY <1>2
  <2> DEFINE at(m) == IF m < k THEN m ELSE m + 1
  <2>1. at(i) \in 1 .. n /\ at(j) \in 1 .. n
    BY <1>2
  <2>2. wait_list[at(i)] = wait_list[at(j)]
    BY <1>2
  <2>3. at(i) = at(j)
    BY <1>2, <2>1, <2>2 DEF QueueInv
  <2> QED  BY <1>2, <2>3
<1>5. ASSUME NEW u \in Tasks  PROVE u \in Range(wait_list)' <=> pc'[u] \in Queued
  <2>1. u \in Range(wait_list)' <=> (u \in Range(wait_list) /\ u # t)
    <3>1. ASSUME u \in Range(wait_list), u # t  PROVE u \in Range(wait_list)'
      <4>1. PICK i \in 1 .. n : wait_list[i] = u
        BY <1>2, <3>1 DEF Range
      <4>2. i # k
        BY <1>1, <3>1, <4>1
      <4>3. CASE i < k
        <5>1. i \in 1 .. n - 1 /\ wait_list'[i] = u
          BY <1>2, <4>1, <4>3
        <5> QED  BY <1>2, <5>1 DEF Range
      <4>4. CASE i > k
        <5>1. i - 1 \in 1 .. n - 1 /\ ~(i - 1 < k) /\ (i - 1) + 1 = i
          BY <1>2, <4>4
        <5>2. wait_list'[i - 1] = u
          BY <1>2, <4>1, <5>1
        <5> QED  BY <1>2, <5>1, <5>2 DEF Range
      <4> QED  BY <1>2, <4>2, <4>3, <4>4
    <3>2. ASSUME u \in Range(wait_list)'  PROVE u \in Range(wait_list) /\ u # t
      <4>1. PICK i \in 1 .. n - 1 : wait_list'[i] = u
        BY <1>2, <3>2 DEF Range
      <4>2. PICK m \in 1 .. n : wait_list[m] = u /\ m # k
        BY <1>2, <4>1
      <4> QED  BY <1>2, <1>3, <4>2 DEF Range
    <3> QED  BY <3>1, <3>2
  <2> QED  BY <2>1 DEF OthersSame, QueueInv
<1>6. UnderWaitLock' = UnderWaitLock /\ Queued' = Queued
  BY DEF UnderWaitLock, Queued
<1> QED  BY <1>4, <1>5, <1>6, Discipline DEF QueueInv

(* Every step of mutex.c follows the discipline. *)
LEMMA QueueInvPreserved == TypeOK /\ TypeOK' /\ QueueInv /\ [Next]_vars => QueueInv'
<1> SUFFICES ASSUME TypeOK, TypeOK', QueueInv, [Next]_vars  PROVE QueueInv'
  OBVIOUS
<1>1. ASSUME NEW t \in Tasks, NEW label, Goto(t, label), arch' = arch,
             pc[t] \notin Queued, label \notin Queued \cup UnderWaitLock,
             UNCHANGED <<wait_list, wait_lock>>,
             \A u \in Tasks : running[u] => running'[u]
      PROVE  QueueInv'
  <2>1. OthersSame(t) /\ pc'[t] = label
    BY <1>1, GotoOthers
  <2>2. running'[t]
    BY <1>1 DEF QueueInv, Queued
  <2>3. LockDiscipline(t)
    BY <1>1, <2>1, <2>2 DEF LockDiscipline
  <2> QED  BY <1>1, <2>1, <2>3, SameQueue
<1>2. ASSUME NEW t \in Tasks, Call(t)  PROVE QueueInv'
  <2>1. pc[t] = "idle" /\ UNCHANGED <<wait_list, wait_lock, running, arch>>
    BY <1>2 DEF Call, mutex_lock, mutex_lock_interruptible, mutex_lock_killable, Lock,
                mutex_trylock
  <2>2. PICK label \in {"spin", "slow_lock", "set_owner", "idle", "trylock_again"} :
           Goto(t, label)
    <3>1. LockCommon \in {"spin", "slow_lock"}
      BY DEF LockCommon
    <3>2. CASE \E st \in States : Lock(t, st)
      <4>1. \E label \in {LockCommon, "set_owner"} : Goto(t, label)
        BY <3>2, Zenon DEF Lock, __mutex_fastpath_lock
      <4> QED  BY <3>1, <4>1
    <3>3. CASE mutex_trylock(t)
      BY <3>3 DEF mutex_trylock, __mutex_fastpath_trylock, __mutex_trylock_slowpath
    <3> QED  BY <1>2, <3>2, <3>3 DEF Call, mutex_lock, mutex_lock_interruptible,
                                     mutex_lock_killable, States
  <2> QED  BY <1>1, <2>1, <2>2 DEF Queued, UnderWaitLock
<1>3. ASSUME NEW t \in Tasks, SlowLock(t)  PROVE QueueInv'
  <2>1. PICK label \in {"done", "xchg"} : Goto(t, label)
    BY <1>3 DEF SlowLock
  <2>2. /\ pc[t] = "slow_lock" /\ wait_lock = NULL /\ wait_lock' = t
        /\ wait_list' = Append(wait_list, t) /\ UNCHANGED <<arch, running>>
    BY <1>3 DEF SlowLock
  <2>3. OthersSame(t) /\ pc'[t] \in {"done", "xchg"} /\ running'[t]
    BY <2>1, <2>2, GotoOthers DEF QueueInv
  <2> QED  BY <2>2, <2>3, Enqueues DEF LockDiscipline, Queued, UnderWaitLock
<1>4. ASSUME NEW t \in Tasks, LoopRound(t), pc[t] \in {"xchg", "sleep"}, running[t],
             wait_lock \in {NULL, t}
      PROVE  QueueInv'
  <2>0. UNCHANGED arch
    BY <1>4 DEF LoopRound
  <2>1. CASE wait_lock' = t /\ Goto(t, "done") /\ UNCHANGED <<wait_list, running>>
    <3>1. OthersSame(t) /\ pc'[t] = "done"
      BY <2>0, <2>1, GotoOthers
    <3> QED  BY <1>4, <2>1, <3>1, SameQueue DEF LockDiscipline, Queued, UnderWaitLock
  <2>2. CASE mutex_remove_waiter(t) /\ wait_lock' = NULL /\ Goto(t, "idle") /\ UNCHANGED running
    <3>1. OthersSame(t) /\ pc'[t] = "idle"
      BY <2>0, <2>2, GotoOthers
    <3> QED  BY <1>4, <2>2, <3>1, Dequeues DEF LockDiscipline, Queued, UnderWaitLock
  <2>3. CASE /\ running' = [running EXCEPT ![t] = FALSE] /\ wait_lock' = NULL
             /\ Goto(t, "sleep") /\ UNCHANGED wait_list
    <3>1. OthersSame(t) /\ pc'[t] = "sleep"
      BY <2>0, <2>3, GotoOthers
    <3>2. LockDiscipline(t)
      BY <1>4, <2>3, <3>1 DEF LockDiscipline, UnderWaitLock, TypeOK
    <3> QED  BY <1>4, <2>3, <3>1, <3>2, SameQueue DEF Queued
  <2> QED  BY <1>4, <2>1, <2>2, <2>3 DEF LoopRound
<1>5. ASSUME NEW t \in Tasks, Done(t)  PROVE QueueInv'
  <2>1. /\ pc[t] = "done" /\ mutex_remove_waiter(t) /\ Goto(t, "done_count")
        /\ UNCHANGED <<arch, wait_lock, running>>
    BY <1>5 DEF Done
  <2>2. OthersSame(t) /\ pc'[t] = "done_count" /\ running'[t] /\ wait_lock = t
    BY <2>1, GotoOthers DEF QueueInv, UnderWaitLock
  <2> QED  BY <2>1, <2>2, Dequeues DEF LockDiscipline, Queued, UnderWaitLock
<1>6. ASSUME NEW t \in Tasks, DoneCount(t)  PROVE QueueInv'
  <2>1. /\ pc[t] = "done_count" /\ wait_lock' = NULL /\ Goto(t, "set_owner")
        /\ UNCHANGED <<arch, wait_list, running>>
    BY <1>6 DEF DoneCount
  <2>2. OthersSame(t) /\ pc'[t] = "set_owner" /\ running'[t] /\ wait_lock = t
    BY <2>1, GotoOthers DEF QueueInv, UnderWaitLock
  <2> QED  BY <2>1, <2>2, SameQueue DEF LockDiscipline, Queued, UnderWaitLock
<1>7. ASSUME NEW t \in Tasks, __mutex_unlock_slowpath(t)  PROVE QueueInv'
  <2>1. \A u \in Tasks : running[u] => running'[u]
    <3>1. wait_list # <<>> => Head(wait_list) \in Tasks
      BY DEF TypeOK
    <3> QED  BY <1>7, <3>1 DEF __mutex_unlock_slowpath, WakeFirst, TypeOK
  <2> QED  BY <1>1, <1>7, <2>1 DEF __mutex_unlock_slowpath, Queued, UnderWaitLock
<1>8. ASSUME NEW t \in Tasks,
             \/ mutex_set_owner(t) \/ SpinReadOwner(t) \/ mutex_spin_on_owner(t)
             \/ SpinCmpxchg(t) \/ mutex_unlock(t) \/ __mutex_fastpath_unlock(t)
             \/ TrylockAgain(t)
      PROVE  QueueInv'
  <2>1. /\ UNCHANGED <<arch, wait_list, wait_lock, running>>
        /\ pc[t] \in {"set_owner", "spin", "spin_on_owner", "spin_cmpxchg", "critical",
                      "fastpath_unlock", "trylock_again"}
    BY <1>8 DEF mutex_set_owner, SpinReadOwner, mutex_spin_on_owner, SpinCmpxchg,
                mutex_unlock, __mutex_fastpath_unlock, TrylockAgain
  <2>2. PICK label \in {"critical", "spin_cmpxchg", "spin_on_owner", "slow_lock", "set_owner",
                        "spin", "fastpath_unlock", "unlock_slow", "idle"} : Goto(t, label)
    BY <1>8 DEF mutex_set_owner, SpinReadOwner, mutex_spin_on_owner, SpinCmpxchg,
                mutex_unlock, __mutex_fastpath_unlock, TrylockAgain
  <2> QED  BY <1>1, <2>1, <2>2 DEF Queued, UnderWaitLock
<1>9. ASSUME NEW t \in Tasks, Environment(t)  PROVE QueueInv'
  <2>1. /\ UNCHANGED <<arch, wait_list, wait_lock, pc>>
        /\ \A u \in Tasks : running[u] => running'[u]
    BY <1>9 DEF Environment, signal_wake_up, do_signal, spurious_wake_up, TypeOK
  <2> QED  BY <2>1 DEF QueueInv, Range, Queued, UnderWaitLock
<1>10. CASE UNCHANGED vars
  BY <1>10 DEF vars, QueueInv, Range, Queued, UnderWaitLock
<1>11. ASSUME NEW t \in Tasks, Proceed(t)  PROVE QueueInv'
  <2>1. CASE FirstRound(t)
    BY <1>4, <2>1 DEF FirstRound, QueueInv, UnderWaitLock
  <2>2. CASE NextRound(t)
    BY <1>4, <2>2 DEF NextRound
  <2> QED  BY <1>3, <1>5, <1>6, <1>7, <1>8, <1>11, <2>1, <2>2 DEF Proceed
<1> QED  BY <1>2, <1>9, <1>10, <1>11 DEF Next

(* A step of t after which the count is negative, or that keeps both the    *)
(* danger and everyone who is coming. *)
LEMMA StaysAttended ==
    ASSUME TypeOK, TypeOK', NotStranded, NEW t \in Tasks, OthersSame(t),
           \A u \in Tasks : running[u] => running'[u],
           UNCHANGED wait_list, count' >= 0 => count >= 0,
           Coming(t) => Coming(t)'
    PROVE  NotStranded'
BY DEF NotStranded, Coming, OthersSame

(* In the builds without the flaw of the xchg-based spin, each step keeps   *)
(* the queue attended.                                                      *)
LEMMA Attended ==
    ASSUME <<"xchg", TRUE>> \notin Builds, TypeOK, TypeOK', MutexInv, QueueInv,
           NotStranded, Next
    PROVE  NotStranded'
<1>0. /\ count \in Int /\ count' \in Int /\ count <= 1
      /\ arch = "xchg" => spin = FALSE
  <2>1. spin \in BOOLEAN /\ <<arch, spin>> \in Builds
    BY MutexAssumption DEF TypeOK
  <2>2. count \in Int /\ count' \in Int /\ count <= 1
    BY DEF TypeOK, MutexInv
  <2> QED  BY <2>1, <2>2
<1>1. ASSUME count' < 0  PROVE NotStranded'
  BY <1>0, <1>1 DEF NotStranded
<1>2. ASSUME NEW t \in Tasks, Coming(t)'  PROVE NotStranded'
  BY <1>2 DEF NotStranded
<1>3. ASSUME NEW t \in Tasks, UNCHANGED <<arch, wait_list>>,
             \A u \in Tasks : running[u] => running'[u], \E label : Goto(t, label),
             count' >= 0 => count >= 0, Coming(t) => Coming(t)'
      PROVE  NotStranded'
  <2>1. OthersSame(t)
    BY <1>3, GotoOthers
  <2> QED  BY <1>3, <2>1, StaysAttended
<1>4. ASSUME wait_list' = <<>>  PROVE NotStranded'
  BY <1>4 DEF NotStranded
<1>5. ASSUME NEW t \in Tasks, NEW label \in {"slow_lock", "trylock_again", "unlock_slow"},
             Goto(t, label)
      PROVE  NotStranded'
  <2>1. pc'[t] = label
    BY <1>5 DEF Goto, TypeOK
  <2> QED  BY <1>2, <2>1 DEF Coming
<1>6. ASSUME NEW t \in Tasks, Call(t)  PROVE NotStranded'
  <2>0. pc[t] = "idle" /\ ~Coming(t) /\ UNCHANGED <<wait_list, running, arch>>
    BY <1>6 DEF Call, mutex_lock, mutex_lock_interruptible, mutex_lock_killable, Lock,
                mutex_trylock, Coming
  <2>1. ASSUME NEW st \in States, Lock(t, st)  PROVE NotStranded'
    <3>1. CASE arch = "xchg" /\ count # 1
      <4>1. Goto(t, "slow_lock")
        BY <1>0, <2>1, <3>1 DEF Lock, __mutex_fastpath_lock, LockCommon
      <4> QED  BY <1>5, <4>1
    <3>2. CASE arch # "xchg" \/ count = 1
      <4>1. count' >= 0 => count >= 0
        BY <1>0, <2>1, <3>2 DEF Lock, __mutex_fastpath_lock
      <4>2. \E label : Goto(t, label)
        BY <2>1, Zenon DEF Lock, __mutex_fastpath_lock
      <4> QED  BY <1>3, <2>0, <4>1, <4>2
    <3> QED  BY <3>1, <3>2
  <2>2. CASE mutex_trylock(t)
    <3>1. CASE arch = "xchg" /\ count < 0
      <4>1. Goto(t, "trylock_again")
        BY <2>2, <3>1 DEF mutex_trylock, __mutex_fastpath_trylock
      <4> QED  BY <1>5, <4>1
    <3>2. CASE arch = "dec" \/ (arch = "xchg" /\ ~(count < 0))
      <4>1. count' >= 0 => count >= 0
        BY <1>0, <2>2, <3>2 DEF mutex_trylock, __mutex_fastpath_trylock
      <4>2. \E label : Goto(t, label)
        BY <2>2, Zenon DEF mutex_trylock, __mutex_fastpath_trylock, __mutex_trylock_slowpath
      <4> QED  BY <1>3, <2>0, <4>1, <4>2
    <3>3. CASE arch = "null"
      <4>1. wait_list # <<>> => count' < 0
        BY <2>2, <3>3 DEF mutex_trylock, __mutex_fastpath_trylock, __mutex_trylock_slowpath
      <4> QED  BY <1>1, <1>4, <2>0, <4>1
    <3> QED  BY <3>1, <3>2, <3>3, BuildType
  <2> QED  BY <1>6, <2>1, <2>2 DEF Call, mutex_lock, mutex_lock_interruptible,
                                   mutex_lock_killable, States
<1>7. ASSUME NEW t \in Tasks, SlowLock(t) \/ LoopRound(t)  PROVE NotStranded'
  BY <1>1, <1>7 DEF SlowLock, LoopRound
<1>8. ASSUME NEW t \in Tasks,
             \/ mutex_set_owner(t) \/ SpinReadOwner(t) \/ mutex_spin_on_owner(t)
             \/ SpinCmpxchg(t) \/ DoneCount(t) \/ mutex_unlock(t)
      PROVE  NotStranded'
  <2>1. ~Coming(t) /\ UNCHANGED <<arch, wait_list, running>>
    BY <1>8 DEF mutex_set_owner, SpinReadOwner, mutex_spin_on_owner, SpinCmpxchg, DoneCount,
                mutex_unlock, Coming
  <2>2. \E label : Goto(t, label)
    BY <1>8 DEF mutex_set_owner, SpinReadOwner, mutex_spin_on_owner, SpinCmpxchg, DoneCount,
                mutex_unlock
  <2>3. wait_list # <<>> => (count' >= 0 => count >= 0)
    BY <1>0, <1>8 DEF mutex_set_owner, SpinReadOwner, mutex_spin_on_owner, SpinCmpxchg,
                      DoneCount, mutex_unlock
  <2> QED  BY <1>3, <1>4, <2>1, <2>2, <2>3
<1>9. ASSUME NEW t \in Tasks, Done(t)  PROVE NotStranded'
  (* The task that leaves the list was not among those that are coming. *)
  <2>1. pc[t] = "done" /\ Goto(t, "done_count") /\ UNCHANGED <<arch, count, running>>
    BY <1>9 DEF Done
  <2>2. OthersSame(t) /\ ~Coming(t)
    BY <2>1, GotoOthers DEF Coming
  <2>3. wait_list # <<>>
    BY <1>9 DEF Done, mutex_remove_waiter, TypeOK
  <2>4. ASSUME count' >= 0  PROVE \E u \in Tasks : Coming(u)'
    <3>1. PICK u \in Tasks : Coming(u)
      BY <2>1, <2>3, <2>4 DEF NotStranded
    <3> QED  BY <2>1, <2>2, <3>1 DEF Coming, OthersSame
  <2> QED  BY <2>4 DEF NotStranded
<1>10. ASSUME NEW t \in Tasks, __mutex_fastpath_unlock(t)  PROVE NotStranded'
  <2>0. pc[t] = "fastpath_unlock" /\ ~Coming(t) /\ UNCHANGED <<arch, wait_list, running>>
    BY <1>10 DEF __mutex_fastpath_unlock, Coming
  <2>1. Goto(t, "unlock_slow") \/ (Goto(t, "idle") /\ count >= 0)
    <3>1. CASE arch = "dec"
      BY <1>0, <1>10, <3>1 DEF __mutex_fastpath_unlock
    <3>2. CASE arch = "xchg"
      BY <1>0, <1>10, <3>2 DEF __mutex_fastpath_unlock
    <3>3. CASE arch = "null"
      BY <1>10, <3>3 DEF __mutex_fastpath_unlock
    <3> QED  BY <3>1, <3>2, <3>3, BuildType
  <2> QED  BY <1>3, <1>5, <2>0, <2>1
<1>11. ASSUME NEW t \in Tasks, __mutex_unlock_slowpath(t)  PROVE NotStranded'
  <2>1. CASE wait_list = <<>>
    BY <1>4, <1>11, <2>1 DEF __mutex_unlock_slowpath
  <2>2. CASE wait_list # <<>>
    <3> DEFINE w == Head(wait_list)
    <3>1. w \in Tasks /\ w \in Range(wait_list)
      <4>1. 1 \in DOMAIN wait_list /\ w = wait_list[1]
        BY <2>2 DEF TypeOK
      <4> QED  BY <2>2, <4>1 DEF TypeOK, Range
    <3>2. /\ wait_lock = NULL /\ pc[t] = "unlock_slow" /\ Goto(t, "idle")
          /\ running' = [running EXCEPT ![w] = TRUE]
      BY <1>11, <2>2 DEF __mutex_unlock_slowpath, WakeFirst
    <3>3. pc[w] = "sleep"
      BY <3>1, <3>2, MutexAssumption DEF QueueInv, Queued, UnderWaitLock
    <3>4. pc'[w] = "sleep" /\ running'[w]
      BY <3>1, <3>2, <3>3 DEF Goto, TypeOK
    <3> QED  BY <1>2, <3>1, <3>4 DEF Coming
  <2> QED  BY <2>1, <2>2
<1>12. ASSUME NEW t \in Tasks, TrylockAgain(t)  PROVE NotStranded'
  BY <1>1, <1>12 DEF TrylockAgain, MutexInv
<1>13. ASSUME NEW t \in Tasks, Environment(t)  PROVE NotStranded'
  <2>1. /\ UNCHANGED <<arch, wait_list, count, pc>>
        /\ \A u \in Tasks : running[u] => running'[u]
    BY <1>13 DEF Environment, signal_wake_up, do_signal, spurious_wake_up, TypeOK
  <2> QED  BY <2>1 DEF NotStranded, Coming
<1> QED
  BY <1>6, <1>7, <1>8, <1>9, <1>10, <1>11, <1>12, <1>13
     DEF Next, Proceed, FirstRound, NextRound

(* In every build but the xchg fast path with the spin on the owner, where  *)
(* it fails, no sleeper is left behind on a free mutex.                     *)
THEOREM WakeupCorrect ==
    ASSUME <<"xchg", TRUE>> \notin Builds
    PROVE  Spec => []NoLostWakeup
<1>1. Init => QueueInv /\ NotStranded
  BY DEF Init, QueueInv, NotStranded, Range, Queued, UnderWaitLock
<1>2. /\ TypeOK /\ TypeOK' /\ MutexInv /\ QueueInv /\ NotStranded /\ [Next]_vars
         => NotStranded'
  <2>1. UNCHANGED vars /\ NotStranded => NotStranded'
    BY DEF vars, NotStranded, Coming
  <2> QED  BY <2>1, Attended
<1>3. QueueInv /\ NotStranded /\ TypeOK => NoLostWakeup
  <2> SUFFICES ASSUME QueueInv, NotStranded, TypeOK, count = 1, wait_list # <<>>
               PROVE  \E t \in Tasks :
                         \/ t \in Range(wait_list) /\ running[t]
                         \/ pc[t] \in {"unlock_slow", "slow_lock", "trylock_again"}
    BY DEF NoLostWakeup
  <2>1. PICK t \in Tasks : Coming(t)
    BY DEF NotStranded
  <2>2. pc[t] \in {"xchg", "sleep"} => t \in Range(wait_list)
    BY DEF QueueInv, Queued
  <2>3. pc[t] = "xchg" => running[t]
    BY DEF QueueInv
  <2> QED  BY <2>1, <2>2, <2>3 DEF Coming
<1> QED
  BY <1>1, <1>2, <1>3, TypeCorrect, MutexInvHolds, QueueInvPreserved, PTL DEF Spec
=============================================================================
