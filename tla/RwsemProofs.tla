----------------------------- MODULE RwsemProofs -----------------------------
(***************************************************************************)
(* Proofs about Rwsem, for every finite set of tasks and every width of    *)
(* the active part of the count that can tell them apart.                  *)
(***************************************************************************)
EXTENDS Rwsem, FiniteSetTheorems, SequenceTheorems, TLAPS

-----------------------------------------------------------------------------
(* Numbers and lists. *)

(* A set of naturals that is not empty has a least element. *)
LEMMA LeastNat ==
    ASSUME NEW T \in SUBSET Nat, T # {}
    PROVE  \E x \in T : \A y \in T : x <= y
<1> DEFINE R == OpToRel(<, Nat)
<1>1. IsWellFoundedOn(R, Nat)
  BY NatLessThanWellFounded
<1>2. \A x, y \in Nat : x < y => <<x, y>> \in R
  BY DEF OpToRel
<1> HIDE DEF R
<1>3. PICK x \in T : \A y \in T : ~ (<<y, x>> \in R)
  BY <1>1, WFMin
<1>4. \A y \in T : x \in Nat /\ y \in Nat /\ ~ (y < x)
  BY <1>2, <1>3
<1> QED  BY <1>4

(* list_add_tail() adds one entry. *)
LEMMA AddTail ==
    ASSUME NEW S, NEW list \in Seq(S), NEW x \in S, IsInjective(list), x \notin Range(list)
    PROVE  /\ list_add_tail(list, x) \in Seq(S)
           /\ list_add_tail(list, x) # <<>>
           /\ Head(list_add_tail(list, x)) = IF list = <<>> THEN x ELSE Head(list)
           /\ Range(list_add_tail(list, x)) = Range(list) \cup {x}
           /\ IsInjective(list_add_tail(list, x))
<1> DEFINE new == Append(list, x)
<1>1. /\ new \in Seq(S)
      /\ Len(new) = Len(list) + 1
      /\ \A i \in 1 .. Len(list) : new[i] = list[i]
      /\ new[Len(list) + 1] = x
      /\ DOMAIN new = 1 .. Len(list) + 1
      /\ DOMAIN list = 1 .. Len(list)
      /\ Len(list) \in Nat
  OBVIOUS
<1>2. Range(new) = Range(list) \cup {x}
  BY <1>1 DEF Range
<1>3. IsInjective(new)
  BY <1>1 DEF IsInjective, Range
<1>4. new # <<>> /\ Head(new) = IF list = <<>> THEN x ELSE Head(list)
  BY HeadTailAppend, AppendProperties
<1> QED  BY <1>1, <1>2, <1>3, <1>4 DEF list_add_tail

(* A list is what is cut off at its front and what remains. *)
LEMMA Cut ==
    ASSUME NEW S, NEW list \in Seq(S), IsInjective(list), NEW n \in 0 .. Len(list)
    PROVE  LET front == SubSeq(list, 1, n)
               rest == SubSeq(list, n + 1, Len(list))
           IN  /\ front \in Seq(S) /\ Len(front) = n
               /\ \A i \in 1 .. n : front[i] = list[i]
               /\ rest \in Seq(S) /\ Len(rest) = Len(list) - n
               /\ \A i \in 1 .. Len(list) - n : rest[i] = list[i + n]
               /\ IsInjective(front) /\ IsInjective(rest)
               /\ Range(front) = {list[i] : i \in 1 .. n}
               /\ Range(front) \cap Range(rest) = {}
               /\ Range(front) \cup Range(rest) = Range(list)
<1> DEFINE front == SubSeq(list, 1, n)
           rest == SubSeq(list, n + 1, Len(list))
<1>1. /\ Len(list) \in Nat /\ n \in Nat /\ n <= Len(list)
      /\ DOMAIN list = 1 .. Len(list)
  OBVIOUS
<1>2. /\ front \in Seq(S) /\ Len(front) = n
      /\ \A i \in 1 .. n : front[i] = list[i]
      /\ DOMAIN front = 1 .. n
  <2>1. front \in Seq(S) /\ Len(front) = n
    BY <1>1
  <2>2. \A i \in 1 .. n : front[i] = list[1 + i - 1] /\ 1 + i - 1 = i
    BY <1>1
  <2> QED  BY <2>1, <2>2
<1>3. /\ rest \in Seq(S) /\ Len(rest) = Len(list) - n
      /\ \A i \in 1 .. Len(list) - n : rest[i] = list[i + n]
      /\ DOMAIN rest = 1 .. Len(list) - n
  <2>1. rest \in Seq(S) /\ Len(rest) = Len(list) - n
    <3>1. \A i \in n + 1 .. Len(list) : list[i] \in S
      BY <1>1
    <3>2. n + 1 \in Int /\ Len(list) \in Int
      BY <1>1
    <3>3. /\ rest \in Seq(S)
          /\ Len(rest) = IF n + 1 <= Len(list) THEN Len(list) - (n + 1) + 1 ELSE 0
      BY <3>1, <3>2, SubSeqProperties, Zenon
    <3>4. \A L, k \in Nat : k <= L => (IF k + 1 <= L THEN L - (k + 1) + 1 ELSE 0) = L - k
      OBVIOUS
    <3> QED  BY <1>1, <3>3, <3>4, Zenon
  <2>2. \A i \in 1 .. Len(list) - n : rest[i] = list[i + n]
    BY <1>1
  <2> QED  BY <2>1, <2>2
<1> HIDE DEF front, rest
<1>4. IsInjective(front)
  BY <1>1, <1>2 DEF IsInjective
<1>5. IsInjective(rest)
  <2> SUFFICES ASSUME NEW i \in 1 .. Len(list) - n, NEW j \in 1 .. Len(list) - n,
                      rest[i] = rest[j]
               PROVE  i = j
    BY <1>3 DEF IsInjective
  <2>1. i + n \in DOMAIN list /\ j + n \in DOMAIN list /\ list[i + n] = list[j + n]
    BY <1>1, <1>3
  <2>2. i + n = j + n
    BY <2>1 DEF IsInjective
  <2> QED  BY <1>1, <2>2
<1>6. Range(front) = {list[i] : i \in 1 .. n}
  BY <1>2 DEF Range
<1>7. Range(front) \cap Range(rest) = {}
  <2> SUFFICES ASSUME NEW i \in 1 .. n, NEW j \in 1 .. Len(list) - n, front[i] = rest[j]
               PROVE  FALSE
    BY <1>2, <1>3 DEF Range
  <2>1. i \in DOMAIN list /\ j + n \in DOMAIN list /\ list[i] = list[j + n]
    BY <1>1, <1>2, <1>3
  <2>2. i = j + n
    BY <2>1 DEF IsInjective
  <2> QED  BY <1>1, <2>2
<1>8. Range(front) \cup Range(rest) = Range(list)
  <2>1. ASSUME NEW i \in 1 .. n  PROVE front[i] \in Range(list)
    BY <1>1, <1>2 DEF Range
  <2>2. ASSUME NEW i \in 1 .. Len(list) - n  PROVE rest[i] \in Range(list)
    <3>1. i + n \in DOMAIN list /\ rest[i] = list[i + n]
      BY <1>1, <1>3
    <3> QED  BY <3>1 DEF Range
  <2>3. ASSUME NEW i \in DOMAIN list  PROVE list[i] \in Range(front) \cup Range(rest)
    <3>1. CASE i <= n
      <4>1. i \in DOMAIN front /\ front[i] = list[i]
        BY <1>1, <1>2, <3>1
      <4> QED  BY <4>1 DEF Range
    <3>2. CASE i > n
      <4>1. i - n \in DOMAIN rest /\ rest[i - n] = list[i]
        BY <1>1, <1>3, <3>2
      <4> QED  BY <4>1 DEF Range
    <3> QED  BY <1>1, <3>1, <3>2
  <2> QED  BY <1>2, <1>3, <2>1, <2>2, <2>3 DEF Range
<1> QED  BY <1>2, <1>3, <1>4, <1>5, <1>6, <1>7, <1>8 DEF front, rest

(* The same for the head and the tail. *)
LEMMA HeadTail ==
    ASSUME NEW S, NEW list \in Seq(S), list # <<>>, IsInjective(list)
    PROVE  /\ Head(list) \in S /\ Head(list) \in Range(list)
           /\ Head(list) = list[1] /\ 1 \in DOMAIN list
           /\ Tail(list) \in Seq(S) /\ Len(Tail(list)) = Len(list) - 1
           /\ \A i \in 1 .. Len(list) - 1 : Tail(list)[i] = list[i + 1]
           /\ IsInjective(Tail(list))
           /\ Range(Tail(list)) = Range(list) \ {Head(list)}
<1>1. /\ Head(list) = list[1] /\ 1 \in DOMAIN list /\ Head(list) \in S
      /\ Tail(list) = SubSeq(list, 2, Len(list))
      /\ Tail(list) \in Seq(S) /\ Len(Tail(list)) = Len(list) - 1
      /\ \A i \in 1 .. Len(list) - 1 : Tail(list)[i] = list[i + 1]
      /\ 1 \in 0 .. Len(list) /\ 1 + 1 = 2
  <2>1. Len(list) \in Nat \ {0} /\ DOMAIN list = 1 .. Len(list)
    OBVIOUS
  <2>2. Head(list) = list[1]
    OBVIOUS
  <2> QED  BY <2>1, <2>2, HeadTailProperties, TailIsSubSeq
<1>2. Head(list) \in Range(list)
  BY <1>1 DEF Range
<1>3. DOMAIN list = 1 .. Len(list) /\ DOMAIN Tail(list) = 1 .. Len(list) - 1 /\ Len(list) \in Nat
  BY <1>1
<1>4. IsInjective(Tail(list))
  BY <1>1, <1>3 DEF IsInjective
<1>5. Range(Tail(list)) = Range(list) \ {Head(list)}
  <2>1. ASSUME NEW i \in DOMAIN Tail(list)  PROVE Tail(list)[i] \in Range(list) \ {Head(list)}
    BY <1>1, <1>3 DEF Range, IsInjective
  <2>2. ASSUME NEW i \in DOMAIN list, list[i] # Head(list)  PROVE list[i] \in Range(Tail(list))
    <3>1. i # 1 /\ i - 1 \in DOMAIN Tail(list) /\ Tail(list)[i - 1] = list[i]
      BY <1>1, <1>3, <2>2
    <3> QED  BY <3>1 DEF Range
  <2> QED  BY <2>1, <2>2 DEF Range
<1> QED  BY <1>1, <1>2, <1>4, <1>5

(* The number of readers at the front of the list is well defined. *)
LEMMA FrontReadersDef ==
    ASSUME wait_list \in Seq(Tasks),
           \A t \in Range(wait_list) : call[t] \in {"read", "write"}
    PROVE  /\ FrontReaders \in 0 .. Len(wait_list)
           /\ \A i \in 1 .. FrontReaders : call[wait_list[i]] = "read"
           /\ FrontReaders = Len(wait_list) \/ call[wait_list[FrontReaders + 1]] = "write"
<1> DEFINE P(n) == /\ \A i \in 1 .. n : call[wait_list[i]] = "read"
                   /\ n = Len(wait_list) \/ call[wait_list[n + 1]] = "write"
<1>1. \E n \in 0 .. Len(wait_list) : P(n)
  <2> DEFINE T == {i \in 1 .. Len(wait_list) : call[wait_list[i]] = "write"}
  <2>1. \A i \in 1 .. Len(wait_list) : call[wait_list[i]] \in {"read", "write"}
    BY DEF Range
  <2>2. Len(wait_list) \in Nat
    OBVIOUS
  <2>3. CASE T = {}
    <3>1. P(Len(wait_list))
      BY <2>1, <2>3
    <3> QED  BY <2>2, <3>1
  <2>4. CASE T # {}
    <3>0. T \in SUBSET Nat
      OBVIOUS
    <3>1. PICK x \in T : \A y \in T : x <= y
      <4> HIDE DEF T
      <4> QED  BY <2>4, <3>0, LeastNat
    <3>2. x - 1 \in 0 .. Len(wait_list) /\ (x - 1) + 1 = x
      BY <2>2
    <3>3. \A i \in 1 .. x - 1 : call[wait_list[i]] = "read"
      BY <2>1, <2>2, <3>1
    <3>4. P(x - 1)
      BY <3>2, <3>3
    <3> QED  BY <3>2, <3>4
  <2> QED  BY <2>3, <2>4
<1>2. FrontReaders = CHOOSE n \in 0 .. Len(wait_list) : P(n)
  BY DEF FrontReaders
<1> QED  BY <1>1, <1>2

-----------------------------------------------------------------------------
(* The structure of the semaphore: what does not depend on the count. *)

(* The types of the variables. *)
Types ==
    /\ count \in Int
    /\ wait_list \in Seq(Tasks)
    /\ wait_lock \in Tasks \cup {Nobody}
    /\ task \in [Tasks -> BOOLEAN]
    /\ running \in [Tasks -> BOOLEAN]
    /\ call \in [Tasks -> {"none", "read", "write", "up", "downgrade"}]
    /\ pc \in [Tasks -> {"out", "queue", "wake", "test", "schedule"} \cup InDoWake]
    /\ woken \in Seq(Tasks)
    /\ tsk \in Tasks \cup {Nobody}
    /\ holds \in [Tasks -> {"none", "read", "write"}]

(* What a task holds and calls, given where it is; inside __rwsem_do_wake() *)
(* it has the wait_lock.                                                    *)
PlaceOK(t) ==
    /\ pc[t] = "out" <=> call[t] = "none"
    /\ pc[t] \in {"queue", "test", "schedule"} => call[t] \in {"read", "write"}
    /\ pc[t] = "wake" => call[t] \in {"up", "downgrade"}
    /\ call[t] \in {"read", "write", "up"} => holds[t] = "none"
    /\ call[t] = "downgrade" => holds[t] = "read"
    /\ pc[t] \in InDoWake <=> wait_lock = t

(* What __rwsem_do_wake() relies on at its steps. *)
StageOK(t) ==
    /\ pc[t] \in {"try_write", "undo_write"} =>
          wait_list # <<>> /\ call[Head(wait_list)] = "write"
    /\ pc[t] \in {"check_readers", "grant_readers"} =>
          wait_list # <<>> /\ call[Head(wait_list)] = "read"
    /\ pc[t] = "tell" => woken # <<>>
    /\ pc[t] = "kick" => tsk \in Tasks

(* A sleeper that has been told is about to be woken. *)
SleepOK(t) == pc[t] = "schedule" /\ ~task[t] => running[t] \/ tsk = t

(* Only a task that is about to be woken is remembered. *)
TskOK == (\A t \in Tasks : pc[t] # "kick") => tsk = Nobody

(* A waiter is at one place of one of the two lists, and still waits. *)
ListsOK ==
    /\ IsInjective(wait_list) /\ IsInjective(woken)
    /\ Range(wait_list) \cap Range(woken) = {}
    /\ \A t \in Range(wait_list) \cup Range(woken) :
          /\ call[t] \in {"read", "write"} /\ task[t]
          /\ pc[t] \in {"test", "schedule"} \cup InDoWake

Structure ==
    /\ Types
    /\ ListsOK
    /\ TskOK
    /\ \A t \in Tasks : PlaceOK(t) /\ StageOK(t) /\ SleepOK(t)

(* The fast paths do not touch the lists, and the task is on none. *)
LEMMA FastPathStructure ==
    ASSUME Structure, NEW t \in Tasks, pc[t] = "out", FastPath, count' \in Int,
           \/ \E h \in {"none", "read", "write"} : Finish(t, h)
           \/ holds[t] = "none" /\ \E op \in {"read", "write"} : DownFailed(t, op)
           \/ CallWake(t, "up", "none")
           \/ CallWake(t, "downgrade", "read")
    PROVE  Structure'
<1>1. /\ Types /\ ListsOK /\ TskOK /\ PlaceOK(t)
      /\ \A u \in Tasks : PlaceOK(u) /\ StageOK(u) /\ SleepOK(u)
  BY DEF Structure
<1>2. UNCHANGED <<wait_list, task, wait_lock, woken, tsk>>
  BY DEF FastPath, local
<1>3. /\ pc' \in [Tasks -> {"out", "queue", "wake", "test", "schedule"} \cup InDoWake]
      /\ call' \in [Tasks -> {"none", "read", "write", "up", "downgrade"}]
      /\ holds' \in [Tasks -> {"none", "read", "write"}]
      /\ running' \in [Tasks -> BOOLEAN]
  BY <1>1 DEF Finish, DownFailed, CallWake, Types
<1>4. Types'
  BY <1>1, <1>2, <1>3 DEF Types
<1>5. \A u \in Tasks \ {t} :
         pc'[u] = pc[u] /\ call'[u] = call[u] /\ holds'[u] = holds[u] /\ running'[u] = running[u]
  BY <1>1 DEF Finish, DownFailed, CallWake, Types
<1>6. t \notin Range(wait_list) \cup Range(woken) /\ wait_lock # t
  BY <1>1 DEF ListsOK, InDoWake, PlaceOK
<1>7. Range(wait_list) \cup Range(woken) \subseteq Tasks
  BY <1>1 DEF Types, Range
<1>8. ListsOK'
  BY <1>1, <1>2, <1>5, <1>6, <1>7 DEF ListsOK
<1>9. PlaceOK(t)' /\ StageOK(t)' /\ SleepOK(t)'
  <2>1. pc'[t] \in {"out", "queue", "wake"}
    BY <1>1 DEF Finish, DownFailed, CallWake, Types
  <2>2. StageOK(t)' /\ SleepOK(t)'
    BY <2>1 DEF StageOK, SleepOK
  <2>3. PlaceOK(t)'
    BY <1>1, <1>2, <1>6 DEF PlaceOK, Finish, DownFailed, CallWake, Types, InDoWake
  <2> QED  BY <2>2, <2>3
<1>10. ASSUME NEW u \in Tasks \ {t}  PROVE PlaceOK(u)' /\ StageOK(u)' /\ SleepOK(u)'
  <2>1. wait_list # <<>> => Head(wait_list) \in Tasks \ {t}
    <3>1. wait_list # <<>> => Head(wait_list) \in Range(wait_list)
      BY <1>1, HeadTail DEF Types, ListsOK
    <3> QED  BY <1>6, <1>7, <3>1
  <2>2. StageOK(u)'
    BY <1>1, <1>2, <1>5, <2>1 DEF StageOK
  <2>3. PlaceOK(u)' /\ SleepOK(u)'
    BY <1>1, <1>2, <1>5 DEF PlaceOK, SleepOK
  <2> QED  BY <2>2, <2>3
<1>11. TskOK'
  <2>1. pc'[t] # "kick" /\ pc[t] # "kick"
    BY <1>1 DEF Finish, DownFailed, CallWake, Types
  <2> QED  BY <1>1, <1>2, <1>5, <2>1 DEF TskOK
<1> QED  BY <1>4, <1>8, <1>9, <1>10, <1>11 DEF Structure

(* Under the wait_lock a task keeps it or returns; the others stay where    *)
(* they are, outside __rwsem_do_wake().                                     *)
UnderLock(t) == Unlock(t) \/ \E where \in InDoWake : Keep(t, where)

(* Such a step leaves every task at a place it can be at. *)
LEMMA SlowPathPlace ==
    ASSUME Structure, NEW t \in Tasks, UnderLock(t), UNCHANGED holds,
           \/ pc[t] \in InDoWake
           \/ pc[t] \in {"queue", "wake"} /\ wait_lock = Nobody
    PROVE  /\ pc' \in [Tasks -> {"out", "queue", "wake", "test", "schedule"} \cup InDoWake]
           /\ call' \in [Tasks -> {"none", "read", "write", "up", "downgrade"}]
           /\ wait_lock' \in Tasks \cup {Nobody}
           /\ \A u \in Tasks : PlaceOK(u)'
           /\ \A u \in Tasks \ {t} :
                 pc'[u] = pc[u] /\ call'[u] = call[u] /\ pc[u] \notin InDoWake
           /\ pc'[t] \in {"out", "test"} \cup InDoWake
           /\ call[t] \in {"read", "write"} =>
                 call'[t] = call[t] /\ pc'[t] \in {"test"} \cup InDoWake
           /\ call[t] \notin {"read", "write"} => call'[t] \notin {"read", "write"}
           /\ call[t] # "none"
<1>1. Types /\ \A u \in Tasks : PlaceOK(u)
  BY DEF Structure
<1>2. wait_lock \in {t, Nobody} /\ Nobody # t
  BY <1>1, RwsemAssumption DEF PlaceOK
<1>3. \A u \in Tasks \ {t} : pc[u] \notin InDoWake
  BY <1>1, <1>2, RwsemAssumption DEF PlaceOK
<1>4. /\ pc' \in [Tasks -> {"out", "queue", "wake", "test", "schedule"} \cup InDoWake]
      /\ call' \in [Tasks -> {"none", "read", "write", "up", "downgrade"}]
      /\ wait_lock' \in {t, Nobody}
  BY <1>1 DEF UnderLock, Unlock, Keep, Types
<1>5. \A u \in Tasks \ {t} : pc'[u] = pc[u] /\ call'[u] = call[u]
  BY <1>1 DEF UnderLock, Unlock, Keep, Types
<1>6. call[t] # "none"
  BY <1>1 DEF PlaceOK, InDoWake
<1>7. /\ pc'[t] \in {"out", "test"} \cup InDoWake
      /\ call[t] \in {"read", "write"} =>
            call'[t] = call[t] /\ pc'[t] \in {"test"} \cup InDoWake
      /\ call[t] \notin {"read", "write"} => call'[t] \notin {"read", "write"}
  BY <1>1 DEF UnderLock, Unlock, Keep, Types
<1>8. PlaceOK(t)'
  BY <1>1, <1>2, <1>6 DEF UnderLock, Unlock, Keep, PlaceOK, Types, InDoWake
<1>9. ASSUME NEW u \in Tasks \ {t}  PROVE PlaceOK(u)'
  BY <1>1, <1>2, <1>3, <1>4, <1>5, RwsemAssumption DEF PlaceOK
<1> QED  BY <1>3, <1>4, <1>5, <1>6, <1>7, <1>8, <1>9

(* What the start of __rwsem_do_wake() leaves: t waits or has returned, or  *)
(* is at a step that fits the head of the list.                             *)
LEMMA DoWakePlace ==
    ASSUME NEW t \in Tasks, pc \in [Tasks -> {"out", "queue", "wake", "test", "schedule"} \cup InDoWake],
           NEW list, NEW type, do_wake(t, list, type),
           call[Head(list)] \in {"read", "write"}
    PROVE  /\ UnderLock(t)
           /\ \/ pc'[t] \in {"out", "test"}
              \/ pc'[t] = "try_write" /\ call[Head(list)] = "write"
              \/ pc'[t] \in {"check_readers", "grant_readers"} /\ call[Head(list)] = "read"
<1>1. CASE call[Head(list)] = "write"
  BY <1>1 DEF do_wake, UnderLock, Unlock, Keep, InDoWake
<1>2. CASE call[Head(list)] = "read"
  BY <1>2 DEF do_wake, UnderLock, Unlock, Keep, InDoWake
<1> QED  BY <1>1, <1>2

(* What remains to be shown when a step under the lock changes no list. *)
LEMMA SameLists ==
    ASSUME Structure, NEW t \in Tasks, UnderLock(t), UNCHANGED <<holds, wait_list, woken, task>>,
           \/ pc[t] \in InDoWake /\ pc[t] # "kick"
           \/ pc[t] = "wake" /\ wait_lock = Nobody,
           count' \in Int, UNCHANGED <<running, tsk>>, StageOK(t)', pc'[t] # "kick"
    PROVE  Structure'
<1>1. /\ Types /\ ListsOK /\ TskOK
      /\ \A u \in Tasks : PlaceOK(u) /\ StageOK(u) /\ SleepOK(u)
  BY DEF Structure
<1>2. /\ pc' \in [Tasks -> {"out", "queue", "wake", "test", "schedule"} \cup InDoWake]
      /\ call' \in [Tasks -> {"none", "read", "write", "up", "downgrade"}]
      /\ wait_lock' \in Tasks \cup {Nobody}
      /\ \A u \in Tasks : PlaceOK(u)'
      /\ \A u \in Tasks \ {t} :
            pc'[u] = pc[u] /\ call'[u] = call[u] /\ pc[u] \notin InDoWake
      /\ pc'[t] \in {"out", "test"} \cup InDoWake
      /\ call[t] \in {"read", "write"} =>
            call'[t] = call[t] /\ pc'[t] \in {"test"} \cup InDoWake
  BY SlowPathPlace
<1>3. Types'
  BY <1>1, <1>2 DEF Types
<1>4. Range(wait_list) \cup Range(woken) \subseteq Tasks
  BY <1>1 DEF Types, Range
<1>5. ListsOK'
  BY <1>1, <1>2, <1>4 DEF ListsOK
<1>6. \A u \in Tasks \ {t} : StageOK(u)'
  BY <1>2 DEF StageOK, InDoWake
<1>7. \A u \in Tasks : SleepOK(u)'
  BY <1>1, <1>2 DEF SleepOK, InDoWake
<1>8. TskOK'
  BY <1>1, <1>2 DEF TskOK
<1> QED  BY <1>2, <1>3, <1>5, <1>6, <1>7, <1>8 DEF Structure

(* The semaphore keeps its structure. *)
THEOREM StructureCorrect == Spec => []Structure
<1>1. Init => Structure
  <2> SUFFICES ASSUME Init  PROVE Structure
    OBVIOUS
  <2>1. Types
    BY DEF Init, Types
  <2>2. ListsOK
    BY DEF Init, ListsOK, Range, IsInjective
  <2>3. \A t \in Tasks : PlaceOK(t) /\ StageOK(t) /\ SleepOK(t)
    BY RwsemAssumption DEF Init, PlaceOK, StageOK, SleepOK, InDoWake
  <2> QED  BY <2>1, <2>2, <2>3 DEF Structure, TskOK, Init
<1>2. Structure /\ [Next]_vars => Structure'
  <2> SUFFICES ASSUME Structure, [Next]_vars  PROVE Structure'
    OBVIOUS
  <2>0. /\ Types /\ ListsOK /\ TskOK
        /\ \A u \in Tasks : PlaceOK(u) /\ StageOK(u) /\ SleepOK(u)
        /\ Range(wait_list) \cup Range(woken) \subseteq Tasks
    BY DEF Structure, Types, Range
  <2>00. RWSEM_ACTIVE_BIAS \in Int /\ RWSEM_WAITING_BIAS \in Int
         /\ RWSEM_ACTIVE_WRITE_BIAS \in Int /\ count \in Int
         /\ Len(wait_list) \in Nat
    BY <2>0, RwsemAssumption
       DEF RWSEM_ACTIVE_BIAS, RWSEM_WAITING_BIAS, RWSEM_ACTIVE_WRITE_BIAS, Types
  <2>1. ASSUME NEW t \in Tasks, down_read(t) \/ down_read_trylock(t)  PROVE Structure'
    BY <2>00, <2>1, FastPathStructure DEF down_read, down_read_trylock, Idle
  <2>2. ASSUME NEW t \in Tasks, down_write(t) \/ down_write_trylock(t)  PROVE Structure'
    BY <2>00, <2>2, FastPathStructure DEF down_write, down_write_trylock, Idle
  <2>3. ASSUME NEW t \in Tasks, up_read(t) \/ up_write(t) \/ downgrade_write(t)
        PROVE  Structure'
    BY <2>00, <2>3, FastPathStructure DEF up_read, up_write, downgrade_write
  <2>4. ASSUME NEW t \in Tasks, rwsem_down_failed_common(t)  PROVE Structure'
    <3>1. pc[t] = "queue" /\ wait_lock = Nobody /\ call[t] \in {"read", "write"}
      BY <2>0, <2>4 DEF rwsem_down_failed_common, PlaceOK
    <3>2. t \notin Range(wait_list) \cup Range(woken)
      BY <2>0, <3>1 DEF ListsOK, InDoWake
    <3>3. /\ wait_list' \in Seq(Tasks) /\ wait_list' # <<>>
          /\ Range(wait_list') = Range(wait_list) \cup {t}
          /\ IsInjective(wait_list')
          /\ Head(wait_list') = IF wait_list = <<>> THEN t ELSE Head(wait_list)
      BY <2>0, <2>4, <3>2, AddTail DEF rwsem_down_failed_common, Types, ListsOK
    <3>4. call[Head(wait_list')] \in {"read", "write"}
      <4>1. wait_list # <<>> => Head(wait_list) \in Range(wait_list)
        BY <2>0, HeadTail DEF Types, ListsOK
      <4> QED  BY <2>0, <3>1, <3>3, <4>1 DEF ListsOK
    <3>5. Unlock(t) \/ \E type \in {"NO_ACTIVE", "READ_OWNED"} : do_wake(t, wait_list', type)
      BY <2>4 DEF rwsem_down_failed_common
    <3>6. /\ UnderLock(t)
          /\ \/ pc'[t] \in {"out", "test"}
             \/ pc'[t] = "try_write" /\ call[Head(wait_list')] = "write"
             \/ /\ pc'[t] \in {"check_readers", "grant_readers"}
                /\ call[Head(wait_list')] = "read"
      <4>1. CASE Unlock(t)
        BY <2>0, <4>1 DEF UnderLock, Unlock, Types
      <4>2. ASSUME NEW type, do_wake(t, wait_list', type)
            PROVE  /\ UnderLock(t)
                   /\ \/ pc'[t] \in {"out", "test"}
                      \/ pc'[t] = "try_write" /\ call[Head(wait_list')] = "write"
                      \/ /\ pc'[t] \in {"check_readers", "grant_readers"}
                         /\ call[Head(wait_list')] = "read"
        BY <2>0, <3>4, <4>2, DoWakePlace DEF Types
      <4> QED  BY <3>5, <4>1, <4>2
    <3>7. /\ UNCHANGED <<running, holds, woken, tsk>>
          /\ task' = [task EXCEPT ![t] = TRUE]
          /\ count' \in Int
      BY <2>00, <2>4 DEF rwsem_down_failed_common, Bias
    <3>8. /\ pc' \in [Tasks -> {"out", "queue", "wake", "test", "schedule"} \cup InDoWake]
          /\ call' \in [Tasks -> {"none", "read", "write", "up", "downgrade"}]
          /\ wait_lock' \in Tasks \cup {Nobody}
          /\ \A u \in Tasks : PlaceOK(u)'
          /\ \A u \in Tasks \ {t} :
                pc'[u] = pc[u] /\ call'[u] = call[u] /\ pc[u] \notin InDoWake
          /\ call'[t] = call[t] /\ pc'[t] \in {"test"} \cup InDoWake
      BY <3>1, <3>6, <3>7, SlowPathPlace
    <3>9. Types'
      BY <2>0, <3>3, <3>7, <3>8 DEF Types
    <3>10. ListsOK'
      <4>1. task'[t] /\ \A u \in Tasks \ {t} : task'[u] = task[u]
        BY <2>0, <3>7 DEF Types
      <4>2. Range(wait_list') \cap Range(woken') = {}
        BY <2>0, <3>2, <3>3, <3>7 DEF ListsOK
      <4> QED  BY <2>0, <3>1, <3>3, <3>7, <3>8, <4>1, <4>2 DEF ListsOK
    <3>11. StageOK(t)'
      <4>1. call'[Head(wait_list')] = call[Head(wait_list')]
        BY <2>0, <3>3, <3>8
      <4> QED  BY <3>3, <3>6, <4>1 DEF StageOK
    <3>12. \A u \in Tasks \ {t} : StageOK(u)'
      BY <3>8 DEF StageOK, InDoWake
    <3>13. \A u \in Tasks : SleepOK(u)'
      BY <2>0, <3>7, <3>8 DEF SleepOK, Types, InDoWake
    <3>14. TskOK'
      BY <2>0, <3>1, <3>6, <3>7, <3>8 DEF TskOK
    <3> QED  BY <3>8, <3>9, <3>10, <3>11, <3>12, <3>13, <3>14 DEF Structure
  <2>5. ASSUME NEW t \in Tasks, rwsem_wake(t)  PROVE Structure'
    <3>1. pc[t] = "wake" /\ wait_lock = Nobody
      BY <2>5 DEF rwsem_wake
    <3>2. UNCHANGED <<count, wait_list, task, running, holds, woken, tsk>>
      BY <2>5 DEF rwsem_wake
    <3>3. UnderLock(t) /\ StageOK(t)' /\ pc'[t] # "kick"
      <4>1. CASE Unlock(t)
        BY <2>0, <4>1 DEF UnderLock, Unlock, Types, StageOK
      <4>2. ASSUME NEW type, wait_list # <<>>, do_wake(t, wait_list, type)
            PROVE  UnderLock(t) /\ StageOK(t)' /\ pc'[t] # "kick"
        <5>1. Head(wait_list) \in Range(wait_list)
          BY <2>0, <4>2, HeadTail DEF Types, ListsOK
        <5>2. call[Head(wait_list)] \in {"read", "write"} /\ Head(wait_list) \in Tasks \ {t}
          BY <2>0, <3>1, <5>1 DEF ListsOK, InDoWake
        <5>3. /\ UnderLock(t)
              /\ \/ pc'[t] \in {"out", "test"}
                 \/ pc'[t] = "try_write" /\ call[Head(wait_list)] = "write"
                 \/ /\ pc'[t] \in {"check_readers", "grant_readers"}
                    /\ call[Head(wait_list)] = "read"
          BY <2>0, <4>2, <5>2, DoWakePlace DEF Types
        <5>4. call'[Head(wait_list)] = call[Head(wait_list)]
          BY <3>1, <3>2, <5>2, <5>3, SlowPathPlace
        <5> QED  BY <3>2, <4>2, <5>3, <5>4 DEF StageOK
      <4> QED  BY <2>5, <4>1, <4>2 DEF rwsem_wake
    <3> QED  BY <2>00, <3>1, <3>2, <3>3, SameLists
  <2>6. ASSUME NEW t \in Tasks, TryWrite(t)  PROVE Structure'
    <3>1. pc[t] = "try_write" /\ UNCHANGED <<task, running, holds, tsk>> /\ count' \in Int
      BY <2>00, <2>6 DEF TryWrite, WriteAdjustment
    <3>2. wait_list # <<>> /\ call[Head(wait_list)] = "write"
      BY <2>0, <3>1 DEF StageOK
    <3>3. CASE Keep(t, "undo_write") /\ UNCHANGED <<wait_list, woken>>
      <4>1. UnderLock(t)
        BY <3>3 DEF UnderLock, InDoWake
      <4>2. StageOK(t)' /\ pc'[t] # "kick"
        BY <2>0, <3>2, <3>3 DEF StageOK, Keep, Types
      <4>3. pc[t] \in InDoWake /\ pc[t] # "kick"
        BY <3>1 DEF InDoWake
      <4> QED  BY <3>1, <3>3, <4>1, <4>2, <4>3, SameLists
    <3>4. CASE /\ Keep(t, "tell") /\ woken' = <<Head(wait_list)>>
               /\ wait_list' = Tail(wait_list)
      <4>1. UnderLock(t) /\ UNCHANGED call
        BY <3>4 DEF UnderLock, InDoWake, Keep
      <4>2. /\ pc' \in [Tasks -> {"out", "queue", "wake", "test", "schedule"} \cup InDoWake]
            /\ call' \in [Tasks -> {"none", "read", "write", "up", "downgrade"}]
            /\ wait_lock' \in Tasks \cup {Nobody}
            /\ \A u \in Tasks : PlaceOK(u)'
            /\ \A u \in Tasks \ {t} :
                  pc'[u] = pc[u] /\ call'[u] = call[u] /\ pc[u] \notin InDoWake
            /\ pc'[t] = "tell"
        <5>1. pc'[t] = "tell"
          BY <2>0, <3>4 DEF Keep, Types
        <5> QED  BY <3>1, <4>1, <5>1, SlowPathPlace DEF InDoWake
      <4>3. /\ Head(wait_list) \in Tasks /\ Head(wait_list) \in Range(wait_list)
            /\ wait_list' \in Seq(Tasks) /\ IsInjective(wait_list')
            /\ Range(wait_list') = Range(wait_list) \ {Head(wait_list)}
        BY <2>0, <3>2, <3>4, HeadTail DEF Types, ListsOK
      <4>4. /\ woken' \in Seq(Tasks) /\ woken' # <<>> /\ IsInjective(woken')
            /\ Range(woken') = {Head(wait_list)}
        BY <3>4, <4>3 DEF IsInjective, Range
      <4>5. Types'
        BY <2>0, <3>1, <4>2, <4>3, <4>4 DEF Types
      <4>6. ListsOK'
        <5>1. pc'[t] \in InDoWake
          BY <4>2 DEF InDoWake
        <5>2. Range(wait_list') \cup Range(woken') \subseteq Range(wait_list)
          BY <4>3, <4>4
        <5>3. Range(wait_list') \cap Range(woken') = {}
          BY <4>3, <4>4
        <5>4. ASSUME NEW u \in Range(wait_list') \cup Range(woken')
              PROVE  /\ call'[u] \in {"read", "write"} /\ task'[u]
                     /\ pc'[u] \in {"test", "schedule"} \cup InDoWake
          BY <2>0, <3>1, <4>1, <4>2, <5>1, <5>2 DEF ListsOK
        <5> QED  BY <4>3, <4>4, <5>3, <5>4 DEF ListsOK
      <4>7. \A u \in Tasks : StageOK(u)'
        <5>1. \A u \in Tasks : pc'[u] \notin InDoWake \/ pc'[u] = "tell"
          BY <4>2
        <5> QED  BY <4>4, <5>1 DEF StageOK, InDoWake
      <4>8. \A u \in Tasks : SleepOK(u)'
        BY <2>0, <3>1, <4>2 DEF SleepOK
      <4>9. TskOK'
        BY <2>0, <3>1, <4>2 DEF TskOK
      <4> QED  BY <4>2, <4>5, <4>6, <4>7, <4>8, <4>9 DEF Structure
    <3> QED  BY <2>6, <3>3, <3>4 DEF TryWrite
  <2>7. ASSUME NEW t \in Tasks, UndoWrite(t)  PROVE Structure'
    <3>1. /\ pc[t] = "undo_write" /\ count' \in Int
          /\ UNCHANGED <<wait_list, task, running, holds, woken, tsk>>
      BY <2>00, <2>7 DEF UndoWrite, WriteAdjustment
    <3>2. UnderLock(t) /\ ((pc'[t] = "try_write" /\ UNCHANGED call) \/ pc'[t] \in {"out", "test"})
      BY <2>0, <2>7 DEF UndoWrite, UnderLock, Unlock, Keep, InDoWake, Types
    <3>3. StageOK(t)' /\ pc'[t] # "kick"
      BY <2>0, <3>1, <3>2 DEF StageOK
    <3>4. pc[t] \in InDoWake /\ pc[t] # "kick"
      BY <3>1 DEF InDoWake
    <3> QED  BY <3>1, <3>2, <3>3, <3>4, SameLists
  <2>8. ASSUME NEW t \in Tasks, CheckReaders(t)  PROVE Structure'
    <3>1. /\ pc[t] = "check_readers"
          /\ UNCHANGED <<count, wait_list, task, running, holds, woken, tsk>>
      BY <2>8 DEF CheckReaders
    <3>2. UnderLock(t) /\ ((pc'[t] = "grant_readers" /\ UNCHANGED call) \/ pc'[t] \in {"out", "test"})
      BY <2>0, <2>8 DEF CheckReaders, UnderLock, Unlock, Keep, InDoWake, Types
    <3>3. StageOK(t)' /\ pc'[t] # "kick"
      BY <2>0, <3>1, <3>2 DEF StageOK
    <3>4. pc[t] \in InDoWake /\ pc[t] # "kick"
      BY <3>1 DEF InDoWake
    <3> QED  BY <2>00, <3>1, <3>2, <3>3, <3>4, SameLists
  <2>9. ASSUME NEW t \in Tasks, GrantReaders(t)  PROVE Structure'
    <3>1. pc[t] = "grant_readers" /\ UNCHANGED <<task, running, holds, tsk>>
      BY <2>9 DEF GrantReaders
    <3>2. wait_list # <<>> /\ call[Head(wait_list)] = "read"
      BY <2>0, <3>1 DEF StageOK
    <3>3. /\ FrontReaders \in 0 .. Len(wait_list)
          /\ FrontReaders = Len(wait_list) \/ call[wait_list[FrontReaders + 1]] = "write"
      BY <2>0, FrontReadersDef DEF Types, ListsOK
    <3>4. FrontReaders # 0
      <4>1. Head(wait_list) = wait_list[1] /\ Len(wait_list) # 0
        BY <2>0, <3>2 DEF Types
      <4> QED  BY <3>2, <3>3, <4>1
    <3>5. /\ woken' \in Seq(Tasks) /\ Len(woken') = FrontReaders
          /\ wait_list' \in Seq(Tasks)
          /\ IsInjective(woken') /\ IsInjective(wait_list')
          /\ Range(woken') \cap Range(wait_list') = {}
          /\ Range(woken') \cup Range(wait_list') = Range(wait_list)
      BY <2>0, <2>9, <3>3, Cut DEF GrantReaders, Types, ListsOK
    <3>6. woken' # <<>>
      BY <3>4, <3>5
    <3>7. UnderLock(t) /\ UNCHANGED call /\ pc'[t] = "tell"
      BY <2>0, <2>9 DEF GrantReaders, UnderLock, Keep, InDoWake, Types
    <3>8. /\ pc' \in [Tasks -> {"out", "queue", "wake", "test", "schedule"} \cup InDoWake]
          /\ call' \in [Tasks -> {"none", "read", "write", "up", "downgrade"}]
          /\ wait_lock' \in Tasks \cup {Nobody}
          /\ \A u \in Tasks : PlaceOK(u)'
          /\ \A u \in Tasks \ {t} :
                pc'[u] = pc[u] /\ call'[u] = call[u] /\ pc[u] \notin InDoWake
      BY <3>1, <3>7, SlowPathPlace DEF InDoWake
    <3>9. count' \in Int
      BY <2>00, <2>9, <3>3 DEF GrantReaders
    <3>10. Types'
      BY <2>0, <3>1, <3>5, <3>8, <3>9 DEF Types
    <3>11. ListsOK'
      BY <2>0, <3>1, <3>5, <3>7, <3>8 DEF ListsOK, InDoWake
    <3>12. \A u \in Tasks : StageOK(u)'
      BY <3>6, <3>7, <3>8 DEF StageOK, InDoWake
    <3>13. \A u \in Tasks : SleepOK(u)'
      BY <2>0, <3>1, <3>7, <3>8 DEF SleepOK
    <3>14. TskOK'
      BY <2>0, <3>1, <3>7, <3>8 DEF TskOK
    <3> QED  BY <3>8, <3>10, <3>11, <3>12, <3>13, <3>14 DEF Structure
  <2>10. ASSUME NEW t \in Tasks, TellWaiter(t)  PROVE Structure'
    <3>1. /\ pc[t] = "tell" /\ UNCHANGED <<count, wait_list, running, holds, call>>
          /\ tsk' = Head(woken) /\ woken' = Tail(woken)
          /\ task' = [task EXCEPT ![Head(woken)] = FALSE]
      BY <2>10 DEF TellWaiter, Keep
    <3>2. woken # <<>>
      BY <2>0, <3>1 DEF StageOK
    <3>3. /\ Head(woken) \in Tasks /\ Head(woken) \in Range(woken)
          /\ woken' \in Seq(Tasks) /\ IsInjective(woken')
          /\ Range(woken') = Range(woken) \ {Head(woken)}
      BY <2>0, <3>1, <3>2, HeadTail DEF Types, ListsOK
    <3>4. UnderLock(t) /\ pc'[t] = "kick"
      BY <2>0, <2>10 DEF TellWaiter, UnderLock, Keep, InDoWake, Types
    <3>5. /\ pc' \in [Tasks -> {"out", "queue", "wake", "test", "schedule"} \cup InDoWake]
          /\ call' \in [Tasks -> {"none", "read", "write", "up", "downgrade"}]
          /\ wait_lock' \in Tasks \cup {Nobody}
          /\ \A u \in Tasks : PlaceOK(u)'
          /\ \A u \in Tasks \ {t} :
                pc'[u] = pc[u] /\ call'[u] = call[u] /\ pc[u] \notin InDoWake
      BY <3>1, <3>4, SlowPathPlace DEF InDoWake
    <3>6. Types'
      BY <2>0, <3>1, <3>3, <3>5 DEF Types
    <3>7. \A u \in Tasks \ {Head(woken)} : task'[u] = task[u]
      BY <2>0, <3>1 DEF Types
    <3>8. ListsOK'
      BY <2>0, <3>1, <3>3, <3>4, <3>5, <3>7 DEF ListsOK, InDoWake
    <3>9. \A u \in Tasks : StageOK(u)'
      BY <3>1, <3>3, <3>4, <3>5 DEF StageOK, InDoWake
    <3>10. \A u \in Tasks : SleepOK(u)'
      <4>1. \A u \in Tasks : tsk # u
        BY <2>0, <3>1, <3>5, RwsemAssumption DEF TskOK, InDoWake
      <4> QED  BY <2>0, <3>1, <3>4, <3>5, <3>7, <4>1 DEF SleepOK
    <3>11. TskOK'
      BY <3>4 DEF TskOK
    <3> QED  BY <3>5, <3>6, <3>8, <3>9, <3>10, <3>11 DEF Structure
  <2>11. ASSUME NEW t \in Tasks, WakeUp(t)  PROVE Structure'
    <3>1. /\ pc[t] = "kick" /\ UNCHANGED <<count, wait_list, task, holds, woken>>
          /\ running' = [running EXCEPT ![tsk] = TRUE] /\ tsk' = Nobody
      BY <2>11 DEF WakeUp, wake_up_process
    <3>2. UnderLock(t) /\ ((pc'[t] = "tell" /\ woken # <<>>) \/ pc'[t] \in {"out", "test"})
      BY <2>0, <2>11 DEF WakeUp, UnderLock, Unlock, Keep, InDoWake, Types
    <3>3. /\ pc' \in [Tasks -> {"out", "queue", "wake", "test", "schedule"} \cup InDoWake]
          /\ call' \in [Tasks -> {"none", "read", "write", "up", "downgrade"}]
          /\ wait_lock' \in Tasks \cup {Nobody}
          /\ \A u \in Tasks : PlaceOK(u)'
          /\ \A u \in Tasks \ {t} :
                pc'[u] = pc[u] /\ call'[u] = call[u] /\ pc[u] \notin InDoWake
          /\ call[t] \in {"read", "write"} =>
                call'[t] = call[t] /\ pc'[t] \in {"test"} \cup InDoWake
      BY <3>1, <3>2, SlowPathPlace DEF InDoWake
    <3>4. Types'
      BY <2>0, <3>1, <3>3 DEF Types
    <3>5. ListsOK'
      BY <2>0, <3>1, <3>3 DEF ListsOK
    <3>6. \A u \in Tasks : StageOK(u)'
      BY <3>1, <3>2, <3>3 DEF StageOK, InDoWake
    <3>7. \A u \in Tasks : SleepOK(u)'
      BY <2>0, <3>1, <3>2, <3>3 DEF SleepOK, Types
    <3> QED  BY <3>1, <3>3, <3>4, <3>5, <3>6, <3>7 DEF Structure, TskOK
  <2>12. ASSUME NEW t \in Tasks, TestWaiter(t)  PROVE Structure'
    <3>1. pc[t] = "test" /\ UNCHANGED <<count, wait_list, task, wait_lock, woken, tsk>>
      BY <2>12 DEF TestWaiter, local
    <3>2. CASE task[t]
      <4>1. UNCHANGED <<call, running, holds>> /\ pc' = [pc EXCEPT ![t] = "schedule"]
        BY <2>12, <3>2 DEF TestWaiter
      <4>2. Types' /\ ListsOK'
        BY <2>0, <3>1, <4>1 DEF Types, ListsOK, InDoWake
      <4>3. \A u \in Tasks : PlaceOK(u)' /\ StageOK(u)' /\ SleepOK(u)'
        BY <2>0, <3>1, <3>2, <4>1 DEF Types, PlaceOK, StageOK, SleepOK, InDoWake
      <4>4. TskOK'
        BY <2>0, <3>1, <4>1 DEF TskOK, Types
      <4> QED  BY <4>2, <4>3, <4>4 DEF Structure
    <3>3. CASE ~task[t]
      <4>1. /\ pc' = [pc EXCEPT ![t] = "out"]
            /\ running' = [running EXCEPT ![t] = TRUE]
            /\ holds' = [holds EXCEPT ![t] = call[t]]
            /\ call' = [call EXCEPT ![t] = "none"]
        BY <2>12, <3>3 DEF TestWaiter
      <4>2. t \notin Range(wait_list) \cup Range(woken) /\ call[t] \in {"read", "write"}
        BY <2>0, <3>1, <3>3 DEF ListsOK, PlaceOK
      <4>3. Types'
        BY <2>0, <3>1, <4>1, <4>2 DEF Types
      <4>4. ListsOK'
        BY <2>0, <3>1, <4>1, <4>2 DEF Types, ListsOK
      <4>5. \A u \in Tasks : PlaceOK(u)' /\ SleepOK(u)'
        BY <2>0, <3>1, <4>1 DEF Types, PlaceOK, SleepOK, InDoWake
      <4>6. \A u \in Tasks : StageOK(u)'
        <5>1. wait_list # <<>> => Head(wait_list) \in Range(wait_list)
          BY <2>0, HeadTail DEF Types, ListsOK
        <5>2. wait_list # <<>> => call'[Head(wait_list)] = call[Head(wait_list)]
          BY <2>0, <4>1, <4>2, <5>1 DEF Types
        <5>3. \A u \in Tasks : pc'[u] = pc[u] \/ pc'[u] = "out"
          BY <2>0, <4>1 DEF Types
        <5> QED  BY <2>0, <3>1, <5>2, <5>3 DEF StageOK
      <4>7. TskOK'
        BY <2>0, <3>1, <4>1 DEF TskOK, Types
      <4> QED  BY <4>3, <4>4, <4>5, <4>6, <4>7 DEF Structure
    <3> QED  BY <3>2, <3>3
  <2>13. ASSUME NEW t \in Tasks, Schedule(t) \/ spurious_wake_up(t)  PROVE Structure'
    <3>1. UNCHANGED <<count, wait_list, task, call, holds, wait_lock, woken, tsk>>
      BY <2>13 DEF Schedule, spurious_wake_up, local
    <3>2. /\ pc[t] = "schedule"
          /\ \/ running' = [running EXCEPT ![t] = FALSE] /\ pc' = [pc EXCEPT ![t] = "test"]
             \/ running' = [running EXCEPT ![t] = TRUE] /\ pc' = pc
      BY <2>13 DEF Schedule, spurious_wake_up
    <3>3. Types'
      BY <2>0, <3>1, <3>2 DEF Types
    <3>5. ListsOK' /\ TskOK'
      <4>1. /\ pc'[t] \in {"test", "schedule"}
            /\ \A u \in Tasks \ {t} : pc'[u] = pc[u]
        BY <2>0, <3>2 DEF Types
      <4> QED  BY <2>0, <3>1, <3>2, <4>1 DEF ListsOK, TskOK
    <3>4. \A u \in Tasks : PlaceOK(u)' /\ StageOK(u)' /\ SleepOK(u)'
      BY <2>0, <3>1, <3>2 DEF Types, PlaceOK, StageOK, SleepOK, InDoWake
    <3> QED  BY <3>3, <3>4, <3>5 DEF Structure
  <2>14. CASE UNCHANGED vars
    BY <2>14 DEF vars, local, Structure, Types, ListsOK, TskOK, PlaceOK, StageOK, SleepOK
  <2> QED
    BY <2>1, <2>2, <2>3, <2>4, <2>5, <2>6, <2>7, <2>8, <2>9, <2>10, <2>11, <2>12,
       <2>13, <2>14 DEF Next, do_wake_step
<1> QED  BY <1>1, <1>2, PTL DEF Spec

(* The waiter structures that are still read exist, and no sleeper that was *)
(* told is forgotten.                                                       *)
THEOREM WaitersLive == Spec => []WaitersAreLive
<1>1. Structure => WaitersAreLive
  BY DEF Structure, ListsOK, SleepOK, WaitersAreLive
<1> QED  BY <1>1, StructureCorrect, PTL

-----------------------------------------------------------------------------
(* What the count says. *)

(* What a task contributes to the count: a locker that is about to queue    *)
(* itself counts like an owner.                                             *)
cls == [t \in Tasks |-> IF pc[t] = "queue" THEN call[t] ELSE own[t]]

Readers == With("read") \cup Queueing("read")
Writers == With("write") \cup Queueing("write")
Modes == {"none", "read", "write"}
M == RWSEM_ACTIVE_MASK + 1

ClassFacts ==
    /\ own \in [Tasks -> Modes] /\ cls \in [Tasks -> Modes]
    /\ \A t \in Tasks : pc[t] = "queue" => own[t] = "none"
    /\ \A t \in Tasks : pc[t] # "queue" => cls[t] = own[t]
    /\ Readers = {t \in Tasks : cls[t] = "read"}
    /\ Writers = {t \in Tasks : cls[t] = "write"}

(* The contributors to the count are the tasks of the two classes. *)
LEMMA Classes == Structure => ClassFacts
<1> SUFFICES ASSUME Structure  PROVE ClassFacts
  OBVIOUS
<1>1. Types /\ \A t \in Tasks : PlaceOK(t)
  BY DEF Structure
<1>2. \A t \in Tasks : own[t] = IF /\ call[t] \in {"read", "write"}
                                   /\ pc[t] # "queue"
                                   /\ t \notin Range(wait_list)
                                THEN call[t] ELSE holds[t]
  BY DEF own
<1>3. own \in [Tasks -> Modes]
  BY <1>1 DEF own, Types, Modes
<1>4. \A t \in Tasks : pc[t] = "queue" =>
         own[t] = "none" /\ call[t] \in {"read", "write"}
  BY <1>1, <1>2 DEF PlaceOK
<1>5. \A t \in Tasks : cls[t] = IF pc[t] = "queue" THEN call[t] ELSE own[t]
  BY DEF cls
<1>6. cls \in [Tasks -> Modes]
  BY <1>3, <1>4 DEF cls, Modes
<1>7. Readers = {t \in Tasks : cls[t] = "read"}
  BY <1>4, <1>5 DEF Readers, With, Queueing
<1>8. Writers = {t \in Tasks : cls[t] = "write"}
  BY <1>4, <1>5 DEF Writers, With, Queueing
<1> QED  BY <1>3, <1>4, <1>5, <1>6, <1>7, <1>8 DEF ClassFacts

(* There are no more contributors than tasks. *)
NumberFacts ==
    /\ IsFiniteSet(Readers) /\ IsFiniteSet(Writers)
    /\ Cardinality(Readers) \in Nat /\ Cardinality(Writers) \in Nat
    /\ Cardinality(Readers) + Cardinality(Writers) <= Cardinality(Tasks)
    /\ Cardinality(Readers) = 0 <=> \A t \in Tasks : cls[t] # "read"
    /\ Cardinality(Writers) = 0 <=> \A t \in Tasks : cls[t] # "write"

(* Follows from the cardinality of disjoint finite sets. *)
LEMMA Numbers == Structure => NumberFacts
<1> SUFFICES ASSUME Structure  PROVE NumberFacts
  OBVIOUS
<1>1. /\ Readers = {t \in Tasks : cls[t] = "read"}
      /\ Writers = {t \in Tasks : cls[t] = "write"}
  BY Classes DEF ClassFacts
<1>2. /\ IsFiniteSet(Readers) /\ IsFiniteSet(Writers)
  BY <1>1, FS_Subset, RwsemAssumption
<1>3. /\ Cardinality(Readers) \in Nat /\ Cardinality(Writers) \in Nat
      /\ Cardinality(Readers \cup Writers) = Cardinality(Readers) + Cardinality(Writers)
  <2>1. Readers \cap Writers = {}
    BY <1>1
  <2>2. Cardinality(Readers) \in Nat /\ Cardinality(Writers) \in Nat
    BY <1>2, FS_CardinalityType
  <2>3. Cardinality(Readers \cup Writers) =
           Cardinality(Readers) + Cardinality(Writers) - Cardinality(Readers \cap Writers)
    BY <1>2, FS_Union
  <2>4. Cardinality(Readers \cap Writers) = 0
    BY <2>1, FS_EmptySet
  <2> QED  BY <2>2, <2>3, <2>4
<1>4. Cardinality(Readers \cup Writers) <= Cardinality(Tasks)
  BY <1>1, FS_Subset, RwsemAssumption
<1>5. /\ Cardinality(Readers) = 0 <=> Readers = {}
      /\ Cardinality(Writers) = 0 <=> Writers = {}
  BY <1>2, FS_EmptySet
<1> QED  BY <1>1, <1>2, <1>3, <1>4, <1>5 DEF NumberFacts

(* When one task changes its contribution, the numbers change by one. *)
One(b) == IF b THEN 1 ELSE 0

(* One task enters or leaves the readers or the writers. *)
LEMMA OneMove ==
    ASSUME Structure, Structure', NEW t \in Tasks,
           \A u \in Tasks \ {t} : cls'[u] = cls[u]
    PROVE  /\ Cardinality(Readers') =
                 Cardinality(Readers) + One(cls'[t] = "read") - One(cls[t] = "read")
           /\ Cardinality(Writers') =
                 Cardinality(Writers) + One(cls'[t] = "write") - One(cls[t] = "write")
<1>1. /\ Readers = {u \in Tasks : cls[u] = "read"}
      /\ Writers = {u \in Tasks : cls[u] = "write"}
      /\ IsFiniteSet(Readers) /\ IsFiniteSet(Writers)
      /\ Cardinality(Readers) \in Nat /\ Cardinality(Writers) \in Nat
  BY Classes, Numbers DEF ClassFacts, NumberFacts
<1>2. /\ Readers' = {u \in Tasks : cls'[u] = "read"}
      /\ Writers' = {u \in Tasks : cls'[u] = "write"}
      /\ IsFiniteSet(Readers') /\ IsFiniteSet(Writers')
      /\ Cardinality(Readers') \in Nat /\ Cardinality(Writers') \in Nat
  <2>1. ClassFacts' /\ NumberFacts'
    BY Classes, Numbers, PTL
  <2> QED  BY <2>1 DEF ClassFacts, NumberFacts
<1>3. Readers \ {t} = Readers' \ {t} /\ Writers \ {t} = Writers' \ {t}
  BY <1>1, <1>2
<1>4. /\ Cardinality(Readers \ {t}) = Cardinality(Readers) - One(cls[t] = "read")
      /\ Cardinality(Writers \ {t}) = Cardinality(Writers) - One(cls[t] = "write")
  <2>1. t \in Readers <=> cls[t] = "read"
    BY <1>1
  <2>2. t \in Writers <=> cls[t] = "write"
    BY <1>1
  <2>3. Cardinality(Readers \ {t}) =
           IF t \in Readers THEN Cardinality(Readers) - 1 ELSE Cardinality(Readers)
    BY <1>1, FS_RemoveElement
  <2>4. Cardinality(Writers \ {t}) =
           IF t \in Writers THEN Cardinality(Writers) - 1 ELSE Cardinality(Writers)
    BY <1>1, FS_RemoveElement
  <2> QED  BY <1>1, <2>1, <2>2, <2>3, <2>4 DEF One
<1>5. /\ Cardinality(Readers' \ {t}) = Cardinality(Readers') - One(cls'[t] = "read")
      /\ Cardinality(Writers' \ {t}) = Cardinality(Writers') - One(cls'[t] = "write")
  <2>1. t \in Readers' <=> cls'[t] = "read"
    BY <1>2
  <2>2. t \in Writers' <=> cls'[t] = "write"
    BY <1>2
  <2>3. Cardinality(Readers' \ {t}) =
           IF t \in Readers' THEN Cardinality(Readers') - 1 ELSE Cardinality(Readers')
    BY <1>2, FS_RemoveElement
  <2>4. Cardinality(Writers' \ {t}) =
           IF t \in Writers' THEN Cardinality(Writers') - 1 ELSE Cardinality(Writers')
    BY <1>2, FS_RemoveElement
  <2> QED  BY <1>2, <2>1, <2>2, <2>3, <2>4 DEF One
<1>6. \A b : One(b) \in Int
  BY DEF One
<1>7. /\ Cardinality(Readers') - One(cls'[t] = "read") =
            Cardinality(Readers) - One(cls[t] = "read")
      /\ Cardinality(Writers') - One(cls'[t] = "write") =
            Cardinality(Writers) - One(cls[t] = "write")
  BY <1>3, <1>4, <1>5
<1>8. \A a, b \in Nat, x, y \in Int : a - x = b - y => a = b + x - y
  OBVIOUS
<1> QED  BY <1>1, <1>2, <1>6, <1>7, <1>8

(* The two fields of the count do not run into each other. *)
LEMMA Fields ==
    ASSUME NEW a \in Nat, NEW b \in Nat, a < M
    PROVE  LET c == a - M * b
           IN  /\ c \in Int
               /\ c >= 0 <=> b = 0
               /\ c = 0 <=> a = 0 /\ b = 0
               /\ c = -M <=> a = 0 /\ b = 1
               /\ c >= -M <=> b <= 1
               /\ Active(c) = a
<1>1. M \in Nat /\ M >= 2
  <2>1. Cardinality(Tasks) \in Nat
    BY RwsemAssumption, FS_CardinalityType
  <2> QED  BY <2>1, RwsemAssumption DEF M
<1> HIDE DEF M
<1> DEFINE c == a - M * b
<1>2. c \in Int /\ M * b \in Nat
  BY <1>1
<1>3. CASE b = 0
  <2>1. c = a
    BY <1>1, <1>3
  <2> QED  BY <1>1, <1>3, <2>1, RwsemAssumption DEF Active, M
<1>4. CASE b = 1
  <2>1. c = a - M
    BY <1>1, <1>4
  <2>2. c % M = a
    BY <1>1, <2>1
  <2>3. Active(c) = a
    BY <2>2 DEF Active, M
  <2> QED  BY <1>1, <1>4, <2>1, <2>3
<1>5. CASE b >= 2
  <2>1. M * b >= M * 2
    BY <1>1, <1>5
  <2>2. c < -M
    BY <1>1, <1>2, <2>1
  <2>3. c % M = a
    BY <1>1
  <2>4. Active(c) = a
    BY <2>3 DEF Active, M
  <2> QED  BY <1>1, <1>2, <1>5, <2>2, <2>4
<1> QED  BY <1>3, <1>4, <1>5

(* CountAccounts in terms of the two fields. *)
Undoing == \E t \in Tasks : pc[t] = "undo_write"

nActive == Cardinality(Readers) + Cardinality(Writers) + One(Undoing)

nBelow == Cardinality(Writers) + One(wait_list # <<>>)
             + One(Undoing /\ Len(wait_list) # 1)

(* The count is the active field minus the waiting field, and the active    *)
(* field does not overflow into the other.                                  *)
LEMMA CountForm ==
    ASSUME Structure, CountAccounts
    PROVE  /\ nActive \in Nat /\ nBelow \in Nat /\ nActive < M
           /\ count = nActive - M * nBelow
<1>1. /\ Cardinality(Readers) \in Nat /\ Cardinality(Writers) \in Nat
      /\ Cardinality(Readers) + Cardinality(Writers) <= Cardinality(Tasks)
      /\ Cardinality(Tasks) < RWSEM_ACTIVE_MASK /\ RWSEM_ACTIVE_MASK \in Nat
      /\ Cardinality(Tasks) \in Nat
  BY Numbers, RwsemAssumption, FS_CardinalityType DEF NumberFacts
<1>2. count = Cardinality(Readers) + Cardinality(Writers) * (1 - M)
              + (IF wait_list # <<>> THEN -M ELSE 0)
              + (IF Undoing THEN 1 - M - (IF Len(wait_list) = 1 THEN -M ELSE 0) ELSE 0)
  BY <1>1 DEF CountAccounts, Readers, Writers, Undoing, WriteAdjustment, M,
        RWSEM_ACTIVE_BIAS, RWSEM_WAITING_BIAS, RWSEM_ACTIVE_WRITE_BIAS
<1>3. M \in Nat /\ RWSEM_ACTIVE_MASK + 1 = M
  BY <1>1 DEF M
<1>4. nActive \in Nat /\ nBelow \in Nat /\ nActive < M
  BY <1>1, <1>3 DEF nActive, nBelow, One
<1> HIDE DEF M
<1>5. Cardinality(Writers) * (1 - M) = Cardinality(Writers) - M * Cardinality(Writers)
  BY <1>1, <1>3
<1>6. M * nBelow = M * Cardinality(Writers) + M * One(wait_list # <<>>)
                   + M * One(Undoing /\ Len(wait_list) # 1)
  BY <1>1, <1>3 DEF nBelow, One
<1>7. M * nBelow = M * Cardinality(Writers) + (IF wait_list # <<>> THEN M ELSE 0)
                   + (IF Undoing /\ Len(wait_list) # 1 THEN M ELSE 0)
  BY <1>3, <1>6 DEF One
<1>8. M * Cardinality(Writers) \in Nat
  BY <1>1, <1>3
<1>9. count = (Cardinality(Readers) + Cardinality(Writers) + One(Undoing)) - M * nBelow
  <2>1. \A r, w, m, x \in Int, p, q, q1 \in BOOLEAN :
           r + (w - x) + (IF p THEN -m ELSE 0)
             + (IF q THEN 1 - m - (IF q1 THEN -m ELSE 0) ELSE 0)
           = (r + w + (IF q THEN 1 ELSE 0))
             - (x + (IF p THEN m ELSE 0) + (IF q /\ ~q1 THEN m ELSE 0))
    OBVIOUS
  <2> DEFINE p == wait_list # <<>>
             q == Undoing
             q1 == Len(wait_list) = 1
  <2>2. /\ Cardinality(Readers) \in Int /\ Cardinality(Writers) \in Int /\ M \in Int
        /\ M * Cardinality(Writers) \in Int
        /\ p \in BOOLEAN /\ q \in BOOLEAN /\ q1 \in BOOLEAN
    BY <1>1, <1>3, <1>8 DEF Undoing
  <2>3. count = Cardinality(Readers) + (Cardinality(Writers) - M * Cardinality(Writers))
                + (IF p THEN -M ELSE 0)
                + (IF q THEN 1 - M - (IF q1 THEN -M ELSE 0) ELSE 0)
    BY <1>2, <1>5
  <2>4. M * nBelow = M * Cardinality(Writers) + (IF p THEN M ELSE 0)
                     + (IF q /\ ~q1 THEN M ELSE 0)
    BY <1>7
  <2>5. One(Undoing) = IF q THEN 1 ELSE 0
    BY DEF One
  <2> HIDE DEF p, q, q1
  <2> DEFINE r == Cardinality(Readers)
             w == Cardinality(Writers)
             x == M * Cardinality(Writers)
  <2>6. r + (w - x) + (IF p THEN -M ELSE 0)
             + (IF q THEN 1 - M - (IF q1 THEN -M ELSE 0) ELSE 0)
           = (r + w + (IF q THEN 1 ELSE 0))
             - (x + (IF p THEN M ELSE 0) + (IF q /\ ~q1 THEN M ELSE 0))
    <3> HIDE DEF r, w, x
    <3>1. r \in Int /\ w \in Int /\ x \in Int
      BY <2>2 DEF r, w, x
    <3> QED  BY <2>1, <2>2, <3>1
  <2> QED  BY <2>3, <2>4, <2>5, <2>6, Zenon
<1>10. nActive = Cardinality(Readers) + Cardinality(Writers) + One(Undoing)
  BY DEF nActive
<1>11. count = nActive - M * nBelow
  BY <1>9, <1>10
<1> QED  BY <1>4, <1>11

(* What the tests of the fast paths and of __rwsem_do_wake() reveal. *)
CountView ==
    /\ count >= 0 => wait_list = <<>> /\ \A u \in Tasks : cls[u] # "write"
    /\ count = 0 => \A u \in Tasks : cls[u] = "none"
    /\ wait_list = <<>> /\ (\A u \in Tasks : cls[u] = "none") => count = 0
    /\ ~Undoing => (Active(count) = 0 <=> \A u \in Tasks : cls[u] = "none")
    /\ ~Undoing /\ wait_list # <<>> =>
          /\ count = RWSEM_WAITING_BIAS <=> \A u \in Tasks : cls[u] = "none"
          /\ count >= RWSEM_WAITING_BIAS <=> \A u \in Tasks : cls[u] # "write"

(* The signs and fields the code tests tell who contributed. *)
LEMMA CountTells == Structure /\ CountAccounts => CountView
<1> SUFFICES ASSUME Structure, CountAccounts  PROVE CountView
  OBVIOUS
<1>1. /\ nActive \in Nat /\ nBelow \in Nat /\ nActive < M
      /\ count = nActive - M * nBelow
  BY CountForm
<1>2. /\ count \in Int
      /\ count >= 0 <=> nBelow = 0
      /\ count = 0 <=> nActive = 0 /\ nBelow = 0
      /\ count = -M <=> nActive = 0 /\ nBelow = 1
      /\ count >= -M <=> nBelow <= 1
      /\ Active(count) = nActive
  BY <1>1, Fields
<1>3. /\ Cardinality(Readers) \in Nat /\ Cardinality(Writers) \in Nat
      /\ Cardinality(Readers) = 0 <=> \A t \in Tasks : cls[t] # "read"
      /\ Cardinality(Writers) = 0 <=> \A t \in Tasks : cls[t] # "write"
  BY Numbers DEF NumberFacts
<1>4. \A t \in Tasks : cls[t] \in {"none", "read", "write"}
  BY Classes DEF ClassFacts, Modes
<1>5. Undoing => wait_list # <<>>
  BY DEF Undoing, Structure, StageOK
<1>6. -M = RWSEM_WAITING_BIAS
  BY RwsemAssumption DEF M, RWSEM_WAITING_BIAS
<1>7. /\ nBelow = 0 => wait_list = <<>> /\ Cardinality(Writers) = 0
      /\ nActive = 0 => Cardinality(Readers) = 0 /\ Cardinality(Writers) = 0
      /\ ~Undoing => (nActive = 0 <=> Cardinality(Readers) = 0 /\ Cardinality(Writers) = 0)
      /\ ~Undoing /\ wait_list # <<>> => nBelow = Cardinality(Writers) + 1
      /\ ~Undoing /\ wait_list = <<>> => nBelow = Cardinality(Writers)
  BY <1>3 DEF nActive, nBelow, One
<1>8. (\A t \in Tasks : cls[t] = "none") <=> Cardinality(Readers) = 0 /\ Cardinality(Writers) = 0
  BY <1>3, <1>4
<1>9. /\ count >= 0 => wait_list = <<>> /\ \A u \in Tasks : cls[u] # "write"
      /\ count = 0 => \A u \in Tasks : cls[u] = "none"
  BY <1>2, <1>3, <1>7, <1>8
<1>10. wait_list = <<>> /\ (\A u \in Tasks : cls[u] = "none") => count = 0
  BY <1>2, <1>5, <1>7, <1>8
<1>11. ~Undoing => (Active(count) = 0 <=> \A u \in Tasks : cls[u] = "none")
  BY <1>2, <1>7, <1>8
<1>12. ~Undoing /\ wait_list # <<>> =>
         /\ count = RWSEM_WAITING_BIAS <=> \A u \in Tasks : cls[u] = "none"
         /\ count >= RWSEM_WAITING_BIAS <=> \A u \in Tasks : cls[u] # "write"
  BY <1>2, <1>3, <1>6, <1>7, <1>8
<1> QED  BY <1>9, <1>10, <1>11, <1>12 DEF CountView

(* The count changes by what the tasks' contributions change. *)
Weight(mode) ==
    CASE mode = "read" -> RWSEM_ACTIVE_BIAS
      [] mode = "write" -> RWSEM_ACTIVE_WRITE_BIAS
      [] OTHER -> 0

Mark == IF wait_list # <<>> THEN RWSEM_WAITING_BIAS ELSE 0

Undo == IF Undoing THEN WriteAdjustment ELSE 0

(* The biases are what their names say, for any width of the active mask. *)
LEMMA Biases ==
    /\ RWSEM_ACTIVE_BIAS = 1 /\ RWSEM_ACTIVE_MASK \in Nat
    /\ RWSEM_WAITING_BIAS \in Int /\ RWSEM_WAITING_BIAS < -1
    /\ RWSEM_ACTIVE_WRITE_BIAS = RWSEM_WAITING_BIAS + 1
<1>1. Cardinality(Tasks) \in Nat
  BY RwsemAssumption, FS_CardinalityType
<1> QED  BY <1>1, RwsemAssumption
         DEF RWSEM_ACTIVE_BIAS, RWSEM_WAITING_BIAS, RWSEM_ACTIVE_WRITE_BIAS

SumFacts ==
    /\ Mark \in Int /\ Undo \in Int /\ count \in Int
    /\ CountAccounts <=>
          count = Cardinality(Readers) + Cardinality(Writers) * RWSEM_ACTIVE_WRITE_BIAS
                  + Mark + Undo

(* CountAccounts as a sum of four integers. *)
LEMMA CountSum == Structure => SumFacts
<1> SUFFICES ASSUME Structure  PROVE SumFacts
  OBVIOUS
<1>1. Cardinality(Readers) * RWSEM_ACTIVE_BIAS = Cardinality(Readers)
  BY Numbers, Biases DEF NumberFacts
<1>2. Mark \in Int /\ Undo \in Int
  BY Biases DEF Mark, Undo, WriteAdjustment
<1>3. CountAccounts <=>
          count = Cardinality(Readers) * RWSEM_ACTIVE_BIAS
                  + Cardinality(Writers) * RWSEM_ACTIVE_WRITE_BIAS + Mark + Undo
  BY Zenon DEF CountAccounts, Readers, Writers, Mark, Undo, Undoing
<1>4. count \in Int
  BY DEF Structure, Types
<1> QED  BY <1>1, <1>2, <1>3, <1>4, Zenon DEF SumFacts

(* It is preserved by adding what one task and the queue contribute anew. *)
LEMMA CountStep ==
    ASSUME Structure, Structure', CountAccounts, NEW t \in Tasks,
           \A u \in Tasks \ {t} : cls'[u] = cls[u],
           count' = count + ((Weight(cls'[t]) - Weight(cls[t]))
                             + ((Mark' - Mark) + (Undo' - Undo)))
    PROVE  CountAccounts'
<1> DEFINE B == RWSEM_ACTIVE_WRITE_BIAS
           R == Cardinality(Readers)
           W == Cardinality(Writers)
           r0 == One(cls[t] = "read")
           r1 == One(cls'[t] = "read")
           w0 == One(cls[t] = "write")
           w1 == One(cls'[t] = "write")
<1>1. R' = R + r1 - r0 /\ W' = W + w1 - w0
  BY OneMove
<1>2. R \in Int /\ W \in Int /\ B \in Int
  BY Numbers, Biases DEF NumberFacts
<1>3. r0 \in Int /\ r1 \in Int /\ w0 \in Int /\ w1 \in Int
  BY DEF One
<1>4. Weight(cls[t]) = r0 + w0 * B /\ Weight(cls'[t]) = r1 + w1 * B
  BY <1>2, Biases DEF Weight, One
<1>5. /\ Mark \in Int /\ Undo \in Int /\ count \in Int
      /\ count = R + W * B + Mark + Undo
  BY CountSum DEF SumFacts
<1>6. SumFacts'
  BY CountSum, PTL
<1>7. /\ Mark' \in Int /\ Undo' \in Int
      /\ CountAccounts' <=> count' = R' + W' * B + Mark' + Undo'
  BY <1>6 DEF SumFacts
<1>8. count' = count + (((r1 + w1 * B) - (r0 + w0 * B)) + ((Mark' - Mark) + (Undo' - Undo)))
  BY <1>4
<1>9. \A b, r, w, a0, a1, b0, b1, m0, m1, u0, u1 \in Int :
         (r + w * b + m0 + u0) + (((a1 + b1 * b) - (a0 + b0 * b)) + ((m1 - m0) + (u1 - u0)))
           = (r + a1 - a0) + (w + b1 - b0) * b + m1 + u1
  OBVIOUS
<1> HIDE DEF B, R, W, r0, r1, w0, w1
<1>10. (R + W * B + Mark + Undo)
          + (((r1 + w1 * B) - (r0 + w0 * B)) + ((Mark' - Mark) + (Undo' - Undo)))
       = (R + r1 - r0) + (W + w1 - w0) * B + Mark' + Undo'
  BY <1>2, <1>3, <1>5, <1>7, <1>9
<1>11. count' = (R + r1 - r0) + (W + w1 - w0) * B + Mark' + Undo'
  BY <1>5, <1>8, <1>10, Zenon
<1>12. count' = R' + W' * B + Mark' + Undo'
  BY <1>1, <1>11, Zenon
<1> QED  BY <1>7, <1>12, Zenon

-----------------------------------------------------------------------------
(* The invariant that ties the count, the owners and the queue together,    *)
(* and what every step does to the owners.                                  *)

(* A writer is alone. *)
Exclusion == \A t, u \in Tasks : own[t] = "write" /\ t # u => own[u] = "none"

(* Readers are only granted the lock when nobody writes. *)
GrantOK == \A t, u \in Tasks : pc[t] = "grant_readers" => own[u] # "write"

(* A queue that is not being worked on has somebody who will look at it. *)
Searching == {"try_write", "undo_write", "check_readers", "grant_readers"}

NotStranded ==
    wait_list # <<>> /\ (\A t \in Tasks : pc[t] \notin Searching) =>
       \E u \in Tasks : own[u] # "none" \/ pc[u] \in {"queue", "wake"}

RwsemInv == CountAccounts /\ Exclusion /\ GrantOK /\ NotStranded

LockStep == Lock!LockNext \/ own' = own

OvertakeStep ==
    /\ \A t \in Tasks :
          own[t] = "none" /\ own'[t] # "none" /\ wait_list # <<>> =>
             \E n \in DOMAIN wait_list :
                /\ wait_list[n] = t
                /\ n = 1 \/ \A i \in 1 .. n : call[wait_list[i]] = "read"
    /\ \E n \in 0 .. Len(wait_list) :
          /\ \A i \in 1 .. n : own'[wait_list[i]] # "none"
          /\ \A i \in n + 1 .. Len(wait_list) :
                i - n \in DOMAIN wait_list' /\ wait_list'[i - n] = wait_list[i]

StepOK == CountAccounts' /\ GrantOK' /\ NotStranded' /\ LockStep /\ OvertakeStep

(* Steps of the abstract lock keep writers alone. *)
LEMMA LockExclusion ==
    ASSUME Structure, Structure', Exclusion, LockStep
    PROVE  Exclusion'
<1>1. own \in [Tasks -> Modes]
  BY Classes DEF ClassFacts
<1>2. CASE own' = own
  BY <1>2 DEF Exclusion
<1>3. ASSUME NEW S \in SUBSET Tasks, Lock!AcquireRead(S)  PROVE Exclusion'
  BY <1>1, <1>3 DEF Lock!AcquireRead, Exclusion
<1>4. ASSUME NEW t \in Tasks, Lock!AcquireWrite(t)  PROVE Exclusion'
  BY <1>1, <1>4 DEF Lock!AcquireWrite, Exclusion
<1>5. ASSUME NEW t \in Tasks, Lock!Release(t)  PROVE Exclusion'
  BY <1>1, <1>5 DEF Lock!Release, Exclusion
<1>6. ASSUME NEW t \in Tasks, Lock!Downgrade(t)  PROVE Exclusion'
  BY <1>1, <1>6 DEF Lock!Downgrade, Exclusion
<1> QED  BY <1>2, <1>3, <1>4, <1>5, <1>6 DEF LockStep, Lock!LockNext

(* Nobody is overtaken when the queue only grows at its end and no queued   *)
(* lock is passed by.                                                       *)
LEMMA NoneOvertaken ==
    ASSUME wait_list \in Seq(Tasks), NEW x \in Tasks,
           wait_list' = wait_list \/ wait_list' = list_add_tail(wait_list, x),
           wait_list = <<>> \/ \A t \in Tasks : own'[t] # "none" => own[t] # "none"
    PROVE  OvertakeStep
<1>1. Len(wait_list) \in Nat /\ DOMAIN wait_list = 1 .. Len(wait_list)
  OBVIOUS
<1>2. \A i \in 1 .. Len(wait_list) : i \in DOMAIN wait_list' /\ wait_list'[i] = wait_list[i]
  BY <1>1 DEF list_add_tail
<1>3. \A i \in 0 + 1 .. Len(wait_list) : i \in 1 .. Len(wait_list) /\ i - 0 = i
  BY <1>1
<1>4. \E n \in 0 .. Len(wait_list) :
          /\ \A i \in 1 .. n : own'[wait_list[i]] # "none"
          /\ \A i \in n + 1 .. Len(wait_list) :
                i - n \in DOMAIN wait_list' /\ wait_list'[i - n] = wait_list[i]
  <2>1. 0 \in 0 .. Len(wait_list) /\ \A i \in 1 .. 0 : own'[wait_list[i]] # "none"
    BY <1>1
  <2>2. \A i \in 0 + 1 .. Len(wait_list) :
           i - 0 \in DOMAIN wait_list' /\ wait_list'[i - 0] = wait_list[i]
    BY <1>2, <1>3
  <2> QED  BY <2>1, <2>2
<1> QED  BY <1>4 DEF OvertakeStep

(* The owners are determined task by task. *)
LEMMA SameOwners ==
    ASSUME \A t \in Tasks : own'[t] = own[t]
    PROVE  own' = own
BY DEF own

(* A step that neither touches the queue's mark nor undoes anything. *)
LEMMA PlainCount ==
    ASSUME Structure, Structure', CountAccounts, NEW t \in Tasks,
           \A u \in Tasks \ {t} : cls'[u] = cls[u],
           Mark' = Mark, Undo' = Undo,
           count' = count + (Weight(cls'[t]) - Weight(cls[t]))
    PROVE  CountAccounts'
<1>1. Mark \in Int /\ Undo \in Int /\ count \in Int
  BY CountSum DEF SumFacts
<1>2. Weight(cls[t]) \in Int /\ Weight(cls'[t]) \in Int
  BY Biases DEF Weight
<1>3. count' = count + ((Weight(cls'[t]) - Weight(cls[t]))
                        + ((Mark' - Mark) + (Undo' - Undo)))
  BY <1>1, <1>2
<1> QED  BY <1>3, CountStep

-----------------------------------------------------------------------------
(* The fast paths. *)

(* A fast path only changes the contribution of its own task. *)
LEMMA FastPathOthers ==
    ASSUME Structure, Structure', NEW t \in Tasks, pc[t] = "out", FastPath,
           \/ \E h \in Modes : Finish(t, h)
           \/ \E op \in {"read", "write"} : DownFailed(t, op)
           \/ \E op \in {"up", "downgrade"}, h \in Modes : CallWake(t, op, h)
    PROVE  /\ \A u \in Tasks \ {t} : cls'[u] = cls[u] /\ own'[u] = own[u] /\ pc'[u] = pc[u]
           /\ own[t] = holds[t] /\ cls[t] = holds[t]
           /\ wait_list' = wait_list /\ Mark' = Mark /\ Undo' = Undo
           /\ pc'[t] \in {"out", "queue", "wake"}
           /\ \A h \in Modes : Finish(t, h) => own'[t] = h /\ cls'[t] = h
           /\ \A op \in {"read", "write"} :
                 DownFailed(t, op) => own'[t] = holds[t] /\ cls'[t] = op /\ pc'[t] = "queue"
           /\ \A op \in {"up", "downgrade"}, h \in Modes :
                 CallWake(t, op, h) => own'[t] = h /\ cls'[t] = h /\ pc'[t] = "wake"
<1>1. Types /\ PlaceOK(t)
  BY DEF Structure
<1>2. wait_list' = wait_list
  BY DEF FastPath
<1>3. \A u \in Tasks \ {t} : pc'[u] = pc[u] /\ call'[u] = call[u] /\ holds'[u] = holds[u]
  BY <1>1 DEF Finish, DownFailed, CallWake, Types
<1>4. \A u \in Tasks \ {t} : cls'[u] = cls[u] /\ own'[u] = own[u] /\ pc'[u] = pc[u]
  BY <1>2, <1>3 DEF cls, own
<1>5. call[t] = "none"
  BY <1>1 DEF PlaceOK
<1>6. own[t] = holds[t] /\ cls[t] = holds[t]
  BY <1>5 DEF own, cls
<1>7. pc'[t] \in {"out", "queue", "wake"}
  BY <1>1 DEF Finish, DownFailed, CallWake, Types
<1>8. (Undoing' <=> Undoing) /\ WriteAdjustment' = WriteAdjustment
  BY <1>2, <1>4, <1>7 DEF Undoing, WriteAdjustment
<1>9. Mark' = Mark /\ Undo' = Undo
  BY <1>2, <1>8 DEF Mark, Undo
<1>10. ASSUME NEW h \in Modes, Finish(t, h)  PROVE own'[t] = h /\ cls'[t] = h
  <2>1. pc'[t] = "out" /\ call'[t] = "none" /\ holds'[t] = h
    BY <1>1, <1>5, <1>10 DEF Finish, Types
  <2> QED  BY <2>1 DEF own, cls
<1>11. ASSUME NEW op \in {"read", "write"}, DownFailed(t, op)
       PROVE  own'[t] = holds[t] /\ cls'[t] = op /\ pc'[t] = "queue"
  <2>1. pc'[t] = "queue" /\ call'[t] = op /\ holds'[t] = holds[t]
    BY <1>1, <1>11 DEF DownFailed, Types
  <2> QED  BY <2>1 DEF own, cls
<1>12. ASSUME NEW op \in {"up", "downgrade"}, NEW h \in Modes, CallWake(t, op, h)
       PROVE  own'[t] = h /\ cls'[t] = h /\ pc'[t] = "wake"
  <2>1. pc'[t] = "wake" /\ call'[t] = op /\ holds'[t] = h
    BY <1>1, <1>12 DEF CallWake, Types
  <2> QED  BY <2>1 DEF own, cls
<1> QED  BY <1>2, <1>4, <1>6, <1>7, <1>9, <1>10, <1>11, <1>12

(* A failed fast path: the task will queue itself. *)
LEMMA FailedStep ==
    ASSUME Structure, Structure', RwsemInv, NEW t \in Tasks, Idle(t), FastPath,
           NEW op \in {"read", "write"}, DownFailed(t, op), count' = count + Weight(op)
    PROVE  StepOK
<1>1. pc[t] = "out" /\ holds[t] = "none"
  BY DEF Idle
<1>2. /\ \A u \in Tasks \ {t} : cls'[u] = cls[u] /\ own'[u] = own[u] /\ pc'[u] = pc[u]
      /\ own[t] = "none" /\ cls[t] = "none"
      /\ wait_list' = wait_list /\ Mark' = Mark /\ Undo' = Undo
      /\ own'[t] = "none" /\ cls'[t] = op /\ pc'[t] = "queue"
  BY <1>1, FastPathOthers
<1>3. own' = own
  BY <1>2, SameOwners
<1>4. CountAccounts'
  <2>1. count' = count + (Weight(cls'[t]) - Weight(cls[t]))
    BY <1>2, Biases DEF Weight
  <2> QED  BY <1>2, <2>1, PlainCount DEF RwsemInv
<1>5. GrantOK'
  BY <1>2 DEF GrantOK, RwsemInv
<1>6. NotStranded'
  BY <1>2 DEF NotStranded
<1>7. LockStep /\ OvertakeStep
  BY <1>2, <1>3, NoneOvertaken DEF LockStep, Structure, Types
<1> QED  BY <1>4, <1>5, <1>6, <1>7 DEF StepOK

(* A successful fast path: the queue is empty, and the abstract lock grants *)
(* what is asked for.                                                       *)
LEMMA FastAcquireStep ==
    ASSUME Structure, Structure', RwsemInv, NEW t \in Tasks, Idle(t), FastPath,
           NEW op \in {"read", "write"}, Finish(t, op), count' = count + Weight(op),
           count >= 0, op = "write" => count = 0
    PROVE  StepOK
<1>1. pc[t] = "out" /\ holds[t] = "none"
  BY DEF Idle
<1>2. /\ \A u \in Tasks \ {t} : cls'[u] = cls[u] /\ own'[u] = own[u] /\ pc'[u] = pc[u]
      /\ own[t] = "none" /\ cls[t] = "none"
      /\ wait_list' = wait_list /\ Mark' = Mark /\ Undo' = Undo
      /\ own'[t] = op /\ cls'[t] = op
  BY <1>1, FastPathOthers DEF Modes
<1>3. /\ wait_list = <<>>
      /\ \A u \in Tasks : cls[u] # "write"
      /\ op = "write" => \A u \in Tasks : cls[u] = "none"
  BY CountTells DEF CountView, RwsemInv
<1>4. /\ \A u \in Tasks : own[u] # "write"
      /\ op = "write" => \A u \in Tasks : own[u] = "none"
  BY <1>3, Classes DEF ClassFacts
<1>5. CountAccounts'
  <2>1. count' = count + (Weight(cls'[t]) - Weight(cls[t]))
    BY <1>2, Biases DEF Weight
  <2> QED  BY <1>2, <2>1, PlainCount DEF RwsemInv
<1>6. GrantOK'
  BY <1>2, <1>3 DEF GrantOK, Structure, StageOK
<1>7. NotStranded'
  BY <1>2, <1>3 DEF NotStranded
<1>8. LockStep
  <2>1. own \in [Tasks -> Modes] /\ own' = [u \in Tasks |-> own'[u]]
    BY Classes DEF ClassFacts, own
  <2>2. CASE op = "read"
    <3>1. Lock!AcquireRead({t})
      BY <1>2, <1>4, <2>1, <2>2 DEF Lock!AcquireRead
    <3> QED  BY <3>1 DEF LockStep, Lock!LockNext
  <2>3. CASE op = "write"
    <3>1. Lock!AcquireWrite(t)
      BY <1>2, <1>4, <2>1, <2>3 DEF Lock!AcquireWrite
    <3> QED  BY <3>1 DEF LockStep, Lock!LockNext
  <2> QED  BY <2>2, <2>3
<1>9. OvertakeStep
  BY <1>2, <1>3, NoneOvertaken DEF Structure, Types
<1> QED  BY <1>5, <1>6, <1>7, <1>8, <1>9 DEF StepOK

(* A release or a downgrade: whoever leaves a queue behind without an owner *)
(* goes to look at it.                                                      *)
LEMMA FastReleaseStep ==
    ASSUME Structure, Structure', RwsemInv, NEW t \in Tasks, pc[t] = "out", FastPath,
           NEW h \in {"none", "read"}, NEW op \in {"up", "downgrade"},
           holds[t] # "none", h = "read" => holds[t] = "write",
           Finish(t, h) \/ CallWake(t, op, h),
           count' = count + (Weight(h) - Weight(holds[t])),
           h = "none" /\ count' = RWSEM_WAITING_BIAS => CallWake(t, op, h)
    PROVE  StepOK
<1>1. /\ \A u \in Tasks \ {t} : cls'[u] = cls[u] /\ own'[u] = own[u] /\ pc'[u] = pc[u]
      /\ own[t] = holds[t] /\ cls[t] = holds[t]
      /\ wait_list' = wait_list /\ Mark' = Mark /\ Undo' = Undo
      /\ own'[t] = h /\ cls'[t] = h
      /\ pc'[t] \in {"out", "queue", "wake"}
      /\ CallWake(t, op, h) => pc'[t] = "wake"
  BY FastPathOthers DEF Modes
<1>2. CountAccounts'
  <2>1. count' = count + (Weight(cls'[t]) - Weight(cls[t]))
    BY <1>1
  <2> QED  BY <1>1, <2>1, PlainCount DEF RwsemInv
<1>3. GrantOK'
  <2>1. \A u \in Tasks : own'[u] = "write" => own[u] = "write"
    BY <1>1
  <2> QED  BY <1>1, <2>1 DEF GrantOK, RwsemInv
<1>4. LockStep
  <2>1. own \in [Tasks -> Modes] /\ own' = [u \in Tasks |-> own'[u]]
    BY Classes DEF ClassFacts, own
  <2>2. CASE h = "none"
    <3>1. Lock!Release(t)
      BY <1>1, <2>1, <2>2 DEF Lock!Release
    <3> QED  BY <3>1 DEF LockStep, Lock!LockNext
  <2>3. CASE h = "read"
    <3>1. Lock!Downgrade(t)
      BY <1>1, <2>1, <2>3 DEF Lock!Downgrade
    <3> QED  BY <3>1 DEF LockStep, Lock!LockNext
  <2> QED  BY <2>2, <2>3
<1>5. OvertakeStep
  <2>1. \A u \in Tasks : own'[u] # "none" => own[u] # "none"
    BY <1>1
  <2> QED  BY <1>1, <2>1, NoneOvertaken DEF Structure, Types
<1>6. NotStranded'
  <2> SUFFICES ASSUME wait_list' # <<>>, \A u \in Tasks : pc'[u] \notin Searching,
                      \A u \in Tasks : own'[u] = "none" /\ pc'[u] \notin {"queue", "wake"}
               PROVE  FALSE
    BY DEF NotStranded
  <2>1. ~Undoing'
    BY DEF Undoing, Searching
  <2>2. CountView' /\ ClassFacts'
    BY <1>2, CountTells, Classes, PTL
  <2>3. \A u \in Tasks : cls'[u] = "none"
    BY <2>2 DEF ClassFacts
  <2>4. count' = RWSEM_WAITING_BIAS
    BY <2>1, <2>2, <2>3 DEF CountView
  <2> QED  BY <1>1, <2>4
<1> QED  BY <1>2, <1>3, <1>4, <1>5, <1>6 DEF StepOK

-----------------------------------------------------------------------------
(* The slow path. *)

(* A step that changes no owner and only undoes or prepares an undo. *)
LEMMA QuietStep ==
    ASSUME Structure, Structure', RwsemInv,
           \A u \in Tasks : own'[u] = own[u] /\ cls'[u] = cls[u],
           wait_list' = wait_list, count' = count + (Undo' - Undo),
           GrantOK', NotStranded'
    PROVE  StepOK
<1>1. CASE Tasks = {}
  <2>1. CountAccounts'
    <3>1. ~Undoing /\ ~Undoing'
      BY <1>1 DEF Undoing
    <3>2. Undo' = 0 /\ Undo = 0 /\ count \in Int
      BY <3>1 DEF Undo, Structure, Types
    <3>3. count' = count /\ Mark' = Mark
      BY <3>2 DEF Mark
    <3>4. Readers' = Readers /\ Writers' = Writers
      BY <1>1 DEF Readers, Writers, With, Queueing
    <3>5. SumFacts /\ SumFacts'
      BY CountSum, PTL
    <3> QED  BY <3>2, <3>3, <3>4, <3>5 DEF SumFacts, RwsemInv
  <2>2. own' = own
    BY SameOwners
  <2>3. wait_list = <<>>
    BY <1>1 DEF Structure, Types
  <2> QED  BY <1>1, <2>1, <2>2, <2>3 DEF StepOK, LockStep, OvertakeStep
<1>2. ASSUME NEW t \in Tasks  PROVE StepOK
  <2>1. Mark' = Mark /\ Mark \in Int /\ Undo \in Int /\ Undo' \in Int /\ count \in Int
    <3>1. SumFacts /\ SumFacts'
      BY CountSum, PTL
    <3> QED  BY <3>1 DEF Mark, SumFacts
  <2>2. Weight(cls[t]) \in Int /\ cls'[t] = cls[t]
    BY Biases DEF Weight
  <2>3. count' = count + ((Weight(cls'[t]) - Weight(cls[t]))
                          + ((Mark' - Mark) + (Undo' - Undo)))
    BY <2>1, <2>2
  <2>4. CountAccounts'
    BY <2>3, CountStep DEF RwsemInv
  <2>5. own' = own
    BY SameOwners
  <2>6. OvertakeStep
    BY <2>5, NoneOvertaken DEF Structure, Types
  <2> QED  BY <2>4, <2>5, <2>6 DEF StepOK, LockStep
<1> QED  BY <1>1, <1>2

(* Steps under the lock that leave the list alone change no owner. *)
LEMMA UnderLockOwners ==
    ASSUME Structure, NEW t \in Tasks, UnderLock(t), UNCHANGED <<holds, wait_list>>,
           pc[t] \in InDoWake \/ (pc[t] = "wake" /\ wait_lock = Nobody)
    PROVE  /\ \A u \in Tasks : own'[u] = own[u] /\ cls'[u] = cls[u]
           /\ \A u \in Tasks \ {t} : pc'[u] = pc[u] /\ pc[u] \notin InDoWake
<1>1. /\ \A u \in Tasks \ {t} :
                 pc'[u] = pc[u] /\ call'[u] = call[u] /\ pc[u] \notin InDoWake
      /\ pc'[t] \in {"out", "test"} \cup InDoWake
      /\ call[t] \in {"read", "write"} => call'[t] = call[t]
      /\ call[t] \notin {"read", "write"} => call'[t] \notin {"read", "write"}
  BY SlowPathPlace
<1>2. pc[t] # "queue" /\ pc'[t] # "queue"
  BY <1>1 DEF InDoWake
<1>3. own'[t] = own[t] /\ cls'[t] = cls[t]
  BY <1>1, <1>2 DEF own, cls
<1>4. \A u \in Tasks \ {t} : own'[u] = own[u] /\ cls'[u] = cls[u]
  BY <1>1 DEF own, cls
<1> QED  BY <1>1, <1>3, <1>4

(* Steps that matter neither to the count nor to the search. *)
LEMMA NeutralStep ==
    ASSUME Structure, Structure', RwsemInv, NEW t \in Tasks,
           \A u \in Tasks : own'[u] = own[u] /\ cls'[u] = cls[u],
           UNCHANGED <<count, wait_list>>,
           \A u \in Tasks \ {t} : pc'[u] = pc[u],
           pc[t] \notin Searching \cup {"queue", "wake"},
           pc'[t] \notin Searching \cup {"queue", "wake"}
    PROVE  StepOK
<1>1. Undo' = Undo /\ Undo \in Int /\ count \in Int
  <2>1. Undoing' <=> Undoing
    BY DEF Undoing, Searching
  <2>2. Undo' = Undo
    BY <2>1 DEF Undo, WriteAdjustment
  <2> QED  BY <2>2, CountSum DEF SumFacts
<1>2. count' = count + (Undo' - Undo)
  BY <1>1
<1>3. GrantOK'
  BY DEF GrantOK, RwsemInv, Searching
<1>4. NotStranded'
  BY DEF NotStranded, RwsemInv
<1> QED  BY <1>2, <1>3, <1>4, QuietStep

(* rwsem_wake() and rwsem_downgrade_wake() entering __rwsem_do_wake(). *)
LEMMA WakeStep ==
    ASSUME Structure, Structure', RwsemInv, NEW t \in Tasks, rwsem_wake(t)
    PROVE  StepOK
<1>1. /\ pc[t] = "wake" /\ wait_lock = Nobody
      /\ UNCHANGED <<count, wait_list, holds>>
  BY DEF rwsem_wake
<1>2. /\ Types /\ ListsOK /\ \A u \in Tasks : PlaceOK(u)
  BY DEF Structure
<1>3. wait_list # <<>> => call[Head(wait_list)] \in {"read", "write"}
  <2>1. wait_list # <<>> => Head(wait_list) \in Range(wait_list)
    BY <1>2, HeadTail DEF Types, ListsOK
  <2> QED  BY <1>2, <2>1 DEF ListsOK
<1>4. /\ UnderLock(t) /\ pc'[t] # "undo_write"
      /\ pc'[t] = "grant_readers" => call[t] # "up"
      /\ wait_list # <<>> /\ pc'[t] \notin Searching => call[t] # "up"
  <2>1. CASE wait_list = <<>>
    BY <1>2, <2>1 DEF rwsem_wake, UnderLock, Unlock, Types
  <2>2. CASE wait_list # <<>> /\ call[t] = "up"
    BY <1>2, <1>3, <2>2
       DEF rwsem_wake, do_wake, UnderLock, Unlock, Keep, Types, Searching, InDoWake
  <2>3. CASE wait_list # <<>> /\ call[t] # "up"
    <3>1. UnderLock(t) /\ pc'[t] # "undo_write"
      BY <1>2, <1>3, <2>3 DEF rwsem_wake, do_wake, UnderLock, Unlock, Keep, Types, InDoWake
    <3> QED  BY <2>3, <3>1
  <2> QED  BY <2>1, <2>2, <2>3
<1>5. /\ \A u \in Tasks : own'[u] = own[u] /\ cls'[u] = cls[u]
      /\ \A u \in Tasks \ {t} : pc'[u] = pc[u] /\ pc[u] \notin InDoWake
  BY <1>1, <1>4, UnderLockOwners
<1>6. Undo' = 0 /\ Undo = 0 /\ count \in Int
  <2>1. ~Undoing /\ ~Undoing'
    BY <1>1, <1>4, <1>5 DEF Undoing, InDoWake
  <2> QED  BY <1>2, <2>1 DEF Undo, Types
<1>7. call[t] # "up" => own[t] = "read"
  BY <1>1, <1>2 DEF PlaceOK, own
<1>8. GrantOK'
  <2>1. ASSUME NEW u \in Tasks, NEW v \in Tasks, pc'[u] = "grant_readers"
        PROVE  own'[v] # "write"
    <3>1. u = t
      BY <1>5, <2>1 DEF InDoWake
    <3>0. pc'[t] = "grant_readers"
      BY <2>1, <3>1
    <3>2. own[t] = "read"
      BY <1>4, <1>7, <3>0
    <3> QED  BY <1>5, <3>2 DEF RwsemInv, Exclusion
  <2> QED  BY <2>1 DEF GrantOK
<1>9. NotStranded'
  BY <1>1, <1>4, <1>5, <1>7 DEF NotStranded
<1>10. count' = count + (Undo' - Undo)
  BY <1>1, <1>6
<1> QED  BY <1>1, <1>5, <1>8, <1>9, <1>10, QuietStep

(* The look at the count before readers are granted the lock. *)
LEMMA CheckReadersStep ==
    ASSUME Structure, Structure', RwsemInv, NEW t \in Tasks, CheckReaders(t)
    PROVE  StepOK
<1>1. /\ pc[t] = "check_readers"
      /\ UNCHANGED <<count, wait_list, holds>>
  BY DEF CheckReaders
<1>2. /\ Types /\ StageOK(t)
  BY DEF Structure
<1>3. UnderLock(t) /\ pc'[t] # "undo_write"
  BY <1>2 DEF CheckReaders, UnderLock, Unlock, Keep, InDoWake, Types
<1>4. /\ \A u \in Tasks : own'[u] = own[u] /\ cls'[u] = cls[u]
      /\ \A u \in Tasks \ {t} : pc'[u] = pc[u] /\ pc[u] \notin InDoWake
  <2>1. pc[t] \in InDoWake \/ (pc[t] = "wake" /\ wait_lock = Nobody)
    BY <1>1 DEF InDoWake
  <2> QED  BY <1>1, <1>3, <2>1, UnderLockOwners
<1>5. ~Undoing /\ ~Undoing'
  BY <1>1, <1>3, <1>4 DEF Undoing, InDoWake
<1>6. count' = count + (Undo' - Undo)
  BY <1>1, <1>2, <1>5 DEF Undo, Types
<1>7. /\ wait_list # <<>> /\ count \in Int /\ RWSEM_WAITING_BIAS \in Int
      /\ count >= RWSEM_WAITING_BIAS <=> \A u \in Tasks : cls[u] # "write"
  BY <1>1, <1>2, <1>5, CountTells, Biases DEF CountView, RwsemInv, StageOK, Types
<1>8. /\ \A u \in Tasks : pc[u] # "queue" => cls[u] = own[u]
      /\ \A u \in Tasks : pc[u] = "queue" => own[u] = "none"
  BY Classes DEF ClassFacts
<1>9. GrantOK'
  <2>1. ASSUME NEW u \in Tasks, NEW v \in Tasks, pc'[u] = "grant_readers"
        PROVE  own'[v] # "write"
    <3>1. u = t
      BY <1>4, <2>1 DEF InDoWake
    <3>2. ~WriterGotIn
      BY <1>2, <2>1, <3>1 DEF CheckReaders, Unlock, Types
    <3>3. cls[v] # "write"
      BY <1>7, <3>2 DEF WriterGotIn
    <3> QED  BY <1>4, <1>8, <3>3
  <2> QED  BY <2>1 DEF GrantOK
<1>10. NotStranded'
  <2>1. CASE WriterGotIn
    <3>1. PICK u \in Tasks : cls[u] = "write"
      BY <1>7, <2>1 DEF WriterGotIn
    <3>2. own'[u] # "none" \/ pc'[u] = "queue"
      BY <1>1, <1>4, <1>8, <3>1
    <3> QED  BY <3>2 DEF NotStranded
  <2>2. CASE ~WriterGotIn
    <3>1. pc'[t] = "grant_readers"
      BY <1>2, <2>2 DEF CheckReaders, Keep, Types
    <3> QED  BY <3>1 DEF NotStranded, Searching
  <2> QED  BY <2>1, <2>2
<1> QED  BY <1>1, <1>4, <1>6, <1>9, <1>10, QuietStep

(* Taking back the bias added for a writer that could not be granted. *)
LEMMA UndoWriteStep ==
    ASSUME Structure, Structure', RwsemInv, NEW t \in Tasks, UndoWrite(t)
    PROVE  StepOK
<1>1. /\ pc[t] = "undo_write"
      /\ UNCHANGED <<wait_list, holds>>
      /\ count' = count - WriteAdjustment
      /\ IF StillActive(count') THEN Unlock(t) ELSE Keep(t, "try_write")
  BY DEF UndoWrite
<1>2. Types /\ StageOK(t)
  BY DEF Structure
<1>3. /\ UnderLock(t)
      /\ pc'[t] \in {"out", "test", "try_write"}
      /\ pc'[t] # "try_write" => StillActive(count')
  BY <1>1, <1>2 DEF UnderLock, Unlock, Keep, InDoWake, Types
<1>4. /\ \A u \in Tasks : own'[u] = own[u] /\ cls'[u] = cls[u]
      /\ \A u \in Tasks \ {t} : pc'[u] = pc[u] /\ pc[u] \notin InDoWake
  <2>1. pc[t] \in InDoWake \/ (pc[t] = "wake" /\ wait_lock = Nobody)
    BY <1>1 DEF InDoWake
  <2> QED  BY <1>1, <1>3, <2>1, UnderLockOwners
<1>5. Undoing /\ ~Undoing'
  BY <1>1, <1>3, <1>4 DEF Undoing, InDoWake
<1>6. Undo = WriteAdjustment /\ Undo' = 0 /\ count \in Int /\ Undo \in Int
  BY <1>5, CountSum DEF Undo, SumFacts
<1>7. count' = count + (Undo' - Undo)
  BY <1>1, <1>6
<1>8. GrantOK'
  BY <1>3, <1>4 DEF GrantOK, InDoWake
<1>9. CountAccounts'
  <2>1. Mark' = Mark /\ Mark \in Int /\ Undo' \in Int
    BY <1>1, <1>6, CountSum DEF Mark, SumFacts
  <2>2. Weight(cls[t]) \in Int /\ cls'[t] = cls[t]
    BY <1>4, Biases DEF Weight
  <2>3. count' = count + ((Weight(cls'[t]) - Weight(cls[t]))
                          + ((Mark' - Mark) + (Undo' - Undo)))
    BY <1>6, <1>7, <2>1, <2>2
  <2> QED  BY <1>4, <2>3, CountStep DEF RwsemInv
<1>10. NotStranded'
  <2>1. CASE pc'[t] = "try_write"
    BY <2>1 DEF NotStranded, Searching
  <2>2. CASE pc'[t] # "try_write"
    <3>1. CountView' /\ ClassFacts'
      BY <1>9, CountTells, Classes, PTL
    <3>2. Active(count') # 0
      BY <1>3, <2>2 DEF StillActive
    <3>3. PICK u \in Tasks : cls'[u] # "none"
      BY <1>5, <3>1, <3>2 DEF CountView
    <3>4. own'[u] # "none" \/ pc'[u] = "queue"
      BY <3>1, <3>3 DEF ClassFacts
    <3> QED  BY <3>4 DEF NotStranded
  <2> QED  BY <2>1, <2>2
<1> QED  BY <1>1, <1>4, <1>7, <1>8, <1>10, QuietStep

(* The attempt to grant the lock to a writer at the head of the queue. *)
LEMMA TryWriteStep ==
    ASSUME Structure, Structure', RwsemInv, NEW t \in Tasks, TryWrite(t)
    PROVE  StepOK
<1> DEFINE h == Head(wait_list)
<1>1. /\ pc[t] = "try_write" /\ UNCHANGED holds
      /\ count' = count + WriteAdjustment
      /\ IF Active(count) # 0
         THEN Keep(t, "undo_write") /\ wait_list' = wait_list
         ELSE Keep(t, "tell") /\ wait_list' = Tail(wait_list)
  BY DEF TryWrite
<1>2. Types /\ ListsOK /\ \A u \in Tasks : PlaceOK(u) /\ StageOK(u)
  BY DEF Structure
<1>3. wait_list # <<>> /\ call[h] = "write"
  BY <1>1, <1>2 DEF StageOK
<1>4. /\ UnderLock(t) /\ pc' = [pc EXCEPT ![t] = pc'[t]]
      /\ call' = call
      /\ pc'[t] = IF Active(count) # 0 THEN "undo_write" ELSE "tell"
  BY <1>1, <1>2 DEF UnderLock, Keep, InDoWake, Types
<1>5. \A u \in Tasks \ {t} : pc'[u] = pc[u] /\ pc[u] \notin InDoWake
  <2>1. pc[t] \in InDoWake \/ (pc[t] = "wake" /\ wait_lock = Nobody)
    BY <1>1 DEF InDoWake
  <2> QED  BY <1>1, <1>4, <2>1, SlowPathPlace
<1>6. ~Undoing
  BY <1>1, <1>5 DEF Undoing, InDoWake
<1>7. GrantOK'
  BY <1>4, <1>5 DEF GrantOK, InDoWake
<1>8. CASE Active(count) # 0
  <2>1. \A u \in Tasks : own'[u] = own[u] /\ cls'[u] = cls[u]
    <3>1. pc[t] \in InDoWake \/ (pc[t] = "wake" /\ wait_lock = Nobody)
      BY <1>1 DEF InDoWake
    <3> QED  BY <1>1, <1>4, <1>8, <3>1, UnderLockOwners
  <2>2. Undoing' /\ wait_list' = wait_list
    BY <1>1, <1>4, <1>8 DEF Undoing
  <2>3. Undo' = WriteAdjustment /\ Undo = 0 /\ WriteAdjustment \in Int
    BY <1>6, <2>2, Biases DEF Undo, WriteAdjustment
  <2>4. count' = count + (Undo' - Undo)
    BY <1>1, <2>3
  <2>5. NotStranded'
    BY <1>4, <1>8 DEF NotStranded, Searching
  <2> QED  BY <1>7, <2>1, <2>2, <2>4, <2>5, QuietStep
<1>9. CASE Active(count) = 0
  <2>1. \A u \in Tasks : cls[u] = "none" /\ own[u] = "none"
    BY <1>6, <1>9, CountTells, Classes DEF CountView, RwsemInv, ClassFacts
  <2>2. /\ wait_list' = Tail(wait_list) /\ pc'[t] = "tell"
    BY <1>1, <1>4, <1>9
  <2>3. /\ h \in Tasks /\ h \in Range(wait_list)
        /\ h = wait_list[1] /\ 1 \in DOMAIN wait_list
        /\ Len(wait_list') = Len(wait_list) - 1
        /\ \A i \in 1 .. Len(wait_list) - 1 : wait_list'[i] = wait_list[i + 1]
        /\ Range(wait_list') = Range(wait_list) \ {h}
        /\ DOMAIN wait_list' = 1 .. Len(wait_list) - 1
    BY <1>2, <1>3, <2>2, HeadTail DEF Types, ListsOK
  <2>4. \A u \in Tasks : pc'[u] = "queue" <=> pc[u] = "queue"
    BY <1>1, <1>5, <2>2
  <2>5. pc[h] # "queue"
    BY <1>2, <2>3 DEF ListsOK, InDoWake
  <2>6. own'[h] = "write" /\ cls'[h] = "write"
    BY <1>3, <1>4, <2>3, <2>4, <2>5 DEF own, cls
  <2>7. \A u \in Tasks \ {h} : own'[u] = own[u] /\ cls'[u] = cls[u]
    BY <1>1, <1>4, <2>3, <2>4 DEF own, cls
  <2>8. Undo' = 0 /\ Undo = 0
    <3>1. ~Undoing'
      BY <1>5, <2>2 DEF Undoing, InDoWake
    <3> QED  BY <1>6, <3>1 DEF Undo
  <2>9. CountAccounts'
    <3>1. wait_list' # <<>> <=> Len(wait_list) # 1
      <4>1. wait_list' \in Seq(Tasks) /\ Len(wait_list) \in Nat
        BY <1>2, <1>3, <2>2 DEF Types
      <4>2. wait_list' = <<>> <=> Len(wait_list') = 0
        BY <4>1
      <4> QED  BY <2>3, <4>1, <4>2
    <3>2. Mark' - Mark = -(IF Len(wait_list) = 1 THEN RWSEM_WAITING_BIAS ELSE 0)
      BY <1>3, <3>1, Biases DEF Mark
    <3>3. Weight(cls'[h]) - Weight(cls[h]) = RWSEM_ACTIVE_WRITE_BIAS
      BY <2>1, <2>3, <2>6, Biases DEF Weight
    <3>4. count' = count + ((Weight(cls'[h]) - Weight(cls[h]))
                            + ((Mark' - Mark) + (Undo' - Undo)))
      BY <1>1, <1>2, <2>8, <3>2, <3>3, Biases DEF WriteAdjustment, Types
    <3> QED  BY <2>3, <2>7, <3>4, CountStep DEF RwsemInv
  <2>10. NotStranded'
    BY <2>3, <2>6 DEF NotStranded
  <2>11. LockStep
    <3>1. own \in [Tasks -> Modes] /\ own' = [u \in Tasks |-> own'[u]]
      BY Classes DEF ClassFacts, own
    <3>2. Lock!AcquireWrite(h)
      BY <2>1, <2>3, <2>6, <2>7, <3>1 DEF Lock!AcquireWrite
    <3> QED  BY <2>3, <3>2 DEF LockStep, Lock!LockNext
  <2>12. OvertakeStep
    <3>1. Len(wait_list) \in Nat /\ Len(wait_list) >= 1
      BY <1>2, <1>3 DEF Types
    <3>2. /\ 1 \in 0 .. Len(wait_list)
          /\ \A i \in 1 .. 1 : own'[wait_list[i]] # "none"
          /\ \A i \in 1 + 1 .. Len(wait_list) :
                i - 1 \in DOMAIN wait_list' /\ wait_list'[i - 1] = wait_list[i]
      BY <2>3, <2>6, <3>1
    <3>3. \A u \in Tasks : own[u] = "none" /\ own'[u] # "none" => u = wait_list[1]
      BY <2>3, <2>7
    <3> QED  BY <2>3, <3>2, <3>3 DEF OvertakeStep
  <2> QED  BY <1>7, <2>9, <2>10, <2>11, <2>12 DEF StepOK
<1> QED  BY <1>8, <1>9

(* rwsem_down_failed_common(): the failed fast path becomes a queue entry. *)
LEMMA DownFailedStep ==
    ASSUME Structure, Structure', RwsemInv, NEW t \in Tasks, rwsem_down_failed_common(t)
    PROVE  StepOK
<1> DEFINE adjustment == -Bias(call[t]) + (IF wait_list = <<>> THEN RWSEM_WAITING_BIAS ELSE 0)
<1>1. /\ pc[t] = "queue" /\ wait_lock = Nobody /\ UNCHANGED holds
      /\ wait_list' = list_add_tail(wait_list, t)
      /\ count' = count + adjustment
      /\ IF count' = RWSEM_WAITING_BIAS
         THEN do_wake(t, wait_list', "NO_ACTIVE")
         ELSE IF count' > RWSEM_WAITING_BIAS /\ adjustment = -RWSEM_ACTIVE_WRITE_BIAS
         THEN do_wake(t, wait_list', "READ_OWNED")
         ELSE Unlock(t)
  BY DEF rwsem_down_failed_common
<1> HIDE DEF adjustment
<1>2. Types /\ ListsOK /\ \A u \in Tasks : PlaceOK(u)
  BY DEF Structure
<1>3. call[t] \in {"read", "write"} /\ holds[t] = "none"
  BY <1>1, <1>2 DEF PlaceOK
<1>4. t \notin Range(wait_list)
  BY <1>1, <1>2 DEF ListsOK, InDoWake
<1>5. /\ wait_list' # <<>>
      /\ Range(wait_list') = Range(wait_list) \cup {t}
      /\ Head(wait_list') = IF wait_list = <<>> THEN t ELSE Head(wait_list)
  BY <1>1, <1>2, <1>4, AddTail DEF Types, ListsOK
<1>6. call[Head(wait_list')] \in {"read", "write"}
  <2>1. wait_list # <<>> => Head(wait_list) \in Range(wait_list)
    BY <1>2, HeadTail DEF Types, ListsOK
  <2> QED  BY <1>2, <1>3, <1>5, <2>1 DEF ListsOK
<1>7. /\ UnderLock(t) /\ pc'[t] # "undo_write"
      /\ pc'[t] = "grant_readers" => count' >= RWSEM_WAITING_BIAS
      /\ pc'[t] \notin Searching => count' # RWSEM_WAITING_BIAS
  <2>0. count' \in Int /\ RWSEM_WAITING_BIAS \in Int
    BY Biases DEF Structure, Types
  <2>1. CASE count' = RWSEM_WAITING_BIAS
    <3>1. do_wake(t, wait_list', "NO_ACTIVE")
      BY <1>1, <2>1
    <3>2. UnderLock(t) /\ pc'[t] \in {"try_write", "grant_readers"}
      BY <1>2, <1>6, <3>1 DEF do_wake, UnderLock, Unlock, Keep, Types, InDoWake
    <3> QED  BY <2>0, <2>1, <3>2 DEF Searching
  <2>2. CASE count' # RWSEM_WAITING_BIAS /\ count' > RWSEM_WAITING_BIAS
    <3>1. do_wake(t, wait_list', "READ_OWNED") \/ Unlock(t)
      BY <1>1, <2>2
    <3>2. UnderLock(t) /\ pc'[t] # "undo_write"
      BY <1>2, <1>6, <3>1 DEF do_wake, UnderLock, Unlock, Keep, Types, InDoWake
    <3> QED  BY <2>0, <2>2, <3>2
  <2>3. CASE count' # RWSEM_WAITING_BIAS /\ ~(count' > RWSEM_WAITING_BIAS)
    <3>1. Unlock(t)
      BY <1>1, <2>3
    <3>2. UnderLock(t) /\ pc'[t] \in {"test", "out"}
      BY <1>2, <3>1 DEF UnderLock, Unlock, Types
    <3> QED  BY <2>3, <3>2
  <2> QED  BY <2>1, <2>2, <2>3
<1>8. /\ \A u \in Tasks \ {t} : pc'[u] = pc[u] /\ call'[u] = call[u] /\ pc[u] \notin InDoWake
      /\ call'[t] = call[t] /\ pc'[t] \in {"test"} \cup InDoWake
  BY <1>1, <1>3, <1>7, SlowPathPlace
<1>9. /\ own'[t] = "none" /\ own[t] = "none" /\ cls'[t] = "none" /\ cls[t] = call[t]
  <2>1. own'[t] = "none" /\ own[t] = "none"
    BY <1>1, <1>3, <1>5 DEF own
  <2>2. pc'[t] # "queue"
    BY <1>8 DEF InDoWake
  <2> QED  BY <1>1, <2>1, <2>2 DEF cls
<1>10. \A u \in Tasks \ {t} : own'[u] = own[u] /\ cls'[u] = cls[u]
  BY <1>1, <1>5, <1>8 DEF own, cls
<1>11. ~Undoing /\ ~Undoing'
  BY <1>1, <1>7, <1>8 DEF Undoing, InDoWake
<1>12. CountAccounts'
  <2>1. Undo' = 0 /\ Undo = 0
    BY <1>11 DEF Undo
  <2>2. Mark' - Mark = IF wait_list = <<>> THEN RWSEM_WAITING_BIAS ELSE 0
    BY <1>5, Biases DEF Mark
  <2>3. Weight(cls'[t]) - Weight(cls[t]) = -Bias(call[t]) /\ Bias(call[t]) \in Int
    BY <1>3, <1>9, Biases DEF Weight, Bias
  <2>4. count' = count + ((Weight(cls'[t]) - Weight(cls[t]))
                          + ((Mark' - Mark) + (Undo' - Undo)))
    BY <1>1, <1>2, <2>1, <2>2, <2>3, Biases DEF adjustment, Types
  <2> QED  BY <1>10, <2>4, CountStep DEF RwsemInv
<1>13. CountView' /\ ClassFacts'
  BY <1>12, CountTells, Classes, PTL
<1>14. /\ count' = RWSEM_WAITING_BIAS <=> \A u \in Tasks : cls'[u] = "none"
       /\ count' >= RWSEM_WAITING_BIAS <=> \A u \in Tasks : cls'[u] # "write"
  BY <1>5, <1>11, <1>13 DEF CountView
<1>15. GrantOK'
  <2>1. ASSUME NEW u \in Tasks, NEW v \in Tasks, pc'[u] = "grant_readers"
        PROVE  own'[v] # "write"
    <3>1. u = t
      BY <1>8, <2>1 DEF InDoWake
    <3>2. cls'[v] # "write"
      BY <1>7, <1>14, <2>1, <3>1
    <3> QED  BY <1>13, <3>2 DEF ClassFacts
  <2> QED  BY <2>1 DEF GrantOK
<1>16. NotStranded'
  <2>1. CASE pc'[t] \in Searching
    BY <2>1 DEF NotStranded
  <2>2. CASE pc'[t] \notin Searching
    <3>1. PICK u \in Tasks : cls'[u] # "none"
      BY <1>7, <1>14, <2>2
    <3>2. own'[u] # "none" \/ pc'[u] = "queue"
      BY <1>13, <3>1 DEF ClassFacts
    <3> QED  BY <3>2 DEF NotStranded
  <2> QED  BY <2>1, <2>2
<1>17. own' = own
  BY <1>9, <1>10, SameOwners
<1>18. LockStep /\ OvertakeStep
  BY <1>1, <1>2, <1>17, NoneOvertaken DEF LockStep, Types
<1> QED  BY <1>12, <1>15, <1>16, <1>18 DEF StepOK

(* A list without repetition has as many members as entries. *)
LEMMA ListCardinality ==
    ASSUME NEW S, NEW list \in Seq(S), IsInjective(list)
    PROVE  IsFiniteSet(Range(list)) /\ Cardinality(Range(list)) = Len(list)
<1>1. Len(list) \in Nat /\ DOMAIN list = 1 .. Len(list)
  OBVIOUS
<1>2. list \in Bijection(1 .. Len(list), Range(list))
  <2>1. list \in [1 .. Len(list) -> Range(list)]
    BY <1>1 DEF Range
  <2>2. \A x \in Range(list) : \E i \in 1 .. Len(list) : list[i] = x
    BY <1>1 DEF Range
  <2> QED  BY <1>1, <2>1, <2>2 DEF Bijection, Injection, Surjection
<1>3. ExistsBijection(1 .. Len(list), Range(list))
  BY <1>2 DEF ExistsBijection
<1> QED  BY <1>1, <1>3, FS_CountingElements, FS_NatBijection

(* Granting the lock to all the readers at the head of the queue at once. *)
LEMMA GrantReadersStep ==
    ASSUME Structure, Structure', RwsemInv, NEW t \in Tasks, GrantReaders(t)
    PROVE  StepOK
<1> DEFINE n == FrontReaders
           F == Range(woken')
<1>1. /\ pc[t] = "grant_readers" /\ UNCHANGED <<holds, call>>
      /\ count' = count + n * RWSEM_ACTIVE_BIAS
                  - (IF n = Len(wait_list) THEN RWSEM_WAITING_BIAS ELSE 0)
      /\ woken' = SubSeq(wait_list, 1, n)
      /\ wait_list' = SubSeq(wait_list, n + 1, Len(wait_list))
      /\ Keep(t, "tell")
  BY DEF GrantReaders, Keep
<1>2. Types /\ ListsOK /\ \A u \in Tasks : PlaceOK(u) /\ StageOK(u)
  BY DEF Structure
<1>3. /\ n \in 0 .. Len(wait_list)
      /\ \A i \in 1 .. n : call[wait_list[i]] = "read"
      /\ n = Len(wait_list) \/ call[wait_list[n + 1]] = "write"
  BY <1>2, FrontReadersDef DEF Types, ListsOK
<1>4. wait_list # <<>> /\ Len(wait_list) \in Nat /\ Len(wait_list) # 0 /\ n # 0
  <2>1. wait_list # <<>> /\ call[Head(wait_list)] = "read"
    BY <1>1, <1>2 DEF StageOK
  <2>2. Head(wait_list) = wait_list[1] /\ Len(wait_list) # 0 /\ Len(wait_list) \in Nat
    BY <1>2, <2>1 DEF Types
  <2> QED  BY <1>3, <2>1, <2>2
<1> HIDE DEF n
<1>5. /\ woken' \in Seq(Tasks) /\ Len(woken') = n
      /\ \A i \in 1 .. n : woken'[i] = wait_list[i]
      /\ wait_list' \in Seq(Tasks) /\ Len(wait_list') = Len(wait_list) - n
      /\ \A i \in 1 .. Len(wait_list) - n : wait_list'[i] = wait_list[i + n]
      /\ IsInjective(woken')
      /\ F = {wait_list[i] : i \in 1 .. n}
      /\ F \cap Range(wait_list') = {}
      /\ F \cup Range(wait_list') = Range(wait_list)
  BY <1>1, <1>2, <1>3, Cut DEF Types, ListsOK
<1>6. /\ \A u \in Tasks \ {t} : pc'[u] = pc[u] /\ pc[u] \notin InDoWake
      /\ pc'[t] = "tell"
  <2>1. pc[t] \in InDoWake \/ (pc[t] \in {"queue", "wake"} /\ wait_lock = Nobody)
    BY <1>1 DEF InDoWake
  <2>2. UnderLock(t) /\ pc'[t] = "tell"
    BY <1>1, <1>2 DEF UnderLock, Keep, InDoWake, Types
  <2> QED  BY <1>1, <2>1, <2>2, SlowPathPlace
<1>7. \A u \in F : u \in Tasks /\ u \in Range(wait_list) /\ call[u] = "read"
                   /\ pc[u] # "queue" /\ pc'[u] # "queue" /\ holds[u] = "none"
  <2>1. ASSUME NEW u \in F  PROVE u \in Tasks /\ u \in Range(wait_list) /\ call[u] = "read"
    <3>1. u \in Range(wait_list) /\ Range(wait_list) \subseteq Tasks
      BY <1>2, <1>5 DEF Types, Range
    <3>2. call[u] = "read"
      BY <1>3, <1>5
    <3> QED  BY <3>1, <3>2
  <2>2. ASSUME NEW u \in F  PROVE pc[u] # "queue" /\ pc'[u] # "queue" /\ holds[u] = "none"
    <3>1. pc[u] # "queue"
      BY <1>2, <2>1 DEF ListsOK, InDoWake
    <3>2. holds[u] = "none"
      BY <1>2, <2>1 DEF PlaceOK
    <3> QED  BY <1>6, <2>1, <3>1, <3>2
  <2> QED  BY <2>1, <2>2
<1>8. \A u \in F : /\ own[u] = "none" /\ cls[u] = "none"
                   /\ own'[u] = "read" /\ cls'[u] = "read"
  <2>1. \A u \in F : u \notin Range(wait_list')
    BY <1>5
  <2> QED  BY <1>1, <1>7, <2>1 DEF own, cls
<1>9. \A u \in Tasks \ F : own'[u] = own[u] /\ cls'[u] = cls[u]
  <2>1. \A u \in Tasks \ F : u \in Range(wait_list') <=> u \in Range(wait_list)
    BY <1>5
  <2>2. \A u \in Tasks : pc'[u] = "queue" <=> pc[u] = "queue"
    BY <1>1, <1>6
  <2> QED  BY <1>1, <2>1, <2>2 DEF own, cls
<1>10. \A u \in Tasks : own[u] # "write"
  BY <1>1 DEF RwsemInv, GrantOK
<1>11. CountAccounts'
  <2>1. Undo' = 0 /\ Undo = 0
    <3>1. ~Undoing /\ ~Undoing'
      BY <1>1, <1>6 DEF Undoing, InDoWake
    <3> QED  BY <3>1 DEF Undo
  <2>2. ClassFacts /\ ClassFacts' /\ NumberFacts /\ SumFacts /\ SumFacts'
    BY Classes, Numbers, CountSum, PTL
  <2>3. Readers' = Readers \cup F /\ Readers \cap F = {} /\ Writers' = Writers
    <3>1. F \subseteq Tasks
      BY <1>7
    <3> QED  BY <1>8, <1>9, <2>2, <3>1 DEF ClassFacts
  <2>4. IsFiniteSet(F) /\ Cardinality(F) = n
    BY <1>5, ListCardinality
  <2>5. Cardinality(Readers') = Cardinality(Readers) + n
    <3>1. Cardinality(Readers \cup F) =
             Cardinality(Readers) + Cardinality(F) - Cardinality(Readers \cap F)
      BY <2>2, <2>4, FS_Union DEF NumberFacts
    <3>2. Cardinality(Readers \cap F) = 0
      BY <2>3, FS_EmptySet
    <3>3. Cardinality(Readers) \in Nat /\ n \in Nat
      BY <1>3, <2>2 DEF NumberFacts
    <3> QED  BY <2>3, <2>4, <3>1, <3>2, <3>3
  <2>6. wait_list' # <<>> <=> n # Len(wait_list)
    <3>1. wait_list' = <<>> <=> Len(wait_list') = 0
      BY <1>5
    <3> QED  BY <1>3, <1>4, <1>5, <3>1
  <2> DEFINE X == IF n = Len(wait_list) THEN RWSEM_WAITING_BIAS ELSE 0
             P == Cardinality(Writers) * RWSEM_ACTIVE_WRITE_BIAS
  <2>7. Mark = RWSEM_WAITING_BIAS /\ Mark' = RWSEM_WAITING_BIAS - X /\ X \in Int
    BY <1>4, <2>6, Biases DEF Mark
  <2>8. count = Cardinality(Readers) + P + RWSEM_WAITING_BIAS + 0
    BY <2>1, <2>2, <2>7 DEF SumFacts, RwsemInv
  <2>9. P \in Int /\ Cardinality(Readers) \in Int /\ n \in Int /\ n * RWSEM_ACTIVE_BIAS = n
    BY <1>3, <2>2, Biases DEF NumberFacts
  <2>10. count' = count + (n - X)
    BY <1>1, <2>9
  <2> HIDE DEF X, P
  <2>11. count' = (Cardinality(Readers) + n) + P + (RWSEM_WAITING_BIAS - X) + 0
    BY <2>7, <2>8, <2>9, <2>10, Biases
  <2>12. P = Cardinality(Writers') * RWSEM_ACTIVE_WRITE_BIAS
    BY <2>3 DEF P
  <2> QED  BY <2>1, <2>2, <2>5, <2>7, <2>11, <2>12 DEF SumFacts
<1>12. GrantOK'
  BY <1>6 DEF GrantOK, InDoWake
<1>13. \A i \in 1 .. n : wait_list[i] \in F
  BY <1>5
<1>14. NotStranded'
  BY <1>3, <1>4, <1>7, <1>8, <1>13 DEF NotStranded
<1>15. LockStep
  <2>1. own \in [Tasks -> Modes] /\ own' = [u \in Tasks |-> own'[u]]
    BY Classes DEF ClassFacts, own
  <2>2. Lock!AcquireRead(F)
    BY <1>8, <1>9, <1>10, <2>1 DEF Lock!AcquireRead
  <2>3. F \in SUBSET Tasks
    BY <1>7
  <2> QED  BY <2>2, <2>3 DEF LockStep, Lock!LockNext
<1>16. OvertakeStep
  <2>1. /\ \A i \in 1 .. n : own'[wait_list[i]] # "none"
        /\ \A i \in n + 1 .. Len(wait_list) :
              i - n \in DOMAIN wait_list' /\ wait_list'[i - n] = wait_list[i]
    <3>1. \A i \in 1 .. n : own'[wait_list[i]] # "none"
      BY <1>8, <1>13
    <3>2. ASSUME NEW i \in n + 1 .. Len(wait_list)
          PROVE  i - n \in DOMAIN wait_list' /\ wait_list'[i - n] = wait_list[i]
      <4>1. i - n \in 1 .. Len(wait_list) - n /\ (i - n) + n = i
        BY <1>3, <1>4
      <4>2. DOMAIN wait_list' = 1 .. Len(wait_list) - n
        BY <1>5
      <4> QED  BY <1>5, <4>1, <4>2
    <3> QED  BY <3>1, <3>2
  <2>2. ASSUME NEW u \in Tasks, own[u] = "none", own'[u] # "none"
        PROVE  \E k \in DOMAIN wait_list :
                  /\ wait_list[k] = u
                  /\ k = 1 \/ \A i \in 1 .. k : call[wait_list[i]] = "read"
    <3>1. u \in F
      BY <1>9, <2>2
    <3>2. PICK k \in 1 .. n : wait_list[k] = u
      BY <1>5, <3>1
    <3>3. k \in DOMAIN wait_list /\ \A i \in 1 .. k : call[wait_list[i]] = "read"
      BY <1>2, <1>3, <1>4, <3>2 DEF Types
    <3> QED  BY <3>2, <3>3
  <2> QED  BY <1>3, <2>1, <2>2 DEF OvertakeStep
<1> QED  BY <1>11, <1>12, <1>14, <1>15, <1>16 DEF StepOK

-----------------------------------------------------------------------------
(* Every step. *)

(* Each action of the semaphore takes one step of these kinds. *)
LEMMA EveryStep ==
    ASSUME Structure, Structure', RwsemInv, Next
    PROVE  StepOK
<1>0. Types /\ ListsOK /\ (\A u \in Tasks : PlaceOK(u)) /\ count \in Int
  BY DEF Structure, Types
<1>1. ASSUME NEW t \in Tasks, down_read(t)  PROVE StepOK
  <2>1. count' = count + Weight("read") /\ Idle(t) /\ FastPath /\ count' = count + 1
    BY <1>1, Biases DEF down_read, Weight
  <2>2. CASE count' <= 0
    BY <1>1, <2>1, <2>2, FailedStep DEF down_read
  <2>3. CASE ~(count' <= 0)
    <3>1. count >= 0 /\ Finish(t, "read")
      BY <1>0, <1>1, <2>1, <2>3 DEF down_read
    <3> QED  BY <2>1, <3>1, FastAcquireStep
  <2> QED  BY <2>2, <2>3
<1>2. ASSUME NEW t \in Tasks, down_read_trylock(t)  PROVE StepOK
  <2>1. count' = count + Weight("read") /\ Idle(t) /\ FastPath /\ count >= 0 /\ Finish(t, "read")
    BY <1>2, Biases DEF down_read_trylock, Weight
  <2> QED  BY <2>1, FastAcquireStep
<1>3. ASSUME NEW t \in Tasks, down_write(t)  PROVE StepOK
  <2>1. /\ count' = count + Weight("write") /\ Idle(t) /\ FastPath
        /\ count' = count + RWSEM_ACTIVE_WRITE_BIAS
    BY <1>3 DEF down_write, Weight
  <2>2. CASE count' # RWSEM_ACTIVE_WRITE_BIAS
    BY <1>3, <2>1, <2>2, FailedStep DEF down_write
  <2>3. CASE count' = RWSEM_ACTIVE_WRITE_BIAS
    <3>1. count = 0 /\ count >= 0 /\ Finish(t, "write")
      BY <1>0, <1>3, <2>1, <2>3, Biases DEF down_write
    <3> QED  BY <2>1, <3>1, FastAcquireStep
  <2> QED  BY <2>2, <2>3
<1>4. ASSUME NEW t \in Tasks, down_write_trylock(t)  PROVE StepOK
  <2>1. /\ count' = count + Weight("write") /\ Idle(t) /\ FastPath
        /\ count = 0 /\ count >= 0 /\ Finish(t, "write")
    BY <1>4, Biases DEF down_write_trylock, Weight
  <2> QED  BY <2>1, FastAcquireStep
<1>5. ASSUME NEW t \in Tasks, up_read(t)  PROVE StepOK
  <2>1. /\ pc[t] = "out" /\ holds[t] = "read" /\ FastPath
        /\ count' = count + (Weight("none") - Weight(holds[t]))
        /\ Finish(t, "none") \/ CallWake(t, "up", "none")
    BY <1>0, <1>5, Biases DEF up_read, Weight
  <2>2. count' = RWSEM_WAITING_BIAS => LastReaderOut(count')
    <3>1. RWSEM_WAITING_BIAS = 0 - M * 1 /\ 0 < M
      BY Biases DEF RWSEM_WAITING_BIAS, M
    <3>2. Active(RWSEM_WAITING_BIAS) = 0
      BY <3>1, Fields
    <3> QED  BY <3>2, Biases DEF LastReaderOut
  <2>3. count' = RWSEM_WAITING_BIAS => CallWake(t, "up", "none")
    BY <1>5, <2>2 DEF up_read
  <2> QED  BY <2>1, <2>3, FastReleaseStep
<1>6. ASSUME NEW t \in Tasks, up_write(t)  PROVE StepOK
  <2>1. /\ pc[t] = "out" /\ holds[t] = "write" /\ FastPath
        /\ count' = count + (Weight("none") - Weight(holds[t]))
        /\ Finish(t, "none") \/ CallWake(t, "up", "none")
    BY <1>0, <1>6, Biases DEF up_write, Weight
  <2>2. count' = RWSEM_WAITING_BIAS => CallWake(t, "up", "none")
    BY <1>6, Biases DEF up_write
  <2> QED  BY <2>1, <2>2, FastReleaseStep
<1>7. ASSUME NEW t \in Tasks, downgrade_write(t)  PROVE StepOK
  <2>1. /\ pc[t] = "out" /\ holds[t] = "write" /\ FastPath
        /\ count' = count + (Weight("read") - Weight(holds[t]))
        /\ Finish(t, "read") \/ CallWake(t, "downgrade", "read")
    BY <1>0, <1>7, Biases DEF downgrade_write, Weight
  <2> QED  BY <2>1, FastReleaseStep
<1>8. ASSUME NEW t \in Tasks, TellWaiter(t) \/ WakeUp(t)  PROVE StepOK
  <2>1. /\ pc[t] \in {"tell", "kick"} /\ UNCHANGED <<count, wait_list, holds>>
        /\ UnderLock(t) /\ pc'[t] \in {"tell", "kick", "out", "test"}
    BY <1>0, <1>8 DEF TellWaiter, WakeUp, UnderLock, Unlock, Keep, InDoWake, Types
  <2>2. pc[t] \in InDoWake
    BY <2>1 DEF InDoWake
  <2>3. /\ \A u \in Tasks : own'[u] = own[u] /\ cls'[u] = cls[u]
        /\ \A u \in Tasks \ {t} : pc'[u] = pc[u]
    BY <2>1, <2>2, UnderLockOwners
  <2>4. /\ pc[t] \notin Searching \cup {"queue", "wake"}
        /\ pc'[t] \notin Searching \cup {"queue", "wake"}
    BY <2>1 DEF Searching
  <2> QED  BY <2>1, <2>3, <2>4, NeutralStep
<1>9. ASSUME NEW t \in Tasks, TestWaiter(t) \/ Schedule(t) \/ spurious_wake_up(t)
      PROVE  StepOK
  <2>1. /\ pc[t] \in {"test", "schedule"} /\ UNCHANGED <<count, wait_list>>
        /\ pc'[t] \in {"out", "test", "schedule"}
        /\ \A u \in Tasks \ {t} : pc'[u] = pc[u] /\ call'[u] = call[u] /\ holds'[u] = holds[u]
    BY <1>0, <1>9 DEF TestWaiter, Schedule, spurious_wake_up, Types
  <2>2. own'[t] = own[t]
    <3>1. CASE call'[t] = call[t] /\ holds'[t] = holds[t]
      BY <2>1, <3>1 DEF own
    <3>2. CASE /\ TestWaiter(t) /\ ~task[t]
      <4>1. call'[t] = "none" /\ holds'[t] = call[t]
        BY <1>0, <3>2 DEF TestWaiter, Types
      <4>2. t \notin Range(wait_list) /\ call[t] \in {"read", "write"}
        BY <1>0, <2>1, <3>2 DEF ListsOK, PlaceOK
      <4> QED  BY <2>1, <4>1, <4>2 DEF own
    <3> QED  BY <1>0, <1>9, <3>1, <3>2 DEF TestWaiter, Schedule, spurious_wake_up
  <2>3. \A u \in Tasks : own'[u] = own[u] /\ cls'[u] = cls[u]
    <3>1. \A u \in Tasks \ {t} : own'[u] = own[u] /\ cls'[u] = cls[u]
      BY <2>1 DEF own, cls
    <3>2. cls'[t] = cls[t]
      BY <2>1, <2>2 DEF cls
    <3> QED  BY <2>2, <3>1, <3>2
  <2>4. /\ pc[t] \notin Searching \cup {"queue", "wake"}
        /\ pc'[t] \notin Searching \cup {"queue", "wake"}
    BY <2>1 DEF Searching
  <2> QED  BY <2>1, <2>3, <2>4, NeutralStep
<1> QED
  BY <1>1, <1>2, <1>3, <1>4, <1>5, <1>6, <1>7, <1>8, <1>9, DownFailedStep, WakeStep,
     TryWriteStep, UndoWriteStep, CheckReadersStep, GrantReadersStep
     DEF Next, do_wake_step

(* An initialised semaphore accounts for nobody. *)
LEMMA Initially == Init => RwsemInv
<1> SUFFICES ASSUME Init  PROVE RwsemInv
  OBVIOUS
<1>1. \A t \in Tasks : own[t] = "none" /\ pc[t] = "out"
  BY DEF Init, own
<1>2. Exclusion /\ GrantOK
  BY <1>1 DEF Exclusion, GrantOK
<1>3. NotStranded
  BY DEF NotStranded, Init
<1>4. CountAccounts
  <2>1. /\ With("read") \cup Queueing("read") = {}
        /\ With("write") \cup Queueing("write") = {}
    BY <1>1 DEF With, Queueing
  <2>2. ~ \E t \in Tasks : pc[t] = "undo_write"
    BY <1>1
  <2>3. 0 * RWSEM_ACTIVE_BIAS = 0 /\ 0 * RWSEM_ACTIVE_WRITE_BIAS = 0
    BY Biases
  <2>4. count = 0 /\ wait_list = <<>>
    BY DEF Init
  <2>5. /\ Cardinality(With("read") \cup Queueing("read")) = 0
        /\ Cardinality(With("write") \cup Queueing("write")) = 0
    BY <2>1, FS_EmptySet
  <2>6. /\ (IF wait_list # <<>> THEN RWSEM_WAITING_BIAS ELSE 0) = 0
        /\ (IF \E t \in Tasks : pc[t] = "undo_write" THEN WriteAdjustment ELSE 0) = 0
    BY <2>2, <2>4
  <2> QED  BY <2>3, <2>4, <2>5, <2>6 DEF CountAccounts
<1> QED  BY <1>2, <1>3, <1>4 DEF RwsemInv

(* The invariant and the step property, together. *)
LEMMA Inductive == Spec => [](Structure /\ RwsemInv) /\ [][StepOK]_vars
<1>1. Structure /\ Structure' /\ RwsemInv /\ [Next]_vars => RwsemInv' /\ [StepOK]_vars
  <2> SUFFICES ASSUME Structure, Structure', RwsemInv, [Next]_vars
               PROVE  RwsemInv' /\ [StepOK]_vars
    OBVIOUS
  <2>1. CASE Next
    <3>1. StepOK
      BY <2>1, EveryStep
    <3>2. Exclusion'
      BY <3>1, LockExclusion DEF StepOK, RwsemInv
    <3> QED  BY <3>1, <3>2 DEF StepOK, RwsemInv
  <2>2. CASE UNCHANGED vars
    BY <2>2 DEF vars, local, RwsemInv, CountAccounts, With, Queueing, own, WriteAdjustment,
          Exclusion, GrantOK, NotStranded
  <2> QED  BY <2>1, <2>2
<1> QED  BY <1>1, Initially, StructureCorrect, PTL DEF Spec

-----------------------------------------------------------------------------
(* The results. *)

(* The count is the sum of what the tasks contributed: every decision of    *)
(* the fast paths rests on it.                                              *)
THEOREM CountCorrect == Spec => []CountAccounts
BY Inductive, PTL DEF RwsemInv

(* Every variable keeps its type; the count stays within what its two       *)
(* fields can hold.                                                         *)
THEOREM TypeCorrect == Spec => []TypeOK
<1>1. Structure /\ RwsemInv => TypeOK
  <2> SUFFICES ASSUME Structure, RwsemInv  PROVE TypeOK
    OBVIOUS
  <2> DEFINE N == Cardinality(Tasks)
  <2>1. /\ nActive \in Nat /\ nBelow \in Nat /\ count = nActive - M * nBelow
        /\ nActive < M
    BY CountForm DEF RwsemInv
  <2>2. N \in Nat /\ M \in Nat /\ RWSEM_WAITING_BIAS = -M
    BY RwsemAssumption, FS_CardinalityType DEF M, RWSEM_WAITING_BIAS
  <2>3. nBelow <= N + 2 /\ (nBelow = 0 => nActive <= N)
    <3>1. /\ Cardinality(Readers) \in Nat /\ Cardinality(Writers) \in Nat
          /\ Cardinality(Readers) + Cardinality(Writers) <= N
      BY Numbers DEF NumberFacts
    <3>2. Undoing => wait_list # <<>>
      BY DEF Undoing, Structure, StageOK
    <3> QED  BY <2>2, <3>1, <3>2 DEF nActive, nBelow, One
  <2> HIDE DEF M, N
  <2>4. M * nBelow <= M * (N + 2)
    BY <2>1, <2>2, <2>3
  <2>5. (N + 2) * RWSEM_WAITING_BIAS = -(M * (N + 2)) /\ M * (N + 2) \in Nat /\ M * nBelow \in Nat
    BY <2>1, <2>2
  <2>6. count >= (N + 2) * RWSEM_WAITING_BIAS
    BY <2>1, <2>4, <2>5
  <2>7. count <= N
    <3>1. CASE nBelow = 0
      BY <2>1, <2>2, <2>3, <3>1
    <3>2. CASE nBelow # 0
      <4>1. count < 0
        BY <2>1, <3>2, Fields
      <4> QED  BY <2>1, <2>2, <2>5, <4>1
    <3> QED  BY <3>1, <3>2
  <2>8. count \in (Cardinality(Tasks) + 2) * RWSEM_WAITING_BIAS .. Cardinality(Tasks)
    BY <2>1, <2>2, <2>5, <2>6, <2>7 DEF N
  <2> QED  BY <2>8 DEF Structure, Types, TypeOK
<1> QED  BY <1>1, Inductive, PTL

(* A queue is never left to itself, whatever the fast paths did to the      *)
(* count in between.                                                        *)
THEOREM WakeupCorrect == Spec => []NoLostWakeup
<1>1. RwsemInv => NoLostWakeup
  BY DEF RwsemInv, NotStranded, NoLostWakeup, Searching, InDoWake
<1> QED  BY <1>1, Inductive, PTL

(* Nobody overtakes the queue. *)
THEOREM QueueCorrect == Spec => NoOvertaking
<1>1. [StepOK]_vars => [OvertakeStep]_vars
  BY DEF StepOK
<1> QED  BY <1>1, Inductive, PTL DEF NoOvertaking, OvertakeStep

(* The semaphore implements the abstract reader/writer lock. *)
THEOREM ImplementsRwLock == Spec => LockSpec
<1>1. Init => Lock!LockInit
  BY DEF Init, Lock!LockInit, own
<1>2. [StepOK]_vars => [Lock!LockNext]_own
  <2>1. UNCHANGED vars => UNCHANGED own
    BY DEF vars, local, own
  <2> QED  BY <2>1 DEF StepOK, LockStep
<1> QED  BY <1>1, <1>2, Inductive, PTL DEF LockSpec, Lock!LockSpec, Spec
=============================================================================
