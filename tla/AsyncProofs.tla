----------------------------- MODULE AsyncProofs -----------------------------
(***************************************************************************)
(* Proofs about asynchronous function calls, for any number of threads,    *)
(* domains and calls: module Async.                                        *)
(***************************************************************************)
EXTENDS Async, FiniteSetTheorems, SequenceTheorems, WellFoundedInduction, TLAPS

-----------------------------------------------------------------------------
(* Calls, and the threads that make them. *)

SyncTypes == [cookie : 0 .. MaxCookie + 1, dom : Domains, full : BOOLEAN,
              before : 0 .. MaxCookie + 1]

(* Types, but for the lists. *)
Shape ==
    /\ next_cookie \in 1 .. MaxCookie + 1
    /\ dom \in [Cookies -> Domains]
    /\ job \in [Cookies -> JobStates]
    /\ pc \in [Threads -> Places]
    /\ mine \in [Threads -> 0 .. MaxCookie]
    /\ sync \in [Threads -> SyncTypes]

(* Threads that will take a cookie, and those that will add an entry. *)
Booked == {t \in Threads : pc[t] \in {"add", "inline_cookie"}}
Adding == {t \in Threads : pc[t] = "add"}

BookOK == next_cookie + Cardinality(Booked) <= MaxCookie + 1

(* Where a thread is while a call of its own is not finished with: it has   *)
(* yet to hand it to the workqueue, or is inside its function.              *)
InlinePlaces == {"inline", "inline_end", "wait", "asleep"}
OwnCall(t) ==
    /\ mine[t] \in Cookies /\ ~sync[t].full
    /\ \/ pc[t] = "queue" /\ job[mine[t]] = "pending"
       \/ pc[t] \in InlinePlaces /\ job[mine[t]] = "inline"

(* Cookies are given in turn, and a call that has not been handed to the    *)
(* workqueue, or is made synchronously, is of one thread.                   *)
JobsOK ==
    /\ \A c \in Cookies : job[c] = "none" <=> c >= next_cookie
    /\ \A t \in Threads : pc[t] \in {"queue", "inline", "inline_end"} => mine[t] # 0
    /\ \A t \in Threads : mine[t] # 0 => OwnCall(t)
    /\ \A t, u \in Threads : mine[t] = mine[u] /\ mine[t] # 0 => t = u

CallsOK == Shape /\ BookOK /\ JobsOK

(* The numbers involved. *)
LEMMA Numbers ==
    /\ MaxCookie \in Nat /\ MAX_WORK \in Nat /\ IsFiniteSet(Threads)
    /\ Cookies = 1 .. MaxCookie
    /\ Default \in Domains
    /\ Cardinality(Threads) \in Nat
BY AsyncAssumption, FS_CardinalityType DEF Cookies

(* Sets of threads, and what happens to them when one joins or leaves. *)
LEMMA ThreadSets ==
    ASSUME NEW S \in SUBSET Threads
    PROVE  /\ IsFiniteSet(S) /\ Cardinality(S) \in Nat /\ Cardinality(S) <= Cardinality(Threads)
           /\ \A t : t \notin S => Cardinality(S \cup {t}) = Cardinality(S) + 1
           /\ \A t \in S : Cardinality(S \ {t}) = Cardinality(S) - 1
<1>1. IsFiniteSet(S) /\ Cardinality(S) <= Cardinality(Threads)
  BY Numbers, FS_Subset
<1> QED  BY <1>1, FS_CardinalityType, FS_AddElement, FS_RemoveElement

(* A record that waits for nothing, and one that does. *)
LEMMA SyncRecords ==
    /\ NoSync \in SyncTypes
    /\ \A x \in 0 .. MaxCookie + 1, d \in Domains : [NoSync EXCEPT !.cookie = x, !.dom = d] \in SyncTypes
    /\ \A x \in 0 .. MaxCookie + 1 : [NoSync EXCEPT !.full = TRUE, !.before = x] \in SyncTypes
    /\ \A s \in SyncTypes, x \in 0 .. MaxCookie + 1 : [s EXCEPT !.cookie = x] \in SyncTypes
    /\ \A s \in SyncTypes, d \in Domains : [s EXCEPT !.dom = d] \in SyncTypes
<1>1. 0 \in 0 .. MaxCookie + 1 /\ Default \in Domains
  BY Numbers
<1> QED  BY <1>1 DEF NoSync, SyncTypes

(* The steps that begin or end a wait, or go on with it: no call is         *)
(* touched.                                                                 *)
LEMMA WaitCalls ==
    ASSUME CallsOK, NEW t \in Threads, NEW x \in Places, pc' = [pc EXCEPT ![t] = x],
           pc[t] \notin {"queue", "add", "inline_cookie"},
           x \notin {"queue", "inline", "add", "inline_cookie"},
           x = "inline_end" => mine[t] # 0,
           mine[t] # 0 => x \in InlinePlaces /\ ~sync'[t].full,
           \A u \in Threads \ {t} : sync'[u] = sync[u],
           sync' \in [Threads -> SyncTypes],
           UNCHANGED <<next_cookie, dom, job, mine>>
    PROVE  CallsOK'
<1>1. pc'[t] = x /\ \A u \in Threads \ {t} : pc'[u] = pc[u]
  BY DEF CallsOK, Shape
<1>2. Shape'
  BY DEF CallsOK, Shape
<1>3. Booked' = Booked
  BY <1>1 DEF Booked
<1>4. BookOK'
  BY <1>3 DEF CallsOK, BookOK
<1>5. JobsOK'
  BY <1>1 DEF CallsOK, JobsOK, OwnCall
<1> QED  BY <1>2, <1>4, <1>5 DEF CallsOK

(* The steps of work items: a call that has been handed over goes on. *)
LEMMA GoingOn ==
    ASSUME CallsOK, job' \in [Cookies -> JobStates], UNCHANGED <<next_cookie, dom, mine, sync>>,
           pc' \in [Threads -> Places],
           \A t \in Threads : pc'[t] = pc[t] \/ (pc[t] = "asleep" /\ pc'[t] = "wait"),
           \A c \in Cookies : \/ job'[c] = job[c]
                              \/ job[c] \notin {"none", "pending", "inline"} /\ job'[c] # "none"
    PROVE  CallsOK'
<1>1. Shape'
  BY DEF CallsOK, Shape
<1>2. Booked' = Booked
  BY DEF Booked
<1>3. BookOK'
  BY <1>2 DEF CallsOK, BookOK
<1>4. JobsOK'
  BY DEF CallsOK, JobsOK, OwnCall, InlinePlaces
<1> QED  BY <1>1, <1>3, <1>4 DEF CallsOK

(* A cookie is taken. *)
LEMMA CookieTaken ==
    ASSUME CallsOK, NEW t \in Threads, NEW x \in {"queue", "inline"}, NEW s \in {"pending", "inline"},
           pc[t] \in {"add", "inline_cookie"}, NewCookie(t), SetJob(next_cookie, s), Goto(t, x),
           x = "queue" <=> s = "pending"
    PROVE  CallsOK' /\ next_cookie \in Cookies /\ job[next_cookie] = "none"
<1>1. /\ Booked \subseteq Threads /\ t \in Booked
      /\ Cardinality(Booked) \in Nat /\ Cardinality(Booked \ {t}) = Cardinality(Booked) - 1
      /\ Cardinality(Booked \ {t}) \in Nat
  <2>1. Booked \in SUBSET Threads /\ t \in Booked /\ Booked \ {t} \in SUBSET Threads
    BY DEF Booked
  <2> QED  BY <2>1, ThreadSets
<1>2. next_cookie \in Cookies /\ next_cookie \in Nat
  BY <1>1, Numbers DEF CallsOK, Shape, BookOK
<1>3. job[next_cookie] = "none"
  BY <1>2 DEF CallsOK, JobsOK
<1>4. /\ next_cookie' = next_cookie + 1
      /\ mine'[t] = next_cookie /\ \A u \in Threads \ {t} : mine'[u] = mine[u]
      /\ pc'[t] = x /\ \A u \in Threads \ {t} : pc'[u] = pc[u]
      /\ job'[next_cookie] = s /\ \A c \in Cookies \ {next_cookie} : job'[c] = job[c]
      /\ sync'[t].full = FALSE /\ \A u \in Threads \ {t} : sync'[u] = sync[u]
  BY <1>2 DEF NewCookie, NoSync, SetJob, Goto, CallsOK, Shape
<1>5. Booked' = Booked \ {t}
  BY <1>4 DEF Booked
<1>6. BookOK'
  BY <1>1, <1>2, <1>4, <1>5, Numbers DEF CallsOK, BookOK
<1>7. Shape'
  <2>1. next_cookie' \in 1 .. MaxCookie + 1
    BY <1>2, <1>4, Numbers
  <2>2. dom' \in [Cookies -> Domains] /\ sync' \in [Threads -> SyncTypes]
    <3>1. sync[t].dom \in Domains
      BY DEF CallsOK, Shape, SyncTypes
    <3> QED  BY <3>1, SyncRecords DEF NewCookie, CallsOK, Shape
  <2>3. job' \in [Cookies -> JobStates] /\ pc' \in [Threads -> Places]
    BY DEF SetJob, Goto, CallsOK, Shape, JobStates, Places
  <2>4. mine' \in [Threads -> 0 .. MaxCookie]
    BY <1>2, Numbers DEF NewCookie, CallsOK, Shape
  <2> QED  BY <2>1, <2>2, <2>3, <2>4 DEF Shape
<1>8. JobsOK'
  <2>1. \A c \in Cookies : job'[c] = "none" <=> c >= next_cookie'
    <3>1. \A c \in Cookies : c \in Int
      BY Numbers
    <3> QED  BY <1>2, <1>4, <3>1 DEF CallsOK, JobsOK
  <2>2. \A u \in Threads : mine[u] # 0 => mine[u] # next_cookie /\ mine[u] \in Cookies
    BY <1>3 DEF CallsOK, JobsOK, OwnCall
  <2>3. ASSUME NEW u \in Threads
        PROVE  /\ pc'[u] \in {"queue", "inline", "inline_end"} => mine'[u] # 0
               /\ mine'[u] # 0 => OwnCall(u)'
    <3>1. CASE u = t
      <4>1. next_cookie # 0
        BY <1>2, Numbers
      <4> QED  BY <1>2, <1>4, <3>1, <4>1 DEF OwnCall, InlinePlaces
    <3>2. CASE u # t
      BY <1>4, <2>2, <3>2 DEF CallsOK, JobsOK, OwnCall
    <3> QED  BY <3>1, <3>2
  <2>4. ASSUME NEW u \in Threads, NEW v \in Threads, mine'[u] # 0, mine'[u] = mine'[v]
        PROVE  u = v
    <3>1. CASE u # t /\ v # t
      BY <1>4, <2>4, <3>1 DEF CallsOK, JobsOK
    <3>2. CASE (u = t) # (v = t)
      BY <1>4, <2>2, <2>4, <3>2
    <3> QED  BY <3>1, <3>2
  <2> QED  BY <2>1, <2>3, <2>4 DEF JobsOK
<1> QED  BY <1>2, <1>3, <1>6, <1>7, <1>8 DEF CallsOK

(* The caller lets go of the call it has made. *)
LEMMA CallMade ==
    ASSUME CallsOK, NEW t \in Threads, NEW s \in {"queued", "done"},
           pc[t] \in {"queue", "inline", "inline_end"}, SetJob(mine[t], s), Goto(t, "idle"),
           mine' = [mine EXCEPT ![t] = 0], UNCHANGED <<next_cookie, dom, sync>>
    PROVE  CallsOK'
<1>1. mine[t] \in Cookies /\ mine[t] # 0 /\ job[mine[t]] # "none"
  BY DEF CallsOK, JobsOK, OwnCall
<1>2. /\ mine'[t] = 0 /\ \A u \in Threads \ {t} : mine'[u] = mine[u]
      /\ pc'[t] = "idle" /\ \A u \in Threads \ {t} : pc'[u] = pc[u]
      /\ job'[mine[t]] = s /\ \A c \in Cookies : c # mine[t] => job'[c] = job[c]
  BY <1>1 DEF SetJob, Goto, CallsOK, Shape
<1>3. Shape'
  <2>1. mine' \in [Threads -> 0 .. MaxCookie]
    BY Numbers DEF CallsOK, Shape
  <2>2. job' \in [Cookies -> JobStates] /\ pc' \in [Threads -> Places]
    BY DEF SetJob, Goto, CallsOK, Shape, JobStates, Places
  <2> QED  BY <2>1, <2>2 DEF CallsOK, Shape
<1>4. Booked' = Booked
  BY <1>2 DEF Booked
<1>5. BookOK'
  BY <1>4 DEF CallsOK, BookOK
<1>6. JobsOK'
  <2>1. \A u \in Threads \ {t} : mine[u] # 0 => mine[u] # mine[t] /\ mine[u] \in Cookies
    BY DEF CallsOK, JobsOK, OwnCall
  <2>2. \A c \in Cookies : job'[c] = "none" <=> c >= next_cookie'
    BY <1>1, <1>2 DEF CallsOK, JobsOK
  <2>3. ASSUME NEW u \in Threads
        PROVE  /\ pc'[u] \in {"queue", "inline", "inline_end"} => mine'[u] # 0
               /\ mine'[u] # 0 => OwnCall(u)'
    BY <1>2, <2>1 DEF CallsOK, JobsOK, OwnCall
  <2>4. \A u, v \in Threads : mine'[u] = mine'[v] /\ mine'[u] # 0 => u = v
    BY <1>2 DEF CallsOK, JobsOK
  <2> QED  BY <2>2, <2>3, <2>4 DEF JobsOK
<1> QED  BY <1>3, <1>5, <1>6 DEF CallsOK

(* The steps of threads. *)
LEMMA ThreadCalls ==
    ASSUME CallsOK, NEW t \in Threads, Call(t) \/ ThreadStep(t)
    PROVE  CallsOK'
<1>0. /\ next_cookie \in 0 .. MaxCookie + 1 /\ sync \in [Threads -> SyncTypes] /\ sync[t] \in SyncTypes
      /\ pc \in [Threads -> Places]
  BY Numbers DEF CallsOK, Shape
<1>1. ASSUME NEW d \in Domains, async_schedule_domain(t, d)  PROVE CallsOK'
  <2>1. /\ pc[t] = "idle" /\ MaySchedule /\ UNCHANGED <<next_cookie, dom, job, mine>>
        /\ sync' = [sync EXCEPT ![t].dom = d]
        /\ pc' = [pc EXCEPT ![t] = "add"] \/ pc' = [pc EXCEPT ![t] = "inline_cookie"]
    BY <1>1 DEF async_schedule_domain, Goto
  <2>2. /\ pc'[t] \in {"add", "inline_cookie"} /\ \A u \in Threads \ {t} : pc'[u] = pc[u]
        /\ pc' \in [Threads -> Places]
    BY <1>0, <2>1 DEF Places
  <2>3. Booked' = Booked \cup {t} /\ t \notin Booked
    BY <2>1, <2>2 DEF Booked
  <2>4. Booked \in SUBSET Threads
    BY DEF Booked
  <2>5. Cardinality(Booked') = Cardinality(Booked) + 1 /\ Cardinality(Booked) \in Nat
    BY <2>3, <2>4, ThreadSets
  <2>6. next_cookie + Cardinality(Booked) <= MaxCookie
    BY <2>1 DEF MaySchedule, Booked
  <2>7. BookOK'
    BY <1>0, <2>1, <2>5, <2>6, Numbers DEF BookOK
  <2>8. sync' \in [Threads -> SyncTypes]
    <3>1. sync' = [sync EXCEPT ![t] = [sync[t] EXCEPT !.dom = d]]
      BY <2>1
    <3> QED  BY <1>0, <3>1, SyncRecords
  <2>9. Shape'
    BY <2>1, <2>2, <2>8 DEF CallsOK, Shape
  <2>10. JobsOK'
    BY <2>1, <2>2 DEF CallsOK, JobsOK, OwnCall, InlinePlaces
  <2> QED  BY <2>7, <2>9, <2>10 DEF CallsOK
<1>2. ASSUME NEW x \in {"wait", "asleep", "inline_end", "full", "full_running", "full_pending", "idle"},
             pc[t] \notin {"queue", "add", "inline_cookie"},
             x = "inline_end" => mine[t] # 0,
             Goto(t, x), UNCHANGED <<next_cookie, dom, job, mine>>,
             NEW s \in SyncTypes, sync' = [sync EXCEPT ![t] = s],
             pc[t] \in InlinePlaces /\ mine[t] # 0 => x \in InlinePlaces /\ ~s.full
      PROVE  CallsOK'
  <2>1. /\ sync' \in [Threads -> SyncTypes] /\ x \in Places
        /\ sync'[t] = s /\ \A u \in Threads \ {t} : sync'[u] = sync[u]
    BY <1>0, <1>2 DEF Places
  <2>2. mine[t] # 0 => pc[t] \in InlinePlaces
    BY <1>2 DEF CallsOK, JobsOK, OwnCall
  <2> QED  BY <1>2, <2>1, <2>2, WaitCalls DEF Goto
<1>3. sync = [sync EXCEPT ![t] = sync[t]]
  BY <1>0
<1>4. ASSUME NEW c \in Cookies, NEW d \in Domains, async_synchronize_cookie_domain(t, c, d)
      PROVE  CallsOK'
  <2>1. c \in 0 .. MaxCookie + 1
    BY Numbers
  <2>2. [NoSync EXCEPT !.cookie = c, !.dom = d] \in SyncTypes
    BY <2>1, SyncRecords
  <2> QED  BY <1>2, <1>4, <2>2 DEF async_synchronize_cookie_domain, InlinePlaces
<1>5. ASSUME NEW d \in Domains, async_synchronize_full_domain(t, d)  PROVE CallsOK'
  <2>1. [NoSync EXCEPT !.cookie = next_cookie, !.dom = d] \in SyncTypes
    BY <1>0, SyncRecords
  <2> QED  BY <1>2, <1>5, <2>1 DEF async_synchronize_full_domain, InlinePlaces
<1>6. CASE async_synchronize_full(t)
  <2>1. [NoSync EXCEPT !.full = TRUE, !.before = next_cookie] \in SyncTypes
    BY <1>0, SyncRecords
  <2> QED  BY <1>2, <1>6, <2>1 DEF async_synchronize_full, InlinePlaces
<1>7. CASE FullReadCookie(t)
  <2>1. [sync[t] EXCEPT !.cookie = next_cookie] \in SyncTypes
    BY <1>0, SyncRecords
  <2>2. sync' = [sync EXCEPT ![t] = [sync[t] EXCEPT !.cookie = next_cookie]]
    BY <1>7 DEF FullReadCookie, FullCookie
  <2> QED  BY <1>2, <1>7, <2>1, <2>2 DEF FullReadCookie, InlinePlaces
<1>8. CASE FullTestRunning(t)
  <2>1. PICK x \in {"full", "full_pending"} : Goto(t, x)
    BY <1>8 DEF FullTestRunning
  <2> QED  BY <1>0, <1>2, <1>3, <1>8, <2>1 DEF FullTestRunning, InlinePlaces
<1>9. CASE FullTestPending(t)
  <2>1. PICK x \in {"full", "idle"} : Goto(t, x)
    BY <1>9 DEF FullTestPending
  <2>2. sync' = [sync EXCEPT ![t] = sync[t]] \/ sync' = [sync EXCEPT ![t] = NoSync]
    BY <1>3, <1>9 DEF FullTestPending
  <2> QED  BY <1>0, <1>2, <1>9, <2>1, <2>2, SyncRecords DEF FullTestPending, InlinePlaces
<1>10. CASE wait_event(t)
  <2>1. mine[t] # 0 => ~sync[t].full
    BY DEF CallsOK, JobsOK, OwnCall
  <2>2. PICK x \in {"full_running", "inline_end", "idle", "asleep"} :
                /\ Goto(t, x)
                /\ x = "inline_end" => mine[t] # 0
                /\ mine[t] # 0 => x \in InlinePlaces
    BY <1>10, <2>1 DEF wait_event, InlinePlaces
  <2>3. /\ pc[t] = "wait" /\ UNCHANGED <<next_cookie, dom, job, mine>>
        /\ sync' = [sync EXCEPT ![t] = sync[t]] \/ sync' = [sync EXCEPT ![t] = NoSync]
    BY <1>3, <1>10 DEF wait_event
  <2>4. NoSync.full = FALSE /\ NoSync \in SyncTypes
    BY SyncRecords DEF NoSync
  <2> QED  BY <1>0, <1>2, <2>1, <2>2, <2>3, <2>4
<1>11. CASE AddPending(t)
  BY <1>11, CookieTaken DEF AddPending
<1>12. CASE InlineCookie(t)
  BY <1>12, CookieTaken DEF InlineCookie
<1>13. CASE queue_work(t)
  BY <1>13, CallMade DEF queue_work
<1>14. CASE RunInline(t)
  BY <1>14, CallMade DEF RunInline
<1>15. CASE InlineWait(t)
  <2>1. /\ pc[t] = "inline" /\ mine[t] \in Cookies /\ mine[t] \in 0 .. MaxCookie + 1
        /\ dom[mine[t]] \in Domains
    BY <1>15, Numbers DEF InlineWait, CallsOK, Shape, JobsOK, OwnCall
  <2> DEFINE s == [NoSync EXCEPT !.cookie = mine[t], !.dom = dom[mine[t]]]
  <2>2. s \in SyncTypes /\ s.full = FALSE
    BY <2>1, SyncRecords DEF NoSync
  <2>3. /\ sync' = [sync EXCEPT ![t] = s] /\ Goto(t, "wait")
        /\ UNCHANGED <<next_cookie, dom, job, mine>>
    BY <1>15 DEF InlineWait
  <2> HIDE DEF s
  <2> QED  BY <1>2, <2>1, <2>2, <2>3 DEF InlinePlaces
<1> QED
  BY <1>1, <1>4, <1>5, <1>6, <1>7, <1>8, <1>9, <1>10, <1>11, <1>12, <1>13, <1>14, <1>15
     DEF Call, ThreadStep

(* The steps of work items. *)
LEMMA WorkCalls ==
    ASSUME CallsOK, NEW c \in Cookies, JobStep(c)
    PROVE  CallsOK'
<1>0. job \in [Cookies -> JobStates] /\ pc \in [Threads -> Places]
  BY DEF CallsOK, Shape
<1>1. ASSUME NEW s \in JobStates \ {"none"}, SetJob(c, s),
             job[c] \notin {"none", "pending", "inline"},
             UNCHANGED <<next_cookie, dom, mine, sync, pc>>
      PROVE  CallsOK'
  <2>1. job' \in [Cookies -> JobStates] /\ job'[c] = s /\ \A b \in Cookies \ {c} : job'[b] = job[b]
    BY <1>0, <1>1 DEF SetJob
  <2> QED  BY <1>0, <1>1, <2>1, GoingOn
<1>2. CASE MoveToRunning(c)
  BY <1>1, <1>2 DEF MoveToRunning, JobStates
<1>3. CASE Func(c)
  <2>1. PICK s \in {"finish", "wait", "asleep"} : SetJob(c, s)
    BY <1>3 DEF Func
  <2> QED  BY <1>1, <1>3, <2>1 DEF Func, JobStates
<1>4. CASE RemoveEntry(c)
  BY <1>1, <1>4 DEF RemoveEntry, JobStates
<1>5. CASE WakeWaiters(c)
  <2>1. /\ job' = [i \in Cookies |-> IF i = c THEN "done" ELSE Woken(job[i])]
        /\ pc' = [t \in Threads |-> Woken(pc[t])] /\ job[c] = "removed"
        /\ UNCHANGED <<next_cookie, dom, mine, sync>>
    BY <1>5 DEF WakeWaiters
  <2>2. job' \in [Cookies -> JobStates] /\ pc' \in [Threads -> Places]
    BY <1>0, <2>1 DEF Woken, JobStates, Places
  <2>3. /\ \A t \in Threads : pc'[t] = pc[t] \/ (pc[t] = "asleep" /\ pc'[t] = "wait")
        /\ \A b \in Cookies : \/ job'[b] = job[b]
                              \/ job[b] \notin {"none", "pending", "inline"} /\ job'[b] # "none"
    BY <2>1 DEF Woken
  <2> QED  BY <2>1, <2>2, <2>3, GoingOn
<1> QED  BY <1>2, <1>3, <1>4, <1>5 DEF JobStep

(* In every reachable state the calls are in order. *)
LEMMA CallsHold == Spec => []CallsOK
<1>1. Init => CallsOK
  <2> SUFFICES ASSUME Init  PROVE CallsOK
    OBVIOUS
  <2>1. Booked = {} /\ Cardinality({}) = 0
    BY FS_EmptySet DEF Init, Booked
  <2>2. Shape
    <3>1. next_cookie \in 1 .. MaxCookie + 1 /\ mine \in [Threads -> 0 .. MaxCookie]
      BY Numbers DEF Init
    <3>2. job \in [Cookies -> JobStates] /\ pc \in [Threads -> Places]
      BY DEF Init, JobStates, Places
    <3>3. dom \in [Cookies -> Domains] /\ sync \in [Threads -> SyncTypes]
      BY Numbers, SyncRecords DEF Init
    <3> QED  BY <3>1, <3>2, <3>3 DEF Shape
  <2>3. BookOK
    BY <2>1, Numbers DEF Init, BookOK
  <2>4. JobsOK
    BY Numbers DEF Init, JobsOK, OwnCall
  <2> QED  BY <2>2, <2>3, <2>4 DEF CallsOK
<1>2. CallsOK /\ [Next]_vars => CallsOK'
  <2> SUFFICES ASSUME CallsOK, [Next]_vars  PROVE CallsOK'
    OBVIOUS
  <2>1. CASE UNCHANGED vars
    BY <2>1 DEF vars, CallsOK, Shape, BookOK, JobsOK, OwnCall, Booked
  <2> QED  BY <2>1, ThreadCalls, WorkCalls DEF Next
<1> QED  BY <1>1, <1>2, PTL DEF Spec

-----------------------------------------------------------------------------
(* Lists. *)

(* Entries stand in the order of their cookies, but for the pairs in P. *)
InOrder(s, P) == \A i, j \in 1 .. Len(s) : i < j => s[i] < s[j] \/ <<s[j], s[i]>> \in P

(* Its elements in the terms of its length. *)
LEMMA Elements ==
    ASSUME NEW S, NEW list \in Seq(S)
    PROVE  /\ Len(list) \in Nat /\ DOMAIN list = 1 .. Len(list)
           /\ \A i \in 1 .. Len(list) : list[i] \in S
           /\ Range(list) = {list[i] : i \in 1 .. Len(list)}
           /\ \A x : x \in Range(list) <=> \E i \in 1 .. Len(list) : list[i] = x
           /\ list = <<>> <=> Range(list) = {}
<1>1. Len(list) \in Nat /\ DOMAIN list = 1 .. Len(list) /\ \A i \in 1 .. Len(list) : list[i] \in S
  OBVIOUS
<1>2. Range(list) = {list[i] : i \in 1 .. Len(list)}
  BY <1>1 DEF Range
<1>3. \A x : x \in Range(list) <=> \E i \in 1 .. Len(list) : list[i] = x
  BY <1>2
<1>4. list = <<>> => Range(list) = {}
  BY DEF Range
<1>5. list # <<>> => list[1] \in Range(list)
  <2>1. list # <<>> => 1 \in 1 .. Len(list)
    BY <1>1
  <2> QED  BY <1>3, <2>1
<1> QED  BY <1>1, <1>2, <1>3, <1>4, <1>5

(* list_add_tail() of a new entry. *)
LEMMA AddTail ==
    ASSUME NEW list \in Seq(Cookies), NEW c \in Cookies, c \notin Range(list), IsInjective(list)
    PROVE  /\ Append(list, c) \in Seq(Cookies)
           /\ Range(Append(list, c)) = Range(list) \cup {c}
           /\ IsInjective(Append(list, c))
           /\ \A P : InOrder(list, P) /\ (\A x \in Range(list) : x < c \/ <<c, x>> \in P)
                        => InOrder(Append(list, c), P)
<1> DEFINE n == Len(list)
           new == Append(list, c)
<1>0. n \in Nat /\ DOMAIN list = 1 .. n /\ \A x : x \in Range(list) <=> \E i \in 1 .. n : list[i] = x
  BY Elements
<1>1. /\ new \in Seq(Cookies) /\ Len(new) = n + 1 /\ DOMAIN new = 1 .. n + 1 /\ new[n + 1] = c
      /\ \A i \in 1 .. n : new[i] = list[i]
  BY AppendProperties
<1> HIDE DEF new, n
<1>2. \A x : x \in Range(new) <=> \E i \in 1 .. n + 1 : new[i] = x
  BY <1>1, Elements
<1>3. \A i \in 1 .. n + 1 : i \in 1 .. n \/ i = n + 1
  BY <1>0
<1>4. n + 1 \in 1 .. n + 1 /\ \A i \in 1 .. n : i \in 1 .. n + 1
  BY <1>0
<1>5. Range(new) = Range(list) \cup {c}
  <2>1. ASSUME NEW x  PROVE x \in Range(new) <=> x \in Range(list) \/ x = c
    BY <1>0, <1>1, <1>2, <1>3, <1>4
  <2> QED  BY <2>1
<1>6. \A i \in 1 .. n : list[i] # c
  BY <1>0
<1>7. IsInjective(new)
  <2> SUFFICES ASSUME NEW i \in 1 .. n + 1, NEW j \in 1 .. n + 1, new[i] = new[j]  PROVE i = j
    BY <1>1 DEF IsInjective
  <2>1. CASE i \in 1 .. n /\ j \in 1 .. n
    BY <1>0, <1>1, <2>1 DEF IsInjective
  <2>2. CASE i = n + 1 \/ j = n + 1
    BY <1>1, <1>3, <1>6, <2>2
  <2> QED  BY <1>3, <2>1, <2>2
<1>8. ASSUME NEW P, InOrder(list, P), \A x \in Range(list) : x < c \/ <<c, x>> \in P
      PROVE  InOrder(new, P)
  <2> SUFFICES ASSUME NEW i \in 1 .. n + 1, NEW j \in 1 .. n + 1, i < j
               PROVE  new[i] < new[j] \/ <<new[j], new[i]>> \in P
    BY <1>1 DEF InOrder
  <2>1. i \in 1 .. n
    BY <1>0
  <2>2. CASE j \in 1 .. n
    BY <1>1, <1>8, <2>1, <2>2 DEF InOrder, n
  <2>3. CASE j = n + 1
    BY <1>0, <1>1, <1>8, <2>1, <2>3
  <2> QED  BY <1>3, <2>2, <2>3
<1> QED  BY <1>1, <1>5, <1>7, <1>8 DEF new

(* list_del() of an entry. *)
LEMMA DelEntry ==
    ASSUME NEW list \in Seq(Cookies), NEW c \in Range(list), IsInjective(list)
    PROVE  /\ list_del(list, c) \in Seq(Cookies)
           /\ Range(list_del(list, c)) = Range(list) \ {c}
           /\ IsInjective(list_del(list, c))
           /\ \A P : InOrder(list, P) => InOrder(list_del(list, c), P)
<1> DEFINE n == Len(list)
           at == CHOOSE i \in DOMAIN list : list[i] = c
           new == [i \in 1 .. n - 1 |-> IF i < at THEN list[i] ELSE list[i + 1]]
<1>0. n \in Nat /\ DOMAIN list = 1 .. n /\ \A x : x \in Range(list) <=> \E i \in 1 .. n : list[i] = x
  BY Elements
<1>1. at \in 1 .. n /\ list[at] = c
  BY <1>0
<1>2. list_del(list, c) = new
  BY DEF list_del
<1>3. \A i \in 1 .. n : list[i] \in Cookies
  BY Elements
<1> HIDE DEF n, at
<1>4. \A i \in 1 .. n - 1 : i \in 1 .. n /\ i + 1 \in 1 .. n
  BY <1>0
<1>5. n - 1 \in Nat /\ DOMAIN new = 1 .. n - 1 /\ \A i \in 1 .. n - 1 : new[i] \in Cookies
  BY <1>0, <1>1, <1>3, <1>4
<1>6. new \in Seq(Cookies) /\ Len(new) = n - 1
  BY <1>5, SeqDef
<1>7. /\ \A i \in 1 .. n - 1 : i < at => new[i] = list[i]
      /\ \A i \in 1 .. n - 1 : ~(i < at) => new[i] = list[i + 1]
  OBVIOUS
<1> HIDE DEF new
<1>8. \A x : x \in Range(new) <=> \E i \in 1 .. n - 1 : new[i] = x
  BY <1>6, Elements
<1>9. \A i, j \in 1 .. n : list[i] = list[j] => i = j
  BY <1>0 DEF IsInjective
<1>10. Range(new) = Range(list) \ {c}
  <2>1. ASSUME NEW x \in Range(new)  PROVE x \in Range(list) /\ x # c
    <3>1. PICK i \in 1 .. n - 1 : new[i] = x
      BY <1>8, <2>1
    <3>2. CASE i < at
      BY <1>0, <1>1, <1>4, <1>7, <1>9, <3>1, <3>2
    <3>3. CASE ~(i < at)
      <4>1. i + 1 # at /\ i + 1 \in 1 .. n
        BY <1>1, <1>4, <3>3
      <4> QED  BY <1>0, <1>1, <1>7, <1>9, <3>1, <3>3, <4>1
    <3> QED  BY <3>2, <3>3
  <2>2. ASSUME NEW x \in Range(list), x # c  PROVE x \in Range(new)
    <3>1. PICK i \in 1 .. n : list[i] = x
      BY <1>0, <2>2
    <3>2. CASE i < at
      <4>1. i \in 1 .. n - 1
        BY <1>0, <1>1, <3>2
      <4> QED  BY <1>7, <1>8, <3>1, <3>2, <4>1
    <3>3. CASE ~(i < at)
      <4>1. i - 1 \in 1 .. n - 1 /\ ~(i - 1 < at) /\ (i - 1) + 1 = i
        BY <1>0, <1>1, <2>2, <3>1, <3>3
      <4>2. new[i - 1] = list[i]
        BY <1>7, <4>1
      <4> QED  BY <1>8, <3>1, <4>1, <4>2
    <3> QED  BY <3>2, <3>3
  <2> QED  BY <2>1, <2>2
<1> DEFINE old(i) == IF i < at THEN i ELSE i + 1
<1>11. /\ \A i \in 1 .. n - 1 : old(i) \in 1 .. n /\ new[i] = list[old(i)]
       /\ \A i, j \in 1 .. n - 1 : (old(i) = old(j) => i = j) /\ (i < j => old(i) < old(j))
  BY <1>0, <1>1, <1>4, <1>7
<1> HIDE DEF old
<1>12. IsInjective(new)
  <2>1. DOMAIN new = 1 .. n - 1
    BY <1>6
  <2> QED  BY <1>9, <1>11, <2>1 DEF IsInjective
<1>13. ASSUME NEW P, InOrder(list, P)  PROVE InOrder(new, P)
  BY <1>6, <1>11, <1>13 DEF InOrder, n
<1> QED  BY <1>2, <1>6, <1>10, <1>12, <1>13
-----------------------------------------------------------------------------
(* The entries on the lists. *)

Live == Pending \cup Running

ListTypes == async_pending \in Seq(Cookies) /\ running \in [Domains -> Seq(Cookies)]

ListsOK ==
    /\ Range(async_pending) = Pending /\ IsInjective(async_pending)
    /\ \A d \in Domains :
          /\ Range(running[d]) = {c \in Running : dom[c] = d}
          /\ IsInjective(running[d])

(* Threads that have looked at the count and not yet added their entry are  *)
(* counted as well.                                                         *)
CountOK ==
    /\ entry_count = Cardinality(Live)
    /\ entry_count + Cardinality(Adding) <= MAX_WORK + Cardinality(Threads)

EntriesOK == ListTypes /\ ListsOK /\ CountOK

(* Of the three only the count is about numbers. *)
LEMMA LiveCounts ==
    /\ IsFiniteSet(Live) /\ Cardinality(Live) \in Nat
    /\ \A c : c \notin Live => Cardinality(Live \cup {c}) = Cardinality(Live) + 1
    /\ \A c \in Live : Cardinality(Live \ {c}) = Cardinality(Live) - 1 /\ Cardinality(Live) - 1 \in Nat
    /\ Adding \subseteq Threads /\ Cardinality(Adding) \in Nat
    /\ Cardinality(Adding) <= Cardinality(Threads)
<1>1. IsFiniteSet(Cookies) /\ Live \subseteq Cookies
  <2>1. MaxCookie \in Int /\ Cookies = 1 .. MaxCookie /\ 1 \in Int
    BY Numbers
  <2>2. IsFiniteSet(Cookies)
    BY <2>1, FS_Interval
  <2> QED  BY <2>2 DEF Live, Pending, Running
<1>2. IsFiniteSet(Live)
  BY <1>1, FS_Subset
<1>3. Cardinality(Live) \in Nat
  BY <1>2, FS_CardinalityType
<1>4. \A c : c \notin Live => Cardinality(Live \cup {c}) = Cardinality(Live) + 1
  BY <1>2, FS_AddElement
<1>5. ASSUME NEW c \in Live
      PROVE  Cardinality(Live \ {c}) = Cardinality(Live) - 1 /\ Cardinality(Live) - 1 \in Nat
  <2>1. IsFiniteSet(Live \ {c}) /\ Cardinality(Live \ {c}) = Cardinality(Live) - 1
    BY <1>2, FS_RemoveElement
  <2> QED  BY <2>1, FS_CardinalityType
<1>6. Adding \in SUBSET Threads
  BY DEF Adding
<1> QED  BY <1>2, <1>3, <1>4, <1>5, <1>6, ThreadSets

(* A step that leaves the entries alone. *)
LEMMA SameEntries ==
    ASSUME EntriesOK, UNCHANGED <<async_pending, running, entry_count, dom>>,
           Pending' = Pending, Running' = Running,
           Adding' \subseteq Adding \/ entry_count <= MAX_WORK
    PROVE  EntriesOK'
<1>1. ListTypes' /\ ListsOK'
  BY DEF EntriesOK, ListTypes, ListsOK
<1>2. Live' = Live
  BY DEF Live
<1>3. entry_count \in Nat /\ MAX_WORK \in Nat /\ Cardinality(Threads) \in Nat
  BY LiveCounts, Numbers DEF EntriesOK, CountOK
<1>4. Adding' \in SUBSET Threads
  BY DEF Adding
<1>5. Cardinality(Adding') \in Nat /\ Cardinality(Adding') <= Cardinality(Threads)
  BY <1>4, ThreadSets
<1>6. entry_count' + Cardinality(Adding') <= MAX_WORK + Cardinality(Threads)
  <2>1. CASE Adding' \subseteq Adding
    <3>1. Cardinality(Adding') <= Cardinality(Adding) /\ Cardinality(Adding) \in Nat
      <4>1. Adding \in SUBSET Threads
        BY DEF Adding
      <4>2. IsFiniteSet(Adding)
        BY <4>1, ThreadSets
      <4> QED  BY <2>1, <4>2, FS_Subset, FS_CardinalityType
    <3> QED  BY <1>3, <1>5, <3>1 DEF EntriesOK, CountOK
  <2>2. CASE entry_count <= MAX_WORK
    BY <1>3, <1>5, <2>2
  <2> QED  BY <2>1, <2>2
<1>7. CountOK'
  BY <1>2, <1>6 DEF EntriesOK, CountOK
<1> QED  BY <1>1, <1>7 DEF EntriesOK

(* Which calls have an entry depends on where they are. *)
LEMMA SameSets ==
    ASSUME \A c \in Cookies : \/ job'[c] = job[c]
                              \/ job[c] \in {"pending", "queued"} /\ job'[c] \in {"pending", "queued"}
                              \/ /\ job[c] \in {"func", "wait", "asleep", "finish"}
                                 /\ job'[c] \in {"func", "wait", "asleep", "finish"}
                              \/ /\ job[c] \in {"none", "removed", "done", "inline"}
                                 /\ job'[c] \in {"none", "removed", "done", "inline"}
    PROVE  Pending' = Pending /\ Running' = Running
BY DEF Pending, Running

(* The steps of threads. *)
LEMMA ThreadEntries ==
    ASSUME CallsOK, EntriesOK, NEW t \in Threads, Call(t) \/ ThreadStep(t)
    PROVE  EntriesOK'
<1>0. pc \in [Threads -> Places] /\ job \in [Cookies -> JobStates] /\ dom \in [Cookies -> Domains]
  BY DEF CallsOK, Shape
<1>1. ASSUME UNCHANGED <<async_pending, running, entry_count, dom, job>>, NEW x, Goto(t, x), x # "add"
      PROVE  EntriesOK'
  <2>1. Adding' \subseteq Adding
    BY <1>0, <1>1 DEF Adding, Goto
  <2>2. Pending' = Pending /\ Running' = Running
    BY <1>1 DEF Pending, Running
  <2> QED  BY <1>1, <2>1, <2>2, SameEntries
<1>2. ASSUME NEW d \in Domains, async_schedule_domain(t, d)  PROVE EntriesOK'
  <2>1. CASE Goto(t, "inline_cookie")
    BY <1>1, <1>2, <2>1 DEF async_schedule_domain
  <2>2. CASE WithinLimit
    <3>1. Pending' = Pending /\ Running' = Running
      BY <1>2 DEF async_schedule_domain, Pending, Running
    <3> QED  BY <1>2, <2>2, <3>1, SameEntries DEF async_schedule_domain, WithinLimit
  <2> QED  BY <1>2, <2>1, <2>2 DEF async_schedule_domain
<1>3. ASSUME NEW c \in Cookies, NEW d \in Domains, async_synchronize_cookie_domain(t, c, d)
      PROVE  EntriesOK'
  BY <1>1, <1>3 DEF async_synchronize_cookie_domain
<1>4. ASSUME NEW d \in Domains, async_synchronize_full_domain(t, d)  PROVE EntriesOK'
  BY <1>1, <1>4 DEF async_synchronize_full_domain
<1>5. CASE async_synchronize_full(t)
  BY <1>1, <1>5 DEF async_synchronize_full
<1>6. CASE FullReadCookie(t) \/ FullTestRunning(t) \/ FullTestPending(t) \/ wait_event(t)
  <2>1. PICK x \in {"wait", "full", "full_pending", "full_running", "idle", "asleep", "inline_end"} :
                Goto(t, x)
    BY <1>6 DEF FullReadCookie, FullTestRunning, FullTestPending, wait_event
  <2> QED  BY <1>1, <1>6, <2>1 DEF FullReadCookie, FullTestRunning, FullTestPending, wait_event
<1>7. ASSUME NEW s \in {"queued", "done"}, SetJob(mine[t], s), Goto(t, "idle"),
             (pc[t] = "queue" /\ s = "queued") \/ (pc[t] \in {"inline", "inline_end"} /\ s = "done"),
             UNCHANGED <<async_pending, running, entry_count, dom>>
      PROVE  EntriesOK'
  <2>1. mine[t] \in Cookies /\ job[mine[t]] = IF s = "queued" THEN "pending" ELSE "inline"
    BY <1>7 DEF CallsOK, JobsOK, OwnCall, InlinePlaces
  <2>2. Pending' = Pending /\ Running' = Running
    <3>1. job'[mine[t]] = s /\ \A c \in Cookies : c # mine[t] => job'[c] = job[c]
      BY <1>0, <1>7, <2>1 DEF SetJob
    <3> QED  BY <2>1, <3>1, SameSets
  <2>3. Adding' \subseteq Adding
    BY <1>0, <1>7 DEF Adding, Goto
  <2> QED  BY <1>7, <2>2, <2>3, SameEntries
<1>8. CASE queue_work(t)
  BY <1>7, <1>8 DEF queue_work
<1>9. CASE RunInline(t)
  BY <1>7, <1>9 DEF RunInline
<1>10. ASSUME NEW s \in {"pending", "inline"}, NEW x \in {"queue", "inline"},
              pc[t] \in {"add", "inline_cookie"}, NewCookie(t), SetJob(next_cookie, s), Goto(t, x),
              x = "queue" <=> s = "pending"
       PROVE  /\ next_cookie \in Cookies /\ next_cookie \notin Live
              /\ job'[next_cookie] = s /\ \A c \in Cookies \ {next_cookie} : job'[c] = job[c]
              /\ \A c \in Cookies \ {next_cookie} : dom'[c] = dom[c]
              /\ Adding' = Adding \ {t}
  <2>1. next_cookie \in Cookies /\ job[next_cookie] = "none"
    BY <1>10, CookieTaken
  <2>2. next_cookie \notin Live
    BY <2>1 DEF Live, Pending, Running
  <2>3. /\ job'[next_cookie] = s /\ \A c \in Cookies \ {next_cookie} : job'[c] = job[c]
        /\ \A c \in Cookies \ {next_cookie} : dom'[c] = dom[c]
    BY <1>0, <1>10, <2>1 DEF SetJob, NewCookie
  <2>4. Adding' = Adding \ {t}
    BY <1>0, <1>10 DEF Adding, Goto
  <2> QED  BY <2>1, <2>2, <2>3, <2>4
<1>11. CASE InlineCookie(t)
  <2>1. /\ next_cookie \in Cookies /\ next_cookie \notin Live
        /\ job'[next_cookie] = "inline" /\ \A c \in Cookies \ {next_cookie} : job'[c] = job[c]
        /\ \A c \in Cookies \ {next_cookie} : dom'[c] = dom[c]
        /\ Adding' = Adding \ {t}
    BY <1>10, <1>11 DEF InlineCookie
  <2>2. Pending' = Pending /\ Running' = Running
    BY <2>1 DEF Live, Pending, Running
  <2>3. ListTypes' /\ ListsOK'
    <3>1. \A d \in Domains : {c \in Running' : dom'[c] = d} = {c \in Running : dom[c] = d}
      <4>1. \A c \in Running : c \in Cookies \ {next_cookie}
        BY <2>1 DEF Live, Running
      <4> QED  BY <2>1, <2>2, <4>1
    <3> QED  BY <1>11, <2>2, <3>1 DEF InlineCookie, EntriesOK, ListTypes, ListsOK
  <2>4. CountOK'
    <3>1. Live' = Live
      BY <2>2 DEF Live
    <3>2. Adding \in SUBSET Threads /\ IsFiniteSet(Adding)
      <4>1. Adding \in SUBSET Threads
        BY DEF Adding
      <4> QED  BY <4>1, ThreadSets
    <3>3. Cardinality(Adding') <= Cardinality(Adding) /\ Cardinality(Adding') \in Nat
          /\ Cardinality(Adding) \in Nat
      <4>1. Adding' \subseteq Adding
        BY <2>1
      <4> QED  BY <3>2, <4>1, FS_Subset, FS_CardinalityType
    <3>4. entry_count \in Nat /\ UNCHANGED entry_count
      BY <1>11, LiveCounts DEF InlineCookie, EntriesOK, CountOK
    <3> QED  BY <3>1, <3>3, <3>4, Numbers DEF EntriesOK, CountOK
  <2> QED  BY <2>3, <2>4 DEF EntriesOK
<1>12. CASE AddPending(t)
  <2>0. pc[t] = "add" /\ t \in Adding
    BY <1>12 DEF AddPending, Adding
  <2>1. /\ next_cookie \in Cookies /\ next_cookie \notin Live
        /\ job'[next_cookie] = "pending" /\ \A c \in Cookies \ {next_cookie} : job'[c] = job[c]
        /\ \A c \in Cookies \ {next_cookie} : dom'[c] = dom[c]
        /\ Adding' = Adding \ {t}
    BY <1>10, <1>12 DEF AddPending
  <2>2. Pending' = Pending \cup {next_cookie} /\ Running' = Running
    BY <2>1 DEF Live, Pending, Running
  <2>3. /\ async_pending' = Append(async_pending, next_cookie) /\ UNCHANGED running
        /\ entry_count' = entry_count + 1
    BY <1>12 DEF AddPending
  <2>4. ListTypes' /\ ListsOK'
    <3>1. next_cookie \notin Range(async_pending) /\ async_pending \in Seq(Cookies)
          /\ IsInjective(async_pending)
      BY <2>1 DEF EntriesOK, ListTypes, ListsOK, Live
    <3>2. /\ async_pending' \in Seq(Cookies) /\ IsInjective(async_pending')
          /\ Range(async_pending') = Range(async_pending) \cup {next_cookie}
      BY <2>1, <2>3, <3>1, AddTail
    <3>3. \A d \in Domains : {c \in Running' : dom'[c] = d} = {c \in Running : dom[c] = d}
      <4>1. \A c \in Running : c \in Cookies \ {next_cookie}
        BY <2>1 DEF Live, Running
      <4> QED  BY <2>1, <2>2, <4>1
    <3> QED  BY <2>2, <2>3, <3>2, <3>3 DEF EntriesOK, ListTypes, ListsOK
  <2>5. CountOK'
    <3>1. Live' = Live \cup {next_cookie}
      BY <2>2 DEF Live
    <3>2. Cardinality(Live') = Cardinality(Live) + 1 /\ Cardinality(Live) \in Nat
      BY <2>1, <3>1, LiveCounts
    <3>3. Cardinality(Adding') = Cardinality(Adding) - 1 /\ Cardinality(Adding) \in Nat
      <4>1. Adding \in SUBSET Threads
        BY DEF Adding
      <4> QED  BY <2>0, <2>1, <4>1, ThreadSets
    <3> QED  BY <2>3, <3>2, <3>3, Numbers DEF EntriesOK, CountOK
  <2> QED  BY <2>4, <2>5 DEF EntriesOK
<1>13. CASE InlineWait(t)
  BY <1>1, <1>13 DEF InlineWait
<1> QED
  BY <1>2, <1>3, <1>4, <1>5, <1>6, <1>8, <1>9, <1>11, <1>12, <1>13 DEF Call, ThreadStep

(* The steps of work items. *)
LEMMA WorkEntries ==
    ASSUME CallsOK, EntriesOK, NEW c \in Cookies, JobStep(c)
    PROVE  EntriesOK'
<1>0. /\ job \in [Cookies -> JobStates] /\ dom \in [Cookies -> Domains] /\ dom[c] \in Domains
      /\ async_pending \in Seq(Cookies) /\ running \in [Domains -> Seq(Cookies)]
      /\ running[dom[c]] \in Seq(Cookies)
  BY DEF CallsOK, Shape, EntriesOK, ListTypes
<1>1. CASE MoveToRunning(c)
  <2>1. /\ job[c] = "queued" /\ async_pending' = list_del(async_pending, c)
        /\ running' = [running EXCEPT ![dom[c]] = Append(@, c)]
        /\ UNCHANGED <<entry_count, dom, pc>>
        /\ job' = [job EXCEPT ![c] = "func"]
    BY <1>1 DEF MoveToRunning, SetJob
  <2>2. job'[c] = "func" /\ \A b \in Cookies \ {c} : job'[b] = job[b]
    BY <1>0, <2>1
  <2>3. c \in Pending /\ c \notin Running
    BY <2>1 DEF Pending, Running
  <2>4. Pending' = Pending \ {c} /\ Running' = Running \cup {c}
    BY <2>1, <2>2 DEF Pending, Running
  <2>5. /\ async_pending' \in Seq(Cookies) /\ IsInjective(async_pending')
        /\ Range(async_pending') = Pending'
    <3>1. c \in Range(async_pending) /\ IsInjective(async_pending) /\ Range(async_pending) = Pending
      BY <2>3 DEF EntriesOK, ListsOK
    <3> QED  BY <1>0, <2>1, <2>4, <3>1, DelEntry
  <2> DEFINE r == running[dom[c]]
  <2>6. /\ Append(r, c) \in Seq(Cookies) /\ IsInjective(Append(r, c))
        /\ Range(Append(r, c)) = Range(r) \cup {c}
    <3>1. r \in Seq(Cookies) /\ IsInjective(r) /\ c \notin Range(r)
      BY <1>0, <2>3 DEF EntriesOK, ListsOK
    <3> HIDE DEF r
    <3> QED  BY <3>1, AddTail
  <2>7. running'[dom[c]] = Append(r, c) /\ \A d \in Domains \ {dom[c]} : running'[d] = running[d]
    BY <1>0, <2>1
  <2>8. running' \in [Domains -> Seq(Cookies)]
    BY <1>0, <2>1, <2>6
  <2>9. ASSUME NEW d \in Domains
        PROVE  /\ Range(running'[d]) = {b \in Running' : dom'[b] = d}
               /\ IsInjective(running'[d])
    <3>1. Range(running[d]) = {b \in Running : dom[b] = d} /\ IsInjective(running[d])
      BY DEF EntriesOK, ListsOK
    <3>2. CASE d = dom[c]
      BY <2>1, <2>4, <2>6, <2>7, <3>1, <3>2
    <3>3. CASE d # dom[c]
      BY <2>1, <2>4, <2>7, <3>1, <3>3
    <3> QED  BY <3>2, <3>3
  <2>10. CountOK'
    <3>1. Live' = Live /\ Adding' = Adding
      BY <2>1, <2>3, <2>4 DEF Live, Adding
    <3> QED  BY <2>1, <3>1 DEF EntriesOK, CountOK
  <2> QED  BY <2>5, <2>8, <2>9, <2>10 DEF EntriesOK, ListTypes, ListsOK
<1>2. CASE Func(c)
  <2>1. /\ UNCHANGED <<async_pending, running, entry_count, dom, pc>>
        /\ job[c] \in {"func", "wait"} /\ job'[c] \in {"finish", "wait", "asleep"}
        /\ \A b \in Cookies \ {c} : job'[b] = job[b]
    BY <1>0, <1>2 DEF Func, SetJob
  <2>2. Pending' = Pending /\ Running' = Running
    BY <2>1, SameSets
  <2>3. Adding' \subseteq Adding
    BY <2>1 DEF Adding
  <2> QED  BY <2>1, <2>2, <2>3, SameEntries
<1>3. CASE RemoveEntry(c)
  <2>1. /\ job[c] = "finish" /\ entry_count' = entry_count - 1
        /\ running' = [running EXCEPT ![dom[c]] = list_del(@, c)]
        /\ UNCHANGED <<async_pending, dom, pc>>
        /\ job' = [job EXCEPT ![c] = "removed"]
    BY <1>3 DEF RemoveEntry, SetJob, Discount
  <2>2. job'[c] = "removed" /\ \A b \in Cookies \ {c} : job'[b] = job[b]
    BY <1>0, <2>1
  <2>3. c \in Running /\ c \notin Pending
    BY <2>1 DEF Pending, Running
  <2>4. Pending' = Pending /\ Running' = Running \ {c}
    BY <2>1, <2>2 DEF Pending, Running
  <2> DEFINE r == running[dom[c]]
  <2>6. /\ list_del(r, c) \in Seq(Cookies) /\ IsInjective(list_del(r, c))
        /\ Range(list_del(r, c)) = Range(r) \ {c}
    <3>1. r \in Seq(Cookies) /\ IsInjective(r) /\ c \in Range(r)
      BY <1>0, <2>3 DEF EntriesOK, ListsOK
    <3> HIDE DEF r
    <3> QED  BY <3>1, DelEntry
  <2>7. running'[dom[c]] = list_del(r, c) /\ \A d \in Domains \ {dom[c]} : running'[d] = running[d]
    BY <1>0, <2>1
  <2>8. running' \in [Domains -> Seq(Cookies)]
    BY <1>0, <2>1, <2>6
  <2>9. ASSUME NEW d \in Domains
        PROVE  /\ Range(running'[d]) = {b \in Running' : dom'[b] = d}
               /\ IsInjective(running'[d])
    <3>1. Range(running[d]) = {b \in Running : dom[b] = d} /\ IsInjective(running[d])
      BY DEF EntriesOK, ListsOK
    <3>2. CASE d = dom[c]
      BY <2>1, <2>4, <2>6, <2>7, <3>1, <3>2
    <3>3. CASE d # dom[c]
      BY <2>1, <2>4, <2>7, <3>1, <3>3
    <3> QED  BY <3>2, <3>3
  <2>10. CountOK'
    <3>1. Live' = Live \ {c} /\ c \in Live /\ Adding' = Adding
      BY <2>1, <2>3, <2>4 DEF Live, Adding
    <3>2. /\ Cardinality(Live') = Cardinality(Live) - 1 /\ Cardinality(Live) \in Nat
          /\ Cardinality(Adding) \in Nat
      BY <3>1, LiveCounts
    <3> QED  BY <2>1, <3>1, <3>2, Numbers DEF EntriesOK, CountOK
  <2> QED  BY <2>1, <2>4, <2>8, <2>9, <2>10 DEF EntriesOK, ListTypes, ListsOK
<1>4. CASE WakeWaiters(c)
  <2>1. /\ job' = [i \in Cookies |-> IF i = c THEN "done" ELSE Woken(job[i])]
        /\ pc' = [t \in Threads |-> Woken(pc[t])] /\ job[c] = "removed"
        /\ UNCHANGED <<async_pending, running, entry_count, dom>>
    BY <1>4 DEF WakeWaiters
  <2>2. Pending' = Pending /\ Running' = Running
    BY <2>1, SameSets DEF Woken
  <2>3. Adding' \subseteq Adding
    BY <2>1 DEF Adding, Woken
  <2> QED  BY <2>1, <2>2, <2>3, SameEntries
<1> QED  BY <1>1, <1>2, <1>3, <1>4 DEF JobStep
(* In every reachable state the lists hold the entries. *)
LEMMA EntriesHold == Spec => []EntriesOK
<1>1. Init => EntriesOK
  <2> SUFFICES ASSUME Init  PROVE EntriesOK
    OBVIOUS
  <2>1. Pending = {} /\ Running = {} /\ Adding = {} /\ Live = {}
    BY DEF Init, Pending, Running, Adding, Live
  <2>2. <<>> \in Seq(Cookies) /\ Range(<<>>) = {} /\ IsInjective(<<>>)
    BY DEF Range, IsInjective
  <2>3. ListTypes /\ ListsOK
    BY <2>1, <2>2 DEF Init, ListTypes, ListsOK
  <2>4. CountOK
    BY <2>1, FS_EmptySet, Numbers DEF Init, CountOK
  <2> QED  BY <2>3, <2>4 DEF EntriesOK
<1>2. CallsOK /\ EntriesOK /\ [Next]_vars => EntriesOK'
  <2> SUFFICES ASSUME CallsOK, EntriesOK, [Next]_vars  PROVE EntriesOK'
    OBVIOUS
  <2>1. CASE UNCHANGED vars
    <3>1. Pending' = Pending /\ Running' = Running /\ Adding' = Adding
      BY <2>1 DEF vars, Pending, Running, Adding
    <3> QED  BY <2>1, <3>1, SameEntries DEF vars
  <2> QED  BY <2>1, ThreadEntries, WorkEntries DEF Next
<1> QED  BY <1>1, <1>2, CallsHold, PTL DEF Spec

(* The lists hold exactly the entries that are live, each once, and the     *)
(* count is theirs; threads racing past the check exceed the limit by one   *)
(* each at most.                                                            *)
THEOREM ListsCorrect == Spec => []ListsHoldLiveEntries
<1>1. EntriesOK => ListsHoldLiveEntries
  <2> SUFFICES ASSUME EntriesOK  PROVE ListsHoldLiveEntries
    OBVIOUS
  <2>1. entry_count = Cardinality(Pending \cup Running)
    BY DEF EntriesOK, CountOK, Live
  <2>2. entry_count <= MAX_WORK + Cardinality(Threads)
    BY LiveCounts, Numbers DEF EntriesOK, CountOK
  <2> QED  BY <2>1, <2>2 DEF EntriesOK, ListsOK, ListsHoldLiveEntries
<1> QED  BY <1>1, EntriesHold, PTL

-----------------------------------------------------------------------------
(* Order: the pending list is in the order of the cookies, and wherever a   *)
(* call is ahead of an older one of its domain it has passed it.            *)

OrderOK ==
    /\ passed \in SUBSET (Cookies \X Cookies)
    /\ InOrder(async_pending, {})
    /\ \A d \in Domains : InOrder(running[d], passed)
    /\ \A c \in Running : \A p \in Pending : dom[c] = dom[p] => c < p \/ <<p, c>> \in passed

(* A step that leaves the lists alone. *)
LEMMA SameOrder ==
    ASSUME OrderOK, UNCHANGED <<async_pending, running, passed>>, Pending' = Pending, Running' = Running,
           \A c \in Pending \cup Running : dom'[c] = dom[c]
    PROVE  OrderOK'
BY DEF OrderOK

(* Every step keeps the order. *)
LEMMA OrderStep ==
    ASSUME CallsOK, EntriesOK, OrderOK, [Next]_vars
    PROVE  OrderOK'
<1>0. /\ job \in [Cookies -> JobStates] /\ dom \in [Cookies -> Domains]
      /\ async_pending \in Seq(Cookies) /\ running \in [Domains -> Seq(Cookies)]
      /\ Range(async_pending) = Pending /\ IsInjective(async_pending)
      /\ \A d \in Domains : Range(running[d]) = {c \in Running : dom[c] = d} /\ IsInjective(running[d])
      /\ \A c \in Cookies : c \in Int
  BY Numbers DEF CallsOK, Shape, EntriesOK, ListTypes, ListsOK
<1>1. ASSUME UNCHANGED <<async_pending, running, job, dom, passed>>  PROVE OrderOK'
  <2>1. Pending' = Pending /\ Running' = Running
    BY <1>1 DEF Pending, Running
  <2> QED  BY <1>1, <2>1, SameOrder
<1>2. ASSUME NEW t \in Threads, Call(t)  PROVE OrderOK'
  BY <1>1, <1>2 DEF Call, async_schedule_domain, async_synchronize_cookie_domain,
                    async_synchronize_full_domain, async_synchronize_full
<1>3. ASSUME NEW t \in Threads,
             \/ FullReadCookie(t) \/ FullTestRunning(t) \/ FullTestPending(t) \/ wait_event(t)
             \/ InlineWait(t)
      PROVE  OrderOK'
  BY <1>1, <1>3 DEF FullReadCookie, FullTestRunning, FullTestPending, wait_event, InlineWait
<1>4. ASSUME NEW t \in Threads, queue_work(t) \/ RunInline(t)  PROVE OrderOK'
  <2>1. /\ mine[t] \in Cookies /\ UNCHANGED <<async_pending, running, dom, passed>>
        /\ \/ job[mine[t]] = "pending" /\ job' = [job EXCEPT ![mine[t]] = "queued"]
           \/ job[mine[t]] = "inline" /\ job' = [job EXCEPT ![mine[t]] = "done"]
    BY <1>4 DEF queue_work, RunInline, SetJob, CallsOK, JobsOK, OwnCall, InlinePlaces
  <2>2. Pending' = Pending /\ Running' = Running
    <3>1. \A c \in Cookies : c # mine[t] => job'[c] = job[c]
      BY <1>0, <2>1
    <3>2. \/ job[mine[t]] = "pending" /\ job'[mine[t]] = "queued"
          \/ job[mine[t]] = "inline" /\ job'[mine[t]] = "done"
      BY <1>0, <2>1
    <3> QED  BY <3>1, <3>2, SameSets
  <2> QED  BY <2>1, <2>2, SameOrder
<1>5. ASSUME NEW t \in Threads, InlineCookie(t) \/ AddPending(t)
      PROVE  next_cookie \in Cookies /\ job[next_cookie] = "none"
  <2>1. CASE InlineCookie(t)
    BY <2>1, CookieTaken DEF InlineCookie
  <2>2. CASE AddPending(t)
    BY <2>2, CookieTaken DEF AddPending
  <2> QED  BY <1>5, <2>1, <2>2
<1>5a. ASSUME NEW t \in Threads, NewCookie(t), next_cookie \in Cookies, job[next_cookie] = "none"
       PROVE  \A c \in Pending \cup Running : dom'[c] = dom[c] /\ c < next_cookie
  <2>1. \A c \in Cookies : job[c] # "none" => c < next_cookie
    <3>1. next_cookie \in Int
      BY <1>0, <1>5a
    <3> QED  BY <1>0, <3>1 DEF CallsOK, JobsOK
  <2>2. \A c \in Pending \cup Running : c \in Cookies /\ c < next_cookie
    BY <2>1 DEF Pending, Running
  <2>3. \A c \in Cookies : c # next_cookie => dom'[c] = dom[c]
    BY <1>0, <1>5a DEF NewCookie
  <2>4. \A c \in Pending \cup Running : c # next_cookie
    BY <1>5a DEF Pending, Running
  <2> QED  BY <2>2, <2>3, <2>4
<1>6. ASSUME NEW t \in Threads, InlineCookie(t)  PROVE OrderOK'
  <2>1. next_cookie \in Cookies /\ job[next_cookie] = "none"
    BY <1>5, <1>6
  <2>2. /\ job'[next_cookie] = "inline" /\ \A c \in Cookies \ {next_cookie} : job'[c] = job[c]
        /\ UNCHANGED <<async_pending, running, passed>>
    BY <1>0, <1>6, <2>1 DEF InlineCookie, SetJob
  <2>3. Pending' = Pending /\ Running' = Running
    BY <2>1, <2>2, SameSets
  <2>4. \A c \in Pending \cup Running : dom'[c] = dom[c]
    BY <1>5a, <1>6, <2>1 DEF InlineCookie
  <2> QED  BY <2>2, <2>3, <2>4, SameOrder
<1>7. ASSUME NEW t \in Threads, AddPending(t)  PROVE OrderOK'
  <2>1. next_cookie \in Cookies /\ job[next_cookie] = "none"
    BY <1>5, <1>7
  <2>2. /\ job'[next_cookie] = "pending" /\ \A c \in Cookies \ {next_cookie} : job'[c] = job[c]
        /\ async_pending' = Append(async_pending, next_cookie) /\ UNCHANGED <<running, passed>>
    BY <1>0, <1>7, <2>1 DEF AddPending, SetJob
  <2>3. Pending' = Pending \cup {next_cookie} /\ Running' = Running /\ next_cookie \notin Pending
    BY <2>1, <2>2 DEF Pending, Running
  <2>4. \A c \in Pending \cup Running : dom'[c] = dom[c] /\ c < next_cookie
    BY <1>5a, <1>7, <2>1 DEF AddPending
  <2>5. InOrder(async_pending', {})
    BY <1>0, <2>1, <2>2, <2>3, <2>4, AddTail DEF OrderOK
  <2>6. ASSUME NEW c \in Running', NEW b \in Pending', dom'[c] = dom'[b]
        PROVE  c < b \/ <<b, c>> \in passed'
    <3>1. CASE b = next_cookie
      BY <2>3, <2>4, <2>6, <3>1
    <3>2. CASE b # next_cookie
      BY <2>2, <2>3, <2>4, <2>6, <3>2 DEF OrderOK
    <3> QED  BY <3>1, <3>2
  <2> QED  BY <2>2, <2>5, <2>6 DEF OrderOK
<1>8. ASSUME NEW c \in Cookies, MoveToRunning(c)  PROVE OrderOK'
  <2>1. /\ job[c] = "queued" /\ async_pending' = list_del(async_pending, c)
        /\ running' = [running EXCEPT ![dom[c]] = Append(@, c)]
        /\ job' = [job EXCEPT ![c] = "func"] /\ UNCHANGED dom
        /\ passed' = passed \cup {<<e, c>> : e \in {e \in Pending : e < c /\ dom[e] = dom[c]}}
    BY <1>0, <1>8 DEF MoveToRunning, SetJob
  <2>2. c \in Pending /\ c \notin Running /\ Pending' = Pending \ {c} /\ Running' = Running \cup {c}
    <3>1. job'[c] = "func" /\ \A b \in Cookies \ {c} : job'[b] = job[b]
      BY <1>0, <2>1
    <3> QED  BY <2>1, <3>1 DEF Pending, Running
  <2>3. InOrder(async_pending', {})
    BY <1>0, <2>1, <2>2, DelEntry DEF OrderOK
  <2>4. ASSUME NEW h \in Running', NEW e \in Pending', dom[h] = dom[e]
        PROVE  h < e \/ <<e, h>> \in passed'
    <3>1. e \in Pending /\ e # c /\ e \in Int /\ c \in Int
      BY <1>0, <2>2, <2>4 DEF Pending
    <3>2. CASE h = c
      BY <2>1, <2>4, <3>1, <3>2
    <3>3. CASE h # c
      BY <2>1, <2>2, <2>4, <3>1, <3>3 DEF OrderOK
    <3> QED  BY <3>2, <3>3
  <2>5. ASSUME NEW d \in Domains  PROVE InOrder(running'[d], passed')
    <3>1. passed \subseteq passed'
      BY <2>1
    <3>2. InOrder(running[d], passed')
      BY <3>1 DEF OrderOK, InOrder
    <3>3. CASE d = dom[c]
      <4> DEFINE r == running[dom[c]]
      <4>1. /\ r \in Seq(Cookies) /\ IsInjective(r) /\ c \notin Range(r)
            /\ \A x \in Range(r) : x < c \/ <<c, x>> \in passed'
        BY <1>0, <2>2, <3>1 DEF OrderOK
      <4>2. running'[d] = Append(r, c) /\ InOrder(r, passed')
        BY <1>0, <2>1, <3>2, <3>3
      <4> HIDE DEF r
      <4> QED  BY <4>1, <4>2, AddTail
    <3>4. CASE d # dom[c]
      BY <1>0, <2>1, <3>2, <3>4
    <3> QED  BY <3>3, <3>4
  <2>6. passed' \in SUBSET (Cookies \X Cookies)
    BY <2>1 DEF OrderOK, Pending
  <2> QED  BY <2>1, <2>3, <2>4, <2>5, <2>6 DEF OrderOK
<1>9. ASSUME NEW c \in Cookies, Func(c)  PROVE OrderOK'
  <2>1. /\ UNCHANGED <<async_pending, running, dom, passed>>
        /\ job[c] \in {"func", "wait"} /\ job'[c] \in {"finish", "wait", "asleep"}
        /\ \A b \in Cookies \ {c} : job'[b] = job[b]
    BY <1>0, <1>9 DEF Func, SetJob
  <2> QED  BY <2>1, SameSets, SameOrder
<1>10. ASSUME NEW c \in Cookies, RemoveEntry(c)  PROVE OrderOK'
  <2>1. /\ job[c] = "finish" /\ running' = [running EXCEPT ![dom[c]] = list_del(@, c)]
        /\ UNCHANGED <<async_pending, dom, passed>>
        /\ job'[c] = "removed" /\ \A b \in Cookies \ {c} : job'[b] = job[b]
    BY <1>0, <1>10 DEF RemoveEntry, SetJob
  <2>2. c \in Running /\ Pending' = Pending /\ Running' = Running \ {c}
    BY <2>1 DEF Pending, Running
  <2>3. ASSUME NEW d \in Domains  PROVE InOrder(running'[d], passed)
    <3>1. CASE d = dom[c]
      <4> DEFINE r == running[dom[c]]
      <4>1. r \in Seq(Cookies) /\ IsInjective(r) /\ c \in Range(r) /\ InOrder(r, passed)
        BY <1>0, <2>2 DEF OrderOK
      <4>2. running'[d] = list_del(r, c)
        BY <1>0, <2>1, <3>1
      <4> HIDE DEF r
      <4> QED  BY <4>1, <4>2, DelEntry
    <3>2. CASE d # dom[c]
      BY <1>0, <2>1, <3>2 DEF OrderOK
    <3> QED  BY <3>1, <3>2
  <2> QED  BY <2>1, <2>2, <2>3 DEF OrderOK
<1>11. ASSUME NEW c \in Cookies, WakeWaiters(c)  PROVE OrderOK'
  <2>1. /\ job' = [i \in Cookies |-> IF i = c THEN "done" ELSE Woken(job[i])]
        /\ job[c] = "removed" /\ UNCHANGED <<async_pending, running, dom, passed>>
    BY <1>11 DEF WakeWaiters
  <2>2. Pending' = Pending /\ Running' = Running
    BY <2>1, SameSets DEF Woken
  <2> QED  BY <2>1, <2>2, SameOrder
<1>12. CASE UNCHANGED vars
  BY <1>1, <1>12 DEF vars
<1> QED
  BY <1>2, <1>3, <1>4, <1>6, <1>7, <1>8, <1>9, <1>10, <1>11, <1>12 DEF Next, ThreadStep, JobStep

(* In every reachable state the lists are in order. *)
LEMMA OrderHolds == Spec => []OrderOK
<1>1. Init => OrderOK
  BY DEF Init, OrderOK, InOrder, Running
<1>2. CallsOK /\ EntriesOK /\ OrderOK /\ [Next]_vars => OrderOK'
  BY OrderStep
<1> QED  BY <1>1, <1>2, CallsHold, EntriesHold, PTL DEF Spec

(* Cookies stay within their bound, the lists are lists of cookies, and the *)
(* count is never negative.                                                 *)
THEOREM TypeCorrect == Spec => []TypeOK
<1>1. CallsOK /\ EntriesOK /\ OrderOK => TypeOK
  BY LiveCounts DEF CallsOK, Shape, SyncTypes, EntriesOK, ListTypes, CountOK, OrderOK, TypeOK
<1> QED  BY <1>1, CallsHold, EntriesHold, OrderHolds, PTL

(* The least number principle, which picks the first entry of a domain. *)
LEMMA LeastNat ==
    ASSUME NEW S \in SUBSET Nat, S # {}
    PROVE  \E n \in S : \A m \in S : n <= m
<1> DEFINE R == OpToRel(<, Nat)
<1>1. IsWellFoundedOn(R, Nat)
  BY NatLessThanWellFounded
<1>2. \A y \in Nat, x \in Nat : y < x => <<y, x>> \in R
  BY DEF OpToRel
<1> HIDE DEF R
<1>3. PICK x \in S : \A y \in S : ~(<<y, x>> \in R)
  BY <1>1, WFMin
<1>4. \A y \in S : ~(y < x)
  BY <1>2, <1>3
<1>5. \A y \in S : x <= y
  BY <1>4
<1> QED  BY <1>5

(* Nothing that is live is below what __lowest_in_progress() returns, but   *)
(* for what that call has passed.                                           *)
LEMMA LowestIsLowest ==
    ASSUME CallsOK, EntriesOK, OrderOK, NEW c \in Live
    PROVE  /\ __lowest_in_progress(dom[c]) \in Cookies
           /\ \/ __lowest_in_progress(dom[c]) <= c
              \/ <<c, __lowest_in_progress(dom[c])>> \in passed
<1> DEFINE d == dom[c]
<1>0. /\ c \in Cookies /\ c \in Pending \cup Running /\ d \in Domains
      /\ async_pending \in Seq(Cookies) /\ running[d] \in Seq(Cookies)
      /\ Range(async_pending) = Pending /\ Range(running[d]) = {b \in Running : dom[b] = d}
      /\ InOrder(async_pending, {}) /\ InOrder(running[d], passed)
      /\ \A b \in Cookies : b \in Int
  BY Numbers DEF CallsOK, Shape, EntriesOK, ListTypes, ListsOK, OrderOK, Live, Pending, Running
<1>1. /\ \A i \in 1 .. Len(running[d]) : running[d][i] \in Running
      /\ Len(running[d]) \in Nat /\ Range(running[d]) = {running[d][i] : i \in 1 .. Len(running[d])}
      /\ running[d] = <<>> <=> Range(running[d]) = {}
      /\ Len(async_pending) \in Nat /\ DOMAIN async_pending = 1 .. Len(async_pending)
      /\ \A i \in 1 .. Len(async_pending) : async_pending[i] \in Cookies
      /\ Range(async_pending) = {async_pending[i] : i \in 1 .. Len(async_pending)}
  <2>1. /\ Len(running[d]) \in Nat /\ Range(running[d]) = {running[d][i] : i \in 1 .. Len(running[d])}
        /\ running[d] = <<>> <=> Range(running[d]) = {}
    BY <1>0, Elements
  <2>2. \A i \in 1 .. Len(running[d]) : running[d][i] \in Running
    BY <1>0, <2>1
  <2> QED  BY <1>0, <2>1, <2>2, Elements
<1>2. CASE running[d] # <<>>
  <2> DEFINE h == running[d][1]
  <2>1. __lowest_in_progress(d) = h /\ 1 \in 1 .. Len(running[d])
    BY <1>0, <1>2 DEF __lowest_in_progress
  <2>2. h \in Running /\ h \in Cookies /\ h \in Int /\ dom[h] = d
    BY <1>0, <1>1, <2>1 DEF Running
  <2>3. CASE c \in Pending
    BY <1>0, <2>1, <2>2, <2>3 DEF OrderOK
  <2>4. CASE c \in Running
    <3>1. PICK i \in 1 .. Len(running[d]) : running[d][i] = c
      BY <1>0, <1>1, <2>4
    <3>2. CASE i = 1
      BY <1>0, <2>1, <3>1, <3>2
    <3>3. CASE i # 1
      <4>1. h < c \/ <<c, h>> \in passed
        BY <1>0, <1>1, <2>1, <3>1, <3>3 DEF InOrder
      <4> QED  BY <1>0, <2>1, <2>2, <4>1
    <3> QED  BY <3>2, <3>3
  <2> QED  BY <1>0, <2>3, <2>4
<1>3. CASE running[d] = <<>>
  <2> DEFINE found == {i \in DOMAIN async_pending : dom[async_pending[i]] = d}
             k == CHOOSE i \in found : \A j \in found : i <= j
  <2>1. c \in Pending
    BY <1>0, <1>1, <1>3
  <2>2. PICK i \in 1 .. Len(async_pending) : async_pending[i] = c
    BY <1>0, <1>1, <2>1
  <2>3. i \in found
    BY <1>1, <2>2
  <2>4. k \in found /\ k <= i /\ k \in 1 .. Len(async_pending)
    <3>1. found \subseteq Nat /\ found # {}
      BY <1>1, <2>3
    <3>2. \E n \in found : \A j \in found : n <= j
      <4> HIDE DEF found
      <4> QED  BY <3>1, LeastNat
    <3>3. k \in found /\ \A j \in found : k <= j
      <4> HIDE DEF found
      <4> QED  BY <3>2
    <3> QED  BY <1>1, <2>3, <3>3
  <2>5. __lowest_in_progress(d) = async_pending[k]
    BY <1>3, <2>3 DEF __lowest_in_progress
  <2> HIDE DEF k, found
  <2>6. async_pending[k] \in Cookies /\ async_pending[k] \in Int
    BY <1>0, <1>1, <2>4
  <2>7. CASE k = i
    BY <1>0, <2>2, <2>5, <2>6, <2>7
  <2>8. CASE k # i
    <3>1. k < i
      BY <1>1, <2>2, <2>4, <2>8
    <3>2. async_pending[k] < c
      BY <1>0, <2>2, <2>4, <3>1 DEF InOrder
    <3> QED  BY <1>0, <2>5, <2>6, <3>2
  <2> QED  BY <2>7, <2>8
<1> QED  BY <1>2, <1>3

(* What is not finished is live. *)
LEMMA WaitedFor ==
    ASSUME CallsOK, EntriesOK, OrderOK, NEW d \in Domains, NEW x \in Int,
           __lowest_in_progress(d) >= x
    PROVE  DoneUnlessOvertaken(x, d)
<1> SUFFICES ASSUME NEW c \in Cookies, c < x, dom[c] = d, ~Finished(c)  PROVE Overtaken(c, x)
  BY DEF DoneUnlessOvertaken
<1>1. c \in Live /\ c \in Int
  BY Numbers DEF Finished, Live, Pending, Running, CallsOK, Shape, JobStates
<1>2. PICK f \in Cookies : f = __lowest_in_progress(d) /\ (f <= c \/ <<c, f>> \in passed)
  BY <1>1, LowestIsLowest
<1>3. f \in Int /\ f >= x
  BY <1>2, Numbers
<1> QED  BY <1>1, <1>2, <1>3 DEF Overtaken

(* A cookie keeps its domain, and a call that has finished stays so. *)
LEMMA StaysDone ==
    ASSUME CallsOK, [Next]_vars
    PROVE  /\ next_cookie \in Int /\ next_cookie' \in Int /\ next_cookie <= next_cookie'
           /\ \A c \in Cookies : c < next_cookie => dom'[c] = dom[c] /\ (Finished(c) => Finished(c)')
           /\ passed \subseteq passed'
<1>0. /\ job \in [Cookies -> JobStates] /\ dom \in [Cookies -> Domains]
      /\ next_cookie \in Int /\ \A c \in Cookies : c \in Int
      /\ \A c \in Cookies : c < next_cookie => job[c] # "none"
  <2>1. next_cookie \in Int /\ \A c \in Cookies : c \in Int
    BY Numbers DEF CallsOK, Shape
  <2> QED  BY <2>1 DEF CallsOK, Shape, JobsOK
<1>1. ASSUME UNCHANGED <<next_cookie, dom>>, NEW b \in Cookies, ~Finished(b) \/ job[b] = "inline",
             NEW s \in JobStates, job' = [job EXCEPT ![b] = s],
             job[b] = "inline" => s = "done"
      PROVE  /\ next_cookie' \in Int /\ next_cookie <= next_cookie'
             /\ \A c \in Cookies : dom'[c] = dom[c] /\ (Finished(c) => Finished(c)')
  BY <1>0, <1>1 DEF Finished
<1>2. ASSUME UNCHANGED <<next_cookie, dom, job>>
      PROVE  /\ next_cookie' \in Int /\ next_cookie <= next_cookie'
             /\ \A c \in Cookies : dom'[c] = dom[c] /\ (Finished(c) => Finished(c)')
  BY <1>0, <1>2 DEF Finished
<1>3. ASSUME NEW t \in Threads, Call(t)
      PROVE  /\ next_cookie' \in Int /\ next_cookie <= next_cookie'
             /\ \A c \in Cookies : dom'[c] = dom[c] /\ (Finished(c) => Finished(c)')
  <2>1. UNCHANGED <<next_cookie, dom, job>>
    BY <1>3 DEF Call, async_schedule_domain, async_synchronize_cookie_domain,
                async_synchronize_full_domain, async_synchronize_full
  <2> QED  BY <1>2, <2>1
<1>4. ASSUME NEW t \in Threads,
             \/ FullReadCookie(t) \/ FullTestRunning(t) \/ FullTestPending(t) \/ wait_event(t)
             \/ InlineWait(t)
      PROVE  /\ next_cookie' \in Int /\ next_cookie <= next_cookie'
             /\ \A c \in Cookies : dom'[c] = dom[c] /\ (Finished(c) => Finished(c)')
  <2>1. UNCHANGED <<next_cookie, dom, job>>
    BY <1>4 DEF FullReadCookie, FullTestRunning, FullTestPending, wait_event, InlineWait
  <2> QED  BY <1>2, <2>1
<1>5. ASSUME NEW t \in Threads, queue_work(t) \/ RunInline(t)
      PROVE  /\ next_cookie' \in Int /\ next_cookie <= next_cookie'
             /\ \A c \in Cookies : dom'[c] = dom[c] /\ (Finished(c) => Finished(c)')
  <2>1. /\ mine[t] \in Cookies /\ UNCHANGED <<next_cookie, dom>>
        /\ \/ job[mine[t]] = "pending" /\ job' = [job EXCEPT ![mine[t]] = "queued"]
           \/ job[mine[t]] = "inline" /\ job' = [job EXCEPT ![mine[t]] = "done"]
    BY <1>5 DEF queue_work, RunInline, SetJob, CallsOK, JobsOK, OwnCall, InlinePlaces
  <2> QED  BY <1>1, <2>1 DEF Finished, JobStates
<1>6. ASSUME NEW t \in Threads, InlineCookie(t) \/ AddPending(t)
      PROVE  /\ next_cookie' \in Int /\ next_cookie <= next_cookie'
             /\ \A c \in Cookies : c < next_cookie => dom'[c] = dom[c] /\ (Finished(c) => Finished(c)')
  <2>1. next_cookie' = next_cookie + 1
    BY <1>6 DEF InlineCookie, AddPending, NewCookie
  <2>2. PICK s \in {"inline", "pending"} : job' = [job EXCEPT ![next_cookie] = s]
    BY <1>6 DEF InlineCookie, AddPending, SetJob
  <2>3. PICK e \in Domains : dom' = [dom EXCEPT ![next_cookie] = e]
    <3>1. sync[t].dom \in Domains
      BY DEF CallsOK, Shape, SyncTypes
    <3> QED  BY <1>6, <3>1 DEF InlineCookie, AddPending, NewCookie
  <2>4. ASSUME NEW c \in Cookies, c < next_cookie  PROVE dom'[c] = dom[c] /\ job'[c] = job[c]
    BY <1>0, <2>2, <2>3, <2>4
  <2> QED  BY <1>0, <2>1, <2>4 DEF Finished
<1>7. ASSUME NEW b \in Cookies, MoveToRunning(b) \/ Func(b) \/ RemoveEntry(b)
      PROVE  /\ next_cookie' \in Int /\ next_cookie <= next_cookie'
             /\ \A c \in Cookies : dom'[c] = dom[c] /\ (Finished(c) => Finished(c)')
  <2>1. /\ UNCHANGED <<next_cookie, dom>> /\ job[b] \in {"queued", "func", "wait", "finish"}
        /\ \E s \in JobStates : job' = [job EXCEPT ![b] = s]
    BY <1>7 DEF MoveToRunning, Func, RemoveEntry, SetJob, JobStates
  <2> QED  BY <1>1, <2>1 DEF Finished
<1>8. ASSUME NEW b \in Cookies, WakeWaiters(b)
      PROVE  /\ next_cookie' \in Int /\ next_cookie <= next_cookie'
             /\ \A c \in Cookies : dom'[c] = dom[c] /\ (Finished(c) => Finished(c)')
  BY <1>0, <1>8 DEF WakeWaiters, Finished, Woken
<1>9. CASE UNCHANGED vars
  BY <1>0, <1>2, <1>9 DEF vars
<1>10. passed \subseteq passed'
  <2>1. ASSUME NEW t \in Threads, Call(t) \/ ThreadStep(t)  PROVE UNCHANGED passed
    BY <2>1 DEF Call, async_schedule_domain, async_synchronize_cookie_domain,
                async_synchronize_full_domain, async_synchronize_full, ThreadStep, AddPending,
                queue_work, InlineCookie, InlineWait, RunInline, FullReadCookie, FullTestRunning,
                FullTestPending, wait_event
  <2>2. ASSUME NEW b \in Cookies, JobStep(b)  PROVE passed \subseteq passed'
    BY <2>2 DEF JobStep, MoveToRunning, Func, RemoveEntry, WakeWaiters
  <2> QED  BY <2>1, <2>2 DEF Next, vars
<1> QED
  BY <1>0, <1>3, <1>4, <1>5, <1>6, <1>7, <1>8, <1>9, <1>10 DEF Next, ThreadStep, JobStep

-----------------------------------------------------------------------------
(* What the waiters have seen. *)

FullPlaces == {"full", "wait", "asleep", "full_running", "full_pending"}

(* A caller of async_synchronize_full() waits, each time round its loop,    *)
(* for a cookie no smaller than the one it found at the start, and once it  *)
(* has waited every call made before it began has been run or overtaken.    *)
SyncOne(t) ==
    /\ sync[t].before <= next_cookie
    /\ pc[t] \in {"full", "full_running", "full_pending"} => sync[t].full
    /\ sync[t].full => sync[t].dom = Default /\ pc[t] \in FullPlaces
    /\ sync[t].full /\ pc[t] \in {"wait", "asleep"} => sync[t].before <= sync[t].cookie
    /\ pc[t] \in {"full_running", "full_pending"} => DoneUnlessOvertaken(sync[t].before, Default)

SyncOK == \A t \in Threads : SyncOne(t)

(* What has been waited for stays so. *)
LEMMA StaysDoneBefore ==
    ASSUME CallsOK, [Next]_vars, NEW d \in Domains, NEW x \in Int, x <= next_cookie,
           DoneUnlessOvertaken(x, d)
    PROVE  DoneUnlessOvertaken(x, d)'
<1>1. /\ next_cookie \in Int /\ \A c \in Cookies : c \in Int
      /\ \A c \in Cookies : c < next_cookie => dom'[c] = dom[c] /\ (Finished(c) => Finished(c)')
      /\ passed \subseteq passed'
  BY StaysDone, Numbers
<1> SUFFICES ASSUME NEW c \in Cookies, c < x, dom'[c] = d  PROVE Finished(c)' \/ Overtaken(c, x)'
  BY DEF DoneUnlessOvertaken
<1>2. c < next_cookie
  BY <1>1
<1>3. Overtaken(c, x) => Overtaken(c, x)'
  BY <1>1 DEF Overtaken
<1> QED  BY <1>1, <1>2, <1>3 DEF DoneUnlessOvertaken

(* The numbers a waiter keeps. *)
LEMMA SyncNumbers ==
    ASSUME CallsOK, NEW t \in Threads
    PROVE  /\ sync[t] \in SyncTypes /\ sync[t].before \in Int /\ sync[t].cookie \in Int
           /\ sync[t].dom \in Domains /\ sync[t].full \in BOOLEAN
           /\ next_cookie \in Int /\ 0 <= next_cookie
BY Numbers DEF CallsOK, Shape, SyncTypes

(* A thread that stays where it is, or is woken. *)
LEMMA SyncKept ==
    ASSUME CallsOK, SyncOK, [Next]_vars, NEW t \in Threads, sync'[t] = sync[t],
           pc'[t] = pc[t] \/ (pc[t] = "asleep" /\ pc'[t] = "wait")
    PROVE  SyncOne(t)'
<1>1. SyncOne(t)
  BY DEF SyncOK
<1>2. sync[t].before \in Int /\ next_cookie \in Int /\ Default \in Domains
  BY SyncNumbers, Numbers
<1>3. sync'[t].before <= next_cookie'
  BY <1>1, <1>2, StaysDone DEF SyncOne
<1>4. pc'[t] \in {"full_running", "full_pending"} => DoneUnlessOvertaken(sync[t].before, Default)'
  <2>1. SUFFICES ASSUME pc[t] \in {"full_running", "full_pending"}
                 PROVE  DoneUnlessOvertaken(sync[t].before, Default)'
    OBVIOUS
  <2>2. PICK x \in Int : x = sync[t].before
    BY <1>2
  <2>3. DoneUnlessOvertaken(x, Default) /\ x <= next_cookie
    BY <1>1, <2>1, <2>2 DEF SyncOne
  <2>4. DoneUnlessOvertaken(x, Default)'
    BY <1>2, <2>3, StaysDoneBefore
  <2> QED  BY <2>2, <2>4 DEF DoneUnlessOvertaken
<1> QED  BY <1>1, <1>3, <1>4 DEF SyncOne, FullPlaces
(* A step of one thread, given what becomes of that thread. *)
LEMMA SyncOthers ==
    ASSUME CallsOK, SyncOK, [Next]_vars, NEW t \in Threads, NEW x, pc' = [pc EXCEPT ![t] = x],
           NEW s, sync' = [sync EXCEPT ![t] = s], SyncOne(t)'
    PROVE  SyncOK'
<1> SUFFICES ASSUME NEW u \in Threads, u # t  PROVE SyncOne(u)'
  BY DEF SyncOK
<1>1. sync'[u] = sync[u] /\ pc'[u] = pc[u]
  BY DEF CallsOK, Shape
<1> QED  BY <1>1, SyncKept

(* A thread that waits for nothing, or begins to. *)
LEMMA SyncFresh ==
    ASSUME CallsOK, SyncOK, [Next]_vars, NEW t \in Threads,
           sync'[t].full = FALSE, sync'[t].before = 0,
           pc'[t] \notin {"full", "full_running", "full_pending"}
    PROVE  SyncOne(t)'
<1>1. 0 <= next_cookie'
  BY SyncNumbers, StaysDone
<1> QED  BY <1>1 DEF SyncOne

(* Every step keeps what the waiters have seen. *)
LEMMA SyncStep ==
    ASSUME CallsOK, EntriesOK, OrderOK, SyncOK, [Next]_vars
    PROVE  SyncOK'
<1>0. /\ pc \in [Threads -> Places] /\ sync \in [Threads -> SyncTypes]
      /\ next_cookie \in Int /\ Default \in Domains
  BY StaysDone, Numbers DEF CallsOK, Shape
<1>1. ASSUME NEW u \in Threads  PROVE sync = [sync EXCEPT ![u] = sync[u]]
  BY <1>0
<1>2. ASSUME \A u \in Threads : /\ sync'[u] = sync[u]
                                /\ pc'[u] = pc[u] \/ (pc[u] = "asleep" /\ pc'[u] = "wait")
      PROVE  SyncOK'
  BY <1>2, SyncKept DEF SyncOK
<1>3. ASSUME NEW t \in Threads, NEW x \in Places \ {"full", "full_running", "full_pending"}, Goto(t, x),
             NEW s \in SyncTypes, sync' = [sync EXCEPT ![t] = s], s.full = FALSE, s.before = 0
      PROVE  SyncOK'
  <2>1. sync'[t] = s /\ pc'[t] = x
    BY <1>0, <1>3 DEF Goto
  <2>2. SyncOne(t)'
    BY <1>3, <2>1, SyncFresh
  <2> QED  BY <1>3, <2>2, SyncOthers DEF Goto
<1>4. /\ NoSync \in SyncTypes /\ NoSync.full = FALSE /\ NoSync.before = 0
  BY SyncRecords DEF NoSync
<1>5. ASSUME NEW t \in Threads, NEW d \in Domains, async_schedule_domain(t, d)  PROVE SyncOK'
  <2>1. /\ pc[t] = "idle" /\ sync' = [sync EXCEPT ![t] = [sync[t] EXCEPT !.dom = d]]
        /\ pc' = [pc EXCEPT ![t] = "add"] \/ pc' = [pc EXCEPT ![t] = "inline_cookie"]
    BY <1>5 DEF async_schedule_domain, Goto
  <2>2. sync[t].before <= next_cookie /\ sync[t].full = FALSE /\ sync[t] \in SyncTypes
    BY <2>1, SyncNumbers DEF SyncOK, SyncOne, FullPlaces
  <2>3. sync'[t].before = sync[t].before /\ sync'[t].full = FALSE
    BY <1>0, <2>1, <2>2 DEF SyncTypes
  <2>4. pc'[t] \in {"add", "inline_cookie"}
    BY <1>0, <2>1
  <2>5. sync'[t].before <= next_cookie'
    BY <1>5, <2>2, <2>3 DEF async_schedule_domain
  <2>6. SyncOne(t)'
    BY <2>3, <2>4, <2>5 DEF SyncOne
  <2> QED  BY <2>1, <2>6, SyncOthers
<1>6. ASSUME NEW t \in Threads, NEW c \in Cookies, NEW d \in Domains,
             async_synchronize_cookie_domain(t, c, d)
      PROVE  SyncOK'
  <2> DEFINE s == [NoSync EXCEPT !.cookie = c, !.dom = d]
  <2>1. s \in SyncTypes /\ s.full = FALSE /\ s.before = 0
    <3>1. c \in 0 .. MaxCookie + 1
      BY Numbers
    <3>2. s \in SyncTypes
      BY <3>1, SyncRecords
    <3> QED  BY <3>2 DEF NoSync
  <2>2. Goto(t, "wait") /\ sync' = [sync EXCEPT ![t] = s]
    BY <1>6 DEF async_synchronize_cookie_domain
  <2> HIDE DEF s
  <2> QED  BY <1>3, <2>1, <2>2 DEF Places
<1>7. ASSUME NEW t \in Threads, NEW d \in Domains, async_synchronize_full_domain(t, d)  PROVE SyncOK'
  <2> DEFINE s == [NoSync EXCEPT !.cookie = next_cookie, !.dom = d]
  <2>1. s \in SyncTypes /\ s.full = FALSE /\ s.before = 0
    <3>1. next_cookie \in 0 .. MaxCookie + 1
      BY Numbers DEF CallsOK, Shape
    <3>2. s \in SyncTypes
      BY <3>1, SyncRecords
    <3> QED  BY <3>2 DEF NoSync
  <2>2. Goto(t, "wait") /\ sync' = [sync EXCEPT ![t] = s]
    BY <1>7 DEF async_synchronize_full_domain
  <2> HIDE DEF s
  <2> QED  BY <1>3, <2>1, <2>2 DEF Places
<1>8. ASSUME NEW t \in Threads, async_synchronize_full(t)  PROVE SyncOK'
  <2> DEFINE s == [NoSync EXCEPT !.full = TRUE, !.before = next_cookie]
  <2>1. s.full = TRUE /\ s.before = next_cookie /\ s.dom = Default
    BY DEF NoSync
  <2>2. Goto(t, "full") /\ sync' = [sync EXCEPT ![t] = s] /\ next_cookie' = next_cookie
    BY <1>8 DEF async_synchronize_full
  <2> HIDE DEF s
  <2>3. sync'[t] = s /\ pc'[t] = "full"
    BY <1>0, <2>2 DEF Goto
  <2>4. SyncOne(t)'
    BY <1>0, <2>1, <2>2, <2>3 DEF SyncOne, FullPlaces
  <2> QED  BY <2>2, <2>4, SyncOthers DEF Goto
<1>9. ASSUME NEW t \in Threads, FullReadCookie(t)  PROVE SyncOK'
  <2> DEFINE s == [sync[t] EXCEPT !.cookie = next_cookie]
  <2>1. pc[t] = "full" /\ Goto(t, "wait") /\ sync' = [sync EXCEPT ![t] = s] /\ next_cookie' = next_cookie
    BY <1>9 DEF FullReadCookie, FullCookie
  <2>2. /\ s.full = sync[t].full /\ s.before = sync[t].before /\ s.dom = sync[t].dom
        /\ s.cookie = next_cookie
    BY SyncNumbers DEF SyncTypes
  <2> HIDE DEF s
  <2>3. sync'[t] = s /\ pc'[t] = "wait"
    BY <1>0, <2>1 DEF Goto
  <2>4. sync[t].full /\ sync[t].before <= next_cookie /\ sync[t].dom = Default
    BY <2>1 DEF SyncOK, SyncOne
  <2>5. SyncOne(t)'
    BY <1>0, <2>1, <2>2, <2>3, <2>4 DEF SyncOne, FullPlaces
  <2> QED  BY <2>1, <2>5, SyncOthers DEF Goto
<1>10. ASSUME NEW t \in Threads, UNCHANGED <<next_cookie, dom, job, sync, passed>>, sync[t].full,
              DoneUnlessOvertaken(sync[t].before, Default),
              NEW x \in {"full", "full_running", "full_pending"}, Goto(t, x)
       PROVE  SyncOK'
  <2>1. sync'[t] = sync[t] /\ pc'[t] = x
    BY <1>0, <1>10 DEF Goto
  <2>2. sync[t].before <= next_cookie /\ sync[t].dom = Default
    BY <1>10 DEF SyncOK, SyncOne
  <2>3. DoneUnlessOvertaken(sync[t].before, Default)'
    BY <1>10 DEF DoneUnlessOvertaken, Overtaken, Finished
  <2>4. SyncOne(t)'
    BY <1>10, <2>1, <2>2, <2>3 DEF SyncOne, FullPlaces
  <2> QED  BY <1>1, <1>10, <2>4, SyncOthers DEF Goto
<1>11. ASSUME NEW t \in Threads, FullTestRunning(t)  PROVE SyncOK'
  <2>1. PICK x \in {"full", "full_pending"} : Goto(t, x)
    BY <1>11 DEF FullTestRunning
  <2>2. sync[t].full /\ DoneUnlessOvertaken(sync[t].before, Default)
    BY <1>11 DEF FullTestRunning, SyncOK, SyncOne
  <2> QED  BY <1>10, <1>11, <2>1, <2>2 DEF FullTestRunning
<1>12. ASSUME NEW t \in Threads, FullTestPending(t)  PROVE SyncOK'
  <2>1. sync[t].full /\ DoneUnlessOvertaken(sync[t].before, Default)
    BY <1>12 DEF FullTestPending, SyncOK, SyncOne
  <2>2. CASE async_pending # <<>>
    BY <1>10, <1>12, <2>1, <2>2 DEF FullTestPending
  <2>3. CASE async_pending = <<>>
    BY <1>3, <1>4, <1>12, <2>3 DEF FullTestPending, Places
  <2> QED  BY <2>2, <2>3
<1>13. ASSUME NEW t \in Threads, wait_event(t)  PROVE SyncOK'
  <2>1. pc[t] = "wait" /\ UNCHANGED <<next_cookie, dom, job, passed>>
    BY <1>13 DEF wait_event
  <2>2. CASE ~(__lowest_in_progress(sync[t].dom) >= sync[t].cookie)
    <3>1. Goto(t, "asleep") /\ UNCHANGED sync
      BY <1>13, <2>2 DEF wait_event
    <3>2. SyncOne(t)'
      <4>1. pc'[t] = "asleep" /\ sync'[t] = sync[t]
        BY <1>0, <3>1 DEF Goto
      <4> QED  BY <2>1, <4>1 DEF SyncOK, SyncOne, FullPlaces
    <3> QED  BY <1>1, <3>1, <3>2, SyncOthers DEF Goto
  <2>3. CASE __lowest_in_progress(sync[t].dom) >= sync[t].cookie /\ ~sync[t].full
    BY <1>3, <1>4, <1>13, <2>3 DEF wait_event, Places
  <2>4. CASE __lowest_in_progress(sync[t].dom) >= sync[t].cookie /\ sync[t].full
    <3>1. Goto(t, "full_running") /\ UNCHANGED sync
      BY <1>13, <2>4 DEF wait_event
    <3>2. sync[t].dom = Default /\ sync[t].before <= sync[t].cookie
      BY <2>1, <2>4 DEF SyncOK, SyncOne
    <3>3. DoneUnlessOvertaken(sync[t].cookie, Default)
      BY <1>0, <2>4, <3>2, SyncNumbers, WaitedFor
    <3>4. DoneUnlessOvertaken(sync[t].before, Default)
      <4>1. \A c \in Cookies : c \in Int
        BY Numbers
      <4> QED  BY <3>2, <3>3, <4>1, SyncNumbers DEF DoneUnlessOvertaken, Overtaken
    <3> QED  BY <1>10, <2>1, <2>4, <3>1, <3>4
  <2> QED  BY <2>2, <2>3, <2>4
<1>13a. ASSUME NEW t \in Threads, InlineWait(t)  PROVE SyncOK'
  <2> DEFINE s == [NoSync EXCEPT !.cookie = mine[t], !.dom = dom[mine[t]]]
  <2>1. s \in SyncTypes /\ s.full = FALSE /\ s.before = 0
    <3>1. mine[t] \in Cookies /\ mine[t] \in 0 .. MaxCookie + 1 /\ dom[mine[t]] \in Domains
      BY <1>13a, Numbers DEF InlineWait, CallsOK, Shape, JobsOK, OwnCall
    <3> QED  BY <3>1, SyncRecords DEF NoSync
  <2>2. Goto(t, "wait") /\ sync' = [sync EXCEPT ![t] = s]
    BY <1>13a DEF InlineWait
  <2> HIDE DEF s
  <2> QED  BY <1>3, <2>1, <2>2 DEF Places
<1>14. ASSUME NEW t \in Threads, AddPending(t) \/ InlineCookie(t)  PROVE SyncOK'
  <2>1. sync' = [sync EXCEPT ![t] = NoSync] /\ (Goto(t, "queue") \/ Goto(t, "inline"))
    BY <1>14 DEF AddPending, InlineCookie, NewCookie
  <2> QED  BY <1>3, <1>4, <2>1 DEF Places
<1>15. ASSUME NEW t \in Threads, queue_work(t) \/ RunInline(t)  PROVE SyncOK'
  <2>1. UNCHANGED <<next_cookie, sync>> /\ Goto(t, "idle") /\ pc[t] \in {"queue", "inline", "inline_end"}
    BY <1>15 DEF queue_work, RunInline
  <2>2. pc'[t] = "idle" /\ sync'[t] = sync[t]
    BY <1>0, <2>1 DEF Goto
  <2>3. SyncOne(t)'
    BY <2>1, <2>2 DEF SyncOK, SyncOne, FullPlaces
  <2> QED  BY <1>1, <2>1, <2>3, SyncOthers DEF Goto
<1>16. ASSUME NEW c \in Cookies, JobStep(c)  PROVE SyncOK'
  <2>1. CASE MoveToRunning(c) \/ Func(c) \/ RemoveEntry(c)
    BY <1>2, <2>1 DEF MoveToRunning, Func, RemoveEntry
  <2>2. CASE WakeWaiters(c)
    BY <1>2, <2>2 DEF WakeWaiters, Woken
  <2> QED  BY <1>16, <2>1, <2>2 DEF JobStep
<1>17. CASE UNCHANGED vars
  BY <1>2, <1>17 DEF vars
<1> QED
  BY <1>5, <1>6, <1>7, <1>8, <1>9, <1>11, <1>12, <1>13, <1>14, <1>15, <1>16, <1>17, <1>13a
     DEF Next, Call, ThreadStep

(* In every reachable state the waiters have seen what they should. *)
LEMMA SyncHolds == Spec => []SyncOK
<1>1. Init => SyncOK
  <2> SUFFICES ASSUME Init, NEW t \in Threads  PROVE SyncOne(t)
    BY DEF SyncOK
  <2>1. sync[t].before = 0 /\ sync[t].full = FALSE /\ pc[t] = "idle" /\ next_cookie = 1
    BY DEF Init, NoSync
  <2> QED  BY <2>1 DEF SyncOne
<1>2. CallsOK /\ EntriesOK /\ OrderOK /\ SyncOK /\ [Next]_vars => SyncOK'
  BY SyncStep
<1> QED  BY <1>1, <1>2, CallsHold, EntriesHold, OrderHolds, PTL DEF Spec
(* Only its own test takes a thread out of wait_event(). *)
LEMMA LeavesWait ==
    ASSUME CallsOK, [Next]_vars, NEW t \in Threads, pc[t] = "wait", pc'[t] # "wait"
    PROVE  wait_event(t)
<1>0. pc \in [Threads -> Places]
  BY DEF CallsOK, Shape
<1>1. ASSUME NEW u \in Threads, NEW x, Goto(u, x)  PROVE u = t
  BY <1>0, <1>1 DEF Goto
<1>2. ASSUME NEW u \in Threads, Call(u) \/ ThreadStep(u)  PROVE u = t
  <2>1. \E x \in Places : Goto(u, x)
    BY <1>2 DEF Call, async_schedule_domain, async_synchronize_cookie_domain,
                async_synchronize_full_domain, async_synchronize_full, ThreadStep, AddPending,
                queue_work, InlineCookie, InlineWait, RunInline, FullReadCookie, FullTestRunning,
                FullTestPending, wait_event, Places
  <2> QED  BY <1>1, <2>1
<1>3. ASSUME NEW c \in Cookies, JobStep(c)  PROVE FALSE
  BY <1>3 DEF JobStep, MoveToRunning, Func, RemoveEntry, WakeWaiters, Woken
<1>4. Call(t) \/ ThreadStep(t)
  BY <1>2, <1>3 DEF Next, vars
<1> QED
  BY <1>4 DEF Call, async_schedule_domain, async_synchronize_cookie_domain,
              async_synchronize_full_domain, async_synchronize_full, ThreadStep, AddPending,
              queue_work, InlineCookie, InlineWait, RunInline, FullReadCookie, FullTestRunning,
              FullTestPending

(* Only its own test takes a function out of wait_event(). *)
LEMMA FunctionLeavesWait ==
    ASSUME CallsOK, [Next]_vars, NEW c \in Cookies, job[c] = "wait", job'[c] = "finish"
    PROVE  __lowest_in_progress(dom[c]) >= c
<1>0. job \in [Cookies -> JobStates]
  BY DEF CallsOK, Shape
<1>1. ASSUME NEW t \in Threads, Call(t) \/ ThreadStep(t)  PROVE FALSE
  <2>1. \/ UNCHANGED job
        \/ \E b : \E s \in {"pending", "inline", "queued", "done"} : job' = [job EXCEPT ![b] = s]
    BY <1>1 DEF Call, async_schedule_domain, async_synchronize_cookie_domain,
                async_synchronize_full_domain, async_synchronize_full, ThreadStep, AddPending,
                queue_work, InlineCookie, InlineWait, RunInline, FullReadCookie, FullTestRunning,
                FullTestPending, wait_event, SetJob
  <2> QED  BY <1>0, <2>1
<1>2. PICK b \in Cookies : JobStep(b)
  BY <1>1 DEF Next, vars
<1>3. ~WakeWaiters(b)
  BY DEF WakeWaiters, Woken
<1>4. ~MoveToRunning(b) /\ ~RemoveEntry(b)
  BY <1>0 DEF MoveToRunning, RemoveEntry, SetJob
<1>5. Func(b)
  BY <1>2, <1>3, <1>4 DEF JobStep
<1>6. b = c
  BY <1>0, <1>5 DEF Func, SetJob
<1> QED  BY <1>0, <1>5, <1>6 DEF Func, SetJob

(* In whatever order the workqueue starts its items, a wait for a cookie    *)
(* ends only when every entry of the domain with a smaller one has been run *)
(* or was overtaken by one that is not smaller, whoever waits.              *)
THEOREM CookieWaitCorrect == Spec => WaitsUnlessOvertaken
<1> DEFINE A == /\ \A t \in Threads :
                      pc[t] = "wait" /\ pc'[t] \notin {"wait", "asleep"}
                         => DoneUnlessOvertaken(sync[t].cookie, sync[t].dom)
                /\ \A c \in Cookies :
                      job[c] = "wait" /\ job'[c] = "finish" => DoneUnlessOvertaken(c, dom[c])
<1>1. CallsOK /\ EntriesOK /\ OrderOK /\ [Next]_vars => [A]_vars
  <2> SUFFICES ASSUME CallsOK, EntriesOK, OrderOK, [Next]_vars  PROVE A
    OBVIOUS
  <2>1. ASSUME NEW t \in Threads, pc[t] = "wait", pc'[t] \notin {"wait", "asleep"}
        PROVE  DoneUnlessOvertaken(sync[t].cookie, sync[t].dom)
    <3>1. wait_event(t)
      BY <2>1, LeavesWait
    <3>2. pc \in [Threads -> Places]
      BY DEF CallsOK, Shape
    <3>3. __lowest_in_progress(sync[t].dom) >= sync[t].cookie
      BY <2>1, <3>1, <3>2 DEF wait_event, Goto
    <3> QED  BY <3>3, SyncNumbers, WaitedFor
  <2>2. ASSUME NEW c \in Cookies, job[c] = "wait", job'[c] = "finish"
        PROVE  DoneUnlessOvertaken(c, dom[c])
    <3>1. __lowest_in_progress(dom[c]) >= c
      BY <2>2, FunctionLeavesWait
    <3>2. c \in Int /\ dom[c] \in Domains
      BY Numbers DEF CallsOK, Shape
    <3> QED  BY <3>1, <3>2, WaitedFor
  <2> QED  BY <2>1, <2>2
<1>2. Spec => [][A]_vars
  <2> HIDE DEF A
  <2> QED  BY <1>1, CallsHold, EntriesHold, OrderHolds, PTL DEF Spec
<1> QED  BY <1>2 DEF WaitsUnlessOvertaken

(* In whatever order the workqueue starts its items,                        *)
(* async_synchronize_full() returns only when every call of the default     *)
(* domain made before it began has been run or was overtaken by a later     *)
(* one.                                                                     *)
THEOREM FullWaitCorrect == Spec => FullWaitsUnlessOvertaken
<1> DEFINE A == \A t \in Threads :
                   pc[t] = "full_pending" /\ pc'[t] = "idle" => DoneUnlessOvertaken(sync[t].before, Default)
<1>1. SyncOK => A
  BY DEF SyncOK, SyncOne
<1>2. Spec => [][A]_vars
  <2>1. SyncOK /\ [Next]_vars => [A]_vars
    BY <1>1
  <2> HIDE DEF A
  <2> QED  BY <2>1, SyncHolds, PTL DEF Spec
<1> QED  BY <1>2 DEF FullWaitsUnlessOvertaken
=============================================================================
