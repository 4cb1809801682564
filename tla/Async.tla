-------------------------------- MODULE Async --------------------------------
(***************************************************************************)
(* Asynchronous function calls: kernel/async.c.                            *)
(*                                                                         *)
(* Threads schedule functions and wait for them; work items of             *)
(* system_unbound_wq run the functions, each of which may first wait for   *)
(* the ones scheduled before it.  What is done under async_lock is one     *)
(* step; entry_count, next_cookie and list_empty() are also read without   *)
(* it, one read per step.                                                  *)
(***************************************************************************)
EXTENDS Integers, Sequences, FiniteSets, Functions

CONSTANTS
    Threads,      \* callers of async_schedule*() and async_synchronize_*()
    Domains,      \* the running lists in use
    Default,      \* &async_running
    MAX_WORK,     \* entries beyond which calls are made synchronously
    MaxCookie     \* bound: calls scheduled in a behaviour

ASSUME AsyncAssumption ==
    /\ Default \in Domains
    /\ IsFiniteSet(Threads)
    /\ MAX_WORK \in Nat
    /\ MaxCookie \in Nat

VARIABLES
    next_cookie,
    async_pending, \* cookies of the entries on the pending list
    running,       \* for each domain the cookies on its running list
    entry_count,
    dom,           \* entry->running of each call
    job,           \* how far each call has got
    pc,            \* where each thread is
    mine,          \* the thread's newcookie
    sync,          \* what the thread waits for: cookie, domain; and for
                   \* async_synchronize_full() the calls made before it began
    passed         \* history: the pairs <<e, f>> of calls of one domain where f
                   \* started before e, which had been scheduled earlier

vars == <<next_cookie, async_pending, running, entry_count, dom, job, pc, mine, sync, passed>>

Cookies == 1 .. MaxCookie
NoSync == [cookie |-> 0, dom |-> Default, full |-> FALSE, before |-> 0]

JobStates == {"none", "pending", "queued", "func", "wait", "asleep", "finish",
              "removed", "done", "inline"}
Places == {"idle", "add", "queue", "inline_cookie", "inline", "inline_end", "wait", "asleep",
           "full", "full_running", "full_pending"}

Init ==
    /\ next_cookie = 1
    /\ async_pending = <<>>
    /\ running = [d \in Domains |-> <<>>]
    /\ entry_count = 0
    /\ dom = [c \in Cookies |-> Default]
    /\ job = [c \in Cookies |-> "none"]
    /\ pc = [t \in Threads |-> "idle"]
    /\ mine = [t \in Threads |-> 0]
    /\ sync = [t \in Threads |-> NoSync]
    /\ passed = {}

Goto(t, place) == pc' = [pc EXCEPT ![t] = place]
SetJob(c, s) == job' = [job EXCEPT ![c] = s]

(* Mutant: entries that have not started are forgotten. *)
LowestRunning(d) == IF running[d] # <<>> THEN Head(running[d]) ELSE next_cookie

__lowest_in_progress(d) ==
    IF running[d] # <<>> THEN Head(running[d])
    ELSE LET found == {i \in DOMAIN async_pending : dom[async_pending[i]] = d}
         IN  IF found = {} THEN next_cookie
             ELSE async_pending[CHOOSE i \in found : \A j \in found : i <= j]

(* list_del() of the entry of call c. *)
list_del(list, c) ==
    LET at == CHOOSE i \in DOMAIN list : list[i] = c
    IN  [i \in 1 .. Len(list) - 1 |-> IF i < at THEN list[i] ELSE list[i + 1]]

-----------------------------------------------------------------------------
(* __async_schedule() *)

(* The bound on the calls made, those under way included. *)
MaySchedule ==
    next_cookie + Cardinality({u \in Threads : pc[u] \in {"add", "inline_cookie"}})
       <= MaxCookie

(* Mutant: no limit. *)
NoLimit == TRUE

WithinLimit == entry_count <= MAX_WORK

(* kzalloc() may fail, and the count is read without the lock. *)
async_schedule_domain(t, d) ==
    /\ pc[t] = "idle"
    /\ MaySchedule
    /\ \/ Goto(t, "inline_cookie")        \* out of memory, or beyond the limit
       \/ WithinLimit /\ Goto(t, "add")
    /\ sync' = [sync EXCEPT ![t].dom = d]                  \* entry->running
    /\ UNCHANGED <<next_cookie, async_pending, running, entry_count, dom, job, mine, passed>>

NewCookie(t) ==
    /\ next_cookie' = next_cookie + 1
    /\ mine' = [mine EXCEPT ![t] = next_cookie]
    /\ dom' = [dom EXCEPT ![next_cookie] = sync[t].dom]
    /\ sync' = [sync EXCEPT ![t] = NoSync]

AddPending(t) ==
    /\ pc[t] = "add"
    /\ NewCookie(t)
    /\ async_pending' = Append(async_pending, next_cookie)
    /\ entry_count' = entry_count + 1
    /\ SetJob(next_cookie, "pending")
    /\ Goto(t, "queue")
    /\ UNCHANGED <<running, passed>>

queue_work(t) ==
    /\ pc[t] = "queue"
    /\ SetJob(mine[t], "queued")
    /\ mine' = [mine EXCEPT ![t] = 0]
    /\ Goto(t, "idle")
    /\ UNCHANGED <<next_cookie, async_pending, running, entry_count, dom, sync, passed>>

(* The synchronous fallback: a cookie, but no entry on any list.  The       *)
(* function may wait for the calls made before it.                          *)
InlineCookie(t) ==
    /\ pc[t] = "inline_cookie"
    /\ NewCookie(t)
    /\ SetJob(next_cookie, "inline")
    /\ Goto(t, "inline")
    /\ UNCHANGED <<async_pending, running, entry_count, passed>>

InlineWait(t) ==
    /\ pc[t] = "inline"
    /\ sync' = [sync EXCEPT ![t] = [NoSync EXCEPT !.cookie = mine[t], !.dom = dom[mine[t]]]]
    /\ Goto(t, "wait")
    /\ UNCHANGED <<next_cookie, async_pending, running, entry_count, dom, job, mine, passed>>

RunInline(t) ==
    /\ pc[t] \in {"inline", "inline_end"}
    /\ SetJob(mine[t], "done")
    /\ mine' = [mine EXCEPT ![t] = 0]
    /\ Goto(t, "idle")
    /\ UNCHANGED <<next_cookie, async_pending, running, entry_count, dom, sync, passed>>

-----------------------------------------------------------------------------
(* async_run_entry_fn() *)

(* Work items of the unbound workqueue come here in any order. *)
MoveToRunning(c) ==
    /\ job[c] = "queued"
    /\ async_pending' = list_del(async_pending, c)
    /\ running' = [running EXCEPT ![dom[c]] = Append(@, c)]
    /\ SetJob(c, "func")
    /\ passed' = passed \cup {<<e, c>> : e \in {e \in Range(async_pending) : e < c /\ dom[e] = dom[c]}}
    /\ UNCHANGED <<next_cookie, entry_count, dom, pc, mine, sync>>

(* entry->func() returns, perhaps after a call of                           *)
(* async_synchronize_cookie_domain() with its own cookie.                   *)
Func(c) ==
    /\ \/ job[c] = "func" /\ (SetJob(c, "finish") \/ SetJob(c, "wait"))
       \/ /\ job[c] = "wait"
          /\ SetJob(c, IF __lowest_in_progress(dom[c]) >= c THEN "finish" ELSE "asleep")
    /\ UNCHANGED <<next_cookie, async_pending, running, entry_count, dom, pc, mine, sync, passed>>

(* Mutant: the decrement is done again when the entry is freed. *)
DiscountTwice(n) == n - 2

(* atomic_dec(&entry_count) *)
Discount(n) == n - 1

RemoveEntry(c) ==
    /\ job[c] = "finish"
    /\ running' = [running EXCEPT ![dom[c]] = list_del(@, c)]
    /\ entry_count' = Discount(entry_count)
    /\ SetJob(c, "removed")
    /\ UNCHANGED <<next_cookie, async_pending, dom, pc, mine, sync, passed>>

(* Mutant: nobody is woken. *)
NotWoken(place) == place

(* wake_up(&async_done): whoever sleeps evaluates its condition again. *)
Woken(place) == IF place = "asleep" THEN "wait" ELSE place

WakeWaiters(c) ==
    /\ job[c] = "removed"
    /\ job' = [i \in Cookies |-> IF i = c THEN "done" ELSE Woken(job[i])]
    /\ pc' = [t \in Threads |-> Woken(pc[t])]
    /\ UNCHANGED <<next_cookie, async_pending, running, entry_count, dom, mine, sync, passed>>

-----------------------------------------------------------------------------
(* async_synchronize_*() *)

(* async_synchronize_cookie() is the call with Default. *)
async_synchronize_cookie_domain(t, cookie, d) ==
    /\ pc[t] = "idle"
    /\ cookie < next_cookie
    /\ sync' = [sync EXCEPT ![t] = [NoSync EXCEPT !.cookie = cookie, !.dom = d]]
    /\ Goto(t, "wait")
    /\ UNCHANGED <<next_cookie, async_pending, running, entry_count, dom, job, mine, passed>>

async_synchronize_full_domain(t, d) ==
    /\ pc[t] = "idle"
    /\ sync' = [sync EXCEPT ![t] = [NoSync EXCEPT !.cookie = next_cookie, !.dom = d]]
    /\ Goto(t, "wait")
    /\ UNCHANGED <<next_cookie, async_pending, running, entry_count, dom, job, mine, passed>>

(* The loop of async_synchronize_full(): next_cookie, the wait, and the two *)
(* list_empty() tests.                                                      *)
async_synchronize_full(t) ==
    /\ pc[t] = "idle"
    /\ sync' = [sync EXCEPT ![t] = [NoSync EXCEPT !.full = TRUE, !.before = next_cookie]]
    /\ Goto(t, "full")
    /\ UNCHANGED <<next_cookie, async_pending, running, entry_count, dom, job, mine, passed>>

(* Mutant: the newest call is left out. *)
LastCookie == next_cookie - 1

(* async_synchronize_cookie(next_cookie) *)
FullCookie == next_cookie

FullReadCookie(t) ==
    /\ pc[t] = "full"
    /\ sync' = [sync EXCEPT ![t].cookie = FullCookie]
    /\ Goto(t, "wait")
    /\ UNCHANGED <<next_cookie, async_pending, running, entry_count, dom, job, mine, passed>>

FullTestRunning(t) ==
    /\ pc[t] = "full_running"
    /\ Goto(t, IF running[Default] # <<>> THEN "full" ELSE "full_pending")
    /\ UNCHANGED <<next_cookie, async_pending, running, entry_count, dom, job, mine, sync, passed>>

FullTestPending(t) ==
    /\ pc[t] = "full_pending"
    /\ Goto(t, IF async_pending # <<>> THEN "full" ELSE "idle")
    /\ sync' = IF async_pending # <<>> THEN sync ELSE [sync EXCEPT ![t] = NoSync]
    /\ UNCHANGED <<next_cookie, async_pending, running, entry_count, dom, job, mine, passed>>

(* wait_event(): the condition is tested after the task is on the queue, so *)
(* that the test and the decision to sleep are one step.                    *)
wait_event(t) ==
    /\ pc[t] = "wait"
    /\ IF __lowest_in_progress(sync[t].dom) >= sync[t].cookie
       THEN /\ Goto(t, IF sync[t].full THEN "full_running"
                       ELSE IF mine[t] # 0 THEN "inline_end" ELSE "idle")
            /\ sync' = IF sync[t].full THEN sync ELSE [sync EXCEPT ![t] = NoSync]
       ELSE /\ Goto(t, "asleep")
            /\ UNCHANGED sync
    /\ UNCHANGED <<next_cookie, async_pending, running, entry_count, dom, job, mine, passed>>

-----------------------------------------------------------------------------

Call(t) ==
    \/ \E d \in Domains : async_schedule_domain(t, d)
    \/ \E c \in Cookies, d \in Domains : async_synchronize_cookie_domain(t, c, d)
    \/ \E d \in Domains : async_synchronize_full_domain(t, d)
    \/ async_synchronize_full(t)

ThreadStep(t) ==
    \/ AddPending(t) \/ queue_work(t) \/ InlineCookie(t) \/ InlineWait(t) \/ RunInline(t)
    \/ FullReadCookie(t) \/ FullTestRunning(t) \/ FullTestPending(t) \/ wait_event(t)

JobStep(c) == MoveToRunning(c) \/ Func(c) \/ RemoveEntry(c) \/ WakeWaiters(c)

Next ==
    \/ \E t \in Threads : Call(t) \/ ThreadStep(t)
    \/ \E c \in Cookies : JobStep(c)

Spec == Init /\ [][Next]_vars

(* Threads inside async.c and queued work items get to run, and a function  *)
(* that is not waiting in async.c returns.                                  *)
FairSpec ==
    /\ Spec
    /\ \A t \in Threads : WF_vars(ThreadStep(t))
    /\ \A c \in Cookies : WF_vars(JobStep(c))

-----------------------------------------------------------------------------
(* Properties *)

(* The shape of the lists, of the entries and of what each caller keeps. *)
TypeOK ==
    /\ next_cookie \in 1 .. MaxCookie + 1
    /\ async_pending \in Seq(Cookies)
    /\ running \in [Domains -> Seq(Cookies)]
    /\ entry_count \in Nat
    /\ dom \in [Cookies -> Domains]
    /\ job \in [Cookies -> JobStates]
    /\ pc \in [Threads -> Places]
    /\ mine \in [Threads -> 0 .. MaxCookie]
    /\ sync \in [Threads -> [cookie : 0 .. MaxCookie + 1, dom : Domains,
                             full : BOOLEAN, before : 0 .. MaxCookie + 1]]
    /\ passed \in SUBSET (Cookies \X Cookies)

Pending == {c \in Cookies : job[c] \in {"pending", "queued"}}
Running == {c \in Cookies : job[c] \in {"func", "wait", "asleep", "finish"}}

(* An entry is on the pending list until its work item starts, then on the  *)
(* list of its domain until its function has returned, and is on no list    *)
(* once it is freed.  entry_count counts the entries on the lists.  As the  *)
(* limit is checked before the lock is taken, each thread between the check *)
(* and the addition may exceed it by one, and no more.                      *)
ListsHoldLiveEntries ==
    /\ Range(async_pending) = Pending /\ IsInjective(async_pending)
    /\ \A d \in Domains :
          /\ Range(running[d]) = {c \in Running : dom[c] = d}
          /\ IsInjective(running[d])
    /\ entry_count = Cardinality(Pending \cup Running)
    /\ entry_count <= MAX_WORK + Cardinality(Threads)

(* Has the entry of this call been run?  A call made synchronously has none *)
(* and nobody waits for it, even while its function is still running.       *)
Finished(c) == job[c] \in {"removed", "done", "inline", "none"}
DoneBefore(cookie, d) == \A c \in Cookies : c < cookie /\ dom[c] = d => Finished(c)

(* What async.c says: async_synchronize_cookie_domain(cookie, running), and *)
(* the same called by the functions themselves, return only when every      *)
(* entry of the domain with a smaller cookie has been run.                  *)
SyncCookieWaits ==
    [][/\ \A t \in Threads :
             pc[t] = "wait" /\ pc'[t] \notin {"wait", "asleep"}
                => DoneBefore(sync[t].cookie, sync[t].dom)
       /\ \A c \in Cookies :
             job[c] = "wait" /\ job'[c] = "finish" => DoneBefore(c, dom[c])]_vars

(* Was this call overtaken by one with that cookie or a later one? *)
Overtaken(c, cookie) == \E f \in Cookies : f >= cookie /\ <<c, f>> \in passed

DoneUnlessOvertaken(cookie, d) ==
    \A c \in Cookies : c < cookie /\ dom[c] = d => Finished(c) \/ Overtaken(c, cookie)

(* What the code does: every wait for a cookie, by a thread, by a function  *)
(* on the workqueue or by one called synchronously, ends only when every    *)
(* entry of the domain with a smaller cookie has been run, unless an entry  *)
(* no older than that cookie started before it.  In that one case           *)
(* __lowest_in_progress() finds the younger entry at the head of the        *)
(* running list.                                                            *)
WaitsUnlessOvertaken ==
    [][/\ \A t \in Threads :
             pc[t] = "wait" /\ pc'[t] \notin {"wait", "asleep"}
                => DoneUnlessOvertaken(sync[t].cookie, sync[t].dom)
       /\ \A c \in Cookies :
             job[c] = "wait" /\ job'[c] = "finish" => DoneUnlessOvertaken(c, dom[c])]_vars

(* async_synchronize_full() returns only when every call of the default     *)
(* domain made before it began has been run, unless one made since then     *)
(* started before it: then the two list_empty() tests, which are not made   *)
(* under one lock, may miss the entry as it moves between the lists.        *)
FullWaitsUnlessOvertaken ==
    [][\A t \in Threads :
          pc[t] = "full_pending" /\ pc'[t] = "idle"
             => DoneUnlessOvertaken(sync[t].before, Default)]_vars

(* Every entry is run and freed, and every wait ends, also when the         *)
(* functions wait for one another.                                          *)
EverythingFinishes ==
    /\ \A c \in Cookies : job[c] # "none" ~> job[c] = "done"
    /\ \A t \in Threads : pc[t] # "idle" ~> pc[t] = "idle"
=============================================================================
