----------------------------- MODULE PermitLock -----------------------------
(***************************************************************************)
(* What a sleeping lock promises, whatever its queueing and wake-up        *)
(* machinery: a number of permits that are either free or held by tasks.   *)
(* A permit is taken from the free ones, given back, or passed directly    *)
(* from the task that releases it to one that was waiting for it; it is    *)
(* never lost, and there are never more of them than there were at the     *)
(* start and releases that had no acquisition have added.  kernel/semaphore.c and kernel/mutex.c *)
(* are shown to implement this module.                                     *)
(***************************************************************************)
EXTENDS Naturals

CONSTANTS
    Tasks,        \* the tasks that use the lock
    Permits       \* how many permits are free initially

VARIABLES
    free,         \* permits anybody can take
    holding,      \* permits each task holds
    created       \* releases by someone who had not acquired

lockVars == <<free, holding, created>>

LockInit ==
    /\ free = Permits
    /\ holding = [t \in Tasks |-> 0]
    /\ created = 0

(* Task t takes a free permit. *)
Take(t) ==
    /\ free > 0
    /\ free' = free - 1
    /\ holding' = [holding EXCEPT ![t] = @ + 1]
    /\ UNCHANGED created

(* Task t returns a permit nobody is waiting for. *)
Give(t) ==
    /\ holding[t] > 0
    /\ free' = free + 1
    /\ holding' = [holding EXCEPT ![t] = @ - 1]
    /\ UNCHANGED created

(* Task t returns a permit that goes straight to the waiting task u. *)
Pass(t, u) ==
    /\ t # u
    /\ holding[t] > 0
    /\ holding' = [holding EXCEPT ![t] = @ - 1, ![u] = @ + 1]
    /\ UNCHANGED <<free, created>>

(* A release by someone who never acquired adds a permit, for the pool ... *)
Create ==
    /\ created' = created + 1
    /\ free' = free + 1
    /\ UNCHANGED holding

(* ... or for the task that waits for one. *)
CreateFor(u) ==
    /\ created' = created + 1
    /\ holding' = [holding EXCEPT ![u] = @ + 1]
    /\ UNCHANGED free

LockNext ==
    \/ \E t \in Tasks : Take(t) \/ Give(t)
    \/ \E t, u \in Tasks : Pass(t, u)

(* A lock whose permits are only released by those who acquired them. *)
OwnedSpec == LockInit /\ [][LockNext]_lockVars

(* A lock that may also be released from outside, as up() allows. *)
SharedSpec ==
    LockInit /\ [][LockNext \/ Create \/ \E u \in Tasks : CreateFor(u)]_lockVars
=============================================================================
