------------------------------- MODULE RwLock -------------------------------
(***************************************************************************)
(* What a reader/writer semaphore promises, whatever its counter, queue    *)
(* and wake-up machinery: it is free, shared by readers or owned by one    *)
(* writer, and a writer may keep it as a reader without letting another    *)
(* writer in between.                                                      *)
(***************************************************************************)
CONSTANT Tasks

VARIABLE own      \* how each task owns the lock

Modes == {"none", "read", "write"}

LockInit == own = [t \in Tasks |-> "none"]

(* Any number of tasks become readers together, while nobody writes. *)
AcquireRead(S) ==
    /\ \A t \in Tasks : own[t] # "write"
    /\ \A t \in S : own[t] = "none"
    /\ own' = [t \in Tasks |-> IF t \in S THEN "read" ELSE own[t]]

AcquireWrite(t) ==
    /\ \A u \in Tasks : own[u] = "none"
    /\ own' = [own EXCEPT ![t] = "write"]

Release(t) ==
    /\ own[t] # "none"
    /\ own' = [own EXCEPT ![t] = "none"]

Downgrade(t) ==
    /\ own[t] = "write"
    /\ own' = [own EXCEPT ![t] = "read"]

LockNext ==
    \/ \E S \in SUBSET Tasks : AcquireRead(S)
    \/ \E t \in Tasks : AcquireWrite(t) \/ Release(t) \/ Downgrade(t)

LockSpec == LockInit /\ [][LockNext]_own
=============================================================================
