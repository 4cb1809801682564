----------------------------- MODULE MCSemaphore -----------------------------
(* Instances of Semaphore for TLC. *)
EXTENDS Semaphore

CONSTANTS t1, t2, t3

ThreeTasks == {t1, t2, t3}
=============================================================================
