------------------------------ MODULE MCRwsem ------------------------------
(* Instances of Rwsem for TLC. *)
EXTENDS Rwsem, TLC

CONSTANTS t1, t2, t3

MCTasks == {t1, t2, t3}
=============================================================================
