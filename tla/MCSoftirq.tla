----------------------------- MODULE MCSoftirq -----------------------------
(* Two CPUs, a task, a tasklet that is always put first and another one. *)
EXTENDS Softirq, TLC

CONSTANTS c1, c2, k1, k2, u1

MCCpus == {c1, c2}
MCUsers == {u1}
MCTasklets == {k1, k2}
MCVec == (k1 :> "FIRST" @@ k2 :> "HI")

Symmetry == Permutations(Cpus)
=============================================================================
