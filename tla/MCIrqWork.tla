------------------------------ MODULE MCIrqWork ------------------------------
(* Instances of IrqWork for TLC. *)
EXTENDS IrqWork

CONSTANTS w1, w2, cpu0, cpu1, task0, task1, nmi0

OneWork == {w1}
TwoWorks == {w1, w2}
TwoCPUs == {cpu0, cpu1}
TwoTasks == {task0, task1}
TaskAndNmi == {task1, nmi0}

Home == [q \in Queuers |-> IF q = task1 THEN cpu1 ELSE cpu0]
NoNmi == {}
Nmi0 == {nmi0}
=============================================================================
