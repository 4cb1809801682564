---------------------------- MODULE MCStopMachine ----------------------------
(* Two CPUs and two tasks, one of which takes CPUs down and up. *)
EXTENDS StopMachine, TLC

CONSTANTS t1, t2

MCCpus == {0, 1}
MCTasks == {t1, t2}
MCCalls == (t1 :> {"machine", "hotplug"} @@ t2 :> {"one", "nowait", "machine", "try"})

(* With a third CPU a call can return while another CPU drains the list. *)
MCDrainCpus == {0, 1, 2}
MCDrainCalls == (t1 :> {"hotplug"} @@ t2 :> {"one"})
=============================================================================
