------------------------------- MODULE MCSrcu -------------------------------
(* Instances of Srcu for TLC. *)
EXTENDS Srcu, TLC

CONSTANTS r1, r2, cb1, cb2, s1

None == {}
OneReader == {r1}
TwoReaders == {r1, r2}
TwoCallbacks == {cb1, cb2}
OneSyncer == {s1}
Twice == {2}
FirstCPU == {1}

(* Readers are interchangeable, and so are callbacks. *)
Symmetry == {f @@ g : f \in Permutations(TwoReaders), g \in Permutations(TwoCallbacks)}
=============================================================================
