---------------------------- MODULE MCTaskManager ---------------------------
(* Instances of TaskManager for TLC.                                        *)
EXTENDS TaskManager, TLC

CONSTANTS p1, p2

Symmetry == Permutations(Peer)
TwoSteps == {-2, -1, 1, 2}
=============================================================================
