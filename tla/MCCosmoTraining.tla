--------------------------- MODULE MCCosmoTraining ---------------------------
(* A small instance of CosmoTraining.                                         *)
EXTENDS CosmoTraining, TLC

CONSTANTS p1, p2, r1, r2, a1, a2

(* The network drifts while the guest may still ask again. *)
MCDriftsFrom == [c \in Control |-> IF c \in Network THEN 1 ELSE MaxTime]

TrainingSymmetry ==
    Permutations(Process) \cup Permutations(Request) \cup Permutations(Adapter)

=============================================================================
