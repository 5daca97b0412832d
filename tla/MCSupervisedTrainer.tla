------------------------- MODULE MCSupervisedTrainer --------------------------
(* Instances of SupervisedTrainer for TLC.                                 *)
EXTENDS SupervisedTrainer

CONSTANTS p1, p2
=============================================================================
