---------------------------- MODULE MCLearnDriver ----------------------------
(* Instances of LearnDriver for TLC.                                       *)
EXTENDS LearnDriver

CONSTANTS p1, p2, p3, p4, p5

FiveProblems == <<p1, p2, p3, p4, p5>>

FourProblems == <<p1, p2, p3, p4>>
=============================================================================
