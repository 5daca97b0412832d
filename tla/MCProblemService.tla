--------------------------- MODULE MCProblemService ---------------------------
(***************************************************************************)
(* A task for TLC.  From s0 a plan goes through s1, from which the goal is *)
(* one or two steps away; s3, off that plan, leads back to s1; d is a dead *)
(* end, from which nothing is enabled; s4 has a single enabled action; and *)
(* actions remain enabled in the goal g.                                   *)
(***************************************************************************)
EXTENDS ProblemService

CONSTANTS s0, s1, s2, s3, s4, d, g, a, b

MCState == {s0, s1, s2, s3, s4, d, g}
MCAction == {a, b}
MCGoal == {g}

MCEnabled == [s \in MCState |->
    CASE s = s4 -> {a}
      [] s = d -> {}
      [] OTHER -> {a, b}]

MCSucc == [s \in MCState |-> [act \in MCAction |->
    CASE s = s0 -> IF act = a THEN s1 ELSE s3
      [] s = s1 -> IF act = a THEN s2 ELSE g
      [] s = s2 -> IF act = a THEN g ELSE s4
      [] s = s3 -> IF act = a THEN s1 ELSE d
      [] s = s4 -> g
      [] s = d  -> d
      [] s = g  -> IF act = a THEN s0 ELSE g]]

=============================================================================
