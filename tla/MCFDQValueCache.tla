-------------------------- MODULE MCFDQValueCache ---------------------------
(***************************************************************************)
(* A task in which plans overlap: from s0 the goal is two to four steps    *)
(* away, by paths that share the states s1, s2 and s3 at different costs,  *)
(* so that every plan found finds entries of earlier plans to improve or   *)
(* to leave alone.  The only action in x leads to the dead end d, where    *)
(* nothing is enabled, and in the goal g, as in goals often, actions are   *)
(* enabled.                                                                *)
(***************************************************************************)
EXTENDS FDQValueCache

CONSTANTS s0, s1, s2, s3, x, d, g, a, b

MCState == {s0, s1, s2, s3, x, d, g}
MCAction == {a, b}
MCGoal == {g}

MCEnabled == [s \in MCState |->
    CASE s = x -> {a}
      [] s = d -> {}
      [] OTHER -> {a, b}]

MCSucc == [s \in MCState |-> [act \in MCAction |->
    CASE s = s0 -> IF act = a THEN s1 ELSE s3
      [] s = s1 -> IF act = a THEN s2 ELSE s3
      [] s = s2 -> IF act = a THEN s3 ELSE s1
      [] s = s3 -> IF act = a THEN g ELSE s0
      [] s = g  -> IF act = a THEN s2 ELSE x
      [] OTHER  -> d]]

=============================================================================
