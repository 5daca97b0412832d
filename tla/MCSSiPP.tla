------------------------------- MODULE MCSSiPP -------------------------------
(* A problem with a retry, a dead end, a trap, and two ways to the goal:     *)
(* from i, a risky action ends in the goal or in the dead end, a safe one    *)
(* leads through a, where it takes two tries on average, and a detour leads  *)
(* through c.  The cost of an action is 4 units, of a detour 12, of the trap 16. *)
EXTENDS SSiPPTeacher, TLC

MCState == {"i", "a", "c", "d", "t", "g"}
MCApplicable ==
    [s \in MCState |-> CASE s = "i" -> <<"risky", "safe">>
                         [] s = "a" -> <<"try">>
                         [] s = "c" -> <<"back", "go">>
                         [] s = "t" -> <<"loop">>
                         [] OTHER -> <<>>]
MCOutcome ==
    (<<"i", "risky">> :> ("g" :> 1 @@ "d" :> 1)) @@
    (<<"i", "safe">>  :> ("a" :> 1 @@ "c" :> 1)) @@
    (<<"a", "try">>   :> ("g" :> 1 @@ "a" :> 1)) @@
    (<<"c", "back">>  :> ("i" :> 1 @@ "t" :> 1)) @@
    (<<"c", "go">>    :> ("g" :> 2)) @@
    (<<"t", "loop">>  :> ("t" :> 2))
MCCost == [sa \in DOMAIN MCOutcome |-> CASE sa[2] = "go" -> 12 [] sa[2] = "loop" -> 16 [] OTHER -> 4]
MCAllQ == DOMAIN MCOutcome

\* i: 4 + (8 + 12) / 2 = 14, below 4 + 32 / 2 = 20.
MCOptimal == [s \in MCState |-> CASE s = "i" -> 14 [] s = "a" -> 8 [] s = "c" -> 12
                                  [] s \in {"d", "t"} -> 32 [] s = "g" -> 0]
ASSUME OptimalIsFixedPoint ==
    \A s \in State : Optimal[s] = IF s \in Goal THEN 0
                                  ELSE Greedy(Optimal, Goal, s).value

\* No knowledge; a lower bound that is not consistent; perfect knowledge.
MCZero == [s \in MCState |-> 0]
MCUneven == [MCZero EXCEPT !["i"] = 13, !["d"] = 32]
MCHeuristics == {MCZero, MCUneven}

Planner(name, engine, method, limits) ==
    [name |-> name, engine |-> engine, method |-> method, limits |-> limits]
MCPlanners ==
    {Planner("opt", e, "none", {}) : e \in {"lrtdp", "vi"}} \cup
    {Planner("ssipp", "vi", "max_depth", {1, 2}),
     Planner("ssipp", "lrtdp", "max_depth", {1, 2}),
     Planner("ssipp", "lrtdp", "min_prob_traj", {16}),
     Planner("ssipp", "lrtdp", "greedy", {3}),
     Planner("labeledssipp", "lrtdp", "max_depth", {2}),
     Planner("labeledssipp", "lrtdp", "min_prob_traj", {16}),
     Planner("labeledssipp", "lrtdp", "greedy", {3})}
=============================================================================
