--------------------------- MODULE MCIteratedSearch ---------------------------
(* Instances of IteratedSearch for TLC: a task with a cycle of cost 0, a   *)
(* dead end that is reopened, and a shortest plan that is not the cheapest.*)
EXTENDS IteratedSearch

CONSTANTS a, b, c, d, x, g, z, u, v, w

Transitions ==
    {<<a, z, b>>, <<b, z, a>>, <<a, w, c>>, <<b, u, c>>, <<b, w, d>>,
     <<c, w, g>>, <<c, u, d>>, <<d, u, g>>, <<d, v, a>>, <<a, v, x>>, <<c, z, x>>,
     <<x, z, x>>}

Costs == (z :> 0) @@ (u :> 1) @@ (v :> 2) @@ (w :> 3)

Helpful == [s \in State |-> CASE s = a -> {w} [] s = b -> {w} [] s = c -> {w}
                              [] OTHER -> {}]

\* Heuristics: admissible ones of all kinds, one that overestimates, one
\* that takes every state for a dead end, and a second one for the open lists that alternate.
Admissibles == {f \in [State -> {0, 1, HStar[a], INF}] :
                   /\ \A s \in State : f[s] \in {0, HStar[s]}
                   /\ f[g] = 0}
Inadmissible == [s \in State |-> CASE s = d -> 4 [] s = g -> 0 [] s = x -> 3
                                   [] OTHER -> 1]
Second == [s \in State |-> CASE s = a -> 2 [] s = c -> 1 [] s = g -> 0
                             [] s = x -> INF [] OTHER -> 3]
Hopeless == [s \in State |-> INF]
MCHeuristics == {<<f, Second>> : f \in Admissibles \cup {Inadmissible, Hopeless}}

WF == [g |-> 1, w |-> 3, h |-> 1, pref |-> FALSE]
G == [g |-> 1, w |-> 0, h |-> 1, pref |-> FALSE]
H1 == [g |-> 0, w |-> 1, h |-> 1, pref |-> FALSE]
H2 == [g |-> 0, w |-> 1, h |-> 2, pref |-> FALSE]
Pref == [g |-> 0, w |-> 0, h |-> 1, pref |-> TRUE]

List(type, evals, pref_only) ==
    [type |-> type, evals |-> evals, pref_only |-> pref_only, unsafe |-> FALSE]

Engine(kind, lists, reopen_closed, cost_type) ==
    [kind |-> kind, lists |-> lists, reopen_closed |-> reopen_closed,
     cost_type |-> cost_type, lazy_evaluator |-> FALSE, preferred |-> TRUE,
     prune |-> FALSE, boost |-> 2, max_time |-> FALSE]

AStar == [Engine("eager", AStarLists, TRUE, "normal") EXCEPT !.preferred = FALSE]
AStarLazyEvaluator == [AStar EXCEPT !.lazy_evaluator = TRUE]
Greedy == Engine("eager", <<List("best_first", <<H1>>, FALSE),
                            List("best_first", <<H1>>, TRUE),
                            List("best_first", <<H2>>, FALSE),
                            List("best_first", <<H2>>, TRUE)>>, FALSE, "normal")
LazyGreedy == [Greedy EXCEPT !.kind = "lazy", !.cost_type = "one"]
LazyWAStar == Engine("lazy", <<List("best_first", <<WF>>, FALSE),
                               List("best_first", <<WF>>, TRUE)>>, TRUE, "normal")
Pareto == Engine("lazy", <<List("pareto", <<H1, G>>, FALSE)>>, TRUE, "normal")
TypeBased == Engine("eager", <<List("type_based", <<H1, G>>, FALSE)>>, TRUE,
                    "normal")
Epsilon == Engine("eager", <<List("epsilon_greedy", <<H1>>, FALSE)>>, FALSE,
                  "plusone")
Climb == Engine("ehc", <<List("tiebreaking", <<G, Pref>>, FALSE)>>, FALSE, "normal")
ClimbPruned == [Engine("ehc", <<List("best_first", <<G>>, FALSE)>>, FALSE,
                       "normal") EXCEPT !.prune = TRUE]

Portfolio(engines) ==
    [engine_configs |-> engines, bound |-> INF, pass_bound |-> TRUE,
     repeat_last |-> FALSE, continue_on_fail |-> FALSE,
     continue_on_solve |-> TRUE, max_time |-> FALSE]
Single(engine) == [Portfolio(<<engine>>) EXCEPT !.continue_on_solve = FALSE]
Lama == [Portfolio(<<LazyGreedy, LazyWAStar>>) EXCEPT
            !.repeat_last = TRUE, !.continue_on_fail = TRUE]

MCPortfolios ==
    {Single(AStar), Single(AStarLazyEvaluator), Single(Epsilon), Lama,
     Single(TypeBased), Single([Pareto EXCEPT !.max_time = TRUE]),
     [Portfolio(<<Greedy, Epsilon>>) EXCEPT !.pass_bound = FALSE],
     [Portfolio(<<Greedy, AStar>>) EXCEPT !.bound = 4, !.max_time = TRUE],
     [Portfolio(<<Climb, ClimbPruned, AStar>>) EXCEPT !.continue_on_fail = TRUE]}
=============================================================================
