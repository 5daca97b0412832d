---------------------------- MODULE IteratedSearch ----------------------------
(***************************************************************************)
(* Iterated search (search_engines/iterated_search.cc), composed with the  *)
(* engines it runs one after the other and with the plan manager           *)
(* (plan_manager.cc), which writes every better plan to a file of its own. *)
(* A single engine is a portfolio of one phase.                            *)
(*                                                                         *)
(* A portfolio is a record with the fields engine_configs, bound,          *)
(* pass_bound, repeat_last, continue_on_fail, continue_on_solve, max_time. *)
(***************************************************************************)
EXTENDS EagerSearch, LazySearch, HillClimbing

CONSTANTS
    Portfolios,     \* what the command line may ask for
    Heuristics      \* the sequences of heuristic functions it may ask for

\* An open list has sublists and a sublist has evaluators.  One that insists
\* on preferred operators comes with one that does not, otherwise the same
\* (create_alternation_open_list_factory_aux adds them in pairs).
ListsOK(lists) ==
    /\ 1 \in DOMAIN lists
    /\ \A i \in DOMAIN lists :
          /\ 1 \in DOMAIN lists[i].evals
          /\ \E j \in DOMAIN lists :
                /\ ~lists[j].pref_only
                /\ lists[j].type = lists[i].type /\ lists[j].evals = lists[i].evals
                /\ lists[j].unsafe = lists[i].unsafe

\* A portfolio has a bound and an engine, and an engine a cost type.
ASSUME PortfolioAssumption ==
    \A p \in Portfolios :
        /\ p.bound \in 0..INF
        /\ Len(p.engine_configs) \in Nat \ {0}
        /\ \A i \in 1..Len(p.engine_configs) :
              /\ p.engine_configs[i].cost_type \in {"normal", "one", "plusone"}
              /\ ListsOK(p.engine_configs[i].lists)

Evaluators(lists) ==
    UNION {{lists[i].evals[k] : k \in DOMAIN lists[i].evals} : i \in DOMAIN lists}

\* Estimates are integers up to infinity, and what evaluators refer to is there.
ASSUME HeuristicsAssumption ==
    \A f \in Heuristics :
        /\ f \in Seq([State -> 0..INF]) /\ f # <<>>
        /\ \A p \in Portfolios : \A i \in 1..Len(p.engine_configs) :
              \A e \in Evaluators(p.engine_configs[i].lists) : e.h \in DOMAIN f

VARIABLES
    portfolio,
    phase,          \* the number of phases begun
    best_bound,
    last_phase_found_solution,
    iterated_found_solution,
    it_status,      \* the status of the iterated search; "exit" and "killed"
                    \* when the process has ended without one
    it_plan,        \* <<>>, or <<p>> after set_plan(p)
    stage,          \* "step", "searching", "saving" or "step_returns"
    files           \* the plan files, as sequences of plans: <<>> is empty

engineVars == <<node, cfg, bound, open, best_h, status, plan, solution_found,
                cur, edge, todo>>
itVars == <<portfolio, phase, best_bound, last_phase_found_solution,
            iterated_found_solution, it_status, it_plan, stage, files>>
vars == <<node, cfg, bound, h, open, best_h, status, plan, solution_found, cur,
          edge, todo, portfolio, phase, best_bound, last_phase_found_solution,
          iterated_found_solution, it_status, it_plan, stage, files>>

Init ==
    /\ portfolio \in Portfolios /\ h \in Heuristics
    /\ cfg = portfolio.engine_configs[1]
    /\ bound = INF /\ node = [s \in State |-> NewNode]
    /\ open = EmptyLists(cfg.lists) /\ best_h = [i \in DOMAIN h |-> INF]
    /\ status = "none" /\ plan = <<>> /\ solution_found = FALSE
    /\ cur = initial /\ edge = <<>> /\ todo = {}
    /\ phase = 0 /\ best_bound = portfolio.bound
    /\ last_phase_found_solution = FALSE /\ iterated_found_solution = FALSE
    /\ it_status = "in_progress" /\ it_plan = <<>> /\ stage = "step"
    /\ files = <<>>

num_phases == Len(portfolio.engine_configs)

\* create_current_phase returns an engine.
CreatesPhase ==
    \/ phase < num_phases
    \/ portfolio.repeat_last /\ last_phase_found_solution

current_phase == portfolio.engine_configs[IF phase < num_phases THEN phase + 1
                                          ELSE num_phases]

\* The first half of step(): the engine is created and starts to search.
StartPhase ==
    /\ it_status = "in_progress" /\ stage = "step"
    /\ CreatesPhase
    /\ EngineStarts(current_phase,
                    IF portfolio.pass_bound THEN best_bound ELSE INF)
    /\ phase' = phase + 1
    /\ stage' = "searching"
    /\ UNCHANGED <<h, portfolio, best_bound, last_phase_found_solution,
                   iterated_found_solution, it_status, it_plan, files>>

NoPhaseLeft ==
    /\ it_status = "in_progress" /\ stage = "step"
    /\ ~CreatesPhase
    /\ it_status' = IF it_plan # <<>> THEN "solved" ELSE "failed"
    /\ UNCHANGED <<h, engineVars, portfolio, phase, best_bound,
                   last_phase_found_solution, iterated_found_solution, it_plan,
                   stage, files>>

Search ==
    /\ it_status = "in_progress" /\ stage = "searching"
    /\ EagerNext \/ LazyNext \/ HillNext
    /\ UNCHANGED itVars

\* Hill-climbing calls exit_with.
Exit ==
    /\ it_status = "in_progress" /\ stage = "searching" /\ status = "exit"
    /\ it_status' = "exit"
    /\ UNCHANGED <<h, engineVars, portfolio, phase, best_bound,
                   last_phase_found_solution, iterated_found_solution, it_plan,
                   stage, files>>

Improves == PlanCost(plan) < best_bound

\* Bug: an engine that ran out of time is waited for.
BugPhaseOver == status \in {"solved", "failed"}

PhaseOver == status \in {"solved", "failed", "timeout"}

\* The second half of step().  A better plan has its file opened first.
PhaseEnds ==
    /\ it_status = "in_progress" /\ stage = "searching"
    /\ PhaseOver
    /\ last_phase_found_solution' = solution_found
    /\ iterated_found_solution' = (iterated_found_solution \/ solution_found)
    /\ IF solution_found /\ Improves
       THEN stage' = "saving" /\ files' = Append(files, <<>>)
       ELSE stage' = "step_returns" /\ UNCHANGED files
    /\ UNCHANGED <<h, engineVars, portfolio, phase, best_bound, it_status,
                   it_plan>>

\* Bug: the plan is not remembered.
BugSavePlan ==
    /\ it_status = "in_progress" /\ stage = "saving"
    /\ files' = [files EXCEPT ![Len(files)] = <<plan>>]
    /\ best_bound' = PlanCost(plan)
    /\ stage' = "step_returns"
    /\ UNCHANGED <<h, engineVars, portfolio, phase, last_phase_found_solution,
                   iterated_found_solution, it_status, it_plan>>

\* save_plan has written the plan and closed its file.
SavePlan ==
    /\ it_status = "in_progress" /\ stage = "saving"
    /\ files' = [files EXCEPT ![Len(files)] = <<plan>>]
    /\ \E cost \in 0..best_bound : cost = PlanCost(plan) /\ best_bound' = cost
    /\ it_plan' = <<plan>>
    /\ stage' = "step_returns"
    /\ UNCHANGED <<h, engineVars, portfolio, phase, last_phase_found_solution,
                   iterated_found_solution, it_status>>

step_return_value ==
    IF last_phase_found_solution
    THEN IF portfolio.continue_on_solve THEN "in_progress" ELSE "solved"
    ELSE IF portfolio.continue_on_fail THEN "in_progress"
    ELSE IF iterated_found_solution THEN "solved" ELSE "failed"

\* The iterated search has a clock of its own.
StepReturned ==
    /\ it_status = "in_progress" /\ stage = "step_returns"
    /\ it_status' \in {step_return_value}
          \cup (IF portfolio.max_time THEN {"timeout"} ELSE {})
    /\ stage' = "step"
    /\ UNCHANGED <<h, engineVars, portfolio, phase, best_bound,
                   last_phase_found_solution, iterated_found_solution, it_plan,
                   files>>

\* The caller's time limit: the process is gone, its files stay.
Kill ==
    /\ it_status = "in_progress"
    /\ it_status' = "killed"
    /\ UNCHANGED <<h, engineVars, portfolio, phase, best_bound,
                   last_phase_found_solution, iterated_found_solution, it_plan,
                   stage, files>>

Steps == StartPhase \/ NoPhaseLeft \/ Search \/ Exit \/ PhaseEnds \/ SavePlan
         \/ StepReturned

Next == Steps \/ Kill

\* A planner that is not killed keeps running.
Spec == Init /\ [][Next]_vars /\ WF_vars(Steps)

-----------------------------------------------------------------------------
(* Properties.                                                             *)

NodeType == [status : {"new", "open", "closed", "dead_end"},
             g : Int, real_g : Int,
             parent : State \cup {NoState}, op : Op \cup {NoOp}]

\* The search space, the engine and the iterated search are well-typed, and
\* what an engine expands are operators of the task.
TypeOK ==
    /\ node \in [State -> NodeType]
    /\ \A s \in State : node[s].status \in {"open", "closed"} =>
          node[s].g \in Nat /\ node[s].real_g \in Nat
    /\ cur \in State /\ todo \subseteq Op
    /\ bound \in Nat /\ best_bound \in Nat
    /\ cfg.cost_type \in {"normal", "one", "plusone"}
    /\ phase \in Nat /\ portfolio \in Portfolios
    /\ it_status \in {"in_progress", "solved", "failed", "timeout", "exit",
                      "killed"}
    /\ stage \in {"step", "searching", "saving", "step_returns"}

\* Tracing parents back ends, whatever was reopened, updated or marked dead
\* on the way: every set of nodes has one whose parent is outside it
\* (SearchSpace::trace_path has no other guard against running in circles).
ParentsAcyclic ==
    \A S \in SUBSET {s \in State : node[s].parent # NoState} :
        S # {} => \E s \in S : node[s].parent \notin S

\* A node's way is the one its g value was computed for, or a cheaper one:
\* the parent has been reached, its operator leads to the node, and g covers
\* the parent's g.  (Nodes are reopened while their successors keep theirs.)
ParentsSound ==
    \A s \in State : node[s].parent # NoState =>
        LET p == node[s].parent
        IN /\ Seen(node[p]) /\ <<p, node[s].op, s>> \in Transition
           /\ node[s].g >= node[p].g + adj(node[s].op)

\* With normal costs no node is reached at or above the bound: the bound is
\* a bound on real costs.
BoundKept ==
    cfg.cost_type = "normal" =>
        \A s \in State \ {initial} :
            node[s].status \in {"open", "closed"} => node[s].real_g < bound

Admissible == \A s \in State : h[1][s] <= HStar[s]

IsAStar == /\ cfg.kind = "eager" /\ cfg.reopen_closed
           /\ cfg.cost_type = "normal" /\ cfg.lists = AStarLists

\* A* with an admissible heuristic returns a cheapest plan, also when the
\* heuristic is inconsistent and closed nodes are reopened, and when a lazy
\* evaluator changes its mind about states that are in the open list.
AStarOptimal ==
    IsAStar /\ Admissible /\ solution_found => PlanCost(plan) = HStar[initial]

Safe == \A i \in DOMAIN h, s \in State : h[i][s] = INF => HStar[s] = INF

\* A best-first search that has explored everything was right to fail if its
\* bound cut nothing, or if it reopened: no plan is below the bound.
FailedMeansNoPlan ==
    /\ cfg.kind \in {"eager", "lazy"} /\ status = "failed"
    /\ Safe /\ ~cfg.max_time
    /\ bound = INF \/ (cfg.reopen_closed /\ cfg.cost_type = "normal")
    => HStar[initial] >= bound

\* No sum of the search has reached infinity on its own, neither a cost nor
\* the value of an evaluator: what the code's integers are assumed to hold.
Finite(s, g) ==
    \A e \in Evaluators(cfg.lists), pref \in BOOLEAN :
        Value(e, Eval(s, g, pref)) = INF => e.w # 0 /\ h[e.h][s] = INF

NoOverflow ==
    /\ Finite(initial, 0)
    /\ \A s \in State : node[s].g >= 0 =>
          /\ Finite(s, node[s].g)
          /\ \A o \in Applicable(s) :
                /\ Finite(s, node[s].g + adj(o))
                /\ Finite(Successor(s, o), node[s].g + adj(o))
                /\ node[s].real_g + Cost[o] < INF

\* The search that is not killed comes to an end.
Terminates == <>(it_status # "in_progress")

\* The iterated search is an anytime planner.  A file counts when it is
\* whole; only the last one may be cut short.
whole(fs) == IF fs # <<>> /\ Last(fs) = <<>> THEN Front(fs) ELSE fs

Whole == whole(files)

\* main asks for the plan, not for the status.
ExitCode == CASE it_status = "in_progress" -> "none"
              [] it_status \in {"solved", "failed", "timeout"} ->
                    IF it_plan # <<>> THEN "solved" ELSE "failed"
              [] it_status \in {"exit", "killed"} -> it_status

Anytime == INSTANCE AnytimePlanner WITH
    published <- [i \in DOMAIN Whole |-> Whole[i][1]],
    answer <- ExitCode

ImplementsAnytime == Anytime!Spec
=============================================================================
