------------------------------ MODULE SearchSpace ------------------------------
(***************************************************************************)
(* The search space (search_space.cc): one node per state, with the g      *)
(* values and the parent by which a plan is traced back; and what the      *)
(* search engines have in common (search_engine.cc).                       *)
(*                                                                         *)
(* g counts adjusted costs (cost_type), real_g the task's costs.           *)
(***************************************************************************)
EXTENDS SearchTask, OpenLists

CONSTANT Preferred      \* Preferred[s]: the operators helpful in state s

ASSUME InfinityAssumption == Infinity = INF

ASSUME PreferredAssumption == \A s \in State : Preferred[s] \subseteq Applicable(s)

VARIABLES
    node,       \* search_node_infos
    cfg,        \* the engine's configuration
    bound,      \* cut-off on real costs
    h,          \* estimates: a sequence of functions on State
    open,       \* open_list
    best_h,     \* search_progress: the least estimate seen so far, per index
    status,     \* "in_progress", "solved", "failed" or "timeout"
    plan,       \* what set_plan stored, if solution_found
    solution_found,
    cur,        \* the state that is being expanded or evaluated
    edge,       \* how the engine came to cur, where it needs to know
    todo        \* the operators of the expansion that are still to be tried

NewNode == [status |-> "new", g |-> -1, real_g |-> -1,
            parent |-> NoState, op |-> NoOp]

adj(o) == AdjustedCost(cfg.cost_type, o)

Seen(n) == n.status # "new"

open_initial(nodes) ==
    [nodes EXCEPT ![initial] = [status |-> "open", g |-> 0, real_g |-> 0,
                                parent |-> NoState, op |-> NoOp]]

\* Bug: g is taken over from the parent.
BugG(s, o, st) ==
    [status |-> st, g |-> node[s].g, real_g |-> node[s].real_g + Cost[o],
     parent |-> s, op |-> o]

\* The part that open, reopen and update_parent share.
Reached(s, o, st) ==
    [status |-> st, g |-> node[s].g + adj(o),
     real_g |-> node[s].real_g + Cost[o], parent |-> s, op |-> o]

OpenNode(t, s, o) == [node EXCEPT ![t] = Reached(s, o, "open")]

update_parent(t, s, o) == [node EXCEPT ![t] = Reached(s, o, @.status)]

Close(nodes, s) == [nodes EXCEPT ![s].status = "closed"]

mark_as_dead_end(s) == [node EXCEPT ![s].status = "dead_end"]

\* trace_path: the operators on the way to s, and NoOp at the front if the
\* parents do not lead to a node without one.
trace_path(nodes, s) ==
    LET back[k \in 0..Cardinality(State)] ==
          [t \in State |->
              IF nodes[t].op = NoOp THEN <<>>
              ELSE IF k = 0 THEN <<NoOp>>
              ELSE Append(back[k - 1][nodes[t].parent], nodes[t].op)]
    IN back[Cardinality(State)][s]

-----------------------------------------------------------------------------
(* search_engine.cc and search_progress.cc.                                *)

Estimates(s) == [i \in DOMAIN h |-> h[i][s]]

Eval(s, g, pref) == Context(g, Estimates(s), pref)

preferred_operators(s) == IF cfg.preferred THEN Preferred[s] ELSE {}

\* The engine is created and its search space is empty.
EngineStarts(config, b) ==
    /\ cfg' = config /\ bound' = b
    /\ node' = [s \in State |-> NewNode]
    /\ open' = EmptyLists(config.lists)
    /\ best_h' = [i \in DOMAIN h |-> INF]
    /\ status' = "initialize" /\ plan' = <<>> /\ solution_found' = FALSE
    /\ cur' = initial /\ edge' = <<>> /\ todo' = {}

\* The search loop looks at the clock after every step, and a step that has
\* just solved the task may be told that it was too late.
StepReturns(st) == status' \in {st} \cup (IF cfg.max_time THEN {"timeout"} ELSE {})

check_goal_and_set_plan(s, nodes) ==
    IF IsGoal(s)
    THEN plan' = trace_path(nodes, s) /\ solution_found' = TRUE
    ELSE UNCHANGED <<plan, solution_found>>

Progress(s) == \E i \in DOMAIN h : h[i][s] < best_h[i]

check_progress(s) ==
    [i \in DOMAIN h |-> IF h[i][s] < best_h[i] THEN h[i][s] ELSE best_h[i]]

\* reward_progress, if the state with these estimates is progress.
Rewarded(s, lists) ==
    IF Progress(s) THEN boost_preferred(cfg.lists, lists, cfg.boost) ELSE lists
=============================================================================
