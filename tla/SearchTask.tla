------------------------------ MODULE SearchTask ------------------------------
(***************************************************************************)
(* The planning task as Fast Downward's search engines see it through      *)
(* TaskProxy and the successor generator: a set of transitions labelled    *)
(* with operators that have costs.                                         *)
(***************************************************************************)
EXTENDS Integers, Sequences, FiniteSets, SequencesExt

CONSTANTS
    State, Op,
    NoState,        \* StateID::no_state
    NoOp,           \* OperatorID::no_operator
    initial,        \* the initial state
    Goal,           \* the goal states
    Transition,     \* the set of triples <<state, operator, successor>>
    Cost,           \* Op -> Nat
    INF             \* EvaluationResult::INFTY, and the default of bound

ASSUME TaskAssumption ==
    /\ IsFiniteSet(State)
    /\ initial \in State /\ NoState \notin State /\ NoOp \notin Op
    /\ Goal \subseteq State
    /\ Transition \subseteq State \X Op \X State
    /\ \A t \in Transition, u \in Transition :
          t[1] = u[1] /\ t[2] = u[2] => t[3] = u[3]
    /\ Cost \in [Op -> Nat]
    /\ INF \in Nat \ {0}

IsGoal(s) == s \in Goal

Applicable(s) == {o \in Op : \E t \in State : <<s, o, t>> \in Transition}

Successor(s, o) == CHOOSE t \in State : <<s, o, t>> \in Transition

is_unit_cost == \A o \in Op : Cost[o] = 1

AdjustedCost(cost_type, o) ==
    CASE cost_type = "normal" -> Cost[o]
      [] cost_type = "one" -> 1
      [] cost_type = "plusone" -> IF is_unit_cost THEN 1 ELSE Cost[o] + 1

\* calculate_plan_cost: always in real costs.
PlanCost(p) ==
    LET cost[i \in 0..Len(p)] == IF i = 0 THEN 0 ELSE cost[i - 1] + Cost[p[i]]
    IN cost[Len(p)]

-----------------------------------------------------------------------------
(* What a plan is, independently of any search.                            *)

After(s, o) == IF o \in Applicable(s) THEN Successor(s, o) ELSE NoState

\* Every operator of p is applicable where the ones before it have led, and
\* the last state is a goal.
IsPlan(p) ==
    LET at[i \in 0..Len(p)] == IF i = 0 THEN initial ELSE After(at[i - 1], p[i])
    IN at[Len(p)] \in Goal

\* Pairs of a state and the cost of a way from it to the goal: with one more
\* step than the ways in W.
Prepended(W) ==
    UNION {{<<t[1], w[2] + Cost[t[2]]>> : w \in {v \in W : v[1] = t[3]}} :
              t \in Transition}

\* Ways of at most as many steps as there are states: a cheapest one is among
\* them.
WaysToGoal ==
    LET ways[i \in 0..Cardinality(State)] ==
          IF i = 0 THEN {<<s, 0>> : s \in Goal}
          ELSE ways[i - 1] \cup Prepended(ways[i - 1])
    IN ways[Cardinality(State)]

\* The cost of a cheapest plan from every state.
HStar ==
    [s \in State |->
        LET costs == {x[2] : x \in {y \in WaysToGoal : y[1] = s}}
        IN IF costs = {} THEN INF
           ELSE CHOOSE c \in costs : \A k \in costs : c <= k]
=============================================================================
