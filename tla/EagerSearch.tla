----------------------------- MODULE EagerSearch ------------------------------
(***************************************************************************)
(* Eager best-first search (search_engines/eager_search.cc): A* with       *)
(* reopening, greedy search without, and any other open list.  A step of   *)
(* the engine takes entries from the open list until one of them can be    *)
(* expanded (EagerPop), and then tries all applicable operators one after  *)
(* the other (Generate); their order is left open.                         *)
(*                                                                         *)
(* The estimates of a lazy evaluator may have grown when a state is        *)
(* evaluated again, because landmarks were lost on a new path to it; they  *)
(* stay admissible.  A state is evaluated when it is generated, again when *)
(* it is reopened, and again when its entry is taken.                      *)
(***************************************************************************)
EXTENDS SearchSpace

\* The open list of A*: f = g + h, and h among equals.
AStarLists ==
    LET eval(g) == [g |-> g, w |-> 1, h |-> 1, pref |-> FALSE]
    IN <<[type |-> "tiebreaking", evals |-> <<eval(1), eval(0)>>,
          pref_only |-> FALSE, unsafe |-> FALSE]>>

\* initialize: the initial state counts as reached by a preferred operator.
EagerInitialize ==
    /\ cfg.kind = "eager" /\ status = "initialize"
    /\ status' = "in_progress"
    /\ IF IsDeadEnd(cfg.lists, Eval(initial, 0, TRUE))
       THEN UNCHANGED <<node, open, best_h>>
       ELSE /\ best_h' = check_progress(initial)
            /\ node' = open_initial(node)
            /\ open' = Insert(cfg.lists, open, Eval(initial, 0, TRUE), initial)
    /\ UNCHANGED <<cfg, bound, h, plan, solution_found, cur, edge, todo>>

Popping == cfg.kind = "eager" /\ status = "in_progress" /\ todo = {}

EagerExhausted ==
    /\ Popping /\ IsEmpty(open)
    /\ StepReturns("failed")
    /\ UNCHANGED <<node, cfg, bound, h, open, best_h, plan, solution_found, cur,
                   edge, todo>>

\* Closed nodes, and with a lazy evaluator dead ones, are skipped.
Stale(s) ==
    \/ node[s].status = "closed"
    \/ cfg.lazy_evaluator /\ node[s].status = "dead_end"

PopStale(pos) ==
    /\ Stale(EntryAt(open, pos))
    /\ open' = RemoveMin(open, pos)
    /\ UNCHANGED <<node, cfg, bound, h, best_h, status, plan, solution_found,
                   cur, edge, todo>>

\* The state is evaluated again, and its first estimate is v now: it may be
\* another one if the configuration has a lazy evaluator, which is then the
\* first heuristic.
Reevaluated(s, v) ==
    /\ v = h[1][s] \/ (cfg.lazy_evaluator /\ v \in h[1][s]..HStar[s])
    /\ h' = [h EXCEPT ![1][s] = v]

NewEstimates(s) == {h[1][s], h[1][s] + 1, HStar[s]}

NewContext(s, v, g, pref) == Context(g, [Estimates(s) EXCEPT ![1] = v], pref)

\* The lazy evaluator finds a dead end, or an estimate for a new entry.
PopReevaluated(pos) ==
    LET s == EntryAt(open, pos)
        rest == RemoveMin(open, pos)
    IN \E v \in NewEstimates(s) :
          /\ ~Stale(s) /\ cfg.lazy_evaluator /\ Reevaluated(s, v)
          /\ LET ctx == NewContext(s, v, node[s].g, FALSE)
             IN IF IsDeadEnd(cfg.lists, ctx)
                THEN node' = mark_as_dead_end(s) /\ open' = rest
                ELSE /\ v # h[1][s]
                     /\ node' = node /\ open' = Insert(cfg.lists, rest, ctx, s)
          /\ UNCHANGED <<cfg, bound, best_h, status, plan, solution_found, cur,
                         edge, todo>>

\* The node is closed.  If it is a goal the search is over.
PopExpand(pos) ==
    LET s == EntryAt(open, pos)
    IN /\ ~Stale(s)
       /\ cfg.lazy_evaluator => ~IsDeadEnd(cfg.lists, Eval(s, node[s].g, FALSE))
       /\ open' = RemoveMin(open, pos)
       /\ node' = Close(node, s)
       /\ check_goal_and_set_plan(s, node)
       /\ cur' = s
       /\ IF IsGoal(s) THEN StepReturns("solved") /\ todo' = {}
          ELSE /\ todo' = Applicable(s)
               /\ IF todo' = {} THEN StepReturns("in_progress")
                  ELSE status' = status
       /\ UNCHANGED <<cfg, bound, h, best_h, edge>>

EagerPop ==
    /\ Popping /\ ~IsEmpty(open)
    /\ \E pos \in MinPositions(cfg.lists, open) :
          PopStale(pos) \/ PopReevaluated(pos) \/ PopExpand(pos)

-----------------------------------------------------------------------------
(* One operator of the expansion.                                          *)

\* Bug: a path of the same cost is taken for a cheaper one.
BugCheaper(t, s, o) == node[t].g >= node[s].g + adj(o)

Cheaper(t, s, o) == node[t].g > node[s].g + adj(o)

\* Bug: the bound is not exclusive.
BugNotGenerated(s, o) == node[s].real_g + Cost[o] > bound

NotGenerated(s, o) == node[s].real_g + Cost[o] >= bound

GenerateNew(s, o, t) ==
    LET ctx == Eval(t, node[s].g + adj(o), o \in preferred_operators(s))
    IN /\ UNCHANGED h
       /\ IF IsDeadEnd(cfg.lists, ctx)
          THEN /\ node' = mark_as_dead_end(t)
               /\ UNCHANGED <<open, best_h>>
          ELSE /\ node' = OpenNode(t, s, o)
               /\ open' = Rewarded(t, Insert(cfg.lists, open, ctx, t))
               /\ best_h' = check_progress(t)

\* Bug: a closed node is never opened again.
BugGenerateCheaper(s, o, t) ==
    /\ node' = update_parent(t, s, o)
    /\ UNCHANGED <<open, best_h, h>>

\* A cheaper way to a known state, which is evaluated again when it is
\* reopened.  If it is found to be a dead end only now it stays an open node
\* without an entry.
GenerateCheaper(s, o, t) ==
    IF cfg.reopen_closed
    THEN /\ node' = OpenNode(t, s, o)
         /\ \E v \in NewEstimates(t) :
               /\ Reevaluated(t, v)
               /\ open' = Insert(cfg.lists, open,
                                 NewContext(t, v, node[s].g + adj(o),
                                            o \in preferred_operators(s)), t)
         /\ UNCHANGED best_h
    ELSE /\ node' = update_parent(t, s, o)
         /\ UNCHANGED <<open, best_h, h>>

Generate ==
    /\ cfg.kind = "eager" /\ status = "in_progress"
    /\ \E o \in todo :
          LET t == Successor(cur, o)
          IN /\ todo' = todo \ {o}
             /\ IF todo' = {} THEN StepReturns("in_progress") ELSE status' = status
             /\ CASE NotGenerated(cur, o) \/ node[t].status = "dead_end" ->
                       UNCHANGED <<node, open, best_h, h>>
                  [] ~NotGenerated(cur, o) /\ node[t].status = "new" ->
                       GenerateNew(cur, o, t)
                  [] ~NotGenerated(cur, o) /\ node[t].status \in {"open", "closed"} ->
                       IF Cheaper(t, cur, o) THEN GenerateCheaper(cur, o, t)
                       ELSE UNCHANGED <<node, open, best_h, h>>
    /\ UNCHANGED <<cfg, bound, plan, solution_found, cur, edge>>

EagerNext == EagerInitialize \/ EagerExhausted \/ EagerPop \/ Generate
=============================================================================
