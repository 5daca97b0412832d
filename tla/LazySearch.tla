------------------------------ MODULE LazySearch ------------------------------
(***************************************************************************)
(* Lazy best-first search (search_engines/lazy_search.cc).  The open list  *)
(* holds edges, with the estimate of their first state; a state is         *)
(* evaluated when an edge to it is taken.  edge is the pair of             *)
(* current_predecessor_id and current_operator_id until cur has been       *)
(* evaluated, and <<>> while the successors are generated.                 *)
(***************************************************************************)
EXTENDS SearchSpace

LazyInitialize ==
    /\ cfg.kind = "lazy" /\ status = "initialize"
    /\ status' = "in_progress"
    /\ cur' = initial /\ edge' = <<NoState, NoOp>>
    /\ UNCHANGED <<node, cfg, bound, h, open, best_h, plan, solution_found, todo>>

Stepping == cfg.kind = "lazy" /\ status = "in_progress" /\ todo = {}

\* current_g, from the node of the predecessor.
current_g == IF edge[1] = NoState THEN 0 ELSE node[edge[1]].g + adj(edge[2])

Reopens ==
    /\ cfg.reopen_closed
    /\ node[cur].status \in {"open", "closed"}
    /\ current_g < node[cur].g

\* Nothing is done about a state that is known already.
LazyKnown ==
    /\ Stepping /\ edge # <<>>
    /\ node[cur].status # "new" /\ ~Reopens
    /\ edge' = <<>>
    /\ UNCHANGED <<node, cfg, bound, h, open, best_h, status, plan,
                   solution_found, cur, todo>>

LazyDeadEnd ==
    /\ Stepping /\ edge # <<>>
    /\ node[cur].status = "new" \/ Reopens
    /\ IsDeadEnd(cfg.lists, Eval(cur, current_g, TRUE))
    /\ node' = mark_as_dead_end(cur)
    /\ edge' = <<>>
    /\ UNCHANGED <<cfg, bound, h, open, best_h, status, plan, solution_found,
                   cur, todo>>

\* The node is opened or reopened, and closed at once.
LazyExpand ==
    /\ Stepping /\ edge # <<>>
    /\ node[cur].status = "new" \/ Reopens
    /\ ~IsDeadEnd(cfg.lists, Eval(cur, current_g, TRUE))
    /\ LET opened == IF edge[1] = NoState THEN open_initial(node)
                     ELSE OpenNode(cur, edge[1], edge[2])
       IN /\ node' = Close(opened, cur)
          /\ check_goal_and_set_plan(cur, opened)
    /\ best_h' = check_progress(cur)
    /\ IF IsGoal(cur)
       THEN StepReturns("solved") /\ UNCHANGED <<open, edge, todo>>
       ELSE /\ open' = IF edge[1] = NoState THEN open ELSE Rewarded(cur, open)
            /\ todo' = Applicable(cur)
            /\ edge' = <<>>
            /\ UNCHANGED status
    /\ UNCHANGED <<cfg, bound, h, cur>>

\* generate_successors: an edge is inserted with the estimates of cur.
LazyGenerate ==
    /\ cfg.kind = "lazy" /\ status = "in_progress"
    /\ \E o \in todo :
          /\ todo' = todo \ {o}
          /\ open' = IF node[cur].real_g + Cost[o] < bound
                     THEN Insert(cfg.lists, open,
                                 Eval(cur, node[cur].g + adj(o),
                                      o \in preferred_operators(cur)),
                                 <<cur, o>>)
                     ELSE open
    /\ UNCHANGED <<node, cfg, bound, h, best_h, status, plan, solution_found,
                   cur, edge>>

\* fetch_next_state.
LazyFetch ==
    /\ Stepping /\ edge = <<>> /\ ~IsEmpty(open)
    /\ \E pos \in MinPositions(cfg.lists, open) :
          LET e == EntryAt(open, pos)
          IN /\ edge' = e
             /\ cur' = Successor(e[1], e[2])
             /\ open' = RemoveMin(open, pos)
    /\ StepReturns("in_progress")
    /\ UNCHANGED <<node, cfg, bound, h, best_h, plan, solution_found, todo>>

LazyExhausted ==
    /\ Stepping /\ edge = <<>> /\ IsEmpty(open)
    /\ StepReturns("failed")
    /\ UNCHANGED <<node, cfg, bound, h, open, best_h, plan, solution_found, cur,
                   edge, todo>>

LazyNext == LazyInitialize \/ LazyKnown \/ LazyDeadEnd \/ LazyExpand
            \/ LazyGenerate \/ LazyFetch \/ LazyExhausted
=============================================================================
