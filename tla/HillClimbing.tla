----------------------------- MODULE HillClimbing -----------------------------
(***************************************************************************)
(* Enforced hill-climbing (enforced_hill_climbing_search.cc): breadth-     *)
(* first search from cur until a state with a smaller estimate is found,   *)
(* which becomes the next cur.  The open list holds edges; cur is open     *)
(* until its step begins.  edge is <<s>> for the state s whose successors  *)
(* are being inserted.                                                     *)
(***************************************************************************)
EXTENDS SearchSpace

\* The program exits when the initial state is a dead end.
HillInitialize ==
    /\ cfg.kind = "ehc" /\ status = "initialize"
    /\ IF h[1][initial] = INF
       THEN status' = "exit" /\ UNCHANGED node
       ELSE status' = "in_progress" /\ node' = open_initial(node)
    /\ UNCHANGED <<cfg, bound, h, open, best_h, plan, solution_found, cur, edge,
                   todo>>

Climbing == cfg.kind = "ehc" /\ status = "in_progress" /\ todo = {}

\* expand: with prune_by_preferred only preferred successors are inserted.
Successors(s) ==
    IF cfg.preferred /\ cfg.prune THEN preferred_operators(s) ELSE Applicable(s)

HillStep ==
    /\ Climbing /\ node[cur].status = "open"
    /\ best_h' = check_progress(cur)
    /\ check_goal_and_set_plan(cur, node)
    /\ IF IsGoal(cur)
       THEN StepReturns("solved") /\ UNCHANGED <<node, edge, todo>>
       ELSE /\ node' = Close(node, cur)
            /\ edge' = <<cur>>
            /\ todo' = Successors(cur)
            /\ UNCHANGED status
    /\ UNCHANGED <<cfg, bound, h, open, cur>>

\* insert_successor_into_open_list.
HillInsert ==
    /\ cfg.kind = "ehc" /\ status = "in_progress"
    /\ \E o \in todo :
          /\ todo' = todo \ {o}
          /\ open' = Insert(cfg.lists, open,
                            Eval(edge[1], node[edge[1]].g + adj(o),
                                 o \in preferred_operators(edge[1])),
                            <<edge[1], o>>)
    /\ UNCHANGED <<node, cfg, bound, h, best_h, status, plan, solution_found,
                   cur, edge>>

\* What becomes of the edge from s by o to t.
HillSkip(s, o, t) ==
    /\ node[s].real_g + Cost[o] >= bound \/ node[t].status # "new"
    /\ UNCHANGED <<node, status, cur, edge, todo>>

HillDeadEnd(s, o, t) ==
    /\ node[s].real_g + Cost[o] < bound /\ node[t].status = "new"
    /\ h[1][t] = INF
    /\ node' = mark_as_dead_end(t)
    /\ UNCHANGED <<status, cur, edge, todo>>

HillExpand(s, o, t) ==
    /\ node[s].real_g + Cost[o] < bound /\ node[t].status = "new"
    /\ h[1][t] # INF /\ h[1][t] >= h[1][cur]
    /\ node' = Close(OpenNode(t, s, o), t)
    /\ edge' = <<t>> /\ todo' = Successors(t)
    /\ UNCHANGED <<status, cur>>

HillTake ==
    /\ Climbing /\ node[cur].status = "closed" /\ ~IsEmpty(open)
    /\ \E pos \in MinPositions(cfg.lists, open) :
          LET e == EntryAt(open, pos)
              t == Successor(e[1], e[2])
          IN /\ open' = RemoveMin(open, pos)
             /\ HillSkip(e[1], e[2], t) \/ HillDeadEnd(e[1], e[2], t)
                \/ HillExpand(e[1], e[2], t)
    /\ UNCHANGED <<cfg, bound, h, best_h, plan, solution_found>>

\* A better state ends the phase, and what is open is forgotten.
HillImprove ==
    /\ Climbing /\ node[cur].status = "closed" /\ ~IsEmpty(open)
    /\ \E pos \in MinPositions(cfg.lists, open) :
          LET e == EntryAt(open, pos)
              t == Successor(e[1], e[2])
          IN /\ node[e[1]].real_g + Cost[e[2]] < bound /\ node[t].status = "new"
             /\ h[1][t] < h[1][cur]
             /\ node' = OpenNode(t, e[1], e[2])
             /\ cur' = t
    /\ open' = EmptyLists(cfg.lists)
    /\ StepReturns("in_progress")
    /\ UNCHANGED <<cfg, bound, h, best_h, plan, solution_found, edge, todo>>

HillFails ==
    /\ Climbing /\ node[cur].status = "closed" /\ IsEmpty(open)
    /\ StepReturns("failed")
    /\ UNCHANGED <<node, cfg, bound, h, open, best_h, plan, solution_found, cur,
                   edge, todo>>

HillNext == HillInitialize \/ HillStep \/ HillInsert \/ HillTake
            \/ HillImprove \/ HillFails
=============================================================================
