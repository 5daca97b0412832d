-------------------------------- MODULE LRTDP --------------------------------
(***************************************************************************)
(* The optimal planners: labelled real-time dynamic programming (LRTDP)    *)
(* and value iteration (VI), as they solve an SSP for a state and answer   *)
(* with a greedy action.  They plan for the whole problem or, inside       *)
(* SSiPP, for a short-sighted part of it, on the hash of SSiPP.            *)
(*                                                                         *)
(* checkSolved is a template that Labeled SSiPP uses too, with its own     *)
(* labels and the goals of the problem: "opt" and "lssipp" tell whose      *)
(* labels and whose stack of visited states a step is about.               *)
(***************************************************************************)
EXTENDS ShortSighted

CONSTANTS NoState, NoAnswer, MaxTrace      \* max_trace_size_

VARIABLES
    planner,     \* what createPlanner was asked for
    pc,          \* where decideAction is; "idle" outside of it
    answer,      \* what it returned, until its caller has read it
    ask,         \* its argument
    space,       \* the SSP of the optimal planner: its states and goals
    labels,      \* solved_states_
    labeller,    \* who is popping its visited states
    visited,     \* the states of a trial, of a simulated round
    cur_s,       \* the state of the trial, of the simulated round
    check,       \* checkSolved: open, closed and rv
    sweep        \* VI: the states to back up, max_residual > epsilon, solved_

lrtdpVars == <<planner, ask, space, labels, labeller, visited, cur_s, check, sweep>>

Owner == {"opt", "lssipp"}
NoCheck == [open |-> <<>>, closed |-> <<>>, rv |-> TRUE]
NewSweep == [todo |-> {}, far |-> TRUE, solved |-> FALSE]

GoalsOf(k) == IF k = "opt" THEN space.fringe ELSE Goal
IsSolved(k, s) == s \in GoalsOf(k) \cup labels[k]

\* PlannerLRTDP::solve(): trials until the state is solved.
StartTrial ==
    /\ pc = "solve" /\ planner.engine = "lrtdp" /\ ~IsSolved("opt", ask)
    /\ pc' = "trial" /\ cur_s' = ask
    /\ UNCHANGED <<v, planner, answer, ask, space, labels, labeller, visited, check, sweep>>

\* PlannerLRTDP::trial(): a trial ends in a goal, in a state as bad as a dead
\* end, which is labelled, in a solved state or when it is too long.
TrialOver(s) == \/ IsSolved("opt", s) \/ v[s] >= dead_end_value
                \/ Len(visited.opt) > MaxTrace
\* Mutant: a state at which a trial became too long is labelled as well.
BugEndTrial ==
    /\ pc = "trial" /\ TrialOver(cur_s)
    /\ labels' = [labels EXCEPT !.opt = @ \cup ({cur_s} \ space.fringe)]
    /\ pc' = "label" /\ labeller' = "opt" /\ cur_s' = NoState
    /\ UNCHANGED <<v, planner, answer, ask, space, visited, check, sweep>>
EndTrial ==
    /\ pc = "trial" /\ TrialOver(cur_s)
    /\ labels' = IF cur_s \notin space.fringe /\ v[cur_s] >= dead_end_value
                 THEN [labels EXCEPT !.opt = @ \cup {cur_s}] ELSE labels
    /\ pc' = "label" /\ labeller' = "opt" /\ cur_s' = NoState
    /\ UNCHANGED <<v, planner, answer, ask, space, visited, check, sweep>>

\* The state is updated and the trial follows its greedy action; without one
\* the state is labelled.
TrialStep ==
    LET a == Greedy(v, space.fringe, cur_s).action IN
    /\ pc = "trial" /\ ~TrialOver(cur_s)
    /\ visited' = [visited EXCEPT !.opt = Append(@, cur_s)]
    /\ v' = Update(v, space.fringe, cur_s)
    /\ \/ /\ a = NoAction
          /\ labels' = [labels EXCEPT !.opt = @ \cup {cur_s}]
          /\ pc' = "label" /\ labeller' = "opt" /\ cur_s' = NoState
       \/ /\ a # NoAction
          /\ cur_s' \in Succ(cur_s, a)
          /\ UNCHANGED <<labels, pc, labeller>>
    /\ UNCHANGED <<planner, answer, ask, space, check, sweep>>

\* The visited states are popped, last first, as long as they are solved or
\* checkSolved says so.  What comes next: another trial, or what Labeled
\* SSiPP does after a round.
AfterLabels == IF labeller = "opt" THEN "solve" ELSE "round"
Label ==
    /\ pc = "label"
    /\ \/ /\ visited[labeller] = <<>>
          /\ pc' = AfterLabels
          /\ UNCHANGED <<visited, check>>
       \/ /\ visited[labeller] # <<>> /\ IsSolved(labeller, Last(visited[labeller]))
          /\ visited' = [visited EXCEPT ![labeller] = Front(@)]
          /\ UNCHANGED <<pc, check>>
       \/ /\ visited[labeller] # <<>> /\ ~IsSolved(labeller, Last(visited[labeller]))
          /\ check' = [NoCheck EXCEPT !.open = <<Last(visited[labeller])>>]
          /\ pc' = "check"
          /\ UNCHANGED visited
    /\ UNCHANGED <<v, planner, answer, ask, space, labels, labeller, cur_s, sweep>>

\* One node of checkSolved.  A dead end is labelled at once; a node whose
\* residual is small has its greedy successors checked next.
\* Mutant: without the absolute value.
BugResidual(hash, goals, s) == hash[s] - Greedy(hash, goals, s).value
Residual(hash, goals, s) == LET d == Greedy(hash, goals, s).value - hash[s]
                            IN  IF d < 0 THEN -d ELSE d
CheckNode ==
    LET s == Head(check.open)
        goals == GoalsOf(labeller)
        g == Greedy(v, goals, s)
        far == Residual(v, goals, s) > epsilon
        explored == Range(check.open) \cup Range(check.closed)
        new == {t \in Succ(s, g.action) : ~IsSolved(labeller, t) /\ t \notin explored}
        solved == IsSolved(labeller, s)
        dead == ~solved /\ g.action = NoAction
    IN
    /\ pc = "check" /\ check.open # <<>>
    /\ check' = [open |-> IF solved \/ dead \/ far THEN Tail(check.open)
                          ELSE SetToSeq(new) \o Tail(check.open),
                 closed |-> Append(check.closed, s),
                 rv |-> check.rv /\ (solved \/ ~far)]
    /\ labels' = IF dead THEN [labels EXCEPT ![labeller] = @ \cup {s}] ELSE labels
    /\ v' = IF dead /\ far THEN [v EXCEPT ![s] = g.value] ELSE v
    /\ UNCHANGED <<pc, planner, answer, ask, space, labeller, visited, cur_s, sweep>>

\* The end of checkSolved: all of the nodes are labelled, or all of them are
\* updated and its caller stops popping.
CheckEnd ==
    /\ pc = "check" /\ check.open = <<>>
    /\ check' = NoCheck
    /\ \/ /\ check.rv
          /\ labels' = [labels EXCEPT ![labeller] = @ \cup Range(check.closed)]
          /\ visited' = [visited EXCEPT ![labeller] = Front(@)]
          /\ pc' = "label" /\ UNCHANGED v
       \/ /\ ~check.rv
          /\ v' = FoldLeft(LAMBDA hash, s : Update(hash, GoalsOf(labeller), s),
                           v, check.closed)
          /\ visited' = [visited EXCEPT ![labeller] = <<>>]
          /\ pc' = AfterLabels /\ UNCHANGED labels
    /\ UNCHANGED <<planner, answer, ask, space, labeller, cur_s, sweep>>

\* Mutant: the maximum of the residuals is not reset between two sweeps.
BugStartSweep == [todo |-> space.states, far |-> TRUE, solved |-> FALSE]
StartSweep == [todo |-> space.states, far |-> FALSE, solved |-> FALSE]

\* PlannerVI::solve(): sweeps over the reachable states, in the order of a
\* hash table, until one of them changes no value by more than epsilon.
Sweep ==
    /\ pc = "solve" /\ planner.engine = "vi" /\ ~sweep.solved
    /\ \/ \E s \in sweep.todo :
            LET x == Min({Greedy(v, space.fringe, s).value, dead_end_value}) IN
            /\ v' = [v EXCEPT ![s] = x]
            /\ sweep' = [sweep EXCEPT !.todo = @ \ {s},
                           !.far = @ \/ Residual(v, space.fringe, s) > epsilon]
       \/ /\ sweep.todo = {} /\ UNCHANGED v
          /\ sweep' = IF sweep.far
                      THEN StartSweep ELSE [NewSweep EXCEPT !.far = FALSE, !.solved = TRUE]
    /\ UNCHANGED <<pc, planner, answer, ask, space, labels, labeller, visited,
                   cur_s, check>>

\* The action of a state that is solved: LRTDP stays inside its labels.
OptAction ==
    ConstGreedyAction(v, space.fringe, ask,
        IF planner.engine = "lrtdp" THEN space.fringe \cup labels.opt ELSE State)
OptSolved == IF planner.engine = "lrtdp" THEN IsSolved("opt", ask) ELSE sweep.solved

SolveStep == \/ StartTrial \/ EndTrial \/ TrialStep
             \/ Label \/ CheckNode \/ CheckEnd \/ Sweep
=============================================================================
