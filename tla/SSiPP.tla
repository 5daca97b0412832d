-------------------------------- MODULE SSiPP --------------------------------
(***************************************************************************)
(* SSiPP and Labeled SSiPP: how they decide on an action by solving        *)
(* short-sighted SSPs, one after the other, with an optimal planner.       *)
(*                                                                         *)
(* Labeled SSiPP solves a state by rounds that a local simulator plays     *)
(* with Labeled SSiPP itself as a replanner; root is the state it solves.  *)
(* The planner "opt" is an optimal planner on its own.                     *)
(***************************************************************************)
EXTENDS LRTDP

VARIABLES
    has_opt,             \* opt_planner_ is not null
    use_as_replanner_,
    root                 \* the argument of Labeled SSiPP's solve(), or NoState

plannerVars == <<v, pc, answer, lrtdpVars, has_opt, use_as_replanner_, root>>

\* The goals of the SSP that SSiPP plans for: Labeled SSiPP hands it one in
\* which the states that are solved are goals.
SSiPPGoals == Goal \cup (IF planner.name = "labeledssipp" THEN labels.lssipp ELSE {})

\* initRound(): the optimal planner and its SSP are deleted, with its labels.
WholeSpace == [states |-> State, fringe |-> Goal]
\* Mutant: a round starts with the short-sighted SSP of the last.
BugInitRound == /\ visited' = [visited EXCEPT !.lssipp = <<>>]
                /\ UNCHANGED <<has_opt, space, sweep, labels>>
InitRound ==
    /\ has_opt' = FALSE /\ space' = WholeSpace /\ sweep' = NewSweep
    /\ labels' = [labels EXCEPT !.opt = {}]
    /\ visited' = [visited EXCEPT !.lssipp = <<>>]

\* LocalSimulator::simulateRoundFrom().
StartRound(s) == cur_s' = s /\ pc' = "turn" /\ InitRound

EndRound == pc' = "label" /\ labeller' = "lssipp"

\* decideAction() returns, to the round of Labeled SSiPP that is under way, if
\* there is one, or to the client.
Return(a) ==
    IF root = NoState
    THEN pc' = "idle" /\ answer' = a /\ cur_s' = NoState /\ UNCHANGED labeller
    ELSE /\ UNCHANGED answer
         /\ \/ a = NoAction /\ EndRound /\ cur_s' = NoState
            \/ /\ a # NoAction /\ cur_s' \in Succ(ask, a)
               /\ pc' = "turn" /\ UNCHANGED labeller

\* The client calls decideAction(s).
Ask(s) ==
    /\ pc = "idle" /\ answer = NoAnswer
    /\ pc' = "decide" /\ ask' = s
    /\ UNCHANGED <<v, answer, planner, space, labels, labeller, visited, cur_s,
                   check, sweep, has_opt, use_as_replanner_, root>>

SolvedAction(s) == ConstGreedyAction(v, Goal, s, Goal \cup labels.lssipp)

\* PlannerLabeledSSiPP::decideAction(), and the way into the others.
DecideAction ==
    /\ pc = "decide"
    /\ \/ /\ planner.name = "opt" /\ pc' = "solve"
          /\ UNCHANGED <<answer, cur_s, labeller, visited, use_as_replanner_, root>>
       \/ /\ planner.name = "ssipp" /\ pc' = "ssipp"
          /\ UNCHANGED <<answer, cur_s, labeller, visited, use_as_replanner_, root>>
       \/ /\ planner.name = "labeledssipp" /\ IsSolved("lssipp", ask)
          /\ pc' = "idle" /\ answer' = SolvedAction(ask)
          /\ UNCHANGED <<cur_s, labeller, visited, use_as_replanner_, root>>
       \/ /\ planner.name = "labeledssipp" /\ ~IsSolved("lssipp", ask)
          /\ use_as_replanner_ /\ pc' = "ssipp"
          /\ visited' = [visited EXCEPT !.lssipp = Append(@, ask)]
          /\ UNCHANGED <<answer, cur_s, labeller, use_as_replanner_, root>>
       \/ /\ planner.name = "labeledssipp" /\ ~IsSolved("lssipp", ask)
          /\ ~use_as_replanner_ /\ pc' = "round"
          /\ use_as_replanner_' = TRUE /\ root' = ask
          /\ UNCHANGED <<answer, cur_s, labeller, visited>>
    /\ UNCHANGED <<v, planner, ask, space, labels, check, sweep, has_opt>>

\* PlannerLabeledSSiPP::solve(), between two rounds.
Round ==
    /\ pc = "round" /\ root # NoState
    /\ \/ /\ IsSolved("lssipp", root)
          /\ use_as_replanner_' = FALSE /\ root' = NoState
          /\ pc' = "idle" /\ answer' = SolvedAction(root)
          /\ UNCHANGED <<cur_s, visited, has_opt, space, labels, sweep>>
       \/ /\ ~IsSolved("lssipp", root) /\ StartRound(root)
          /\ UNCHANGED <<answer, use_as_replanner_, root>>
    /\ UNCHANGED <<v, planner, ask, labeller, check>>

\* The end of endRound(), when its caller is the client.
RoundEnded ==
    /\ pc = "round" /\ root = NoState /\ pc' = "idle"
    /\ UNCHANGED <<v, answer, lrtdpVars, has_opt, use_as_replanner_, root>>

\* A turn of the local simulator, whose SSP is the one of SSiPP.
Turn ==
    /\ pc = "turn"
    /\ \/ /\ cur_s \in SSiPPGoals \/ Len(visited.lssipp) >= MaxTrace
          /\ EndRound /\ cur_s' = NoState /\ UNCHANGED <<ask, visited>>
       \/ /\ cur_s \notin SSiPPGoals /\ Len(visited.lssipp) < MaxTrace
          /\ pc' = "ssipp" /\ ask' = cur_s
          /\ visited' = [visited EXCEPT !.lssipp = Append(@, cur_s)]
          /\ cur_s' = NoState /\ UNCHANGED labeller
    /\ UNCHANGED <<v, answer, planner, space, labels, check, sweep,
                   has_opt, use_as_replanner_, root>>

\* PlannerSSiPP::decideAction(): a short-sighted SSP is used until the round
\* arrives at its fringe.
GivesUp(s) == s \in SSiPPGoals \/ Applicable[s] = <<>>
NeedsSpace(s) == ~has_opt \/ s \in space.fringe
SSiPPDecides ==
    /\ pc = "ssipp"
    /\ \/ /\ GivesUp(ask) /\ Return(NoAction)
          /\ UNCHANGED <<space, labels, sweep, has_opt>>
       \/ /\ ~GivesUp(ask) /\ NeedsSpace(ask)
          /\ \E limit \in planner.limits :
               space' = NewShortSightedSSP(planner.method, limit, SSiPPGoals, ask, v)
          /\ labels' = [labels EXCEPT !.opt = {}] /\ sweep' = NewSweep
          /\ has_opt' = TRUE /\ pc' = "solve"
          /\ UNCHANGED <<answer, cur_s, labeller>>
       \/ /\ ~GivesUp(ask) /\ ~NeedsSpace(ask) /\ pc' = "solve"
          /\ UNCHANGED <<answer, cur_s, labeller, space, labels, sweep, has_opt>>
    /\ UNCHANGED <<v, planner, ask, visited, check, use_as_replanner_, root>>

\* The optimal planner is done.
Solved ==
    /\ pc = "solve" /\ OptSolved /\ Return(OptAction)
    /\ UNCHANGED <<v, planner, ask, space, labels, visited, check, sweep,
                   has_opt, use_as_replanner_, root>>

PlannerStep ==
    \/ SolveStep /\ UNCHANGED <<has_opt, use_as_replanner_, root>>
    \/ DecideAction \/ Round \/ RoundEnded \/ Turn \/ SSiPPDecides \/ Solved

\* The deadline is looked at in every loop; the exception unwinds the calls,
\* and leaves the members of the planners as they are.
Deadline == "deadline"
\* Mutant: solved_ is set before the sweeps.
BugSweepCut == IF pc = "solve" /\ planner.engine = "vi"
               THEN [NewSweep EXCEPT !.solved = TRUE] ELSE sweep
SweepCut == IF sweep.solved THEN sweep ELSE NewSweep
DeadlineReached ==
    /\ pc \in {"solve", "trial", "check", "ssipp", "round"}
    /\ pc = "round" => root # NoState
    /\ pc' = "idle" /\ answer' = Deadline /\ root' = NoState /\ cur_s' = NoState
    /\ visited' = [visited EXCEPT !.opt = <<>>] /\ check' = NoCheck
    /\ sweep' = SweepCut
    /\ UNCHANGED <<v, planner, ask, space, labels, labeller, has_opt,
                   use_as_replanner_>>

\* createPlanner(): an optimal planner has the whole problem for its SSP.
CreatePlanner(heuristic, chosen) ==
    /\ v = heuristic /\ planner = chosen
    /\ pc = "idle" /\ answer = NoAnswer /\ ask = NoState /\ cur_s = NoState
    /\ space = WholeSpace
    /\ labels = [k \in Owner |-> {}] /\ labeller = "opt"
    /\ visited = [k \in Owner |-> <<>>] /\ check = NoCheck /\ sweep = NewSweep
    /\ has_opt = FALSE /\ use_as_replanner_ = FALSE /\ root = NoState
=============================================================================
