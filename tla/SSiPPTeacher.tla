----------------------------- MODULE SSiPPTeacher -----------------------------
(***************************************************************************)
(* Who calls the SSiPP planners.  SSiPPTeacher, for the trainer: it lists   *)
(* the states of a rollout or of the envelope of the planner's policy, and *)
(* then asks for the Q-values of each of them (planner_trace); a call may  *)
(* run into its deadline.  And the solver: it may train the planner for a  *)
(* while, and then plays rounds with it.                                   *)
(***************************************************************************)
EXTENDS SSiPP

CONSTANTS
    s0,              \* the initial state, where training and rounds start
    Roots,           \* where a rollout or an envelope may start
    Heuristics,      \* initial contents of the hash
    Planners,
    Optimal, Slack,  \* the optimal value of each state, and how close is close
    AllQ             \* the domain of the cache: pairs of a state and an action

\* The heuristics do not overestimate, and Optimal is, in floats, a solution of
\* the Bellman equation, or an upper one where floats cannot hold the solution.
ASSUME ValuesAssumption ==
    /\ Heuristics \subseteq [State -> Nat] /\ Optimal \in [State -> Nat]
    /\ \A h \in Heuristics, s \in State : h[s] <= Optimal[s]
    /\ \A s \in State : /\ Optimal[s] % FloatUnit = 0
                        /\ s \in Goal => Optimal[s] = 0
                        /\ s \notin Goal => Greedy(Optimal, Goal, s).value <= Optimal[s]

\* A short-sighted planner has a space and its limits; no client starts outside
\* the problem, and no answer is a value of its own.
ASSUME CallersAssumption ==
    /\ \A p \in Planners : p.name # "opt" =>
         /\ p.method \in {"max_depth", "min_prob_traj", "greedy"}
         /\ p.limits \subseteq Nat
    /\ s0 \in State /\ Roots \subseteq State /\ NoState \notin State
    /\ NoAnswer \notin Action \cup {NoAction, Deadline}

VARIABLES
    call,         \* the method that is under way
    asked,        \* its argument, the state that a deadline blacklists
    todo,         \* the states it has still to ask the planner about
    seen,         \* closed
    listed,       \* the states whose Q-values planner_trace wants
    act, acc,     \* hp_q_value: its action, qv_acc in multiples of 1 / One
    _qv_cache, _state_blacklist

teacherVars == <<call, asked, todo, seen, listed, act, acc, _qv_cache, _state_blacklist>>
vars == <<plannerVars, teacherVars>>

NoQ == -1
IsTeacher == planner.name = "opt"
Init ==
    /\ \E h \in Heuristics, p \in Planners : CreatePlanner(h, p)
    /\ call = IF IsTeacher THEN "none" ELSE "start"
    /\ asked = NoState /\ todo = <<>> /\ seen = {} /\ listed = {}
    /\ act = NoAction /\ acc = 0
    /\ _qv_cache = [sa \in AllQ |-> NoQ] /\ _state_blacklist = {}

\* The call asks the planner about the state on top.
AskPlanner ==
    /\ call \in {"rollout", "envelope", "q_values", "training", "practice", "round"}
    /\ todo # <<>> /\ Ask(Last(todo)) /\ UNCHANGED teacherVars

Answered == pc = "idle" /\ answer # NoAnswer
Read == /\ answer' = NoAnswer
        /\ UNCHANGED <<v, pc, lrtdpVars, has_opt, use_as_replanner_, root>>

\* _blacklist_decorator: for a state of the blacklist the call ends with a
\* TeacherTimeout at once.  planner_trace() begins with the expert's states.
BeginTrace(method, s) ==
    /\ IsTeacher /\ pc = "idle" /\ call = "none"
    /\ \/ /\ s \notin _state_blacklist
          /\ call' = method /\ asked' = s /\ todo' = <<s>> /\ seen' = {s}
       \/ s \in _state_blacklist /\ UNCHANGED <<call, asked, todo, seen>>
    /\ UNCHANGED <<plannerVars, listed, act, acc, _qv_cache, _state_blacklist>>
ExpertPolicyRollout(s) == Applicable[s] # <<>> /\ BeginTrace("rollout", s)
ExtractPolicyEnvelope(s) == BeginTrace("envelope", s)

\* The deadline of a call.
Timeout ==
    /\ Answered /\ answer = Deadline /\ IsTeacher /\ Read
    /\ _state_blacklist' = _state_blacklist \cup {asked}
    /\ call' = "none" /\ asked' = NoState /\ todo' = <<>> /\ seen' = {}
    /\ listed' = {} /\ act' = NoAction /\ acc' = 0
    /\ UNCHANGED _qv_cache

\* A step of expert_policy_rollout(), which ends at a terminal state, without
\* an action, or when it is too long.
RolloutStep ==
    /\ Answered /\ answer # Deadline /\ call = "rollout" /\ Read
    /\ \/ answer = NoAction /\ todo' = <<>> /\ UNCHANGED listed
       \/ /\ answer # NoAction /\ listed' = listed \cup {Last(todo)}
          /\ \/ todo' = <<>>
             \/ \E t \in Succ(Last(todo), answer) :
                  Applicable[t] # <<>> /\ todo' = <<t>>
    /\ UNCHANGED <<call, asked, seen, act, acc, _qv_cache, _state_blacklist>>

\* A step of extract_policy(), depth first.
EnvelopeStep ==
    LET s == Last(todo)
        new == IF answer = NoAction THEN {} ELSE Succ(s, answer) \ seen
    IN
    /\ Answered /\ answer # Deadline /\ call = "envelope" /\ Read
    /\ listed' = IF answer = NoAction THEN listed ELSE listed \cup {s}
    /\ todo' = Front(todo) \o SetToSeq(new) /\ seen' = seen \cup new
    /\ UNCHANGED <<call, asked, act, acc, _qv_cache, _state_blacklist>>

Listed ==
    /\ call \in {"rollout", "envelope"} /\ todo = <<>> /\ pc = "idle"
    /\ call' = "trace" /\ asked' = NoState /\ seen' = {}
    /\ UNCHANGED <<plannerVars, todo, listed, act, acc, _qv_cache,
                   _state_blacklist>>

\* q_values() of a state that is listed; a blacklisted one ends the trace.
QValues(s) ==
    LET missing == {a \in Range(Applicable[s]) : _qv_cache[<<s, a>>] = NoQ} IN
    /\ call = "trace" /\ s \in listed
    /\ \/ /\ s \in _state_blacklist /\ call' = "none" /\ listed' = {}
          /\ UNCHANGED <<asked, todo, act, acc>>
       \/ /\ s \notin _state_blacklist /\ missing = {}
          /\ listed' = listed \ {s} /\ UNCHANGED <<asked, call, todo, act, acc>>
       \/ /\ s \notin _state_blacklist /\ missing # {} /\ call' = "q_values"
          /\ asked' = s
          /\ act' = (CHOOSE a \in missing : TRUE)
          /\ acc' = Cost[<<s, act'>>] * One
          /\ todo' = SetToSeq(Succ(s, act')) \o <<s>>
          /\ UNCHANGED listed
    /\ UNCHANGED <<plannerVars, seen, _qv_cache, _state_blacklist>>
TraceDone ==
    /\ call = "trace" /\ listed = {} /\ call' = "none"
    /\ UNCHANGED <<plannerVars, asked, todo, seen, listed, act, acc, _qv_cache,
                   _state_blacklist>>

\* hp_q_value(): the planner must decide on the state, then on each of the
\* successors, so that their values have converged.
Contribution(t) == Outcome[<<asked, act>>][t] * v[t]
QValueStep ==
    LET first == Len(todo) = Cardinality(Succ(asked, act)) + 1
        total == IF first THEN acc ELSE acc + Contribution(Last(todo))
        error == first /\ answer = NoAction
    IN
    /\ Answered /\ answer # Deadline /\ call = "q_values" /\ Read
    /\ todo' = Front(todo)
    /\ call' = CASE error -> "value_error"
                 [] ~error /\ Len(todo) > 1 -> "q_values"
                 [] OTHER -> "trace"
    /\ _qv_cache' = IF call' # "trace" THEN _qv_cache
                    ELSE [_qv_cache EXCEPT ![<<asked, act>>] =
                            Min({total \div One, dead_end_value})]
    /\ IF call' = "q_values" THEN acc' = total /\ UNCHANGED <<asked, act>>
       ELSE acc' = 0 /\ asked' = NoState /\ act' = NoAction
    /\ UNCHANGED <<seen, listed, _state_blacklist>>

\* The solver: it may train the planner, until the training is done or its
\* deadline is reached, and then plays rounds.  Labeled SSiPP trains by a solve
\* of the initial state, SSiPP practises in rounds of its own.
Training == call \in {"training", "practice"}
Train ==
    /\ call = "start"
    /\ \/ planner.name = "labeledssipp" /\ call' = "training" /\ todo' = <<s0>>
       \/ planner.name = "ssipp" /\ call' = "practice" /\ UNCHANGED todo
    /\ UNCHANGED <<plannerVars, asked, seen, listed, act, acc, _qv_cache, _state_blacklist>>
NoTraining ==
    /\ call = "start" /\ call' = "none"
    /\ UNCHANGED <<plannerVars, asked, todo, seen, listed, act, acc, _qv_cache,
                   _state_blacklist>>
SimulateRound ==
    /\ ~IsTeacher /\ pc = "idle"
    /\ \/ call = "none" /\ call' = "round"
       \/ call = "practice" /\ todo = <<>> /\ UNCHANGED call
    /\ todo' = <<s0>> /\ InitRound
    /\ UNCHANGED <<v, pc, answer, planner, ask, labeller, cur_s, check,
                   use_as_replanner_, root, asked, seen, listed, act, acc,
                   _qv_cache, _state_blacklist>>
LeaveRound ==
    /\ todo' = <<>> /\ call' = "none"
    /\ IF planner.name = "labeledssipp" THEN EndRound
       ELSE pc' = "idle" /\ UNCHANGED labeller

\* A turn of simulateRoundFrom(), and its ends: no action, the goal, and
\* max_turn, which may be any number (MaxTrace bounds the visited states that
\* Labeled SSiPP keeps in a round when it has stayed a replanner).  A round at
\* the goal may be the fiftieth in a row, which ends the practice.
AtGoal == answer # NoAction /\ Succ(Last(todo), answer) \cap Goal # {}
RoundStep ==
    /\ Answered /\ answer # Deadline /\ (Training \/ call = "round")
    /\ answer' = NoAnswer
    /\ \/ /\ answer # NoAction /\ call \in {"practice", "round"}
          /\ Len(visited.lssipp) < MaxTrace
          /\ \E t \in Succ(Last(todo), answer) : t \notin Goal /\ todo' = <<t>>
          /\ UNCHANGED <<pc, labeller, call>>
       \/ call = "round" /\ LeaveRound
       \/ /\ Training /\ todo' = <<>> /\ UNCHANGED <<pc, labeller>>
          /\ \/ call = "practice" /\ UNCHANGED call
             \/ (call = "training" \/ AtGoal) /\ call' = "none"
    /\ UNCHANGED <<v, planner, ask, space, labels, visited, cur_s, check, sweep,
                   has_opt, use_as_replanner_, root, asked, seen, listed, act,
                   acc, _qv_cache, _state_blacklist>>
TrainingCut ==
    /\ Answered /\ answer = Deadline /\ ~IsTeacher /\ Read
    /\ call' = "none" /\ todo' = <<>>
    /\ UNCHANGED <<asked, seen, listed, act, acc, _qv_cache, _state_blacklist>>

Next ==
    \/ PlannerStep /\ UNCHANGED teacherVars
    \/ (IsTeacher \/ Training) /\ DeadlineReached /\ UNCHANGED teacherVars
    \/ AskPlanner \/ Timeout \/ RolloutStep \/ EnvelopeStep \/ Listed
    \/ TraceDone \/ QValueStep
    \/ Train \/ NoTraining \/ SimulateRound \/ RoundStep \/ TrainingCut
    \/ \E s \in Roots : ExpertPolicyRollout(s) \/ ExtractPolicyEnvelope(s)
    \/ \E s \in State : QValues(s)

\* The planner computes as long as it can: weak fairness of Next while the
\* planner is busy, written out, since a busy planner always has a step to take.
Busy == pc # "idle"
Fairness == []<>~Busy \/ []<><<Busy>>_vars
Spec == Init /\ [][Next]_vars /\ Fairness
-----------------------------------------------------------------------------
Distance(x, y) == IF x < y THEN y - x ELSE x - y

\* Admissible: as long as the heuristic is a lower bound, so is the hash, under
\* every interleaving of backups, of terminal costs rounded to floats and of
\* solves cut by a deadline (README of SSiPP; bellman.h, update).
Admissible == \A s \in State : v[s] <= Optimal[s]

\* LabelsClosed: from every state that LRTDP has labelled as solved and that
\* can be solved, an action leads to labelled states only.  decideAction relies
\* on it when it asks for the action, and labels outlive a deadline (lrtdp.h,
\* decideAction).  Labels that Labeled SSiPP is about to delete are left out:
\* at the end of its rounds it changes values without regard to them.
Solvable(s) == Optimal[s] < dead_end_value
LabelsClosed ==
    planner.engine = "lrtdp" =>
    /\ pc = "solve" => \A s \in labels.opt : Solvable(s) =>
           ConstGreedyAction(v, space.fringe, s, space.fringe \cup labels.opt) # NoAction
    /\ \A s \in labels.lssipp : Solvable(s) => SolvedAction(s) # NoAction

\* SolvedOptimal: a state that is labelled as solved has its optimal value, up
\* to the error of convergence (lrtdp.h, checkSolved).
SolvedOptimal ==
    \A s \in labels.lssipp \cup (IF IsTeacher THEN labels.opt ELSE {}) :
        Distance(v[s], Optimal[s]) <= Slack

\* CachedQ: the Q-values the teacher hands to the trainer, and keeps, are the
\* optimal ones, up to the error of convergence and never above them, and no
\* query of a listed state ends in a ValueError, whatever was cut by a deadline
\* before (teacher.py, q_values; pyssipp.cc, hp_q_value).
OptimalQ(s, a) == QValue(Optimal, Goal, s, a)
NoValueError == call # "value_error"
AdmissibleQ ==
    \A sa \in AllQ : _qv_cache[sa] = NoQ \/ _qv_cache[sa] <= OptimalQ(sa[1], sa[2])
CachedQ ==
    /\ NoValueError /\ AdmissibleQ
    /\ \A sa \in AllQ : \/ _qv_cache[sa] = NoQ
                        \/ Distance(_qv_cache[sa], OptimalQ(sa[1], sa[2])) <= Slack

\* InsideSpace: SSiPP is never asked about a state that the short-sighted SSP
\* it holds does not contain; isGoal() would dereference an iterator past the
\* end (ssipp.cc:232, short_sighted_ssps.h:84).
InsideSpace == pc = "ssipp" /\ ~GivesUp(ask) /\ has_opt => ask \in space.states

\* Terminates: every decision comes to an end, also when there are dead ends
\* and traps, and without the help of a deadline.
Terminates == (pc # "idle") ~> (pc = "idle")
=============================================================================
