---------------------------- MODULE ProblemService ----------------------------
(***************************************************************************)
(* The service that gathers the training data of one problem: class        *)
(* ProblemService of asnets/supervised.py with the functions it calls      *)
(* (collect_paths, planner_trace), and the teacher behind it (FDTeacher of *)
(* asnets/teacher.py over FDQValueCache).                                  *)
(*                                                                         *)
(* One call of extend_replay rolls the network's policy out, asks the      *)
(* teacher for its experience from every state the rollouts visit, and     *)
(* adds the labelled states to the replay buffer.  Experience is memoized  *)
(* per state (opt_pol_experience), above a cache that keeps changing       *)
(* below: the properties are about what survives that.                     *)
(*                                                                         *)
(* The network is an arbitrary choice of an enabled action per state,      *)
(* fixed during a call: collect_paths caches the action it chose, so that, *)
(* with deterministic actions, all the paths of one call are the same.     *)
(* The success rate a call returns, and calls with no_plan, which change   *)
(* nothing, are left out.                                                  *)
(***************************************************************************)
EXTENDS FDQValueCache, Bags

CONSTANTS
    InitState,      \* get_init_cstate
    MaxLen,         \* config.max_len: the longest rollout
    NPaths,         \* rollouts per call (n_paths)
    MaxCalls        \* bound: calls of extend_replay

ASSUME ServiceAssumption ==
    /\ InitState \in State
    /\ MaxLen \in Nat \ {0} /\ NPaths \in Nat \ {0}
    /\ MaxCalls \in Nat

VARIABLES
    only_one,       \* config.only_one_good_action, which does not change
    svc,            \* what the service is doing
    visits,         \* visited states whose experience is still to be had
    pol_list,       \* states of the envelope still to be labelled
    pairs,          \* the labelled states of the envelope so far
    opt_pol,        \* the memo of opt_pol_experience: state -> pairs or Absent
    new_pairs,      \* the pairs this call has gathered
    replay,         \* the replay buffer: a bag of pairs
    first_rollout,
    calls           \* history: calls so far

serviceVars == <<only_one, svc, visits, pol_list, pairs, opt_pol, new_pairs, replay,
                 first_rollout, calls>>
allVars == <<state_value_cache, best_action_cache, fd_blacklist, ret, pc,
             cstate, todo, q_values, envelope, entry, fd_runs,
             only_one, svc, visits, pol_list, pairs, opt_pol, new_pairs, replay,
             first_rollout, calls>>

\* A label gives every action a pseudo-Q-value; None is dead_end_value.
Label == [Action -> Nat \cup {None}]
Pair == [state : State, label : Label]

ServiceInit ==
    /\ Init
    /\ only_one \in BOOLEAN
    /\ svc = "ready" /\ visits = <<>> /\ pol_list = <<>> /\ pairs = {}
    /\ opt_pol = [s \in State |-> Absent]
    /\ new_pairs = {} /\ replay = EmptyBag
    /\ first_rollout = TRUE
    /\ calls = 0

-----------------------------------------------------------------------------
(* collect_paths.                                                          *)

\* The network masks the disabled actions while any action is enabled.
Choices(s) == IF Enabled[s] = {} THEN Action ELSE Enabled[s]

\* The first n steps of the network from InitState, up to the first terminal
\* state, which is not on the path.  The action chosen in a state is cached: the
\* same state is always followed by the same state.
IsRollout(path, n) ==
    LET last == path[Len(path)]
        steps == 1..(Len(path) - 1)
    IN  /\ path[1] = InitState
        /\ \A i \in steps :
              /\ ~Terminal(path[i + 1])
              /\ \E a \in Choices(path[i]) : path[i + 1] = NextState(path[i], a)
              /\ \A j \in steps : path[i] = path[j] => path[i + 1] = path[j + 1]
        /\ \/ Len(path) = n
           \/ /\ \E a \in Choices(last) : Terminal(NextState(last, a))
              /\ \A i \in steps : path[i] # last

Rollouts(n) ==
    UNION {{path \in [1..k -> State] : IsRollout(path, n)} : k \in 1..n}

\* NPaths copies of a path, one after the other.
Repeated(path) ==
    [i \in 1..(NPaths * Len(path)) |-> path[((i - 1) % Len(path)) + 1]]

ExtendReplay ==
    /\ svc = "ready" /\ pc = "idle"
    /\ calls < MaxCalls
    /\ \E path \in Rollouts(IF first_rollout THEN 1 ELSE MaxLen) :
          visits' = Repeated(path)
    /\ first_rollout' = FALSE
    /\ new_pairs' = {}
    /\ calls' = calls + 1
    /\ svc' = "visiting"
    /\ UNCHANGED <<vars, pol_list, pairs, opt_pol, replay>>

-----------------------------------------------------------------------------
(* The loop over the visited states, with opt_pol_experience.              *)

\* States without a choice are not worth training on.
Filtered(ps) == {p \in ps : Cardinality(Enabled[p.state]) > 1}

\* Bug: the visit is tried again after a time-out.
BugGiveUp ==
    /\ svc' = "visiting"
    /\ UNCHANGED visits
    /\ pol_list' = <<>> /\ pairs' = {}

\* A TeacherTimeout ends the visit.
GiveUp ==
    /\ svc' = "visiting"
    /\ visits' = Tail(visits)
    /\ pol_list' = <<>> /\ pairs' = {}

Remembered ==
    /\ svc = "visiting" /\ pc = "idle" /\ visits # <<>>
    /\ opt_pol[Head(visits)] # Absent
    /\ new_pairs' = new_pairs \cup Filtered(opt_pol[Head(visits)])
    /\ visits' = Tail(visits)
    /\ UNCHANGED <<vars, svc, pol_list, pairs, opt_pol, replay,
                   first_rollout, calls>>

\* Bug: a time-out is memoized as an empty experience.
BugStartTrace ==
    /\ svc = "visiting" /\ visits # <<>>
    /\ opt_pol[Head(visits)] = Absent
    /\ StartEnvelope(Head(visits))
    /\ IF ret'.exc = "FDTimeout"
       THEN GiveUp /\ opt_pol' = [opt_pol EXCEPT ![Head(visits)] = {}]
       ELSE /\ svc' = IF pc' = "idle" THEN "labelling" ELSE "walking"
            /\ UNCHANGED <<visits, pol_list, pairs, opt_pol>>
    /\ UNCHANGED <<new_pairs, replay, first_rollout, calls>>

\* planner_trace begins with the teacher's envelope (for FDTeacher,
\* expert_policy_rollout is the same); of a state without a plan it is empty.
\* lru_cache does not remember exceptions.
StartTrace ==
    /\ svc = "visiting" /\ visits # <<>>
    /\ opt_pol[Head(visits)] = Absent
    /\ StartEnvelope(Head(visits))
    /\ IF ret'.exc = "FDTimeout"
       THEN GiveUp
       ELSE /\ svc' = IF pc' = "idle" THEN "labelling" ELSE "walking"
            /\ UNCHANGED <<visits, pol_list, pairs>>
    /\ UNCHANGED <<opt_pol, new_pairs, replay, first_rollout, calls>>

Walk ==
    /\ svc = "walking"
    /\ EnvelopeStep
    /\ UNCHANGED serviceVars

\* Bug: the rest of the rollout is labelled instead of the envelope.
BugWalked ==
    /\ svc = "walking"
    /\ EnvelopeDone
    /\ pol_list' = visits
    /\ svc' = "labelling"
    /\ UNCHANGED <<visits, pairs, opt_pol, new_pairs, replay, first_rollout,
                   calls>>

Walked ==
    /\ svc = "walking"
    /\ EnvelopeDone
    /\ pol_list' = envelope
    /\ svc' = "labelling"
    /\ UNCHANGED <<visits, pairs, opt_pol, new_pairs, replay, first_rollout,
                   calls>>

AddPair(s, label) ==
    /\ pairs' = pairs \cup {[state |-> s, label |-> label]}
    /\ pol_list' = Tail(pol_list)
    /\ svc' = "labelling"

\* Bug: the states get the action of the last state of the list.
BugLabelAction ==
    /\ only_one
    /\ svc = "labelling" /\ pol_list # <<>>
    /\ Query(pol_list[Len(pol_list)])
    /\ AddPair(Head(pol_list),
               [a \in Action |-> IF a = ret'.action THEN 0 ELSE None])
    /\ UNCHANGED <<visits, opt_pol, new_pairs, replay, first_rollout, calls>>

\* only_one_good_action: single_action_label's action gets 0, the others the
\* value of a dead end; without an action all do.
LabelAction ==
    /\ only_one
    /\ svc = "labelling" /\ pol_list # <<>>
    /\ Query(Head(pol_list))
    /\ IF ret'.exc = "FDTimeout"
       THEN GiveUp
       ELSE /\ AddPair(Head(pol_list),
                       [a \in Action |-> IF a = ret'.action THEN 0 ELSE None])
            /\ UNCHANGED visits
    /\ UNCHANGED <<opt_pol, new_pairs, replay, first_rollout, calls>>

\* Otherwise every enabled action gets its Q-value.
StartLabel ==
    /\ ~only_one
    /\ svc = "labelling" /\ pol_list # <<>>
    /\ StartQValues(Head(pol_list))
    /\ todo' = Enabled[Head(pol_list)]
    /\ svc' = "valuing"
    /\ UNCHANGED <<visits, pol_list, pairs, opt_pol, new_pairs, replay,
                   first_rollout, calls>>

QValue ==
    /\ svc = "valuing"
    /\ \E a \in todo : QEnabled(a)
    /\ IF ret'.exc = "FDTimeout"
       THEN GiveUp
       ELSE UNCHANGED <<svc, visits, pol_list, pairs>>
    /\ UNCHANGED <<opt_pol, new_pairs, replay, first_rollout, calls>>

\* Bug: an action without a plan is given the value zero.
BugLabelZero ==
    /\ svc = "valuing"
    /\ QDone
    /\ AddPair(Head(pol_list),
               [a \in Action |-> IF q_values[a] \in Nat THEN q_values[a]
                                 ELSE 0])
    /\ UNCHANGED <<visits, opt_pol, new_pairs, replay, first_rollout, calls>>

LabelQValues ==
    /\ svc = "valuing"
    /\ QDone
    /\ AddPair(Head(pol_list),
               [a \in Action |-> IF q_values[a] \in Nat THEN q_values[a]
                                 ELSE None])
    /\ UNCHANGED <<visits, opt_pol, new_pairs, replay, first_rollout, calls>>

EndTrace ==
    /\ svc = "labelling" /\ pc = "idle" /\ pol_list = <<>>
    /\ opt_pol' = [opt_pol EXCEPT ![Head(visits)] = pairs]
    /\ new_pairs' = new_pairs \cup Filtered(pairs)
    /\ pairs' = {}
    /\ visits' = Tail(visits)
    /\ svc' = "visiting"
    /\ UNCHANGED <<vars, pol_list, replay, first_rollout, calls>>

\* A pair that was gathered counts once per call, however often it was met.
EndExtend ==
    /\ svc = "visiting" /\ pc = "idle" /\ visits = <<>>
    /\ replay' = replay (+) SetToBag(new_pairs)
    /\ svc' = "ready"
    /\ UNCHANGED <<vars, visits, pol_list, pairs, opt_pol, new_pairs,
                   first_rollout, calls>>

\* The trainer makes no more calls, or an exception has ended the process.
Stopped ==
    /\ \/ svc = "ready" /\ calls = MaxCalls
       \/ pc = "failed"
    /\ UNCHANGED allVars

ServiceNext ==
    /\ \/ ExtendReplay \/ Remembered \/ StartTrace \/ Walk \/ Walked
       \/ LabelAction \/ StartLabel \/ QValue \/ LabelQValues
       \/ EndTrace \/ EndExtend \/ Stopped
    /\ UNCHANGED only_one

ServiceSpec == ServiceInit /\ [][ServiceNext]_allVars

\* One thread, which never waits for anything but a call of Fast Downward, and
\* that has a time limit.
FairServiceSpec == ServiceSpec /\ WF_allVars(ServiceNext)

-----------------------------------------------------------------------------
(* What the trainer makes of a label: the target distribution of           *)
(* ManualLoss._set_up_losses is uniform over the actions within 0.01 of    *)
(* the smallest value.                                                     *)

Target(label) ==
    IF \A a \in Action : label[a] = None
    THEN Action
    ELSE {a \in Action : label[a] # None /\
             \A other \in Action : label[other] # None => label[a] <= label[other]}

-----------------------------------------------------------------------------
(* Properties.                                                             *)

ServiceTypeOK ==
    /\ TypeOK
    /\ only_one \in BOOLEAN
    /\ svc \in {"ready", "visiting", "walking", "labelling", "valuing"}
    /\ visits \in Seq(State) /\ pol_list \in Seq(State)
    /\ pairs \in SUBSET Pair /\ new_pairs \in SUBSET Pair
    /\ \A s \in State : opt_pol[s] # Absent => opt_pol[s] \in SUBSET Pair
    /\ IsABag(replay) /\ BagToSet(replay) \in SUBSET Pair
    /\ first_rollout \in BOOLEAN
    /\ calls \in 0..MaxCalls

Gathered == new_pairs \cup BagToSet(replay)

\* A state that is about to be labelled is in the cache or a goal, because the
\* envelope came from there: single_action_label runs no Fast Downward, so that
\* compute_state_value_action's wrong answer on a miss never becomes a label.
LabelQueriesHit ==
    only_one /\ svc = "labelling" =>
        \A i \in DOMAIN pol_list :
            pol_list[i] \in Goal \/ state_value_cache[pol_list[i]] \in Nat

\* The network is never trained towards an action that leads nowhere: of every
\* labelled state but a goal, each target action is enabled and leads to a goal
\* or to a state from which the teacher has a plan.
TargetsOnPlan ==
    \A p \in Gathered : p.state \notin Goal =>
        \A a \in Target(p.label) :
            /\ a \in Enabled[p.state]
            /\ \/ Succ[p.state][a] \in Goal
               \/ state_value_cache[Succ[p.state][a]] \in Nat

\* 'The optimal policy envelope/rollout includes the initial state observed by
\* the network, so if we do this for every state then things turn out okay':
\* between calls, a state that a rollout visited without a time-out, that has a
\* plan and a choice of actions, is in the replay buffer - even if the plan
\* became known only after an earlier visit to it timed out.
VisitedStatesLabelled ==
    svc = "ready" =>
        \A s \in State :
            /\ opt_pol[s] # Absent /\ state_value_cache[s] \in Nat
            /\ s \notin Goal /\ Cardinality(Enabled[s]) > 1
            => \E p \in BagToSet(replay) : p.state = s

\* Stored Q-values stay upper bounds of what the teacher's cache says, however
\* the cache improves after they were stored.
StoredLabelsBound ==
    ~only_one =>
        \A p \in Gathered : \A a \in Action : p.label[a] # None =>
            /\ state_value_cache[Succ[p.state][a]] \in Nat
            /\ p.label[a] >= 1 + state_value_cache[Succ[p.state][a]]

\* Every call of extend_replay returns or raises, whatever times out.
Responds == svc = "visiting" ~> svc = "ready" \/ pc = "failed"
=============================================================================
