---------------------------- MODULE FDQValueCache ----------------------------
(***************************************************************************)
(* The teacher's memo of Fast Downward plans: class FDQValueCache of       *)
(* asnets/interfaces/fd_interface.py.                                      *)
(*                                                                         *)
(* One cache serves one problem, in one single-threaded process.  Every    *)
(* query of an unknown state runs Fast Downward, replays the plan in the   *)
(* simulator, and improves the entries of all the states the plan visits.  *)
(* The entries are then used twice without running Fast Downward again: to *)
(* walk from a state to the goal (compute_policy_envelope), and to label   *)
(* actions with Q-values (compute_q_values).  What makes the cache correct *)
(* is that entries written by different plans, at different times, still   *)
(* fit together: Ranking below.                                            *)
(*                                                                         *)
(* A call of compute_state_value_action is one step; the loops of          *)
(* compute_q_values and compute_policy_envelope make one step per          *)
(* iteration.  The order in which compute_q_values visits the actions is   *)
(* abstracted to any order.                                                *)
(***************************************************************************)
EXTENDS Integers, Sequences, FiniteSets

CONSTANTS
    State,        \* the states of the planning task (CanonicalState)
    Action,       \* the ground actions
    Goal,         \* the goal states
    Enabled,      \* Enabled[s]: the actions enabled in s (acts_enabled)
    Succ,         \* Succ[s][a]: the state that a leads to from s
    MaxPlanLen,   \* bound: the longest plan Fast Downward returns
    MaxEnvelope,  \* the 10000 of the assertion on the envelope's length
    Misjudged,    \* states of which Fast Downward may say there is no solution
                  \* though there is one, as an incomplete configuration does
    None,         \* Python's None
    Absent        \* "not in the dictionary"

ASSUME TaskAssumption ==
    /\ Goal \subseteq State
    /\ Enabled \in [State -> SUBSET Action]
    /\ Succ \in [State -> [Action -> State]]

ASSUME BoundAssumption ==
    /\ MaxPlanLen \in Nat \ {0}
    /\ MaxEnvelope \in Nat
    /\ Misjudged \subseteq State

\* None and "absent" are not costs, not actions, and not each other.
ASSUME NoneAssumption ==
    /\ None \notin Nat /\ Absent \notin Nat /\ None # Absent
    /\ None \notin Action /\ Absent \notin Action /\ None \notin State

VARIABLES
    state_value_cache,  \* state -> cost to the goal, None, or Absent
    best_action_cache,  \* state -> action, None, or Absent
    fd_blacklist,       \* states on which Fast Downward timed out
    ret,                \* outcome of the last compute_state_value_action
    pc,                 \* what the process is doing
    cstate,             \* the state an unfinished loop works on
    todo,               \* actions compute_q_values has still to value
    q_values,           \* the Q-values computed so far (Absent: not yet)
    envelope,           \* the envelope computed so far
    entry,              \* history: cstate's entry when compute_q_values began
    fd_runs             \* history: how often Fast Downward ran on a state

cache == <<state_value_cache, best_action_cache>>
loop == <<cstate, todo, q_values, envelope, entry>>
vars == <<state_value_cache, best_action_cache, fd_blacklist, ret, pc,
          cstate, todo, q_values, envelope, entry, fd_runs>>

Cost == Nat
Value == Cost \cup {None, Absent}
Best == Action \cup {None, Absent}
Errors == {"AssertionError", "TypeError", "KeyError"}
Outcome == [state : State \cup {None}, value : Value, action : Best,
            exc : {"none", "FDTimeout"} \cup Errors]
NoOutcome == [state |-> None, value |-> Absent, action |-> Absent,
              exc |-> "none"]

-----------------------------------------------------------------------------
(* The planning task.                                                      *)

\* CanonicalState.is_terminal
Terminal(s) == s \in Goal \/ Enabled[s] = {}

\* sample_next_state: a disabled action warns and leaves the state alone.
NextState(s, a) == IF a \in Enabled[s] THEN Succ[s][a] ELSE s

\* Fast Downward traces its plan through the search space's parent links, one
\* parent per state: a plan is a loop-free path of non-terminal states along
\* enabled actions, and ends in a goal.  plan[i] is the i-th state visited with
\* the action taken there.
PlanStep == [state : State, act : Action]
IsPlan(plan) ==
    /\ \A i \in DOMAIN plan :
          /\ ~Terminal(plan[i].state)
          /\ plan[i].act \in Enabled[plan[i].state]
          /\ IF i = Len(plan)
             THEN Succ[plan[i].state][plan[i].act] \in Goal
             ELSE Succ[plan[i].state][plan[i].act] = plan[i + 1].state
    /\ \A i, j \in DOMAIN plan : plan[i].state = plan[j].state => i = j

AllPlans ==
    UNION {{plan \in [1..n -> PlanStep] : IsPlan(plan)} : n \in 1..MaxPlanLen}

Plans(s) == {plan \in AllPlans : plan[1].state = s}

\* costs_to_goal: every step costs 1.
CostToGoal(plan, i) == Len(plan) - i + 1

-----------------------------------------------------------------------------
(* Improving the cache with a plan.                                        *)

\* The visited states the loop gets through: comparing a cost with the None of
\* a state the cache says has no plan raises TypeError and ends the loop.
Reached(plan) ==
    {i \in DOMAIN plan :
        \A j \in 1..i : state_value_cache[plan[j].state] # None}

Clashes(plan) == Reached(plan) # DOMAIN plan

\* Bug: the comparison with the old value is the wrong way round.
BugOverwritesWorse(plan, i) ==
    LET old_val == state_value_cache[plan[i].state]
    IN  old_val = Absent \/ CostToGoal(plan, i) >= old_val

\* Bug: the old value is not looked at.
BugOverwritesAlways(plan, i) == TRUE

\* A step of the plan overwrites the entry of its state unless the entry is
\* strictly cheaper: on a tie the newer action wins.
Overwrites(plan, i) ==
    LET old_val == state_value_cache[plan[i].state]
    IN  old_val = Absent \/ CostToGoal(plan, i) <= old_val

Written(plan) == {i \in Reached(plan) : Overwrites(plan, i)}

At(plan, s) == CHOOSE i \in Written(plan) : plan[i].state = s

\* Bug: the action is updated even where the old value is kept.
BugImprove(plan) ==
    LET new == {plan[i].state : i \in Written(plan)}
        visited == {plan[i].state : i \in Reached(plan)}
        index(s) == CHOOSE i \in Reached(plan) : plan[i].state = s
    IN  /\ state_value_cache' = [s \in State |->
              IF s \in new THEN CostToGoal(plan, At(plan, s))
              ELSE state_value_cache[s]]
        /\ best_action_cache' = [s \in State |->
              IF s \in visited THEN plan[index(s)].act
              ELSE best_action_cache[s]]

Improve(plan) ==
    LET new == {plan[i].state : i \in Written(plan)}
    IN  /\ state_value_cache' = [s \in State |->
              IF s \in new THEN CostToGoal(plan, At(plan, s))
              ELSE state_value_cache[s]]
        /\ best_action_cache' = [s \in State |->
              IF s \in new THEN plan[At(plan, s)].act
              ELSE best_action_cache[s]]

-----------------------------------------------------------------------------
(* compute_state_value_action(s): one disjunct per way out.                *)

Store(s, v, a) ==
    /\ state_value_cache' = [state_value_cache EXCEPT ![s] = v]
    /\ best_action_cache' = [best_action_cache EXCEPT ![s] = a]

Return(s, v, a) ==
    ret' = [state |-> s, value |-> v, action |-> a, exc |-> "none"]

Raise(s, e) ==
    ret' = [state |-> s, value |-> Absent, action |-> Absent, exc |-> e]

RunFD(s) ==
    /\ state_value_cache[s] = Absent
    /\ ~Terminal(s)
    /\ s \notin fd_blacklist
    /\ fd_runs' = [fd_runs EXCEPT ![s] = @ + 1]

CacheHit(s) ==
    /\ state_value_cache[s] # Absent
    /\ Return(s, state_value_cache[s], best_action_cache[s])
    /\ UNCHANGED <<cache, fd_blacklist, fd_runs>>

\* Bug: a terminal state is taken for a goal.
BugTerminalMiss(s) ==
    /\ state_value_cache[s] = Absent
    /\ Terminal(s)
    /\ Store(s, 0, None) /\ Return(s, 0, None)
    /\ UNCHANGED <<fd_blacklist, fd_runs>>

TerminalMiss(s) ==
    /\ state_value_cache[s] = Absent
    /\ Terminal(s)
    /\ LET cost == IF s \in Goal THEN 0 ELSE None
       IN  Store(s, cost, None) /\ Return(s, cost, None)
    /\ UNCHANGED <<fd_blacklist, fd_runs>>

Blacklisted(s) ==
    /\ state_value_cache[s] = Absent
    /\ ~Terminal(s)
    /\ s \in fd_blacklist
    /\ Raise(s, "FDTimeout")
    /\ UNCHANGED <<cache, fd_blacklist, fd_runs>>

\* Bug: the timeout is reported but the state is not blacklisted.
BugFDTimesOutForgotten(s) ==
    /\ RunFD(s)
    /\ Raise(s, "FDTimeout")
    /\ UNCHANGED <<cache, fd_blacklist>>

\* Bug: a timeout is remembered as "no plan".
BugFDTimesOutCached(s) ==
    /\ RunFD(s)
    /\ Store(s, None, None)
    /\ Raise(s, "FDTimeout")
    /\ UNCHANGED fd_blacklist

FDTimesOut(s) ==
    /\ RunFD(s)
    /\ fd_blacklist' = fd_blacklist \cup {s}
    /\ Raise(s, "FDTimeout")
    /\ UNCHANGED cache

\* Neither a solution, nor a proof of unsolvability, nor a driver abort in the
\* output: run_fd_or_timeout's assertion fails.
FDBadOutput(s) ==
    /\ RunFD(s)
    /\ Raise(s, "AssertionError")
    /\ UNCHANGED <<cache, fd_blacklist>>

FDNoPlan(s) ==
    /\ RunFD(s)
    /\ s \notin Misjudged => Plans(s) = {}
    /\ Store(s, None, None)
    /\ Return(s, None, None)
    /\ UNCHANGED fd_blacklist

\* The value returned is the queried state's, the action that of the LAST state
\* visited: the loop has rebound this_tup_state.
FDPlan(s) ==
    /\ RunFD(s)
    /\ \E plan \in Plans(s) :
          /\ Improve(plan)
          /\ IF Clashes(plan)
             THEN Raise(s, "TypeError")
             ELSE Return(s, state_value_cache'[s],
                         best_action_cache'[plan[Len(plan)].state])
    /\ UNCHANGED fd_blacklist

Compute(s) ==
    \/ CacheHit(s)
    \/ TerminalMiss(s)
    \/ Blacklisted(s)
    \/ FDTimesOut(s)
    \/ FDBadOutput(s)
    \/ FDNoPlan(s)
    \/ FDPlan(s)

\* Where the caller continues: a timeout ends the query (it becomes a
\* TeacherTimeout), any other exception reaches the trainer and ends the run.
Continue(next) ==
    pc' = CASE ret'.exc = "none" -> next
            [] ret'.exc = "FDTimeout" -> "idle"
            [] OTHER -> "failed"

-----------------------------------------------------------------------------
(* The queries.                                                            *)

\* compute_state_value_action and compute_state_value, called directly.
Query(s) ==
    /\ pc = "idle"
    /\ Compute(s)
    /\ Continue("idle")
    /\ UNCHANGED loop

\* compute_q_values for a list of actions: planner_trace passes the enabled
\* ones, the module's demo passes all of them.
StartQValues(s) ==
    /\ pc = "idle"
    /\ pc' = "q_values"
    /\ cstate' = s
    /\ todo' \in {Enabled[s], Action}
    /\ q_values' = [a \in Action |-> Absent]
    /\ entry' = [value |-> state_value_cache[s],
                 action |-> best_action_cache[s]]
    /\ UNCHANGED <<cache, fd_blacklist, ret, envelope, fd_runs>>

QDisabled(a) ==
    /\ pc = "q_values"
    /\ a \in todo \ Enabled[cstate]
    /\ todo' = todo \ {a}
    /\ q_values' = [q_values EXCEPT ![a] = None]
    /\ UNCHANGED <<cache, fd_blacklist, ret, pc, cstate, envelope, entry,
                   fd_runs>>

QEnabled(a) ==
    /\ pc = "q_values"
    /\ a \in todo \cap Enabled[cstate]
    /\ Compute(NextState(cstate, a))
    /\ Continue("q_values")
    /\ todo' = todo \ {a}
    /\ q_values' = IF ret'.exc = "none"
                   THEN [q_values EXCEPT ![a] = IF ret'.value = None THEN None
                                                ELSE 1 + ret'.value]
                   ELSE q_values
    /\ UNCHANGED <<cstate, envelope, entry>>

\* The call returns and its local variables are gone.
Forget ==
    /\ pc' = "idle"
    /\ ret' = NoOutcome
    /\ cstate' = None
    /\ q_values' = [a \in Action |-> Absent]
    /\ envelope' = <<>>
    /\ entry' = [value |-> Absent, action |-> Absent]

QDone ==
    /\ pc = "q_values"
    /\ todo = {}
    /\ Forget
    /\ UNCHANGED <<cache, fd_blacklist, todo, fd_runs>>

\* compute_policy_envelope warms up the cache, then follows best_action_cache.
StartEnvelope(s) ==
    /\ pc = "idle"
    /\ Compute(s)
    /\ Continue(IF ret'.value = None THEN "idle" ELSE "envelope")
    /\ cstate' = s
    /\ envelope' = <<>>
    /\ UNCHANGED <<todo, q_values, entry>>

\* One iteration appends the state both before and after the step.  An absent
\* or None entry raises KeyError; a long envelope fails the assertion.
EnvelopeStep ==
    /\ pc = "envelope"
    /\ ~Terminal(cstate)
    /\ LET act == best_action_cache[cstate]
           next == NextState(cstate, act)
       IN  IF act \in Action
           THEN /\ cstate' = next
                /\ envelope' = envelope \o <<cstate, next>>
                /\ pc' = IF Len(envelope') < MaxEnvelope
                         THEN "envelope" ELSE "failed"
                /\ ret' = IF Len(envelope') < MaxEnvelope
                          THEN ret ELSE [ret EXCEPT !.exc = "AssertionError"]
           ELSE /\ envelope' = Append(envelope, cstate)
                /\ pc' = "failed"
                /\ ret' = [ret EXCEPT !.exc = "KeyError"]
                /\ UNCHANGED cstate
    /\ UNCHANGED <<cache, fd_blacklist, todo, q_values, entry, fd_runs>>

EnvelopeDone ==
    /\ pc = "envelope"
    /\ Terminal(cstate)
    /\ Forget
    /\ UNCHANGED <<cache, fd_blacklist, todo, fd_runs>>

\* After an error the process only waits to be killed.
Failed ==
    /\ pc = "failed"
    /\ UNCHANGED vars

-----------------------------------------------------------------------------
Init ==
    /\ state_value_cache = [s \in State |-> Absent]
    /\ best_action_cache = [s \in State |-> Absent]
    /\ fd_blacklist = {}
    /\ ret = NoOutcome
    /\ pc = "idle"
    /\ cstate = None
    /\ todo = {}
    /\ q_values = [a \in Action |-> Absent]
    /\ envelope = <<>>
    /\ entry = [value |-> Absent, action |-> Absent]
    /\ fd_runs = [s \in State |-> 0]

Next ==
    \/ \E s \in State : Query(s) \/ StartQValues(s) \/ StartEnvelope(s)
    \/ \E a \in Action : QDisabled(a) \/ QEnabled(a)
    \/ QDone
    \/ EnvelopeStep
    \/ EnvelopeDone
    \/ Failed

Spec == Init /\ [][Next]_vars
-----------------------------------------------------------------------------
(* What the cache promises.                                                *)

TypeOK ==
    /\ state_value_cache \in [State -> Value]
    /\ best_action_cache \in [State -> Best]
    /\ fd_blacklist \subseteq State
    /\ ret \in Outcome
    /\ pc \in {"idle", "q_values", "envelope", "failed"}
    /\ cstate \in State \cup {None}
    /\ pc \in {"q_values", "envelope"} => cstate \in State
    /\ todo \subseteq Action
    /\ q_values \in [Action -> Value]
    /\ envelope \in Seq(State)
    /\ entry \in [value : Value, action : Best]
    /\ fd_runs \in [State -> Nat]

\* The successor of s along a costs at most v - 1 according to the cache, or is
\* a goal, which costs nothing whether or not the cache holds it.
Supports(s, a, v) ==
    /\ a \in Enabled[s]
    /\ LET t == Succ[s][a]
       IN  \/ t \in Goal /\ v >= 1
           \/ /\ ~Terminal(t)
              /\ state_value_cache[t] \in Nat
              /\ state_value_cache[t] < v

\* An entry tells the truth about its state: both dictionaries have it or
\* neither; a terminal state costs nothing if it is a goal and has no plan
\* otherwise; another state has a cost of at least one step or no plan, and "no
\* plan" is right unless Fast Downward misjudges the state.
EntryOK(s) ==
    /\ state_value_cache[s] = Absent <=> best_action_cache[s] = Absent
    /\ s \in Goal => state_value_cache[s] \in {Absent, 0}
    /\ Terminal(s) /\ s \notin Goal => state_value_cache[s] \in {Absent, None}
    /\ Terminal(s) => best_action_cache[s] \in {Absent, None}
    /\ ~Terminal(s) =>
          /\ state_value_cache[s] \in {Absent, None} \cup 1..MaxPlanLen
          /\ s \notin Misjudged /\ state_value_cache[s] = None => Plans(s) = {}

\* Whatever the order of the queries, the dictionaries never hold an entry that
\* is wrong about its own state (compute_state_value_action).
EntriesTruthful == pc # "failed" => \A s \in State : EntryOK(s)

Ranked(s) ==
    state_value_cache[s] \in Nat /\ ~Terminal(s) =>
        Supports(s, best_action_cache[s], state_value_cache[s])

\* Entries written by different plans fit together: in every state with a
\* cost, the best action leads to a goal or to a state whose cost is strictly
\* smaller.  So following best_action_cache reaches the goal, from every state
\* that has a cost, within that cost, although no single plan need describe the
\* path that is followed.
Ranking == pc # "failed" => \A s \in State : Ranked(s)

\* compute_policy_envelope follows a path of the task, never runs out of
\* entries, and never comes near its infinite-loop assertion: what it has
\* collected and what the cache still promises add up to at most twice the
\* value it started from.
EnvelopeSound ==
    pc = "envelope" =>
        /\ cstate \in State
        /\ state_value_cache[cstate] \in Nat \/ cstate \in Goal
        /\ Terminal(cstate) => cstate \in Goal
        /\ envelope # <<>> =>
              /\ cstate = envelope[Len(envelope)]
              /\ Len(envelope)
                   + 2 * (IF cstate \in Goal THEN 0
                          ELSE state_value_cache[cstate])
                 <= 2 * state_value_cache[envelope[1]]

\* compute_q_values improves the cache while it labels, so a label may be stale
\* when the call returns.  It never contradicts what the cache recommended when
\* the call began: once every action has its label, that action's label is no
\* worse than the value the cache had for the state.
RecommendedActionLabelled ==
    /\ pc = "q_values" /\ todo = {}
    /\ entry.action \in Action
    /\ entry.value \in Nat
    => /\ q_values[entry.action] \in Nat
       /\ q_values[entry.action] <= entry.value

\* A label is an upper bound of what the cache knows now: entries only improve.
LabelsNotOptimistic ==
    pc = "q_values" =>
        \A a \in Action :
            q_values[a] \in Nat =>
                /\ a \in Enabled[cstate]
                /\ state_value_cache[Succ[cstate][a]] \in Nat
                /\ q_values[a] >= 1 + state_value_cache[Succ[cstate][a]]

\* The cache holds that a state has no plan, because Fast Downward misjudged it.
Misled == \E s \in Misjudged : state_value_cache[s] = None /\ Plans(s) # {}

\* The cache's own inconsistency never ends the process: it fails on output of
\* Fast Downward that cannot be read, or in comparing a cost with the None of a
\* state that Fast Downward misjudged; never half-way along an envelope, where
\* an entry could be missing or the infinite-loop assertion fail.
NoInternalError ==
    pc = "failed" /\ MaxEnvelope > 2 * MaxPlanLen =>
        /\ envelope = <<>>
        /\ ret.exc = "AssertionError" \/ (ret.exc = "TypeError" /\ Misled)

\* Fast Downward, the expensive call, runs at most once on any state, whatever
\* it answered: the answer is in the cache or the state is on the blacklist.
FDRunsOnce ==
    \A s \in State : fd_runs[s] <= 1

\* A cost in the cache is never raised, and never replaced by None or forgotten.
CostsOnlyImprove ==
    [][\A s \in State :
          state_value_cache[s] \in Nat =>
              /\ state_value_cache'[s] \in Nat
              /\ state_value_cache'[s] <= state_value_cache[s]]_vars
=============================================================================
