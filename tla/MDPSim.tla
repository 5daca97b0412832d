------------------------------- MODULE MDPSim --------------------------------
(***************************************************************************)
(* mdpsim as the Python extension uses it: a parsed problem is             *)
(* instantiated once (Problem::instantiate, ActionSchema::instantiations); *)
(* build_maps then collects, round by round, the atoms and actions that    *)
(* the network gets inputs and outputs for; and PyProblem::apply samples   *)
(* successors of states (State::next).  The counter total-time, which      *)
(* every step raises, is left out.                                         *)
(***************************************************************************)
EXTENDS PPDDLEffects

CONSTANT Problems   \* the problems that may be given

VARIABLES
    problem,
    phase,              \* "parsed", "mapping" or "ready"
    actions,            \* Problem::actions_
    remaining_actions,  \* actions build_maps has not used yet
    atom_set,           \* the atoms of atom_vec
    action_vec,         \* the actions of action_vec
    state               \* the State the caller holds

vars == <<problem, phase, actions, remaining_actions, atom_set, action_vec, state>>

Source == INSTANCE PPDDL

goal_achieved == Fluent("goal-achieved", <<>>)

\* make_prob_effect and the other functions of the parser that build effects.
RECURSIVE Parsed(_)
Parsed(e) ==
    CASE e.op = "prob" ->
            MakeProb([i \in DOMAIN e.outcomes |->
                        <<e.outcomes[i][1], Parsed(e.outcomes[i][2])>>])
      [] e.op = "conjunctive" ->
            FoldLeft(LAMBDA acc, x : AndEff(acc, Parsed(x)), Empty, e.args)
      [] e.op = "conditional" -> MakeWhen(e.condition, Parsed(e.effect))
      [] e.op = "quantified" -> MakeForall(e.parameters, Parsed(e.effect))
      [] e.op = "update" -> MakeUpdate(e.kind, e.fluent, e.expr)
      [] OTHER -> e

-----------------------------------------------------------------------------
(* States.                                                                 *)

\* Bug: what is deleted is deleted last.
BugAffect(st, c) ==
    [atoms |-> (st.atoms \cup c.adds) \ c.deletes,
     values |-> AffectValues(st.values, c.updates)]

\* Action::affect, once the change has been sampled.
Affect(st, c) ==
    [atoms |-> (st.atoms \ c.deletes) \cup c.adds,
     values |-> AffectValues(st.values, c.updates)]

\* The end of State's constructor and of State::next.
WithGoal(st, was) ==
    LET goal == Holds(problem.goal, st)
        scored == (goal_achieved :> 1) @@ st.values
    IN  [atoms |-> st.atoms, goal |-> goal,
         values |-> IF goal /\ ~was THEN AffectValues(scored, problem.goal_reward)
                    ELSE st.values]

\* The initial effects are sampled one after the other; their deletions are
\* not carried out.
InitStates ==
    LET step(sts, e) ==
            UNION {LET cs == StateChanges(e, st)
                   IN  {Affect(st, [cs[i] EXCEPT !.deletes = {}]) : i \in DOMAIN cs}
                     : st \in sts}
        sts == FoldLeft(step, {[atoms |-> problem.init_atoms, values |-> problem.init_values]},
                        problem.init_effects)
    IN  {WithGoal(st, FALSE) : st \in sts}

Next_(action, st) ==
    LET cs == StateChanges(action.effect, st)
    IN  {WithGoal(Affect(st, cs[i]), st.goal) : i \in DOMAIN cs}

Enabled(action, st) == Holds(action.precondition, st)

-----------------------------------------------------------------------------
(* Instantiation.                                                          *)

Initial == [atoms |-> problem.init_atoms, values |-> problem.init_values]

Instance(schema, args, precond) ==
    [name |-> schema.name,
     arguments |-> [i \in DOMAIN schema.parameters |-> args[schema.parameters[i]]],
     precondition |-> precond,
     effect |-> InstEff(Parsed(schema.effect), args, Initial)]

\* Parameters are replaced one after the other, and the precondition with each,
\* until there are none left or the precondition has become a contradiction.
RECURSIVE Instantiations(_, _, _)
Instantiations(schema, args, precond) ==
    LET i == Cardinality(DOMAIN args) + 1
    IN  IF i > Len(schema.parameters)
        THEN {Instance(schema, args, precond)}
        ELSE LET v == schema.parameters[i]
                 With(o) == Inst(precond, v :> o, Initial, FALSE)
             IN  UNION {Instantiations(schema, (v :> o) @@ args, With(o)) :
                          o \in {o \in ToSet(Compatible[v]) :
                                    Truthiness(With(o)) # CONTRADICTION}}

AllInstantiations(schema) ==
    IF schema.parameters # <<>>
    THEN Instantiations(schema, NoSubst, schema.precondition)
    ELSE LET precond == Inst(schema.precondition, NoSubst, Initial, FALSE)
         IN  IF Truthiness(precond) = CONTRADICTION THEN {}
             ELSE {Instance(schema, NoSubst, precond)}

Init ==
    /\ problem \in Problems
    /\ phase = "parsed"
    /\ actions = {} /\ remaining_actions = {} /\ atom_set = {} /\ action_vec = {}
    /\ state \in InitStates

Instantiate ==
    /\ phase = "parsed"
    /\ actions' = UNION {AllInstantiations(schema) : schema \in problem.schemas}
    /\ remaining_actions' = actions'
    /\ atom_set' = problem.init_atoms
                     \cup UNION {EffListAtoms(problem.init_effects[i]) :
                                   i \in DOMAIN problem.init_effects}
    /\ phase' = "mapping"
    /\ UNCHANGED <<problem, action_vec, state>>

-----------------------------------------------------------------------------
(* build_maps.                                                             *)

EnabledNoValues == {a \in remaining_actions : HoldsNoValues(a.precondition, atom_set)}

\* One round: all actions that may be enabled, their atoms, and out with them.
MapRound ==
    /\ phase = "mapping"
    /\ EnabledNoValues # {}
    /\ action_vec' = action_vec \cup EnabledNoValues
    /\ atom_set' = atom_set \cup
            UNION {ListAtoms(a.precondition) \cup EffListAtoms(a.effect) : a \in EnabledNoValues}
    /\ remaining_actions' = remaining_actions \ EnabledNoValues
    /\ UNCHANGED <<problem, phase, actions, state>>

MapsBuilt ==
    /\ phase = "mapping"
    /\ EnabledNoValues = {}
    /\ phase' = "ready"
    /\ UNCHANGED <<problem, actions, remaining_actions, atom_set, action_vec, state>>

\* PyProblem::apply.
ApplyAction ==
    /\ phase = "ready"
    /\ \E a \in action_vec :
          /\ Enabled(a, state)
          /\ state' \in Next_(a, state)
    /\ UNCHANGED <<problem, phase, actions, remaining_actions, atom_set, action_vec>>

Next == Instantiate \/ MapRound \/ MapsBuilt \/ ApplyAction

Spec == Init /\ [][Next]_vars

-----------------------------------------------------------------------------
(* Properties.                                                             *)

\* The network has an output, enabled, for an action exactly where the action's
\* precondition, as the domain file has it, is true: instantiation with its
\* static simplifications drops no action that will be wanted, and build_maps'
\* optimistic rounds reach everything.
EnabledRight ==
    phase = "ready" =>
        \A schema \in problem.schemas : \A env \in Source!Bindings(schema.parameters) :
            LET args == [i \in DOMAIN schema.parameters |-> env[schema.parameters[i]]]
            IN  Source!Sat(schema.precondition, env, state) =
                (\E a \in action_vec :
                    a.name = schema.name /\ a.arguments = args /\ Enabled(a, state))

\* The probability of t among changes that were made to st.
ProbabilityOf(t, cs, st) ==
    FoldLeft(LAMBDA p, c : IF Affect(st, c) = t THEN Plus(p, c.p) ELSE p, Frac(0, 1), cs)

\* Sampling an instantiated effect, with nested outcomes merged and weights
\* brought to common denominators, has the distribution of the domain file.
DistributionRight ==
    phase = "ready" =>
        \A a \in action_vec : Enabled(a, state) =>
            \A schema \in problem.schemas : schema.name = a.name =>
                LET env == [v \in ToSet(schema.parameters) |->
                              a.arguments[CHOOSE i \in DOMAIN schema.parameters :
                                            schema.parameters[i] = v]]
                    drawn == StateChanges(a.effect, state)
                    meant == Source!Meaning(schema.effect, env, state)
                    all == ToSet(drawn) \cup ToSet(meant)
                IN  \A c \in all :
                        LET t == Affect(state, c)
                        IN  SameFrac(ProbabilityOf(t, drawn, state),
                                     ProbabilityOf(t, meant, state))

\* Every run of the simulator is a run of the decision process that the files
\* describe.
ImplementsProcess == Source!Process

=============================================================================
