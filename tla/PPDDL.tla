-------------------------------- MODULE PPDDL --------------------------------
(***************************************************************************)
(* What a PPDDL problem means, without any instantiation: the truth of a   *)
(* formula under an assignment of objects to its variables, the            *)
(* distribution over successor states of an effect, and the decision       *)
(* process in which any schema may be applied, under any assignment of its *)
(* parameters, wherever its precondition is true.                          *)
(***************************************************************************)
EXTENDS PPDDLEffects

VARIABLES
    problem,    \* the problem: a record of schemas, init, goal and so on
    state       \* a record of atoms, values and whether the goal is reached

\* The probabilistic effect of a domain file: pairs of a probability and an
\* effect, in which the other effects are built by their constructors.
Prob(outcomes) == [op |-> "prob", outcomes |-> outcomes]

Bindings(vs) ==
    {b \in [ToSet(vs) -> Object] : \A v \in ToSet(vs) : b[v] \in ToSet(Compatible[v])}

RECURSIVE ValueIn(_, _, _)
ValueIn(e, env, st) ==
    CASE e.op = "value" -> e.value
      [] e.op = "fluent" -> st.values[[e EXCEPT !.terms = SubstTerms(@, env)]]
      [] OTHER -> Compute(e.op, ValueIn(e.operand1, env, st), ValueIn(e.operand2, env, st))

RECURSIVE Sat(_, _, _)
Sat(f, env, st) ==
    CASE f.op = "constant" -> f.value
      [] f.op = "atom" -> [f EXCEPT !.terms = SubstTerms(@, env)] \in st.atoms
      [] f.op = "equality" -> LET ts == SubstTerms(<<f.term1, f.term2>>, env) IN ts[1] = ts[2]
      [] f.op = "negation" -> ~Sat(f.negand, env, st)
      [] f.op = "conjunction" -> \A i \in DOMAIN f.args : Sat(f.args[i], env, st)
      [] f.op = "disjunction" -> \E i \in DOMAIN f.args : Sat(f.args[i], env, st)
      [] f.op = "exists" -> \E b \in Bindings(f.parameters) : Sat(f.body, b @@ env, st)
      [] f.op = "forall" -> \A b \in Bindings(f.parameters) : Sat(f.body, b @@ env, st)
      [] f.op = "comparison" ->
            Compare(f.rel, ValueIn(f.expr1, env, st), ValueIn(f.expr2, env, st))

\* Every combination of one member of each sequence of changes.
Product(seqs) ==
    FoldLeft(LAMBDA acc, cs :
                FlattenSeq([i \in DOMAIN acc |-> [j \in DOMAIN cs |-> Both(acc[i], cs[j])]]),
             <<NoChange>>, seqs)

RECURSIVE Meaning(_, _, _)
Meaning(e, env, st) ==
    LET at == [e.atom EXCEPT !.terms = SubstTerms(@, env)]
        Scaled(p, cs) == [i \in DOMAIN cs |-> [cs[i] EXCEPT !.p = Times(p, @)]]
    IN  CASE e.op = "empty" -> <<NoChange>>
          [] e.op = "add" -> <<[NoChange EXCEPT !.adds = {at}]>>
          [] e.op = "delete" -> <<[NoChange EXCEPT !.deletes = {at}]>>
          [] e.op = "update" ->
                <<[NoChange EXCEPT !.updates =
                    <<Update(e.kind, [e.fluent EXCEPT !.terms = SubstTerms(@, env)],
                             Val(ValueIn(e.expr, env, st)))>>]>>
          [] e.op = "conjunctive" ->
                Product([i \in DOMAIN e.args |-> Meaning(e.args[i], env, st)])
          [] e.op = "conditional" ->
                IF Sat(e.condition, env, st) THEN Meaning(e.effect, env, st) ELSE <<NoChange>>
          [] e.op = "quantified" ->
                LET bs == SetToSeq(Bindings(e.parameters))
                IN  Product([i \in DOMAIN bs |-> Meaning(e.effect, bs[i] @@ env, st)])
          [] e.op = "prob" ->
                LET total == FoldLeft(LAMBDA p, o : Plus(p, o[1]), Frac(0, 1), e.outcomes)
                    rest == Frac(total.den - total.num, total.den)
                IN  FlattenSeq([i \in DOMAIN e.outcomes |->
                        Scaled(e.outcomes[i][1], Meaning(e.outcomes[i][2], env, st))])
                    \o Scaled(rest, <<NoChange>>)

\* Deletions come before additions, updates last.
Changed(st, c) ==
    [atoms |-> (st.atoms \ c.deletes) \cup c.adds,
     values |-> AffectValues(st.values, c.updates)]

goal_achieved == Fluent("goal-achieved", <<>>)

\* The goal is recorded, and rewarded, when it becomes true.
Entered(st, was) ==
    LET goal == Sat(problem.goal, NoSubst, st)
        scored == (goal_achieved :> 1) @@ st.values
    IN  [atoms |-> st.atoms, goal |-> goal,
         values |-> IF goal /\ ~was THEN AffectValues(scored, problem.goal_reward)
                    ELSE st.values]

\* The distribution over the successors of st: what each one's changes add up to.
PositiveSuccessors(st, schema, env) ==
    LET cs == Meaning(schema.effect, env, st)
    IN  {Entered(Changed(st, cs[i]), st.goal) : i \in {j \in DOMAIN cs : cs[j].p.num > 0}}

Apply(schema, env) ==
    /\ Sat(schema.precondition, env, state)
    /\ state' \in PositiveSuccessors(state, schema, env)
    /\ UNCHANGED problem

ProcessInit == state.goal = Sat(problem.goal, NoSubst, state)

ProcessNext ==
    \E schema \in problem.schemas : \E env \in Bindings(schema.parameters) :
        Apply(schema, env)

Process == ProcessInit /\ [][ProcessNext]_<<problem, state>>
=============================================================================
