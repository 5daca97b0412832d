------------------------------ MODULE MCMDPSim ------------------------------
(* Two places, a schema go(x y) with preconditions and effects of every kind *)
(* and a schema without parameters; numbers, static and changing predicates. *)
EXTENDS MDPSim

MCObject == {"o1", "o2"}
MCVariable == {"x", "y", "z", "w"}
MCCompatible == [v \in MCVariable |-> <<"o1", "o2">>]
MCStaticPredicate == {"road", "sunny"}
MCStaticFunction == {"toll"}

at(v) == Atom("at", <<v>>)
road(v, w) == Atom("road", <<v, w>>)
sunny == Atom("sunny", <<>>)
done == Atom("done", <<>>)
fuel == Fluent("fuel", <<>>)
reward == Fluent("reward", <<>>)
toll(v, w) == Fluent("toll", <<v, w>>)

Preconditions == {
    And(<<at("x"), road("x", "y")>>),
    And(<<at("x"), MakeNot(MakeEq("x", "y")), MakeNot(road("y", "x"))>>),
    And(<<at("x"), Exists(<<"z">>, And(<<road("z", "y"), MakeNot(at("z"))>>))>>),
    Forall(<<"z">>, Or(<<MakeNot(at("z")), MakeEq("z", "x"), road("y", "z")>>)),
    Or(<<And(<<sunny, at("y")>>), Exists(<<"z", "w">>, And(<<road("z", "w"), at("w")>>))>>),
    And(<<at("x"), Cmp("<=", Bin("+", toll("x", "y"), Val(1)), fuel)>>)}

Move == <<Delete(at("x")), Add(at("y"))>>

Effects == {
    ConjEff(Move),
    ConjEff(<<Update("decrease", fuel, toll("x", "y")), Add(at("y")),
              When(MakeNot(at("y")), Delete(done))>>),
    Source!Prob(<< <<Frac(1, 2), ConjEff(Move)>>, <<Frac(1, 3), Add(done)>> >>),
    Source!Prob(<< <<Frac(0, 1), Add(done)>>,
                   <<Frac(2, 3), Source!Prob(<< <<Frac(1, 2), Delete(at("x"))>>,
                                               <<Frac(1, 4), Add(at("y"))>> >>)>>,
                   <<Frac(1, 4), When(road("x", "y"), Update("assign", fuel, Val(2)))>> >>),
    ForallEff(<<"z">>, When(MakeNot(MakeEq("z", "x")),
                  Source!Prob(<< <<Frac(1, 2), Add(at("z"))>>,
                                 <<Frac(1, 2), Delete(at("z"))>> >>)))}

Schemas == {
    {[name |-> "go", parameters |-> <<"x", "y">>, precondition |-> p, effect |-> e],
     [name |-> "stay", parameters |-> <<>>, precondition |-> q, effect |-> Add(at("o2"))]} :
        p \in Preconditions, e \in Effects, q \in {done, sunny}}

Goals == {And(<<at("o2"), MakeNot(at("o1"))>>),
          Exists(<<"z">>, And(<<at("z"), done>>)),
          Cmp("<", fuel, Val(1))}

Inits == {{at("o1"), road("o1", "o2")},
          {at("o1"), at("o2"), road("o1", "o2"), road("o2", "o2"), sunny},
          {at("o2"), sunny, done, road("o2", "o1")}}

InitialValues == (fuel :> 2) @@ (reward :> 0) @@ (goal_achieved :> 0)
                 @@ (toll("o1", "o1") :> 0) @@ (toll("o1", "o2") :> 1)
                 @@ (toll("o2", "o1") :> 1) @@ (toll("o2", "o2") :> 1)

InitEffects == {<<>>, <<Parsed(Source!Prob(<< <<Frac(1, 2), Add(done)>> >>))>>}

Family(goals, schemas) ==
    [schemas : schemas, goal : goals,
     goal_reward : {<<Update("increase", reward, Val(1))>>},
     init_atoms : Inits, init_values : {InitialValues}, init_effects : InitEffects]

MCProblems == Family(Goals, Schemas)

\* Goals like that of examples/bx-c5-b10-pc-nr.pddl: everything is somewhere.
MCForallProblems ==
    Family({Forall(<<"z">>, at("z")),
            Forall(<<"z">>, Exists(<<"w">>, And(<<road("w", "z"), at("w")>>)))},
           Schemas)

\* Bounds: what go burns and how often the goal is entered.
Bounded == state.values[fuel] > -1 /\ state.values[reward] < 2
=============================================================================
