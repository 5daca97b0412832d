----------------------------- MODULE PPDDLEffects -----------------------------
(***************************************************************************)
(* Effects of mdpsim (effects.cc): how they are built, instantiated and    *)
(* what changes of a state they can be sampled as.  The random number in   *)
(* state_change is replaced by the sequence of all samples, each with its  *)
(* probability.                                                            *)
(***************************************************************************)
EXTENDS PPDDLFormulas

Empty == [op |-> "empty"]
Add(a) == [op |-> "add", atom |-> a]
Delete(a) == [op |-> "delete", atom |-> a]
Update(kind, f, e) == [op |-> "update", kind |-> kind, fluent |-> f, expr |-> e]
ConjEff(es) == [op |-> "conjunctive", args |-> es]
When(c, e) == [op |-> "conditional", condition |-> c, effect |-> e]
ForallEff(vs, e) == [op |-> "quantified", parameters |-> vs, effect |-> e]

\* weights[i] in weight_sum is the probability of effects[i]; what is missing
\* to weight_sum is the probability that nothing happens.
NoOutcomes == [op |-> "probabilistic", effects |-> <<>>, weights |-> <<>>, weight_sum |-> 0]

Frac(n, d) == [num |-> n, den |-> d]
Times(p, q) == Frac(p.num * q.num, p.den * q.den)
Plus(p, q) == Frac(p.num * q.den + q.num * p.den, p.den * q.den)
SameFrac(p, q) == p.num * q.den = q.num * p.den

RECURSIVE gcd(_, _)
gcd(m, n) == IF n = 0 THEN m ELSE gcd(n, m % n)
lcm(m, n) == (m \div gcd(m, n)) * n
Reduced(p) == Frac(p.num \div gcd(p.num, p.den), p.den \div gcd(p.num, p.den))

-----------------------------------------------------------------------------
(* Constructors.                                                           *)

MakeUpdate(kind, f, e) ==
    IF \/ kind \in {"scale-up", "scale-down"} /\ e = Val(1)
       \/ kind \in {"increase", "decrease"} /\ e = Val(0)
    THEN Empty ELSE Update(kind, f, e)

EffConjuncts(e) == IF e.op = "conjunctive" THEN e.args ELSE <<e>>

AndEff(e1, e2) ==
    CASE e1 = Empty -> e2
      [] e2 = Empty -> e1
      [] OTHER -> ConjEff(EffConjuncts(e1) \o EffConjuncts(e2))

MakeWhen(c, e) ==
    CASE Truthiness(c) = TAUTOLOGY -> e
      [] Truthiness(c) = CONTRADICTION \/ e = Empty -> Empty
      [] OTHER -> When(c, e)

MakeForall(vs, e) == IF vs = <<>> \/ e = Empty THEN e ELSE ForallEff(vs, e)

Probability(pe, i) == Reduced(Frac(pe.weights[i], pe.weight_sum))

\* Bug: weights are not brought to the new denominator.
BugAddWeight(pe, p, e) ==
    [pe EXCEPT !.effects = Append(@, e), !.weights = Append(@, p.num),
               !.weight_sum = IF @ = 0 THEN p.den ELSE lcm(@, p.den)]

\* All weights are brought to the least common denominator.
AddWeight(pe, p, e) ==
    LET sum == IF pe.weight_sum = 0 THEN p.den ELSE lcm(pe.weight_sum, p.den)
        old == [i \in DOMAIN pe.weights |-> pe.weights[i] * (sum \div pe.weight_sum)]
    IN  [pe EXCEPT !.effects = Append(@, e),
                   !.weights = Append(old, p.num * (sum \div p.den)),
                   !.weight_sum = sum]

\* An outcome that is itself probabilistic is merged, its probabilities
\* multiplied.
RECURSIVE AddOutcome(_, _, _)
AddOutcome(pe, p, e) ==
    CASE e.op = "probabilistic" ->
            FoldLeft(LAMBDA acc, i : AddOutcome(acc, Reduced(Times(p, Probability(e, i))),
                                                e.effects[i]),
                     pe, [i \in DOMAIN e.effects |-> i])
      [] e.op # "probabilistic" /\ p.num = 0 -> pe
      [] OTHER -> AddWeight(pe, p, e)

\* outcomes is a sequence of pairs of a probability and an effect; those before
\* the first one that does something are dropped.
MakeProb(outcomes) ==
    LET Does(i) == outcomes[i][1].num > 0 /\ outcomes[i][2] # Empty
        first == {i \in DOMAIN outcomes : Does(i) /\ \A j \in 1..(i - 1) : ~Does(j)}
    IN  IF first = {} THEN Empty
        ELSE FoldLeft(LAMBDA acc, o : AddOutcome(acc, o[1], o[2]), NoOutcomes,
                      SubSeq(outcomes, CHOOSE i \in first : TRUE, Len(outcomes)))

-----------------------------------------------------------------------------
(* Instantiation.                                                          *)

RECURSIVE InstEff(_, _, _)

RECURSIVE EffBodies(_, _, _)
EffBodies(parameters, e, st) ==
    IF parameters = <<>> THEN <<e>>
    ELSE LET v == Head(parameters)
         IN  FlattenSeq([i \in DOMAIN Compatible[v] |->
                 EffBodies(Tail(parameters), InstEff(e, v :> Compatible[v][i], st), st)])

InstAll(es, subst, st) ==
    FoldLeft(LAMBDA acc, e : acc \o EffConjuncts(InstEff(e, subst, st)), <<>>, es)

InstProb(pe, subst, st) ==
    FoldLeft(LAMBDA acc, i : AddOutcome(acc, Probability(pe, i),
                                        InstEff(pe.effects[i], subst, st)),
             NoOutcomes, [i \in DOMAIN pe.effects |-> i])

InstQuantified(e, subst, st) ==
    IF NoObjects(e.parameters) THEN Empty
    ELSE FoldLeft(AndEff, Empty,
                  EffBodies(e.parameters, InstEff(e.effect, subst, st), st))

InstEff(e, subst, st) ==
    CASE e.op = "empty" -> e
      [] e.op \in {"add", "delete"} -> [e EXCEPT !.atom.terms = SubstTerms(@, subst)]
      [] e.op = "update" ->
            [e EXCEPT !.fluent.terms = SubstTerms(@, subst),
                      !.expr = InstExpr(@, subst, st.values)]
      [] e.op = "conjunctive" -> ConjEff(InstAll(e.args, subst, st))
      [] e.op = "conditional" ->
            MakeWhen(Inst(e.condition, subst, st, FALSE), InstEff(e.effect, subst, st))
      [] e.op = "probabilistic" -> InstProb(e, subst, st)
      [] e.op = "quantified" -> InstQuantified(e, subst, st)

-----------------------------------------------------------------------------
(* Sampling.  A change is what the three lists of state_change hold, with  *)
(* the probability that they do.                                           *)

NoChange == [adds |-> {}, deletes |-> {}, updates |-> <<>>, p |-> Frac(1, 1)]

Both(c, d) == [adds |-> c.adds \cup d.adds, deletes |-> c.deletes \cup d.deletes,
               updates |-> c.updates \o d.updates, p |-> Times(c.p, d.p)]

\* The outcome for the random number w: the first one up to which the weights
\* add up to more than w, or none.
Sampled(pe, w) ==
    LET UpTo(i) == FoldLeft(LAMBDA a, b : a + b, 0, SubSeq(pe.weights, 1, i))
        hit == {i \in DOMAIN pe.weights : w < UpTo(i)}
    IN  IF hit = {} THEN 0 ELSE CHOOSE i \in hit : \A j \in hit : i <= j

RECURSIVE StateChanges(_, _)
StateChanges(e, st) ==
    CASE e.op = "empty" -> <<NoChange>>
      [] e.op = "add" -> <<[NoChange EXCEPT !.adds = {e.atom}]>>
      [] e.op = "delete" -> <<[NoChange EXCEPT !.deletes = {e.atom}]>>
      [] e.op = "update" -> <<[NoChange EXCEPT !.updates = <<e>>]>>
      [] e.op = "conjunctive" ->
            FoldLeft(LAMBDA acc, x :
                        FlattenSeq([i \in DOMAIN acc |->
                            LET cs == StateChanges(x, st)
                            IN  [j \in DOMAIN cs |-> Both(acc[i], cs[j])]]),
                     <<NoChange>>, e.args)
      [] e.op = "conditional" ->
            IF Holds(e.condition, st) THEN StateChanges(e.effect, st) ELSE <<NoChange>>
      [] e.op = "probabilistic" ->
            IF e.effects = <<>> THEN <<NoChange>>
            ELSE FlattenSeq([i \in 1..(Len(e.effects) + 1) |->
                LET k == i - 1      \* 0: none of the outcomes
                    n == Cardinality({w \in 0..(e.weight_sum - 1) : Sampled(e, w) = k})
                    cs == IF k = 0 THEN <<NoChange>> ELSE StateChanges(e.effects[k], st)
                IN  IF n = 0 THEN <<>>
                    ELSE [j \in DOMAIN cs |->
                            [cs[j] EXCEPT !.p = Times(Frac(n, e.weight_sum), @)]]])

UpdateValue(u, values) ==
    LET n == Value(u.expr, values)
    IN  CASE u.kind = "assign" -> n
          [] u.kind = "increase" -> values[u.fluent] + n
          [] u.kind = "decrease" -> values[u.fluent] - n
          [] u.kind = "scale-up" -> values[u.fluent] * n

\* Update::affect; an assignment may define a fluent.
AffectValues(values, updates) ==
    FoldLeft(LAMBDA vs, u : (u.fluent :> UpdateValue(u, vs)) @@ vs, values, updates)

RECURSIVE EffListAtoms(_)
EffListAtoms(e) ==
    CASE e.op \in {"add", "delete"} -> {e.atom}
      [] e.op = "conjunctive" -> UNION {EffListAtoms(e.args[i]) : i \in DOMAIN e.args}
      [] e.op = "conditional" -> ListAtoms(e.condition) \cup EffListAtoms(e.effect)
      [] e.op = "probabilistic" ->
            UNION {EffListAtoms(e.effects[i]) : i \in DOMAIN e.effects}
      [] e.op = "quantified" -> EffListAtoms(e.effect)
      [] OTHER -> {}
=============================================================================
