---------------------------- MODULE PPDDLFormulas ----------------------------
(***************************************************************************)
(* State formulas and numeric expressions of mdpsim (formulas.cc,          *)
(* expressions.cc).  Formulas are trees of records.  An atom is a record   *)
(* too, so that the set of atoms of a state can be asked whether a ground  *)
(* atom is in it; pointers to interned atoms are equal exactly if the      *)
(* records are.                                                            *)
(*                                                                         *)
(* A formula carries a Truthiness: what instantiation could find out about *)
(* it from static predicates, or from a given state when it is called with *)
(* state = TRUE.  Division, printing and reference counts are left out;    *)
(* numbers are integers.                                                   *)
(***************************************************************************)
EXTENDS Integers, Sequences, FiniteSets, SequencesExt, TLC

CONSTANTS
    Object,
    Variable,
    Compatible,         \* Variable -> Seq(Object): compatible_objects(type)
    StaticPredicate,    \* predicates that no effect mentions
    StaticFunction

ASSUME ObjectAssumption ==
    /\ Object \cap Variable = {}
    /\ Compatible \in [Variable -> Seq(Object)]

Con(v) == [op |-> "constant", value |-> v]
Atom(p, ts) == [op |-> "atom", predicate |-> p, terms |-> ts]
Eq(t1, t2) == [op |-> "equality", term1 |-> t1, term2 |-> t2]
Not(f) == [op |-> "negation", negand |-> f]
And(fs) == [op |-> "conjunction", args |-> fs]
Or(fs) == [op |-> "disjunction", args |-> fs]
Exists(vs, f) == [op |-> "exists", parameters |-> vs, body |-> f]
Forall(vs, f) == [op |-> "forall", parameters |-> vs, body |-> f]
Cmp(rel, e1, e2) == [op |-> "comparison", rel |-> rel, expr1 |-> e1, expr2 |-> e2]
Wrap(f, t) == [op |-> "wrapper", wrapped |-> f, truthiness |-> t]

Val(n) == [op |-> "value", value |-> n]
Fluent(f, ts) == [op |-> "fluent", function |-> f, terms |-> ts]
Bin(o, e1, e2) == [op |-> o, operand1 |-> e1, operand2 |-> e2]

TAUTOLOGY == "tautology"
CONTRADICTION == "contradiction"
INDETERMINATE == "indeterminate"

NoSubst == <<>>
SubstTerms(ts, subst) ==
    [i \in DOMAIN ts |-> IF ts[i] \in DOMAIN subst THEN subst[ts[i]] ELSE ts[i]]
Ground(ts) == \A i \in DOMAIN ts : ts[i] \in Object

-----------------------------------------------------------------------------
(* Expressions.  A state is a record of atoms and of values of fluents.    *)

Compute(o, m, n) == CASE o = "+" -> m + n [] o = "-" -> m - n [] o = "*" -> m * n

RECURSIVE Value(_, _)
Value(e, values) ==
    CASE e.op = "value" -> e.value
      [] e.op = "fluent" -> values[e]
      [] OTHER -> Compute(e.op, Value(e.operand1, values),
                          Value(e.operand2, values))

\* Addition::make and its like: two numbers are computed at once.
MakeBin(o, e1, e2) ==
    IF e1.op = "value" /\ e2.op = "value"
    THEN Val(Compute(o, e1.value, e2.value))
    ELSE Bin(o, e1, e2)

InstFluent(f, subst, values) ==
    LET inst == [f EXCEPT !.terms = SubstTerms(f.terms, subst)]
    IN  IF f.function \in StaticFunction /\ Ground(inst.terms)
           /\ (f.terms = <<>> \/ inst # f)
        THEN Val(values[inst])
        ELSE inst

RECURSIVE InstExpr(_, _, _)
InstExpr(e, subst, values) ==
    CASE e.op = "value" -> e
      [] e.op = "fluent" -> InstFluent(e, subst, values)
      [] OTHER -> LET i1 == InstExpr(e.operand1, subst, values)
                      i2 == InstExpr(e.operand2, subst, values)
                  IN  IF i1 = e.operand1 /\ i2 = e.operand2 THEN e
                      ELSE MakeBin(e.op, i1, i2)

Compare(rel, m, n) ==
    CASE rel = "<" -> m < n [] rel = "<=" -> m <= n [] rel = "=" -> m = n
      [] rel = ">=" -> m >= n [] rel = ">" -> m > n

-----------------------------------------------------------------------------
(* Truthiness.                                                             *)

TruthNot(t) ==
    CASE t = TAUTOLOGY -> CONTRADICTION
      [] t = CONTRADICTION -> TAUTOLOGY
      [] OTHER -> t

TruthAnd(ts) ==
    CASE CONTRADICTION \in ts -> CONTRADICTION
      [] ts \subseteq {TAUTOLOGY} -> TAUTOLOGY
      [] OTHER -> INDETERMINATE

TruthOr(ts) ==
    CASE TAUTOLOGY \in ts -> TAUTOLOGY
      [] ts \subseteq {CONTRADICTION} -> CONTRADICTION
      [] OTHER -> INDETERMINATE

\* Constants do not override StateFormula::truthiness.
RECURSIVE Truthiness(_)
Truthiness(f) ==
    CASE f.op = "wrapper" -> f.truthiness
      [] f.op = "negation" -> TruthNot(Truthiness(f.negand))
      [] f.op = "conjunction" -> TruthAnd({Truthiness(f.args[i]) : i \in DOMAIN f.args})
      [] f.op = "disjunction" -> TruthOr({Truthiness(f.args[i]) : i \in DOMAIN f.args})
      [] OTHER -> INDETERMINATE

-----------------------------------------------------------------------------
(* Instantiation.                                                          *)

MakeWrap(f, t) == IF t = INDETERMINATE THEN f ELSE Wrap(f, t)

MakeNot(f) == MakeWrap(Not(f), TruthNot(Truthiness(f)))

MakeEq(t1, t2) ==
    CASE t1 = t2 -> Con(TRUE)
      [] t1 # t2 /\ {t1, t2} \subseteq Object -> Con(FALSE)
      [] OTHER -> Eq(t1, t2)

MakeCmp(rel, e1, e2) ==
    IF e1.op = "value" /\ e2.op = "value"
    THEN Con(Compare(rel, e1.value, e2.value))
    ELSE Cmp(rel, e1, e2)

Conjuncts(f) == IF f.op = "conjunction" THEN f.args ELSE <<f>>
Conj(f, g) == IF f = g THEN f ELSE And(Conjuncts(f) \o Conjuncts(g))

Disjuncts(f) == IF f.op = "disjunction" THEN f.args ELSE <<f>>
Disj(f, g) == IF f = g THEN f ELSE Or(Disjuncts(f) \o Disjuncts(g))

\* Bug: an atom is looked up before all its variables have been replaced.
BugInstAtom(a, subst, st, state) ==
    LET inst == [a EXCEPT !.terms = SubstTerms(a.terms, subst)]
    IN  IF (state \/ a.predicate \in StaticPredicate) /\ inst # a
        THEN Wrap(inst, IF inst \in st.atoms THEN TAUTOLOGY ELSE CONTRADICTION)
        ELSE inst

\* An atom that becomes ground, or has no terms, gets the truth it has in the
\* state, if it is static or the state is meant; one that was ground already
\* does not.
InstAtom(a, subst, st, state) ==
    LET inst == [a EXCEPT !.terms = SubstTerms(a.terms, subst)]
    IN  IF /\ state \/ a.predicate \in StaticPredicate
           /\ Ground(inst.terms)
           /\ a.terms = <<>> \/ inst # a
        THEN Wrap(inst, IF inst \in st.atoms THEN TAUTOLOGY ELSE CONTRADICTION)
        ELSE inst

RECURSIVE Inst(_, _, _, _)

\* The instances of a quantifier's body, one parameter at a time, each as the
\* instance of the instance made before.
RECURSIVE Bodies(_, _, _, _)
Bodies(parameters, f, st, state) ==
    IF parameters = <<>> THEN <<f>>
    ELSE LET v == Head(parameters)
         IN  FlattenSeq([i \in DOMAIN Compatible[v] |->
                 Bodies(Tail(parameters), Inst(f, v :> Compatible[v][i], st, state),
                        st, state)])

NoObjects(parameters) == \E i \in DOMAIN parameters : Compatible[parameters[i]] = <<>>

InstExists(f, subst, st, state) ==
    IF NoObjects(f.parameters) THEN Con(FALSE)
    ELSE FoldLeft(LAMBDA d, g : IF Truthiness(d) = TAUTOLOGY THEN d ELSE Disj(d, g),
                  Con(FALSE),
                  Bodies(f.parameters, Inst(f.body, subst, st, state), st, state))

InstForall(f, subst, st, state) ==
    IF NoObjects(f.parameters) THEN Con(TRUE)
    ELSE FoldLeft(LAMBDA c, g : IF Truthiness(c) = CONTRADICTION THEN c ELSE Conj(c, g),
                  Con(TRUE),
                  Bodies(f.parameters, Inst(f.body, subst, st, state), st, state))

InstEquality(f, subst) ==
    LET ts == SubstTerms(<<f.term1, f.term2>>, subst)
    IN  IF ts = <<f.term1, f.term2>> THEN f ELSE MakeEq(ts[1], ts[2])

InstNegation(f, subst, st, state) ==
    LET g == Inst(f.negand, subst, st, state)
    IN  IF g = f.negand THEN f ELSE MakeNot(g)

InstComparison(f, subst, st) ==
    LET i1 == InstExpr(f.expr1, subst, st.values)
        i2 == InstExpr(f.expr2, subst, st.values)
    IN  IF i1 = f.expr1 /\ i2 = f.expr2 THEN f ELSE MakeCmp(f.rel, i1, i2)

Inst(f, subst, st, state) ==
    CASE f.op = "constant" -> f
      [] f.op = "atom" -> InstAtom(f, subst, st, state)
      [] f.op = "equality" -> InstEquality(f, subst)
      [] f.op = "negation" -> InstNegation(f, subst, st, state)
      [] f.op \in {"conjunction", "disjunction"} ->
            [f EXCEPT !.args = [i \in DOMAIN @ |-> Inst(@[i], subst, st, state)]]
      [] f.op = "exists" -> InstExists(f, subst, st, state)
      [] f.op = "forall" -> InstForall(f, subst, st, state)
      [] f.op = "comparison" -> InstComparison(f, subst, st)
      [] f.op = "wrapper" -> Inst(f.wrapped, subst, st, state)

-----------------------------------------------------------------------------
(* Evaluation.                                                             *)

\* A quantifier holds if instantiating it in the state makes a tautology.
\* Equalities have become constants by the time they are evaluated.
RECURSIVE Holds(_, _)
Holds(f, st) ==
    CASE f.op = "constant" -> f.value
      [] f.op = "atom" -> f \in st.atoms
      [] f.op = "negation" -> ~Holds(f.negand, st)
      [] f.op = "conjunction" -> \A i \in DOMAIN f.args : Holds(f.args[i], st)
      [] f.op = "disjunction" -> \E i \in DOMAIN f.args : Holds(f.args[i], st)
      [] f.op \in {"exists", "forall"} ->
            Truthiness(Inst(f, NoSubst, st, TRUE)) = TAUTOLOGY
      [] f.op = "comparison" ->
            Compare(f.rel, Value(f.expr1, st.values), Value(f.expr2, st.values))
      [] f.op = "wrapper" -> Holds(f.wrapped, st)

\* Could the formula hold, if of the atoms at most these ever do?
RECURSIVE HoldsNoValues(_, _)
HoldsNoValues(f, atoms) ==
    CASE f.op = "constant" -> f.value
      [] f.op = "atom" -> f \in atoms
      [] f.op \in {"negation", "comparison"} -> TRUE
      [] f.op = "conjunction" -> \A i \in DOMAIN f.args : HoldsNoValues(f.args[i], atoms)
      [] f.op = "disjunction" -> \E i \in DOMAIN f.args : HoldsNoValues(f.args[i], atoms)
      [] f.op = "wrapper" -> HoldsNoValues(f.wrapped, atoms)

RECURSIVE ListAtoms(_)
ListAtoms(f) ==
    CASE f.op = "atom" -> {f}
      [] f.op = "negation" -> ListAtoms(f.negand)
      [] f.op \in {"conjunction", "disjunction"} ->
            UNION {ListAtoms(f.args[i]) : i \in DOMAIN f.args}
      [] f.op \in {"exists", "forall"} -> ListAtoms(f.body)
      [] f.op = "wrapper" -> ListAtoms(f.wrapped)
      [] OTHER -> {}
=============================================================================
