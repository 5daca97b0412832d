------------------------------ MODULE Bellman ------------------------------
(***************************************************************************)
(* Stochastic shortest path problems (SSPs) as the SSiPP planners see      *)
(* them, the hash of values they share, and the Bellman operators.         *)
(*                                                                         *)
(* Doubles are fixed-point numbers: a value counts units, a probability is *)
(* a weight out of One, and a quotient is rounded down.  The Rational of   *)
(* the code is a float, coarser than a double: it holds only multiples of  *)
(* FloatUnit.  An SSPIface is the set of its goals; the adaptors of the    *)
(* planners change nothing else, since each of them takes the cost of a    *)
(* goal it adds from the same hash.  A state that is not in the hash has    *)
(* its heuristic there, which get() and value() store when they meet it.   *)
(***************************************************************************)
EXTENDS Integers, Sequences, FiniteSets, FiniteSetsExt, SequencesExt

CONSTANTS
    State, Action, NoAction,
    Goal,             \* the states that satisfy the goal of the problem
    Applicable,       \* the actions of a state, in the order of flatten()
    Outcome,          \* the weight of each successor of a state and an action
    Cost, One,
    dead_end_value, epsilon, FloatUnit

Succ(s, a) == DOMAIN Outcome[<<s, a>>]

ASSUME TaskAssumption ==
    /\ IsFiniteSet(State) /\ Goal \subseteq State /\ NoAction \notin Action
    /\ {One, dead_end_value, FloatUnit} \subseteq Nat \ {0} /\ epsilon \in Nat
    /\ \A s \in State : Applicable[s] \in Seq(Action)
    /\ \A s \in Goal : Applicable[s] = <<>>
    /\ \A s \in State : \A a \in Range(Applicable[s]) :
         /\ Succ(s, a) \subseteq State /\ Cost[<<s, a>>] \in Nat \ {0}
         /\ \A t \in Succ(s, a) : Outcome[<<s, a>>][t] \in Nat
         /\ SumFunction(Outcome[<<s, a>>]) = One
    /\ dead_end_value % FloatUnit = 0

\* hash_t: the value of each state, its heuristic until it is updated.
VARIABLE v

SuccessorsOf(s) == UNION {Succ(s, a) : a \in Range(Applicable[s])}

\* Mutant: floats are rounded away from zero.
BugRationalOf(x) == (x \div FloatUnit + 1) * FloatUnit
\* Rational(double): the nearest float.
RationalOf(x) == ((x + FloatUnit \div 2) \div FloatUnit) * FloatUnit

\* terminalCost(): the original goals cost nothing, an added one its value.
TerminalCost(hash, s) == IF s \in Goal THEN 0 ELSE RationalOf(hash[s])

\* Bellman::qValue().
QValue(hash, goals, s, a) ==
    LET After(t) == IF t \in goals THEN TerminalCost(hash, t) ELSE hash[t]
        mean == SumFunction([t \in Succ(s, a) |-> Outcome[<<s, a>>][t] * After(t)])
    IN  Min({Cost[<<s, a>>] + mean \div One, dead_end_value})

\* The first of the actions whose Q-value Q[a] is least, if it is below the
\* value of a dead end.
FirstBest(s, Q) ==
    LET A == Applicable[s]
        alive == {i \in DOMAIN A : Q[A[i]] < dead_end_value}
    IN  IF alive = {} THEN [action |-> NoAction, value |-> dead_end_value]
        ELSE LET best == CHOOSE i \in alive : \A j \in alive :
                        \/ Q[A[i]] < Q[A[j]]
                        \/ (Q[A[i]] = Q[A[j]] /\ i <= j)
             IN  [action |-> A[best], value |-> Q[A[best]]]

\* Bellman::greedyActionAndMinQValue().
Greedy(hash, goals, s) ==
    IF s \in goals THEN [action |-> NoAction, value |-> TerminalCost(hash, s)]
    ELSE FirstBest(s, [a \in Range(Applicable[s]) |-> QValue(hash, goals, s, a)])

\* Bellman::update() and hash_t::update().
Update(hash, goals, s) ==
    [hash EXCEPT ![s] = Min({Greedy(hash, goals, s).value, dead_end_value})]

\* Bellman::constGreedyAction(): an action with a successor that is not
\* accepted counts as one to a dead end.
ConstGreedyAction(hash, goals, s, accepted) ==
    IF s \in goals \/ Applicable[s] = <<>> THEN NoAction
    ELSE FirstBest(s, [a \in Range(Applicable[s]) |->
            IF Succ(s, a) \subseteq accepted THEN QValue(hash, goals, s, a)
            ELSE dead_end_value]).action
=============================================================================
