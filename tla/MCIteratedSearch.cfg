\* Every kind of engine and open list, alone and in portfolios.
CONSTANTS
    a = a
    b = b
    c = c
    d = d
    x = x
    g = g
    z = z
    u = u
    v = v
    w = w
    State = {a, b, c, d, x, g}
    Op = {z, u, v, w}
    NoState = NoState
    NoOp = NoOp
    initial = a
    Goal = {g}
    Transition <- Transitions
    Cost <- Costs
    INF = 100
    Infinity = 100
    Reliable = {1, 2}
    Preferred <- Helpful
    Portfolios <- MCPortfolios
    Heuristics <- MCHeuristics
SPECIFICATION Spec
INVARIANT ParentsAcyclic
INVARIANT ParentsSound
INVARIANT BoundKept
INVARIANT AStarOptimal
INVARIANT FailedMeansNoPlan
PROPERTY Terminates
PROPERTY ImplementsAnytime
CHECK_DEADLOCK FALSE
