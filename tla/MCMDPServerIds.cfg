CONSTANTS
    Clients = {"c1", "c2"}
    KnownProblems = {"p"}
    States <- MCStates
    Actions <- MCActions
    InitState = "s0"
    Enabled <- MCEnabled
    Succ <- MCSucc
    Goal <- MCGoal
    round_limit = 2
    turn_limit = 2
    time_limit = 2
    MaxClock = 3
    MaxRestarts = 1
    ProblemsOf <- MCProblemsOf
    MayBeKilled = {}
SPECIFICATION Spec
INVARIANT IdsUnique
\* Clients may have come to their end, or wait in vain.
CHECK_DEADLOCK FALSE
