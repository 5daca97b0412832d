CONSTANTS
    Clients = {"c1", "c2"}
    KnownProblems = {"p"}
    States <- MCStates
    Actions <- MCActions
    InitState = "s0"
    Enabled <- MCEnabled
    Succ <- MCSucc
    Goal <- MCGoal
    round_limit = 2
    turn_limit = 2
    time_limit = 1
    MaxClock = 1
    MaxRestarts = 1
    ProblemsOf <- MCWithBadProblem
    MayBeKilled = {"c2"}
SPECIFICATION Spec
INVARIANT SerialIdsUnique
PROPERTIES ImplementsGame ClientsFinish
\* Clients may have come to their end, or wait in vain.
CHECK_DEADLOCK FALSE
