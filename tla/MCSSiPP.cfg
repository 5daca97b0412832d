CONSTANTS
    State <- MCState
    Action = {"risky", "safe", "try", "back", "go", "loop"}
    NoAction = "none"
    NoState = "no state"
    NoAnswer = "no answer"
    Goal = {"g"}
    Applicable <- MCApplicable
    Outcome <- MCOutcome
    Cost <- MCCost
    One = 2
    dead_end_value = 32
    epsilon = 1
    FloatUnit = 2
    MaxTrace = 3
    s0 = "i"
    Roots = {"i", "c", "t"}
    Heuristics <- MCHeuristics
    Planners <- MCPlanners
    Optimal <- MCOptimal
    Slack = 4
    AllQ <- MCAllQ
SPECIFICATION Spec
INVARIANTS Admissible LabelsClosed SolvedOptimal CachedQ InsideSpace
PROPERTIES Terminates
