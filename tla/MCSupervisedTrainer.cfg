CONSTANTS
    p1 = p1
    p2 = p2
    Problem = {p1, p2}
    MaxRate = 3
    Solved = 2
    MaxEpoch = 5
    EarlyStops = {0, 2}
    SaveEverys = {0, 1, 2}
    None = None
SPECIFICATION Spec
INVARIANT EarlyStopJustified
INVARIANT RecordsSaved
INVARIANT BestRateIsDKs
PROPERTY ImplementsChild
