\* A child runs into the time limit while it saves a snapshot.
CONSTANTS
    p1 = p1
    p2 = p2
    p3 = p3
    p4 = p4
    p5 = p5
    Problem = {p1, p2, p3, p4, p5}
    Bad = {}
    Large = {}
    MaxEpoch = 2
    Faults = {"timeout"}
    Given <- FourProblems
    MaxCurriculum = 1
    MaxTolerence = 2
SPECIFICATION Spec
INVARIANT LastValidCheckpoint
