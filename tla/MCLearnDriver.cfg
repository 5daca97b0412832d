\* Children fail with exceptions, but nothing is killed; p3 is too large.
CONSTANTS
    p1 = p1
    p2 = p2
    p3 = p3
    p4 = p4
    p5 = p5
    Problem = {p1, p2, p3, p4, p5}
    Bad = {}
    Large = {p3}
    MaxEpoch = 2
    Faults = {"exception"}
    Given <- FiveProblems
    MaxCurriculum = 1
    MaxTolerence = 2
SPECIFICATION Spec
INVARIANT DKUsable
INVARIANT SolvedMeansLearnt
PROPERTY ImplementsCurriculum
