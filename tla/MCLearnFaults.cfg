\* Anything may be killed at any time, and children may run into the limit;
\* p5 cannot be loaded, so that only the limits end the retries.
CONSTANTS
    p1 = p1
    p2 = p2
    p3 = p3
    p4 = p4
    p5 = p5
    Problem = {p1, p2, p3, p4, p5}
    Bad = {p5}
    Large = {}
    MaxEpoch = 2
    Faults = {"exception", "kill", "timeout"}
    Given <- FiveProblems
    MaxCurriculum = 1
    MaxTolerence = 2
SPECIFICATION FairSpec
INVARIANT OneWriter
PROPERTY DKNeverOlder
PROPERTY Termination
