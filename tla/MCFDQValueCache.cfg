\* Fast Downward may report 'no solution' of s1 and of s2.
CONSTANTS
    s1 = s1
    s2 = s2
    s3 = s3
    s0 = s0
    x = x
    d = d
    g = g
    a = a
    b = b
    State <- MCState
    Action <- MCAction
    Goal <- MCGoal
    Enabled <- MCEnabled
    Succ <- MCSucc
    MaxPlanLen = 4
    MaxEnvelope = 9
    Misjudged = {s1, s2}
    None = None
    Absent = Absent
SPECIFICATION Spec
INVARIANTS
    Ranking
    RecommendedActionLabelled
    EntriesTruthful
    NoInternalError
    FDRunsOnce
PROPERTY
    CostsOnlyImprove
