CONSTANTS
    s0 = s0
    s1 = s1
    s2 = s2
    s3 = s3
    s4 = s4
    d = d
    g = g
    a = a
    b = b
    State <- MCState
    Action <- MCAction
    Goal <- MCGoal
    Enabled <- MCEnabled
    Succ <- MCSucc
    MaxPlanLen = 4
    MaxEnvelope = 9
    Misjudged = {}
    None = None
    Absent = Absent
    InitState = s0
    MaxLen = 3
    NPaths = 2
    MaxCalls = 3
SPECIFICATION FairServiceSpec
INVARIANTS
    LabelQueriesHit
    TargetsOnPlan
    VisitedStatesLabelled
    StoredLabelsBound
PROPERTY
    Responds
