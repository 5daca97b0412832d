CONSTANTS
    Object <- MCObject
    Variable <- MCVariable
    Compatible <- MCCompatible
    StaticPredicate <- MCStaticPredicate
    StaticFunction <- MCStaticFunction
    Problems <- MCProblems
SPECIFICATION Spec
CONSTRAINT Bounded
INVARIANTS EnabledRight DistributionRight
PROPERTY ImplementsProcess
\* A state may have no action that is enabled.
CHECK_DEADLOCK FALSE
