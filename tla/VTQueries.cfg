SPECIFICATION FairSpec
CONSTANTS
    Callers = {c1, c2, c3}
    FailMax = 2
    ResetTimeout = 2
    Rate = 2
    Period = 3
INVARIANT BurstBounded
PROPERTIES
    Recovers
    Protects
    Served
