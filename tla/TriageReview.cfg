SPECIFICATION ReviewSpec
CONSTANTS
    a1 = a1
    a2 = a2
    a3 = a3
    g1 = g1
    Alerts = {a1, a2, a3}
    Groups = {g1}
    NoGroup = NoGroup
    GroupOf <- OneGroup
    Verdicts = {v1, v2, v3}
    NoVerdict = NoVerdict
    Produced = Produced
    NoAlert = NoAlert
    DailyCap = 2
    DayLength = 2
    ResetTick = 0
    Window = 1
    MaxTime = 2
    DbFaults = TRUE
    Crashes = TRUE
    Sessions = {s1}
    NoSession = NoSession
    Categories = {"tp", "fp"}
    NoCategory = NoCategory
    QueueWindow = 1
    Bucket = 2
    Phase = 1
    Limit = 3
INVARIANTS
    TypeOK
    FifoOrder
    UpperBoundRejectsNothing
    AnalyzedHasVerdict
    OneVerdictPerAlert
    InheritanceOneHop
    CapRespected
    LockHeldByRunner
    BadgeTruthful
    SeenIsRecorded
    MarkedIsDisposed
PROPERTY ImplementsWorkQueue
SYMMETRY Symmetry
CHECK_DEADLOCK FALSE
