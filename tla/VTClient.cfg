SPECIFICATION Spec
CONSTANTS
    Indicators = {i1, i2}
    FailMax = 2
    ResetTimeout = 1
    Ttl = 1
    StaleFactor = 2
    MaxTime = 3
    NoEntry = NoEntry
INVARIANTS
    CachedAgeBounded
PROPERTY BackupSurvives
