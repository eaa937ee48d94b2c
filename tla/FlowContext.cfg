SPECIFICATION FairSpec
CONSTANTS
    BatchSize = 2
    FlushInterval = 1
    MaxEvents = 3
    MaxFaults = 1
    Delay = 2
    Retention = 2
    MaxReplayed = 1
INVARIANTS
    NothingLostOrRepeated
    StopLosesOneBatch
PROPERTIES
    
    EventuallyStored
CHECK_DEADLOCK FALSE
