SPECIFICATION FairSpec
CONSTANTS
    a1 = a1
    a2 = a2
    a3 = a3
    g1 = g1
    Alerts = {a1, a2, a3}
    Groups = {g1}
    NoGroup = NoGroup
    GroupOf <- OneOutsider
    Verdicts = {v1, v2, v3}
    NoVerdict = NoVerdict
    Produced = Produced
    NoAlert = NoAlert
    DailyCap = 2
    DayLength = 2
    ResetTick = 0
    Window = 1
    MaxTime = 3
    DbFaults = FALSE
    Crashes = FALSE
PROPERTY QueuedIsSettled

CHECK_DEADLOCK FALSE
