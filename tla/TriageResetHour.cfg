SPECIFICATION Spec
CONSTANTS
    a1 = a1
    a2 = a2
    a3 = a3
    g1 = g1
    Alerts = {a1, a2}
    Groups = {g1}
    NoGroup = NoGroup
    GroupOf <- OneGroup
    Verdicts = {v1, v2}
    NoVerdict = NoVerdict
    Produced = Produced
    NoAlert = NoAlert
    DailyCap = 1
    DayLength = 3
    ResetTick = 1
    Window = 1
    MaxTime = 4
    DbFaults = FALSE
    Crashes = FALSE
INVARIANT CapRespected
CHECK_DEADLOCK FALSE
