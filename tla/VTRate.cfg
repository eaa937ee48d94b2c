SPECIFICATION Spec
CONSTANTS
    Callers = {c1, c2}
    FailMax = 5
    ResetTimeout = 2
    Rate = 2
    Period = 3
INVARIANT RateRespected
