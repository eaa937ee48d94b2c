SPECIFICATION Spec
CONSTANTS
    MaxIncludeDepth = 5
    MaxPasses = 10
    Private <- MCPrivate
    NoIp = "none"
    Null = Null
    Routable <- MCRoutable
    Literals <- MCLiterals
    Unfit <- MCUnfit
    InternalSuffix = {"inner"}
    Canonical <- MCCanonical
    MaxIps = 2
    MaxDomains = 2
    Jobs <- MCJobs
    MaxAttempts = 2
INVARIANTS
    HomeNetComplete
    VictimIgnoresDirection
    InsideBlameGrounded
    NothingInternalSent
    NamesNotMissed
    EvidenceComplete
    RetryDiscipline
CHECK_DEADLOCK FALSE
