SPECIFICATION FairSpec
CONSTANTS
    Lookups = {l1, l2, l3}
    Domains = {"rare"}
    DomainOf <- MCDomainOf
    Covered <- MCCovered
    Ttl = 1
    MaxFaults = 1
    None = None
    FailMax = 1
    ResetTimeout = 1
INVARIANTS
    OneDownload
    MapAgreesWithCache
PROPERTIES
    AnswersFresh
    LookupEnds
