SPECIFICATION FairSpec
CONSTANTS
    Kinds = {"event", "not_object"}
    HalfWrites = TRUE
    Rotates = TRUE
    Truncates = TRUE
    ReadErrors = TRUE
    StaleSizes = TRUE
    Inodes = {n1, n2}
    NoFile = NoFile
    MaxLines = 3
    MaxRepeated = 1
    RedThreshold = 2
INVARIANTS
    InOrderOnce
    RedMeansFailing
PROPERTIES
    OutageTurnsRed
    EverythingEmitted
