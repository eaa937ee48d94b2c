SPECIFICATION FairSpec
CONSTANTS
    Kinds = {"event", "not_object"}
    HalfWrites = FALSE
    Rotates = FALSE
    Truncates = FALSE
    ReadErrors = FALSE
    StaleSizes = FALSE
    Inodes = {n1, n2}
    NoFile = NoFile
    MaxLines = 2
    MaxRepeated = 2
    RedThreshold = 2
PROPERTY DeathSurfaces
