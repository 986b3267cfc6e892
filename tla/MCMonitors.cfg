CONSTANTS
    MinW = 1
    MaxW = 5
    Cpus = 1
    AlphaNum = 2
    AlphaDen = 3
    MarginNum = 6
    MarginDen = 100
    DwellN = 1
    Reprobe = 2
    Knee = 3
    Unit = 2
    Rotational = TRUE
    Readings = {"unknown", "over"}
    StallTimeout = 2
    LongTimeout = 2
    Terminals = {TRUE, FALSE}
    Passes = TRUE
    Kinds = {"discover", "chunk", "finish", "skip", "verify", "delete", "scan", "remove", "hang"}
    Watched = {"discover", "chunk", "finish", "delete"}
    PerWatch = 1
SPECIFICATION Spec
INVARIANT TypeOK
PROPERTY NoFalseStall
PROPERTY HangSeen
PROPERTY Settles
