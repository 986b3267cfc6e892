CONSTANTS
    MinW = 1
    MaxW = 3
    Cpus = 1
    AlphaNum = 2
    AlphaDen = 3
    MarginNum = 6
    MarginDen = 100
    DwellN = 1
    Reprobe = 2
    Knee = 2
    Unit = 2
    Rotational = TRUE
    Readings = {"unknown", "over"}
    StallTimeout = 2
    LongTimeout = 2
    Terminals = {FALSE}
    Passes = TRUE
    Kinds = {"chunk", "finish", "remove", "hang"}
    Watched = {"chunk", "finish", "remove"}
    PerWatch = 1
SPECIFICATION Spec
PROPERTY NoFalseStall
