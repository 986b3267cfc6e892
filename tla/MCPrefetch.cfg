CONSTANTS
    a = a
    b = b
    c = c
    d = d
    e = e
    Dirs = {a, b, c, d, e}
    Kids <- MCKids
    Roots <- MCRoots
    Listers = {l1, l2}
    None = none
SPECIFICATION Spec
INVARIANTS
    TypeOK
    OneTaskPerResult
    NoTaskLost
    NothingLeftBehind
PROPERTY WalkEnds
