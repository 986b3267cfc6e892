CONSTANTS
    p1 = p1
    p2 = p2
    j1 = j1
    j2 = j2
    j3 = j3
    Pushers = {p1, p2}
    Poppers = {w1, w2, w3}
    Holders = {w1, w2, w3}
    Values = {j1, j2, j3}
    JobsOf <- MCJobsOf
    Max = 3
    Initial = 0
    Limits = {0, 5}
SPECIFICATION Spec
INVARIANTS
    TypeOK
    NoPopLost
    NoSlotLost
    SlotsCounted
PROPERTY
    JobsSpec
