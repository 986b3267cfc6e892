CONSTANTS
    d1 = d1
    d2 = d2
    f1 = f1
    f2 = f2
    l1 = l1
    s1 = s1
    target = target
    Dirs = {d1, d2}
    Files = {f1, f2}
    Links = {l1}
    Others = {s1}
    Top = target
    ParentOf <- TreeParent
    Anc <- TreeAnc
    Workers = {w1, w2}
    MetaWorkers = {m1}
    Main = main
    None = none
    FatalErrors = FALSE
SPECIFICATION Spec
INVARIANTS
    TypeOK
    PendingCounts
    PushedOnce
    AllApplied
    QueueDrained
    LoneEntryKept
PROPERTIES
    Terminates
    LifeSpec
