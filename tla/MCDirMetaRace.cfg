CONSTANTS
    d1 = d1
    d2 = d2
    f1 = f1
    f2 = f2
    l1 = l1
    s1 = s1
    target = target
    Dirs = {d1}
    Files = {f1, f2}
    Links = {}
    Others = {}
    Top = target
    ParentOf <- FlatParent
    Anc <- FlatAnc
    Workers = {w1}
    MetaWorkers = {m1}
    Main = main
    None = none
    FatalErrors = FALSE
SPECIFICATION Spec
INVARIANT NothingAfterMeta
