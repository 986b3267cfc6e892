CONSTANTS
    Roots <- PairRoots
    RootFiles <- PairRootFiles
    Inode <- PairInode
    DstOf <- PairDstOf
    Dsts <- PairDsts
    Under <- PairUnder
    Workers = {w1, w2}
    Move = TRUE
    MirrorRuns = {}
    MaxRuns = 1
    Targets = {"local"}
    FatalErrors = FALSE
    CanRename = FALSE
    Faults = {"copy"}
    Before <- PairBefore
    Aliased = {}
SPECIFICATION Spec
INVARIANT RemovedIsAtTarget
