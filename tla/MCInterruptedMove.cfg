CONSTANTS
    Roots <- MixRoots
    RootFiles <- MixRootFiles
    Inode <- MixInode
    DstOf <- MixDstOf
    Dsts <- MixDsts
    Under <- MixUnder
    Workers = {w1, w2}
    Move = TRUE
    MirrorRuns = {1, 2}
    MaxRuns = 2
    Targets = {"local"}
    FatalErrors = FALSE
    CanRename = FALSE
    Faults = {}
    Before <- MixBefore
    Aliased = {}
SPECIFICATION Spec
INVARIANT NoContentLost
