CONSTANTS
    Roots <- MixRoots
    RootFiles <- MixRootFiles
    Inode <- MixInode
    DstOf <- MixDstOf
    Dsts <- MixDsts
    Under <- MixUnder
    Workers = {w1, w2}
    Move = TRUE
    MirrorRuns = {1}
    MaxRuns = 2
    Targets = {"local", "posix", "plain"}
    FatalErrors = FALSE
    CanRename = TRUE
    Faults = {"target", "open", "copy", "space", "link", "remove", "delete"}
    Before <- MixBefore
    Aliased = {"e"}
SPECIFICATION Spec
INVARIANTS
    TypeOK
    NoContentLost
    CleanRunIsComplete
    MirrorIsExact
    CleanMoveEmptiesSource
PROPERTIES
    RemovesAfterWholeWalk
    TransferredKept
