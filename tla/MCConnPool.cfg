CONSTANTS
    t1 = t1
    t2 = t2
    t3 = t3
    Copies = {t1, t2, t3}
    FilesOf <- MCFilesOf
    MaxConnections = 3
SPECIFICATION Spec
INVARIANTS
    TypeOK
    WaitersHaveDial
    LoadsHonest
    SharedOnlyWhenFull
PROPERTY CopiesEnd
