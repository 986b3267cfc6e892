CONSTANTS
    fa = fa
    fb = fb
    fc = fc
    Copies = {fa, fb, fc}
    Versions <- MCVersions
    DstOf <- MCDstOf
    MaxAttempts = 2
    Faults <- MCFaults
    ReuseRecorded = FALSE
SPECIFICATION Spec
INVARIANTS
    TypeOK
    CopyIsOwn
    RecordsHonest
    ClaimsHeld
    HandlesClosed
PROPERTY CopiesEnd
