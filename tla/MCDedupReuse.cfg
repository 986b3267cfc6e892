CONSTANTS
    fa = fa
    fb = fb
    fc = fc
    Copies = {fa, fb}
    Versions <- ReuseVersions
    DstOf <- ReuseDstOf
    MaxAttempts = 1
    Faults = {}
    ReuseRecorded = TRUE
SPECIFICATION Spec
INVARIANT CopyIsOwn
