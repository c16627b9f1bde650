SPECIFICATION FairSpec
CONSTANTS
    Update = {a, b}
    NoLock = NoLock
    Expiry = 1
    MaxVersion = 2
    MaxFaults = 2
INVARIANTS
    MutualExclusion
    SuccessIsFresh
PROPERTIES
    MirrorNeverGoesBack
    EveryUpdateEnds
\* All updates may be answered.
CHECK_DEADLOCK FALSE
