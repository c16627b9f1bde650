SPECIFICATION Spec
CONSTANTS
    Update = {a, b}
    NoLock = NoLock
    Expiry = 1
    MaxVersion = 1
    MaxFaults = 1
SYMMETRY AnyUpdate
INVARIANTS
    OneUpdateAtOnce
\* All updates may be answered.
CHECK_DEADLOCK FALSE
