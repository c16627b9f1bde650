SPECIFICATION FairSpec
CONSTANTS
    v1 = v1
    v2 = v2
    v3 = v3
    m1 = m1
    m2 = m2
    Vin = {v1, v2}
    Maker = {m1, m2}
    File <- MCFile
    Bucket <- MCBucket
    OldVehicles <- MCOldVehicles
    OldMakers <- MCOldMakers
    NoBody = NoBody
    NoRequest = NoRequest
    NoResult = NoResult
    Nobody = Nobody
    Run = {r1, r2}
    Content <- CrossingFiles
    ChunkSizes <- OnlyZero
    ErrorCap = 2
    Serial = FALSE
    Disturbance <- AnyButDelete
    NewNames = {m1}
INVARIANTS
    AllOrNothing
    VehiclesHaveManufacturer
PROPERTIES
    ImplementsContract
    EveryExecutionEnds
    WorkShrinks
\* The executions are finitely many, and all of them end.
CHECK_DEADLOCK FALSE
