SPECIFICATION Spec
CONSTANTS
    v1 = v1
    v2 = v2
    v3 = v3
    m1 = m1
    m2 = m2
    Vin = {v1, v2, v3}
    Maker = {m1, m2}
    File <- MCFile
    Bucket <- MCBucket
    OldVehicles <- MCOldVehicles
    OldMakers <- MCOldMakers
    NoBody = NoBody
    NoRequest = NoRequest
    NoResult = NoResult
    Nobody = Nobody
    Run = {r1, r2}
    Content <- AllFiles
    ChunkSizes <- OneAndTwo
    ErrorCap = 2
    Serial = TRUE
    Disturbance <- OnlyCrashes
    NewNames = {}
PROPERTY
    ValidFileIsImported
\* The executions are finitely many, and all of them end.
CHECK_DEADLOCK FALSE
