SPECIFICATION Spec
CONSTANTS
    Bucket = {inA, inB, out, jail, jailB}
    Name = {n1, n2}
    Missing = Missing
    Nothing = Nothing
    u1 = u1
    u2 = u2
    t1 = t1
    inA = inA
    inB = inB
    out = out
    jail = jail
    jailB = jailB
    n1 = n1
    n2 = n2
    Request = {u1, t1}
    Upload = {u1}
    BodyOf <- TwoNames
    Buckets <- ThreeEntries
    MaxDeliveries = 2
    Faulty <- FirstIsFaulty
    Forbids = TRUE
    Updates = FALSE
    Removes = TRUE
INVARIANTS
    OneVerdict
    LeftBehindIsReported
PROPERTIES
    ImplementsContract
\* All requests may be done with.
CHECK_DEADLOCK FALSE
