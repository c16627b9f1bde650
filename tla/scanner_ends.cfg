SPECIFICATION FairSpec
CONSTANTS
    Bucket = {inA, inB, out, jail, jailB}
    Name = {n1, n2}
    Missing = Missing
    Nothing = Nothing
    u1 = u1
    u2 = u2
    t1 = t1
    inA = inA
    inB = inB
    out = out
    jail = jail
    jailB = jailB
    n1 = n1
    n2 = n2
    Request = {u1, u2}
    Upload = {u1, u2}
    BodyOf <- TwoNamesOneLarge
    Buckets <- ThreeEntries
    MaxDeliveries = 3
    Faulty <- AllButLast
    Forbids = FALSE
    Updates = TRUE
    Removes = FALSE
INVARIANTS
    NothingLost
    DocumentsFitVerdict
PROPERTIES
    EveryRequestEnds
    FiledInTheEnd
\* All requests may be done with.
CHECK_DEADLOCK FALSE
