SPECIFICATION Spec
CONSTANTS
    Bucket = {inA, inB, out, jail}
    Name = {}
    inA = inA
    inB = inB
    out = out
    jail = jail
    Missing = Missing
    NaN = NaN
    None = None
    Buckets <- CrossedEntries
    Sizes <- SomeSizes
    MaxRecords = 3
INVARIANTS
    ScansAgree
    RowsHaveOneVerdict
PROPERTIES
    ShownNeverFalls
