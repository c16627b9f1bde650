SPECIFICATION FairSpec
CONSTANTS
    e1 = e1
    m1 = m1
    Client = {k1}
    WithBody = {k1}
    MaxAttempts = 2
    MaxRetries = 2
    Call <- MCCall
    Email <- OneEmail
    Maker <- OneMaker
    EmailOf <- SameEmail
    MakerOf <- SameMaker
    Failing <- AllFail
    LosingAck <- AllLose
    Crashes = TRUE
    Deletes = TRUE
    Unreliable = TRUE
INVARIANTS
    OkIsComplete
    OneAccountPerEmail
    BoundedEffort
PROPERTIES
    ImplementsContract
    EverySubmissionEnds
\* Every submission ends.
CHECK_DEADLOCK FALSE
