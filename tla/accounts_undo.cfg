SPECIFICATION Spec
CONSTANTS
    e1 = e1
    m1 = m1
    Client = {k1, k2, k3}
    WithBody = {k1, k2, k3}
    MaxAttempts = 1
    MaxRetries = 2
    Call <- MCCall
    Email <- OneEmail
    Maker <- OneMaker
    EmailOf <- SameEmail
    MakerOf <- SameMaker
    Failing <- UndoWorks
    LosingAck <- ClaimsInsertUndo
    Crashes = FALSE
    Deletes = TRUE
    Unreliable = FALSE
SYMMETRY ClientSymmetry
INVARIANTS
    NothingLeftBehind
    LinksWork
    RetryFindsNothing
\* Every submission ends.
CHECK_DEADLOCK FALSE
