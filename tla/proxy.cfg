SPECIFICATION FairSpec
CONSTANTS
    Request = {a, b}
    Off = Off
    Life = 9
    MinLife = 4
    Threshold = 3
    Lag = 2
    Early = 1
    Failing = TRUE
INVARIANTS
    NoExpiredToken
PROPERTIES
    TokenIsRenewed
\* Nothing restarts a process that is down.
CHECK_DEADLOCK FALSE
