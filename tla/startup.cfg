SPECIFICATION FairSpec
CONSTANTS
    Bucket = {in, out, jail, cvd}
    Name = {}
    in = in
    out = out
    jail = jail
    cvd = cvd
    Missing = Missing
    Configs <- SomeConfigs
    ProxyAttempts = 4
    ClamdAttempts = 3
    Failing = TRUE
INVARIANTS
    ListeningIsReady
    
PROPERTIES
    ListensOrExits
\* A container listens in the end or is gone.
CHECK_DEADLOCK FALSE
