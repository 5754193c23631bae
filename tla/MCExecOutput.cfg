SPECIFICATION FairSpec
CONSTANTS
    Streams = {stdout, stderr}
    Cap = 3
    PipeCap = 2
    MaxBytes = 6
INVARIANTS
    KeptIsPrefix
    TruncatedIffLost
PROPERTIES
    PipeDrained
    ExitSent
CHECK_DEADLOCK FALSE
