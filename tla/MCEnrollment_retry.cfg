SPECIFICATION Spec
CONSTANTS
    p1 = p1
    p2 = p2
    k1 = k1
    k2 = k2
    Daemons = {p1}
    MaxEnrollments = 1
    Keys = {k1}
    NoKey = NoKey
    Torn = Torn
    MaxCrashes = 1
PROPERTY RegistrationRetried
CHECK_DEADLOCK FALSE
