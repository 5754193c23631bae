SPECIFICATION MCSpec
CONSTANTS
    p1 = p1
    p2 = p2
    k1 = k1
    k2 = k2
    Daemons = {p1, p2}
    MaxEnrollments = 2
    Keys = {k1, k2}
    NoKey = NoKey
    Torn = Torn
    MaxCrashes = 1
INVARIANTS
    KeyInSync
    OnlyCrashTearsKey
    EnrolledMeansPersisted
PROPERTY StaysReachable
CHECK_DEADLOCK FALSE
