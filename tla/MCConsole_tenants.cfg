SPECIFICATION FairSpec
CONSTANTS
    c1 = c1
    c2 = c2
    d1 = d1
    o1 = o1
    o2 = o2
    s1 = s1
    k1 = k1
    k2 = k2
    Devices = {d1}
    Conns = {c1, c2}
    ConnDev <- OneDevice
    ConnOrg <- MovedOrg
    BufSize = 1
    NoConn = NoConn
    Sids = {s1}
    SidDev <- OneSidDevice
    SidOrg <- OneSidOrg
    Calls = {k1}
    SidOf <- LoneCall
    NoCall = NoCall
    ToBrowserCap = 1
    OperatorKinds = {"start", "data", "cancel"}
INVARIANT TenantIsolation
PROPERTIES
    SessionEnds
    PumpEnds
CHECK_DEADLOCK FALSE
