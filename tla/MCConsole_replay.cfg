SPECIFICATION Spec
CONSTANTS
    c1 = c1
    c2 = c2
    d1 = d1
    o1 = o1
    o2 = o2
    s1 = s1
    k1 = k1
    k2 = k2
    Devices = {d1}
    Conns = {c1}
    ConnDev <- LoneDevice
    ConnOrg <- LoneOrg
    BufSize = 2
    NoConn = NoConn
    Sids = {s1}
    SidDev <- OneSidDevice
    SidOrg <- OneSidOrg
    Calls = {k1, k2}
    SidOf <- SameToken
    NoCall = NoCall
    ToBrowserCap = 1
    OperatorKinds = {"start"}
INVARIANTS
    OneOperatorPerSession
    NoUnaccountedShell
CHECK_DEADLOCK FALSE
SYMMETRY CallSymmetry
