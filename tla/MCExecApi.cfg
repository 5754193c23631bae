SPECIFICATION FairSpec
CONSTANTS
    c1 = c1
    c2 = c2
    o1 = o1
    o2 = o2
    r1 = r1
    r2 = r2
    Device = d1
    Conns = {c1, c2}
    ConnOrg <- MovedOrg
    BufSize = 1
    NoConn = NoConn
    Reqs = {r1, r2}
    ReqOrg <- OneTenant
    ToBrowserCap = 4
INVARIANTS
    ExecStaysInTenant
    NeverClosedWhileWaiting
    ResultIsComplete
    NoAbandonedProcess
PROPERTY RequestEnds
CHECK_DEADLOCK FALSE
