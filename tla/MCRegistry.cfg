SPECIFICATION FairSpec
CONSTANTS
    c1 = c1
    c2 = c2
    d1 = d1
    o1 = o1
    o2 = o2
    f1 = f1
    f2 = f2
    Devices = {d1}
    Orgs = {o1, o2}
    Conns = {c1, c2}
    ClaimOf <- MoveClaims
    Frames = {f1, f2}
    BufSize = 2
    NoConn = NoConn
    NoAgent = NoAgent
INVARIANTS
    TypeOK
    OpenIffCurrent
    NoDoubleClose
PROPERTIES
    OnlyHolderEmptiesSlot
    ImplementsDeviceSlots
    OnePumpEndsAll
    DeadSocketFreesSlot
CHECK_DEADLOCK FALSE
