SPECIFICATION Spec
CONSTANTS
    e1 = e1
    e2 = e2
    p1 = p1
    p2 = p2
    s1 = s1
    s2 = s2
    Execs = {e1}
    ExecIDs = {e1}
    IdOf <- OwnIds
    Ptys = {}
    Sids = {}
    NoExec = NoExec
    NoPty = NoPty
    NoSid = NoSid
    OutCap = 2
    MaxParallelExec = 1
    MaxParallelPtys = 1
INVARIANT DaemonSurvivesDisconnect
CHECK_DEADLOCK FALSE
