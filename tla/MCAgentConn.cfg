SPECIFICATION MCSpec
CONSTANTS
    e1 = e1
    e2 = e2
    p1 = p1
    p2 = p2
    s1 = s1
    s2 = s2
    Execs = {e1, e2}
    ExecIDs = {e1, e2}
    IdOf <- OwnIds
    Ptys = {p1, p2}
    Sids = {s1, s2}
    NoExec = NoExec
    NoPty = NoPty
    NoSid = NoSid
    OutCap = 1
    MaxParallelExec = 1
    MaxParallelPtys = 1
INVARIANTS
    ExecsBounded
    ShellsDieWithConnection
    NoLeakedShell
PROPERTIES
    ExecAnswered
    OnlyBlockedReaderKeepsRunOnce
CHECK_DEADLOCK FALSE
