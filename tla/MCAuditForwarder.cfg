SPECIFICATION EmitterSpec
CONSTANTS
    v1 = v1
    v2 = v2
    v3 = v3
    v4 = v4
    v5 = v5
    Events = {v1, v2, v3, v4, v5}
    Scoped = {v1, v2, v3, v4}
    QueueSize = 2
    BatchSize = 2
INVARIANTS
    Conservation
PROPERTIES
    EmitNeverStalls
    AcceptedIsPosted
CHECK_DEADLOCK FALSE
