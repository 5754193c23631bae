SPECIFICATION MCSpec
CONSTANTS
    Tables = {t1, t2}
    MaxDocs = 3
    MaxBatch = 2
    MaxBufferedSamples = 2
    MaxRotations = 1
    MaxLost = 1
INVARIANTS
    BufferIsNewest
    NoDocumentForgotten
    DuplicatesAreRetries
PROPERTIES
    StopCompletes
    OsqueryFoundLater
    DocumentsArrive
    RevokedGoesQuiet
CHECK_DEADLOCK FALSE
