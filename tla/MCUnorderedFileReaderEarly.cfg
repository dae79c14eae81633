SPECIFICATION Spec
CONSTANTS
    NumThreads = 2
    NumFiles = 2
    NumChunks <- FewFiles
    MaxRequests = 2
    QueueSize = 2
    Consumers = {c1}
    MaxRounds = 1
    EarlyDestroy = TRUE
INVARIANT NoAbort
CHECK_DEADLOCK FALSE
