\* Two uses of one reader; worker 0 goes round between two of the three files.
SPECIFICATION Spec
CONSTANTS
    NumThreads = 2
    NumFiles = 3
    NumChunks <- ManyFiles
    MaxRequests = 2
    QueueSize = 1
    Consumers = {c1, c2}
    MaxRounds = 2
    EarlyDestroy = FALSE
INVARIANTS TypeOK OnePlace EndMeansAll NoAbort
PROPERTIES RoundEnds ImplementsStream
