SPECIFICATION Spec
CONSTANTS
    NumThreads = 2
    Requests = {r1, r2}
    QueueSize = 1
    Consumers = {c1}
    MaxChunks = 4
    MaxRounds = 2
INVARIANT LabelsMatch
PROPERTIES RoundEnds ImplementsStream
