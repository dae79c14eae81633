\* Two disks and blocks of two elements; the tests scaled down, of up to five
\* chunks where no reader chooses the order; every sequence of up to two chunks
\* and every predicate on it; a map whose output elements are twice as large.
CONSTANTS
    NumSSDs = 2
    ChunkSize = 2
    FlagsPerChunk = 4
    Fanout = 2
    PageSize = 1
    BucketSize = 1
    MainMemory = 100
    ScatterBudget = 8
    MaxChunks = 2
    MaxTestChunks = 4
    MaxShuffled = 3
    Jobs <- MCJobs
SPECIFICATION Spec
INVARIANTS OutputFits ChecksPass
PROPERTY ImplementsCall
