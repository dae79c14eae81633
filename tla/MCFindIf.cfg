\* Sequences of two chunks that filter returned, with chunks that are not full.
CONSTANTS
    NumSSDs = 2
    ChunkSize = 2
    FlagsPerChunk = 4
    Fanout = 2
    PageSize = 1
    BucketSize = 1
    MainMemory = 100
    ScatterBudget = 8
    MaxChunks = 2
    MaxTestChunks = 1
    MaxShuffled = 3
    Jobs <- MCPartialJobs
SPECIFICATION Spec
INVARIANT FindsFirst
