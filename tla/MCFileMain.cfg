\* Pages of two elements, reads and blocks of two pages; every list of up to two
\* files of up to three pages; buckets of two elements, so that eight elements have
\* four pivots; five buffers for reads at random positions, more than the four entries
\* of the completion queue, for segments of three, four, six and seven positions.
CONSTANTS
    Page = 2
    SSDCount = 3
    ReadSize = 4
    BufferSize = 4
    Workers = 2
    NumBuffers = 5
    RingEntries = 2
    BucketSize = 2
    MainMemory = 1000
    Step = 4
    MaxFiles = 2
    MaxPages = 3
    MaxElement = 20
    Draws <- MCDraws
    Randoms <- MCRandoms
    Jobs <- MCJobs
SPECIFICATION Spec
INVARIANTS VerifiersPass RandomReadExact
PROPERTY ImplementsCall
