\* Requests of two buffers, of which two writers have one to spare; odd buffers
\* that fill a page, or nearly.
CONSTANTS
    NumBuckets = 1
    Writers = {w1, w2}
    IOThreads = {t1, t2}
    PoolPerBucket = 2
    IOThreshold = 12
    VectorSize = 2
    RingDepth = 1
    Page = 4
    Metadata = 2
    OddSizes = {1, 3}
    MaxBlocks = 5
SPECIFICATION Spec
INVARIANTS OneHolder FitsVectorAndRing DoneMeansComplete
PROPERTIES WriteEnds CleanUpEnds
