\* As MCFileMain.cfg; sorting two elements, for which one pivot is wanted.
CONSTANTS
    Page = 2
    SSDCount = 3
    ReadSize = 4
    BufferSize = 4
    Workers = 2
    NumBuffers = 5
    RingEntries = 2
    BucketSize = 2
    MainMemory = 1000
    Step = 4
    MaxFiles = 2
    MaxPages = 3
    MaxElement = 20
    Draws <- MCDraws
    Randoms <- MCRandoms
    Jobs <- MCJobs
SPECIFICATION Spec
INVARIANT PivotsFromSamples
