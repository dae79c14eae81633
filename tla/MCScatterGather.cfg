\* More files than workers; buffers that fill and buffers that do not.
CONSTANTS
    NumBuckets = 3
    NumChunks = 2
    ChunkSize = 2
    BufferSize = 2
    Assigners = {a1, a2}
    Workers = {w1, w2}
SPECIFICATION Spec
INVARIANTS TypeOK NothingLostOrTwice PipelineInStep ReturnMeansAllProcessed
PROPERTY RunEnds
