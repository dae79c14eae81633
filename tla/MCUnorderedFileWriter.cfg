\* Three files shared out to two workers; both also serve blocks that share the
\* cursor of file 0.
CONSTANTS
    NumFiles = 3
    NumThreads = 2
    RingSize = 2
    QueueSize = 1
    Producers = {p1}
    Uses = {"append", "explicit", "shared"}
    Targets = {0}
    MaxSize = 2
    MaxBlocks = 3
SPECIFICATION Spec
INVARIANTS TypeOK FitsRing WrittenIntact
PROPERTIES PushEnds ImplementsStore
