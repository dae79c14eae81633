SPECIFICATION Spec
CONSTANTS
    Threads = {t1, t2, t3}
    Initial = 1
    Batch = 2
    Threshold = 1
    MaxHeld = 1
    MaxBuffers = 5
    Nobody = Nobody
INVARIANTS TypeOK OneOwner
PROPERTY AllocProgress
