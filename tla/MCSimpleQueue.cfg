\* Every kind of timeout, every kind of limit.
SPECIFICATION Spec
CONSTANTS
    Threads = {t1, t2, t3, t4}
    Values = {v1, v2}
    Limits = {0, 1, 2}
    PollModes = {"forever", "now", "timed"}
    MaxLength = 3
    NoThread = NoThread
    NoValue = NoValue
INVARIANTS TypeOK NoReaderSleepsOnData NoWriterSleepsOnRoom NoReaderSleepsOnClosed WithinLimit
PROPERTIES ImplementsQueueSafely ImplementsQueue
