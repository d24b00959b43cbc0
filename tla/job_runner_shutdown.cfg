SPECIFICATION Spec
CONSTANTS
    Jobs = {1, 2}
    Tasks = {t1, t2}
    MaxConcurrentJobs = 1
    None = None
PROPERTIES ShutdownCancelsAll
CHECK_DEADLOCK FALSE
