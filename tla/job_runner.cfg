SPECIFICATION Spec
CONSTANTS
    Jobs = {1, 2}
    Tasks = {t1, t2}
    MaxConcurrentJobs = 1
    None = None
INVARIANTS LiveEntriesAreCurrent
PROPERTIES ListedLateTasksEnd DrainCompletes
CHECK_DEADLOCK FALSE
