SPECIFICATION Spec
CONSTANTS
    r1 = r1
    r2 = r2
    s1 = s1
    s2 = s2
    Jobs = {1, 2}
    Runners = {r1, r2}
    Sessions = {s1, s2}
    Client = Client
    None = None
    NotCreated = NotCreated
    Deleted = Deleted
    Keep = Keep
    MaxConcurrentJobs = 1
    MaxSecondsChoices = {1}
    RunNowChoices = {TRUE, FALSE}
    MaxTime = 2
SYMMETRY Interchangeable
CONSTRAINT OneJobOrOneRunner
INVARIANTS TypeOK LockInv RunnerWithinCapacity
PROPERTIES ClaimsTakePendingRows TerminalStatusKept CompletedByOwner RecoveryOnlyWhenOverdue
CHECK_DEADLOCK FALSE
