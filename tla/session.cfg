SPECIFICATION Spec
CONSTANTS
    r1 = r1
    r2 = r2
    Reqs <- Pair
    IdpLife = {1, 3}
    Drift = 1
    CleanupAge = 0
    MaxTime = 2
    MaxToken = 2
    None = None
INVARIANTS TypeOK TokenInv NoReplay
PROPERTIES Credential DeletedStaysDeleted CleanupSparesLiveSessions RequestsEnd
CHECK_DEADLOCK FALSE
