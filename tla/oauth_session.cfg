SPECIFICATION Spec
CONSTANTS
    r1 = r1
    r2 = r2
    NumIds = 2
    Reqs <- Pair
    Reads <- ReadIds
    Writes <- WriteOps
    AccessLife = {1, 5}
    RefreshLife = {3}
    Drift = 2
    MaxTime = 1
    MaxToken = 3
    None = None
PROPERTIES OnlyPatchEnables DeletedStaysDeleted Credentials RequestsEnd
CHECK_DEADLOCK FALSE
