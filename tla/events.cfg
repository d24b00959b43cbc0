SPECIFICATION Spec
CONSTANTS
    e1 = e1
    e2 = e2
    r1 = r1
    r2 = r2
    Events <- Two
    Big <- One
    Calls <- Requests
    MaxDay = 2
    Preallocate = 1
    Retention = 1
    Default = Default
    None = None
SYMMETRY Sym
INVARIANTS RetainedBodiesAreStored EventsHaveParents
CHECK_DEADLOCK FALSE
