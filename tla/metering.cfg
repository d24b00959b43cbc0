SPECIFICATION Spec
CONSTANTS
    c1 = c1
    c2 = c2
    p1 = p1
    p2 = p2
    alice = alice
    Calls <- Written
    Procs <- Two
    Owner <- Creators
    PerDay = 2
    Preallocate = 2
    Retention = 1
    Lag = 1
    MaxTime = 5
    Default = Default
    None = None
SYMMETRY Sym
INVARIANTS SettledMinutesAreExact
PROPERTIES NothingYoungIsDropped PreallocationShields
CHECK_DEADLOCK FALSE
