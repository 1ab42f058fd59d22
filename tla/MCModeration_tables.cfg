CONSTANTS
    Nicks = {n1, n2}
    Keys = {k1}
    Goroutines = {g1, g2}
    MaxStays = 2
    MaxTables = 2
    None = None
SPECIFICATION LiveSpec
INVARIANTS TypeOK MutedUnlessRaced
PROPERTY Enforced
CHECK_DEADLOCK FALSE
