CONSTANTS
    Nicks = {n1}
    Keys = {k1, k2}
    Blocked = {}
    Goroutines = {g1, g2}
    MaxStays = 2
    MaxPosts = 1
    MaxEchoes = 2
    MaxLosses = 1
    None = None
SPECIFICATION LiveSpec
INVARIANTS TypeOK NoOrphanBuddy MemberMadeOnce RoomJoinedOnce
PROPERTY KnownForGood
CHECK_DEADLOCK FALSE
