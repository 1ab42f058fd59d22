CONSTANTS
    Rooms = {r1, r2}
    MaxLosses = 2
    MaxCrashes = 1
    MaxDisconnects = 2
SPECIFICATION LiveSpec
PROPERTY GracefulExit
CHECK_DEADLOCK FALSE
