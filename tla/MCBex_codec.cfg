CONSTANTS
    me = me
    other = other
    Packets <- Few
    MaxSubmessages = 2
    MaxTable = 3
    MyName = me
    FromMod = TRUE
SPECIFICATION Spec
INVARIANT RoundTrip
CHECK_DEADLOCK FALSE
