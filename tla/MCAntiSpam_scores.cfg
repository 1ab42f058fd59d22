CONSTANTS
    Users = {u1, u2}
    Lines = {hello, bare}
    Bare = bare
    MaxSpamPerMinute = 12
    MaxCalls = 3
    MaxRunning = 2
    Added = {5}
    Largest = 127
    None = None
SPECIFICATION LiveSpec
INVARIANTS TypeOK EveryEntryDecays OneDecay NeverOvercharged
PROPERTY Forgiven
CHECK_DEADLOCK FALSE
