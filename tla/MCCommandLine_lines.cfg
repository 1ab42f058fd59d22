CONSTANTS
    x = x
    Letters = {x}
    Prefix = Prefix
    Space = Space
    Quote = Quote
    MaxRunes = 6
    MaxLen = 9
    Lines <- AllLines
    Commands <- OneLetter
SPECIFICATION Spec
INVARIANT CutAtSeparators
CHECK_DEADLOCK FALSE
