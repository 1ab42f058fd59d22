CONSTANTS
    x = x
    Letters = {x}
    Prefix = Prefix
    Space = Space
    Quote = Quote
    MaxRunes = 5
    MaxLen = 10
    Lines <- QuotedLines
    Commands <- OneLetter
SPECIFICATION Spec
INVARIANT QuoteEndsArgument
CHECK_DEADLOCK FALSE
