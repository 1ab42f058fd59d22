CONSTANTS
    A = A
    B = B
    Stranger = Stranger
    Trust <- SomeTrust
    Words = {w1, w2}
    MaxCalls = 2
    None = None
SPECIFICATION Spec
INVARIANTS TypeOK VerifiedMeansTrusted HonestVerified OneHandler AskedOnce AskNotForgotten Concluded
SYMMETRY Symmetry
CHECK_DEADLOCK FALSE
