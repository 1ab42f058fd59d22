CONSTANTS
    a = a
    b = b
    c = c
    ka = ka
    kb = kb
    kc = kc
    ka2 = ka2
    m1 = m1
    m2 = m2
    Names = {a, b}
    Keys = {ka, ka2, kb}
    KeyOwner <- OwnerTwo
    Msgs = {m1, m2}
    BigMsgs = {m2}
    Moderated = {}
    Targets = {Everyone}
    Everyone = Everyone
    NoBuddy = NoBuddy
    NoSecret = NoSecret
    Idle = Idle
    Garbage = Garbage
    Nobody = Nobody
SPECIFICATION Spec
INVARIANTS TypeOK BuddyKeys
PROPERTIES KeyPinned ImplementsGroupChat
