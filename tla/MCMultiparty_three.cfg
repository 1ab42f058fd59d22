CONSTANTS
    a = a
    b = b
    c = c
    ka = ka
    kb = kb
    kc = kc
    ka2 = ka2
    m1 = m1
    m2 = m2
    Names = {a, b, c}
    Keys = {ka, kb, kc}
    KeyOwner <- OwnerThree
    Msgs = {m1}
    BigMsgs = {}
    Moderated = {b}
    Targets = {}
    Everyone = Everyone
    NoBuddy = NoBuddy
    NoSecret = NoSecret
    Idle = Idle
    Garbage = Garbage
    Nobody = Nobody
SPECIFICATION Spec
INVARIANTS RecipientsKnown DeliveredOnce HonestAccepted
