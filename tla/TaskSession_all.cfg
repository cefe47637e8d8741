SPECIFICATION LiveSpec
CONSTANTS
    Messages = {m1, m2, m3}
    Clients = {c1, c2, c3, c4, c5, c6}
    None = None
INVARIANTS ExclusiveStream OneProcess LiveSessionUsed
PROPERTIES MessageEnds
CHECK_DEADLOCK FALSE
