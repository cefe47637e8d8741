SPECIFICATION Spec
CONSTANTS
    Handlers = {h1, h2, h3}
    Commands = {c1}
    Evictors = {}
    Sessions = {s1, s2, s3, s4}
    Locks = {l1, l2, l3}
    CompactionOn = TRUE
    None = None
SYMMETRY Symmetry
PROPERTIES NoTeardownOfStreaming
CHECK_DEADLOCK FALSE
