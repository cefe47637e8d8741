SPECIFICATION FairSpec
CONSTANTS
    Handlers = {h1, h2}
    Commands = {c1}
    Evictors = {e1}
    Sessions = {s1, s2, s3}
    Locks = {l1, l2, l3}
    CompactionOn = TRUE
    None = None
INVARIANTS OneSession
PROPERTIES WaiterServed QueueMoves
CHECK_DEADLOCK FALSE
