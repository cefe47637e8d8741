SPECIFICATION FairSpec
CONSTANTS
    MaxMessages = 2
    Agents = {a1}
    BufLen = 2
    SummaryLimit = 2
    RouterLimit = 3
    EarlierCalls = {0, 1}
    SearchOn = TRUE
INVARIANTS
    TurnsAccounted
    ContextOnce
    RouteFresh
PROPERTIES
    MessageEnds
CHECK_DEADLOCK FALSE
