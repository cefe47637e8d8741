SPECIFICATION FairSpec
CONSTANTS
    RateLimit = 2
    CrashGap = 2
    Delays = {1}
    MaxTime = 4
    MaxProcesses = 3
PROPERTIES
    RestartsSpaced
    ShutdownIsFinal
    BroadcastsSpaced
    ShutdownEnds
CHECK_DEADLOCK FALSE
