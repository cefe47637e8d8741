SPECIFICATION FairSpec
CONSTANTS
    Users = {u1}
    Runs = {r1}
    Pool = {harbor}
    MaxParallel = 1
    BeaconOn = TRUE
    NoUser = NoUser
    NoName = NoName
PROPERTIES
    StopAllCompletes
CHECK_DEADLOCK FALSE
