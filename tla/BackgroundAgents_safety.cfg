SPECIFICATION Spec
CONSTANTS
    Users = {u1}
    Runs = {r1, r2}
    Pool = {harbor}
    MaxParallel = 1
    BeaconOn = TRUE
    NoUser = NoUser
    NoName = NoName
SYMMETRY Symmetric
INVARIANTS
    NamesExact
    DoneMeansSettled
PROPERTIES
    StatusFinal
    NoBeaconAfterFinal
    ImplementsSlots
CHECK_DEADLOCK FALSE
