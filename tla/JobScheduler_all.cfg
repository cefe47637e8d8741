SPECIFICATION Spec
CONSTANTS
    Names = {job}
    Cron <- TwoSlots
    Minute = 2
    Horizon = 7
    MaxLag = 1
    MaxWrites = 4
    MaxBoots = 1
    None = None
INVARIANTS
    NoOverlap
PROPERTIES
    OncePerSlot
CHECK_DEADLOCK FALSE
