SPECIFICATION FairSpec
CONSTANTS
    Plans <- AllPlans
    MaxParallel = 2
    MaxOthers = 1
CHECK_DEADLOCK FALSE
INVARIANTS
    WavesCorrect
    UpstreamsSettled
    ReportExact
PROPERTIES
    PlanEnds
