SPECIFICATION InstallerSpec
CONSTANTS
    Last = 2
    Bad = {2}
    MaxFaults = 3
    MaxRuns = 4
INVARIANTS
    FailureKeepsRelease
    SomeRelease
    SuccessRunsRelease
    CleanRunSucceeds
CHECK_DEADLOCK FALSE
