SPECIFICATION FairSpec
CONSTANTS
    Tasks = {t1, t2}
    Clis = {c1}
    Tools <- MCTools
    Commands <- MCCommands
    Settings <- MCSettings
    Notices <- MCNotices
    Contents <- MCContents
    Paths <- MCPaths
    Setups <- MCSetups
    MaxKeys = 2
    MaxOps = 3
    MaxEdits = 1
    None = None
INVARIANTS NoLostUpdate SettingsSurvive Authorised
PROPERTIES OperationsEnd
CHECK_DEADLOCK FALSE
