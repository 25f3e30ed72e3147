SPECIFICATION FairSpec
CONSTANTS
    Files = {f1}
    Capabilities = {TRUE, FALSE}
    PluginFails = FALSE
    MaxOperations = 3
    None = None
INVARIANTS CommandsAreAlive ExitEventIsOfFirstThread QuietStatusIsCurrent
PROPERTIES NamesFixedOnceStarted RefreshEnds
CHECK_DEADLOCK FALSE
