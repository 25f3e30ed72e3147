SPECIFICATION FairSpec
CONSTANTS
    Files = {f1}
    Capabilities = {FALSE}
    PluginFails = FALSE
    MaxOperations = 1
    None = None
PROPERTIES DispatchReturns
CHECK_DEADLOCK FALSE
