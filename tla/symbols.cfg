SPECIFICATION FairSpec
CONSTANTS
    Paths <- MCPaths
    LuaPaths <- MCLuaPaths
    InitialDisks <- MCDisks
    Projects <- MCProjects
    MaxFileId = 2
    MaxVersion = 2
    MaxQueue = 1
    None = None
    lua = lua
    txt = txt
INVARIANTS NoLostWakeup SymbolsBelongToTheFile TreeFollowsTheFiles
PROPERTIES NoEventAfterStop QueueingEnds QueuedIsParsed StopEnds
