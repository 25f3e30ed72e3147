SPECIFICATION FairSpec
CONSTANTS
  LuaThreads = {t1}
  Scripts = {s1}
  Lines = {1}
  Errors = {}
  FailingScripts = {}
  HookEvents = {"call", "line"}
  MaxCalls = 1
  MaxProgramActions = 1
  EventCap = 3
  Watching = TRUE
  UserMay = {"Continue", "Detach", "Stop"}
  MaxUserActions = 2
  Nobody = nobody
  NoScript = cfun
  CommandThread = commander
  t1 = t1
  t2 = t2
  s1 = s1
  s2 = s2
  e1 = e1
  nobody = nobody
  cfun = cfun
  commander = commander
PROPERTIES LoadWaitEnds ResumeReleases DetachReleases UiComesBack SessionEnds
CHECK_DEADLOCK FALSE
