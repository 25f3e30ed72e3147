SPECIFICATION FairSpec
CONSTANTS
  LuaThreads = {t1}
  Scripts = {s1}
  Lines = {1}
  Errors = {e1}
  FailingScripts = {s1}
  HookEvents = {}
  MaxCalls = 1
  MaxProgramActions = 2
  EventCap = 3
  Watching = TRUE
  UserMay = {}
  MaxUserActions = 0
  Nobody = nobody
  NoScript = cfun
  CommandThread = commander
  t1 = t1
  t2 = t2
  s1 = s1
  s2 = s2
  e1 = e1
  nobody = nobody
  cfun = cfun
  commander = commander
PROPERTIES UiComesBack
CHECK_DEADLOCK FALSE
