SPECIFICATION SessionSpec
CONSTANTS
  LuaThreads = {t1, t2}
  Scripts = {s1, s2}
  Lines = {1}
  Errors = {}
  FailingScripts = {s2}
  HookEvents = {"line"}
  MaxCalls = 1
  MaxProgramActions = 2
  EventCap = 3
  Watching = FALSE
  UserMay = {"Detach"}
  MaxUserActions = 1
  Nobody = nobody
  NoScript = cfun
  CommandThread = commander
  t1 = t1
  t2 = t2
  s1 = s1
  s2 = s2
  e1 = e1
  nobody = nobody
  cfun = cfun
  commander = commander
INVARIANTS NoCircularWait
CHECK_DEADLOCK FALSE
