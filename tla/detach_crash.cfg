SPECIFICATION SessionSpec
CONSTANTS
  LuaThreads = {t1}
  Scripts = {s1}
  Lines = {1}
  Errors = {}
  FailingScripts = {}
  HookEvents = {"call", "line"}
  MaxCalls = 1
  MaxProgramActions = 2
  EventCap = 3
  Watching = FALSE
  UserMay = {"Continue", "StepOver", "Detach"}
  MaxUserActions = 2
  Nobody = nobody
  NoScript = cfun
  CommandThread = commander
  t1 = t1
  t2 = t2
  s1 = s1
  s2 = s2
  e1 = e1
  nobody = nobody
  cfun = cfun
  commander = commander
INVARIANTS ProgramSurvives
CHECK_DEADLOCK FALSE
