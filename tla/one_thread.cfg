SPECIFICATION SessionSpec
CONSTANTS
  LuaThreads = {t1}
  Scripts = {s1}
  Lines = {1, 2}
  Errors = {}
  FailingScripts = {}
  HookEvents = {"call", "ret", "line"}
  MaxCalls = 1
  MaxProgramActions = 2
  EventCap = 3
  Watching = FALSE
  UserMay = {"Continue", "StepOver", "StepInto", "Toggle"}
  MaxUserActions = 2
  Nobody = nobody
  NoScript = cfun
  CommandThread = commander
  t1 = t1
  t2 = t2
  s1 = s1
  s2 = s2
  e1 = e1
  nobody = nobody
  cfun = cfun
  commander = commander
INVARIANTS TypeOK BreakpointsAgree StateAgrees StepEventHasTaker VmListAgrees
CHECK_DEADLOCK FALSE
