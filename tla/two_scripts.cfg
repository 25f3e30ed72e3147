SPECIFICATION SessionSpec
CONSTANTS
  LuaThreads = {t1}
  Scripts = {s1, s2}
  Lines = {1}
  Errors = {e1}
  FailingScripts = {s2}
  HookEvents = {"line"}
  MaxCalls = 1
  MaxProgramActions = 2
  EventCap = 3
  Watching = TRUE
  UserMay = {"Continue", "StepOver", "StepInto", "Break", "DeleteAll", "Detach", "Stop", "Die"}
  MaxUserActions = 1
  Nobody = nobody
  NoScript = cfun
  CommandThread = commander
  t1 = t1
  t2 = t2
  s1 = s1
  s2 = s2
  e1 = e1
  nobody = nobody
  cfun = cfun
  commander = commander
INVARIANTS ScriptTablesAgree BreakNamesKnownScript FileHasNoScriptYet
PROPERTIES BreakpointsBeforeFirstLine BackendUnderSession
CHECK_DEADLOCK FALSE
