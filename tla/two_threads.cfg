SPECIFICATION SessionSpec
CONSTANTS
  LuaThreads = {t1, t2}
  Scripts = {s1}
  Lines = {1}
  Errors = {e1}
  FailingScripts = {}
  HookEvents = {"call","line"}
  MaxCalls = 1
  MaxProgramActions = 3
  EventCap = 2
  Watching = FALSE
  UserMay = {"StepInto"}
  MaxUserActions = 1
  Nobody = nobody
  NoScript = cfun
  CommandThread = commander
  t1 = t1
  t2 = t2
  s1 = s1
  s2 = s2
  e1 = e1
  nobody = nobody
  cfun = cfun
  commander = commander
SYMMETRY ThreadSymmetry
INVARIANTS LocksMatchPlaces OneThreadStopped SteppingSeesEveryLine
PROPERTIES StopsAreReported
CHECK_DEADLOCK FALSE
