\* Files reach the window, tabs follow their use, and a directory is watched.
SPECIFICATION FairSpec
CONSTANTS
  f1 = f1
  f2 = f2
  f3 = f3
  d1 = d1
  d2 = d2
  s1 = s1
  s2 = s2
  None = None
  Main = Main
  Files <- MCFiles
  Directory <- MCDirectory
  Protected <- MCProtected
  Senders <- MCSenders
  FileOf <- MCFileOf
  MaxOperations = 3
  MaxChanges = 1
INVARIANTS TabOrderIsRecency StatusIsCurrent FilesAreOpened
PROPERTY EndThreadReturns
CHECK_DEADLOCK FALSE
