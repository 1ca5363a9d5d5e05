SPECIFICATION Spec
CONSTANTS
  None = None
  h1 = h1
  h2 = h2
  t1 = t1
  t2 = t2
  t3 = t3
  Handles = {h1, h2}
  LongLived = {h2}
  Updaters = {t1, t2}
  Loaders = {t3}
  HandleOf <- TwoProcesses
  MaxDirs = 2
  MaxFiles = 2
  MaxLocks = 2
  MaxFaults = 1
INVARIANTS CloseIsExact TempsAreRemoved
PROPERTIES ImplementsRegister
