SPECIFICATION FairRuntimeSpec
CONSTANTS
  None = None
  Procs = {p1, p2}
  TTL = 1
  MaxTime = 3
  MaxCred = 2
  MaxCalls = 2
CHECK_DEADLOCK FALSE
INVARIANTS CredentialFresh KeysOutliveUse
PROPERTIES CredentialsAdvance CallsReturn
