SPECIFICATION FairSpec
CONSTANTS
  None = None
  Cells = {c1}
  Endpoints = {e1}
  Credentials = {good}
  Active = {good}
  GrantLife = 1
  LeaseLife = 2
  Horizon = 2
  MaxTime = 4
  MaxNonces = 3
  MaxCands = 2
  MaxRevocations = 1
  MaxGen = 2
  MaxRev = 1
CHECK_DEADLOCK FALSE
PROPERTIES RecoveryFinishes
