SPECIFICATION Spec
CONSTANTS
  None = None
  Cells = {c1, c2}
  Endpoints = {e1}
  Credentials = {good, bad}
  Active = {good}
  GrantLife = 1
  LeaseLife = 2
  Horizon = 3
  MaxTime = 4
  MaxNonces = 3
  MaxCands = 3
  MaxRevocations = 2
  MaxGen = 2
  MaxRev = 1
SYMMETRY CellSymmetry
CHECK_DEADLOCK FALSE
INVARIANTS LoaderAccepts OneDurableCandidate NoPhaseSkipped
PROPERTIES EpisodeStable
