SPECIFICATION SessionSpec
CONSTANTS
  None = None
  p1 = p1
  c1 = c1
  c2 = c2
  g1 = g1
  g2 = g2
  Cells = {c1, c2}
  Endpoints = {e1}
  Bindings = {p1}
  Callers = {g1, g2}
  BindingOf <- SharedBinding
  Pinned = {}
  Offline = {}
  Lead = 1
  Margin = 1
  LeaseLife = 3
  Serialized = TRUE
  Window = 3
  Resume = 4
  Skew = 1
  MaxTime = 4
  MaxGen = 2
  MaxRev = 1
  MaxKnocks = 1
INVARIANTS NoSessionEscapes PreparedPlacementHolds HeldSessionsInReach
SYMMETRY Symmetric
