SPECIFICATION FairSpec
CONSTANTS
  None = None
  p1 = p1
  p2 = p2
  g1 = g1
  g2 = g2
  g3 = g3
  Cells = {c1, c2}
  Endpoints = {e1}
  Bindings = {p1, p2}
  Callers = {g1, g2, g3}
  BindingOf <- SharedBinding
  Pinned = {}
  Offline = {p2}
  Lead = 0
  Margin = 1
  LeaseLife = 1
  MaxTime = 2
  MaxGen = 2
  MaxRev = 1
INVARIANTS BindingNeverAhead LiveAtDecision
PROPERTIES PlacementNeverRegresses CallsReturn
