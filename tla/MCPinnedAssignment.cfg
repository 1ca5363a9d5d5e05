SPECIFICATION Spec
CONSTANTS
  None = None
  p1 = p1
  p2 = p2
  g1 = g1
  g2 = g2
  g3 = g3
  Cells = {c1, c2}
  Endpoints = {e1}
  Bindings = {p1, p2}
  Callers = {g1, g2}
  BindingOf <- SharedStore
  Pinned = {p2}
  Offline = {}
  Lead = 1
  Margin = 1
  LeaseLife = 3
  MaxTime = 4
  MaxGen = 2
  MaxRev = 1
INVARIANTS PinnedNeverMoves
