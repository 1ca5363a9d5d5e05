SPECIFICATION FairSpec
CONSTANTS
  None = None
  Starters = {s1, s2}
  Requesters = {r1}
  Targets = {x, y}
  Life = 2
  MinLead = 1
  MaxLead = 1
  Gap = 1
  MaxTime = 5
  MaxLoops = 2
CHECK_DEADLOCK FALSE
INVARIANTS OneSession CloseIsFinal
PROPERTIES LiveHandleKept CallsReturn
