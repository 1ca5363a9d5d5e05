SPECIFICATION FairSpec
CONSTANTS
  None = None
  Cells = {c1, c2}
  Endpoints = {e1}
  Horizon = 3
  TicketLife = 1
  LeaseLife = 2
  OTPMinRemaining = 1
  MaxTime = 4
  MaxTickets = 2
  MaxCands = 2
  MaxIds = 1
  MaxGen = 2
  MaxRev = 1
CHECK_DEADLOCK FALSE
INVARIANTS ProofDurable OneRegistration
PROPERTIES EpisodeStable CommittedFinishes
