SPECIFICATION FairSpec
CONSTANTS
  None = None
  Openers = {o1}
  Requesters = {q1}
  Resources = {"r1", "r2"}
  Envelopes <- MCEnvelopes
  Links <- MCLinks
  Deployments <- MCDeployments
  Pin = FALSE
  ManifestKeys = {"k1"}
  RequireSignature = TRUE
  ExpectedProfile = "prod"
  MinVersion = 1
  Leeway = 0
  Epoch = 2
  MaxTime = 3
CHECK_DEADLOCK FALSE
INVARIANTS OpenedAsAsked AnonymousFirst NoKeyLeftBehind
PROPERTIES TrustHolds CallsReturn
