SPECIFICATION FairSpec
CONSTANTS
  Profiles = {"assignment", "completion", "register", "knock", "otp"}
  Budget = 3
  Timeout = 1
  MaxAttempts = 2
  MaxAddresses = 2
  MaxBackoff = 1
CHECK_DEADLOCK FALSE
INVARIANTS AnswerSound SilenceSound
PROPERTIES FenceLatches OperationReturns
