\* Two calls of one process around failures of the gateway.
SPECIFICATION FairSpec
CONSTANTS
  Caller = {k1, k2}
  Attempts <- MCAttempts
  FailureThreshold = 2
PROPERTIES
  CallsEnd
  Recovers
