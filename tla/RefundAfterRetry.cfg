SPECIFICATION FairSpec
CONSTANTS
  Hashes = {h1, h2}
  NoHash = NoHash
  RefundAfter = 1
  Margin = 1
  StageRetryMax = 1
  MaxPayTries = 1
  MaxFaults = 1
  MaxTime = 1
  Crashing = {}
PROPERTIES
  LockedResolves
CHECK_DEADLOCK FALSE
