SPECIFICATION RefundSpec
CONSTANTS
  Hashes = {h1}
  NoHash = NoHash
  RefundAfter = 2
  Margin = 1
  StageRetryMax = 1
  MaxPayTries = 2
  MaxFaults = 1
  MaxTime = 2
  Crashing = {"maker", "taker"}
PROPERTIES
  LockedResolves
CHECK_DEADLOCK FALSE
