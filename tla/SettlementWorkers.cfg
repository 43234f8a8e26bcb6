SPECIFICATION WorkerSpec
CONSTANTS
  Hashes = {h1, h2}
  NoHash = NoHash
  RefundAfter = 2
  Margin = 1
  StageRetryMax = 1
  MaxPayTries = 2
  MaxFaults = 1
  MaxTime = 2
  Crashing = {}
INVARIANTS
  EnvelopesBacked
PROPERTIES
  WorkersFinish
  ImplementsPromise
CHECK_DEADLOCK FALSE
