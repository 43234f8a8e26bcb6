SPECIFICATION Spec
CONSTANTS
  Hashes = {h1}
  NoHash = NoHash
  RefundAfter = 2
  Margin = 1
  StageRetryMax = 1
  MaxPayTries = 2
  MaxFaults = 2
  MaxTime = 2
  Crashing = {"maker", "taker"}
INVARIANTS
  TypeOK
  MakerCanRefund
  EscrowNeedsPrecheck
  EnvelopesBacked
  ReceiptsHonest
PROPERTIES
  ImplementsPromise
CHECK_DEADLOCK FALSE
