SPECIFICATION Spec
CONSTANTS
  m1 = m1
  m2 = m2
  t = t
  Makers = {m1, m2}
  Taker = t
  Rfqs = {1}
  PingMax = 2
  ReplayMax = 2
  MaxFaults = 2
  None = None
INVARIANTS TypeOK AcceptsItsMaker OneCommitment
PROPERTIES RetriesReach
CHECK_DEADLOCK FALSE
