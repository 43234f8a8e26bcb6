SPECIFICATION Spec
CONSTANTS
  t1 = t1
  t2 = t2
  t3 = t3
  q1 = q1
  q2 = q2
  q3 = q3
  q4 = q4
  l1 = l1
  NoLock = NoLock
  Workers = {w1, w2, w3}
  Trades = {t1, t2, t3}
  Taken = {t1}
  Quotes = {q1, q2, q3, q4}
  Lines = {l1}
  TradeOf <- BothTradeOf
  LineOf <- BothLineOf
  Hazards = {"overlap", "lost_reply"}
SYMMETRY WorkerSymmetry
INVARIANTS
  TypeOK
  OneQuotePerLock
  OneTradePerLine
  EndedHoldsNothing
  SoldIsFilled
PROPERTIES
  FilledStays
CONSTRAINT
  OneSide
CHECK_DEADLOCK FALSE
