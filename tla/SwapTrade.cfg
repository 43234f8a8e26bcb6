SPECIFICATION Spec
CONSTANTS
  Replicas = {a, b}
  a = a
  b = b
  None = None
  receiver = receiver
  payer = payer
  other = other
  h1 = h1
  h2 = h2
  deal1 = deal1
  deal2 = deal2
  pda1 = pda1
  tx1 = tx1
  tx2 = tx2
  Peers = {receiver, payer, other}
  Hashes = {h1, h2}
  Bolt11s = {h1, h2}
  Deals = {deal1, deal2}
  Pdas = {pda1}
  Txs = {tx1, tx2}
  Reasons = {}
  Envelopes <- RichEnvelopes
INVARIANTS
  TypeOK
  EvidenceChain
  ClaimXorRefund
  CanceledNeverFunded
  AcceptedTermsAgree
PROPERTIES
  RefundWaitsForTerms
  ImplementsPhases
