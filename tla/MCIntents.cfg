\* Two handlers, and one signed transaction that may be submitted twice.
SPECIFICATION IntentsSpec
CONSTANTS
  a1 = a1  None = None
  Workers = {w1, w2}
  Permits = {p1, p2}
  Payments = {m1}
  Agents = {a1}
  Wallets = {1}
  MaxLegs = 1
  Amounts = {1}
  Pnls <- Losses
  ResyncTotals = {1}
  SlotWrites = {}
  Settlements = {"CONSUMED", "FAILED"}
  Contents <- OneAgentContents
  InitialAum = 1
  MaxAum = 1
  AgentCap = 1
  TreasuryCap = 2
  Allocation = 1
SYMMETRY Symmetry
INVARIANTS
  IntentsTypeOK
  PaidWasAdmitted
  AnswersTruthful
  HaltStopsPayments
PROPERTIES
  ImplementsPermits
  ImplementsRemittance
