\* One handler at a time: the limits are exact, groups are atomic.
SPECIFICATION Spec
CONSTANTS
  a1 = a1  a2 = a2  None = None
  Workers = {w1}
  Permits = {p1, p2, p3}
  Agents = {a1, a2}
  Wallets = {1}
  MaxLegs = 2
  Amounts <- SignedAmounts
  Pnls <- Losses
  ResyncTotals = {}
  SlotWrites = {}
  Settlements = {}
  Contents <- TwoAgentContents
  InitialAum = 2
  MaxAum = 2
  AgentCap = 2
  TreasuryCap = 2
  Allocation = 2
SYMMETRY Symmetry
INVARIANTS
  TreasuryCapHolds
PROPERTIES
  OutcomeMovesAum
  AllOrNothing
  ImplementsLedger
