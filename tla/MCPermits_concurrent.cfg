\* Two handlers in flight, one agent on one wallet with a cap of one permit.
SPECIFICATION Spec
CONSTANTS
  a1 = a1  a2 = a2  None = None
  Workers = {w1, w2}
  Permits = {p1, p2, p3}
  Agents = {a1}
  Wallets = {1}
  MaxLegs = 1
  Amounts <- SignedAmounts
  Pnls <- Losses
  ResyncTotals = {}
  SlotWrites = {}
  Settlements = {}
  Contents <- LargeTierContents
  InitialAum = 2
  MaxAum = 2
  AgentCap = 1
  TreasuryCap = 3
  Allocation = 2
SYMMETRY Symmetry
INVARIANTS
  TypeOK
  AgentCapHolds
  AllocationHolds
  HaltContained
  RevocationContained
PROPERTIES
  NoReactivation
