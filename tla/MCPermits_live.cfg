\* Two handlers and two permits, without symmetry: liveness.
SPECIFICATION FairSpec
CONSTANTS
  a1 = a1  a2 = a2  None = None
  Workers = {w1, w2}
  Permits = {p1, p2}
  Agents = {a1}
  Wallets = {1}
  MaxLegs = 1
  Amounts = {1}
  Pnls <- Losses
  ResyncTotals = {}
  SlotWrites = {"SUSPENDED"}
  Settlements = {"CONSUMED", "FAILED"}
  Contents <- SingleAgentContents
  InitialAum = 1
  MaxAum = 1
  AgentCap = 1
  TreasuryCap = 3
  Allocation = 1
PROPERTIES
  PermitsDrain
  HandlersFinish
