\* One handler, one proposal, one wallet: the handler stops after EXECUTED.
SPECIFICATION Spec
CONSTANTS
  None = None
  Home = Home
  Treasuries = {Home}
  Workers = {w1}
  Proposals = {p1}
  Wallets = {x1}
  Agents = {a1}
  MaxVersion = 1
INVARIANTS
  ExecutedIsApplied
