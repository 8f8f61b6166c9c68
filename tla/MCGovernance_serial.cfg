\* One handler at a time: a proposal executes at most once, and for good.
SPECIFICATION Spec
CONSTANTS
  None = None
  Home = Home
  Treasuries = {Home, Other}
  Workers = {w1}
  Proposals = {p1, p2}
  Wallets = {x1, x2}
  Agents = {}
  MaxVersion = 2
SYMMETRY Symmetry
INVARIANTS
  ExecutionsBounded
  OpenProposalsBounded
PROPERTIES
  FateIsFinal
  DecidedByMajority
