\* Two handlers: an edit, a rollback or a revocation against an execution.
SPECIFICATION Spec
CONSTANTS
  None = None
  Home = Home
  Treasuries = {Home, Other}
  Workers = {w1, w2}
  Proposals = {p1}
  Wallets = {x1}
  Agents = {a1, a2}
  MaxVersion = 2
SYMMETRY Symmetry
INVARIANTS
  TypeOK
  HistorySound
PROPERTIES
  ImplementsCharter
  RevocationDropsOnlyAgent
