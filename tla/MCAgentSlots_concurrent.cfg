\* Two handlers on one slot and its key; without symmetry: liveness.
SPECIFICATION FairSpec
CONSTANTS
  None = None
  Workers = {w1, w2}
  Agents = {a1}
  Keys = {k1}
INVARIANTS
  TypeOK
PROPERTIES
  BarredComesBackLate
  SilenceIsNoticed
