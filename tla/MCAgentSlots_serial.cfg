\* One handler at a time, two keys that move between two slots.
SPECIFICATION Spec
CONSTANTS
  None = None
  Workers = {w1}
  Agents = {a1, a2}
  Keys = {k1, k2}
SYMMETRY Symmetry
INVARIANTS
  SessionsMatchKeys
