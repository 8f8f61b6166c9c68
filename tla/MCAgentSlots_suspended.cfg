\* One handler at a time: an enrollment challenge outlives a suspension.
SPECIFICATION Spec
CONSTANTS
  None = None
  Workers = {w1}
  Agents = {a1}
  Keys = {k1}
PROPERTIES
  SuspensionHolds
