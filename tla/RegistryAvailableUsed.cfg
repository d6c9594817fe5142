SPECIFICATION Spec
CONSTANTS
  None = None
  Session = {s1, s2}
  Device = {d1, d2}
  Address = {1}
INVARIANT AvailableIsUnused
CHECK_DEADLOCK FALSE
SYMMETRY Symmetry
