SPECIFICATION Spec
CONSTANTS
  None = None
  Session = {s1, s2, s3}
  Device = {d1, d2}
  Address = {1, 2}
INVARIANT UsedIsKept
CHECK_DEADLOCK FALSE
SYMMETRY Symmetry
