SPECIFICATION FairSpec
CONSTANTS
  None = None
  Ctrl = {c1}
  Bulk = {b1}
  Intr = {}
  Isoc = {s1}
  MaxConcurrent = 1
  MaxConn = 1
PROPERTY EventuallyAnswered
CHECK_DEADLOCK FALSE
