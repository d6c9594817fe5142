SPECIFICATION FairSpec
CONSTANTS
  None = None
  Ctrl = {}
  Bulk = {}
  Intr = {i1}
  Isoc = {}
  MaxConcurrent = 1
  MaxConn = 1
PROPERTY InterruptUrbAnswered
CHECK_DEADLOCK FALSE
