SPECIFICATION Spec
CONSTANTS
  None = None
  Ctrl = {}
  Bulk = {b1}
  Intr = {}
  Isoc = {}
  MaxConcurrent = 1
  MaxConn = 1
INVARIANT NoUseAfterDisconnection
CHECK_DEADLOCK FALSE
