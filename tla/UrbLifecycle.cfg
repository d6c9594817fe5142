SPECIFICATION Spec
CONSTANTS
  None = None
  Ctrl = {}
  Bulk = {b1}
  Intr = {i1}
  Isoc = {}
  MaxConcurrent = 1
  MaxConn = 2
INVARIANTS TypeOK NoAnswerWhileOwned SlotsReturned StopGuardsSession FaultCauses
PROPERTY MeetsContract
CHECK_DEADLOCK FALSE
