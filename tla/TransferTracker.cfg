SPECIFICATION Spec
CONSTANTS
  None = None
  Thread = {receiver, events, other}
  Registrar = {receiver}
  Clearer = {receiver}
  u1 = u1
  u2 = u2
  u3 = u3
  URB = {u1, u2, u3}
  segmentOf <- MCSegmentOf
  Segments = 2
  MaxConcurrent = 2
  CounterSize = 8
INVARIANTS TypeOK LimitKept CountIsExact
PROPERTY MeetsContract
