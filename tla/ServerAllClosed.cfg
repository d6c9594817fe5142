SPECIFICATION Spec
CONSTANT MaxSession = 1
INVARIANT AllSessionsClosed
CHECK_DEADLOCK FALSE
