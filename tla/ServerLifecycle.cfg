SPECIFICATION FairSpec
CONSTANT MaxSession = 3
INVARIANTS TypeOK ServingIsListed ReturnsLate FaultCauses
PROPERTIES NoStartAfterJoin StopTerminates
CHECK_DEADLOCK FALSE
