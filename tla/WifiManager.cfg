SPECIFICATION Spec
CONSTANTS
  MaxRetries = 2
  MaxCalls = 1
  MaxLosses = 1
  MaxRestarts = 1
INVARIANTS TypeOK Reachable FlagsTrue
PROPERTIES FirstAttemptWaits ServerStarts ConfigApplied
CHECK_DEADLOCK FALSE
