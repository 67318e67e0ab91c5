SPECIFICATION Spec
CONSTANTS
  Last = 2
  MaxAttempts = 1
  MaxFaults = 3
INVARIANTS TypeOK OneLoop BufferIsFlushed
PROPERTIES KeepsTrying
CHECK_DEADLOCK FALSE
