SPECIFICATION Spec
CONSTANTS
  MaxIntents = 1
  MaxInc = 2
  MaxWrites = 0
  MaxConnects = 2
  MaxRestarts = 0
  MaxFaults = 0
INVARIANTS RecreateIntentsNeverDelete
CHECK_DEADLOCK FALSE
