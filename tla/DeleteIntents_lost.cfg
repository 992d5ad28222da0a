SPECIFICATION Spec
CONSTANTS
  MaxIntents = 1
  MaxInc = 1
  MaxWrites = 0
  MaxConnects = 2
  MaxRestarts = 1
  MaxFaults = 0
PROPERTY LostDeleteReappears
CHECK_DEADLOCK FALSE
