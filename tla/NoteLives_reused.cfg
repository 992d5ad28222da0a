CONSTANTS
  Devices = {a, b}
  MaxWords = 3
  MaxDeletes = 2
  MaxFaults = 1
SPECIFICATION Spec
INVARIANT NeverMerged
CHECK_DEADLOCK FALSE
