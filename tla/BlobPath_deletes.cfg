SPECIFICATION Spec
CONSTANTS
  Slots = {1}
  MaxContents = 2
  MaxSeq = 3
  MaxOps = 1
  MaxFaults = 1
INVARIANT DeletesAreNoticed
CHECK_DEADLOCK FALSE
