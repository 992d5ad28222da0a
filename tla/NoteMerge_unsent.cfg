CONSTANTS
  MaxPeer = 3
  MaxOwn = 1
  MaxQueued = 2
  MaxFaults = 0
  Around = {}
SPECIFICATION Spec
INVARIANT BurstsAreSent
CHECK_DEADLOCK FALSE
