SPECIFICATION Spec
CONSTANTS
  MaxPeer = 2
  MaxOwn = 0
  MaxDrops = 1
  MaxStarts = 0
  MaxFaults = 0
  Hidden = FALSE
INVARIANT ReconnectHeals
CHECK_DEADLOCK FALSE
