SPECIFICATION Spec
CONSTANTS
  MaxPeer = 1
  MaxOwn = 1
  MaxDrops = 1
  MaxStarts = 0
  MaxFaults = 0
  Hidden = FALSE
INVARIANT ExemptPushIsReconciled
CHECK_DEADLOCK FALSE
