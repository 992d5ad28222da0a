SPECIFICATION Spec
CONSTANTS
  MaxPeer = 2
  MaxOwn = 1
  MaxDrops = 1
  MaxStarts = 1
  MaxFaults = 1
  Hidden = TRUE
INVARIANTS TypeOK OwnTextIsKept NothingForgotten
PROPERTY SkipsAreSound
CHECK_DEADLOCK FALSE
