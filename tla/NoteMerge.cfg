CONSTANTS
  MaxPeer = 2
  MaxOwn = 1
  MaxQueued = 1
  MaxFaults = 1
  Around = {"panes", "external", "scan"}
SPECIFICATION Spec
INVARIANTS TypeOK OwnTextIsKept ConvergesAtRest
PROPERTY RevertsOnlyBesideAWrite
CHECK_DEADLOCK FALSE
