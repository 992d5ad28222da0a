CONSTANTS
  Devices = {a, b}
  MaxWords = 3
  MaxDeletes = 2
  MaxFaults = 2
SPECIFICATION Spec
INVARIANTS TypeOK OneLifePerDocument NothingLost
PROPERTY SyncsAgree
CHECK_DEADLOCK FALSE
