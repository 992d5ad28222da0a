CONSTANTS
  late = late
  stays = stays
  Devices = {late, stays, any}
  MaxWords = 4
  MaxDeletes = 2
  MaxFaults = 2
SPECIFICATION Spec
INVARIANT CatchUpsNeverMix
CONSTRAINT Roles
CHECK_DEADLOCK FALSE
