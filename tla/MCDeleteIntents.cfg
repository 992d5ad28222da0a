SPECIFICATION Spec
CONSTANTS
  MaxIntents = 2
  MaxInc = 2
  MaxWrites = 2
  MaxConnects = 2
  MaxRestarts = 1
  MaxFaults = 1
CONSTRAINT Budget
INVARIANTS TypeOK SentOnce AttemptIsDurable
PROPERTY NeverDeletesLaterWrites
CHECK_DEADLOCK FALSE
