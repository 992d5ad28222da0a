SPECIFICATION Spec
CONSTANTS
  Paths = {a, b}
  PageSize = 1
  MaxSeq = 3
  MaxConnects = 2
  MaxWork = 1
INVARIANTS TypeOK CursorCertifies FollowUpScheduled
PROPERTY LaneRests
