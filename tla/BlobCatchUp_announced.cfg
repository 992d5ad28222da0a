SPECIFICATION Spec
CONSTANTS
  Paths = {a, b}
  PageSize = 2
  MaxSeq = 2
  MaxConnects = 1
  MaxWork = 0
INVARIANTS AnnouncementFetched
