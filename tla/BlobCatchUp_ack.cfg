SPECIFICATION Spec
CONSTANTS
  Paths = {a}
  PageSize = 2
  MaxSeq = 2
  MaxConnects = 1
  MaxWork = 1
INVARIANTS EntriesAreCurrent
