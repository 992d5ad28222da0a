SPECIFICATION Spec
CONSTANTS
  a = a
  b = b
  r1 = r1
  r2 = r2
  r3 = r3
  r4 = r4
  Paths = {a, b}
  Requests = {r1, r2, r3, r4}
  PathOf <- MCPathOf
  MaxSockets = 3
  MaxStarts = 2
SYMMETRY Symmetry
INVARIANTS TypeOK SlotUntilDrained
PROPERTIES ImplementsCalls RetiresOnlyIfOwed
