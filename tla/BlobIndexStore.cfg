SPECIFICATION FairSpec
CONSTANTS
  Updates = {u1, u2, u3}
  Absent = Absent
  Torn = Torn
  MaxFaults = 3
  MaxQueue = 2
INVARIANTS
  TypeOK
  NoDurableLoss
  ServesWhatIsStored
  FlushMeansStored
PROPERTIES ImplementsRegister EventuallyStored
