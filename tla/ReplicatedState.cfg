SPECIFICATION Spec
CONSTANTS
  Masters = {m1, m2}
  Workers = {w1}
  Capacity <- MCCapacity
  Services = {s1}
  Containers = {c1}
  AddedAs = {"RUNNING"}
  SetTo = {"RESCHEDULING", "STOPPED"}
  None = None
  MaxLog = 3
  MaxElections = 1
  MaxCrashes = 1
  MaxSnapshots = 1
SYMMETRY MasterSymmetry
CHECK_DEADLOCK FALSE
INVARIANTS TypeOK StateFollowsLog NodeInOnePlace
