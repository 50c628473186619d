SPECIFICATION Spec
CONSTANTS
  Masters = {m1}
  Workers = {w1}
  Capacity <- MCCapacity
  Services = {s1}
  Containers = {c1}
  AddedAs = {"RUNNING"}
  SetTo = {"STOPPED"}
  None = None
  MaxLog = 1
  MaxElections = 1
  MaxCrashes = 1
  MaxSnapshots = 1
CHECK_DEADLOCK FALSE
INVARIANT NodesInPools
