SPECIFICATION Spec
CONSTANTS
  Nodes = {n1, n2}
  Services = {s1}
  Replicas = 2
  MaxRecords = 5
  MaxDeaths = 2
  MaxOrphans = 2
  None = None
  Faults = {"refuse", "overdue"}
CHECK_DEADLOCK FALSE
SYMMETRY NodeSymmetry
INVARIANTS
  TypeOK
  ReplicasTracked
  NoDuplicateReplicas
  NoHiddenContainers
