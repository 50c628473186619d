SPECIFICATION Spec
CONSTANTS
  Nodes = {n1, n2}
  Services = {s1, s2}
  Replicas = 1
  MaxRecords = 2
  MaxDeaths = 1
  MaxOrphans = 1
  None = None
  Faults = {"delete"}
CHECK_DEADLOCK FALSE
SYMMETRY NodeAndServiceSymmetry
INVARIANTS
  ReplicasTracked
  NoDuplicateReplicas
  RunningIsStarted
