SPECIFICATION FairSpec
CONSTANTS
  Masters = {m1, m2, m3}
  Workers = {w1, w2}
  Containers = {c1, c2, c3}
  None = None
  MaxDeaths = 1
  MaxElections = 1
  MaxCrashes = 1
  Faults = {"refuse"}
CHECK_DEADLOCK FALSE
INVARIANTS TypeOK OneActiveRecord
PROPERTY ReplicaServed
