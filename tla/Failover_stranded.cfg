SPECIFICATION FairSpec
CONSTANTS
  Masters = {m1, m2, m3}
  Workers = {w1, w2}
  Containers = {c1, c2}
  None = None
  MaxDeaths = 1
  MaxElections = 1
  MaxCrashes = 0
  Faults = {"follower"}
CHECK_DEADLOCK FALSE
PROPERTY ReplicaServed
