SPECIFICATION FairSpec
CONSTANTS
  Nodes = {n1, n2}
  Services = {s1}
  Replicas = 1
  MaxRecords = 3
  MaxDeaths = 1
  MaxOrphans = 1
  None = None
  Faults = {"refuse", "timeout", "stop", "docker", "overdue"}
CHECK_DEADLOCK FALSE
PROPERTIES
  ServicesSettle
