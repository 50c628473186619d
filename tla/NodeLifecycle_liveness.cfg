SPECIFICATION FairSpec
CONSTANTS
  Nodes = {n1}
  Threads = {t1}
  SuspectAfter = 1
  DeadAfter = 2
  MaxOrphans = 1
  Faults = {"docker", "leadership", "preempt"}
PROPERTIES
  ReturningNodeRevived
  SilentNodeDeclaredDead
