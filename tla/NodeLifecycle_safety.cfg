SPECIFICATION Spec
CONSTANTS
  Nodes = {n1}
  Threads = {t1, t2}
  SuspectAfter = 1
  DeadAfter = 2
  MaxOrphans = 1
  Faults = {"timeout"}
SYMMETRY ThreadSymmetry
INVARIANTS
  TypeOK
  OneKillerPerNode
  NoSplitBrain
  KillersWorkOnDead
PROPERTIES
  NodeStatusSpec
