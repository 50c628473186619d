SPECIFICATION FairSpec
CONSTANTS
  Nodes = {w1, w2}
  Threads = {t1, t2}
  Services = {s1}
  All = All
  None = None
  MaxSeq = 5
  MaxWants = 1
  MaxKills = 1
  MaxStops = 1
  MaxErrors = 1
  MaxOverlaps = 1
CHECK_DEADLOCK FALSE
INVARIANTS
  TypeOK
  NothingLeaks
  KillLeavesNothing
PROPERTIES
  KillSparesOthers
  StartSucceeds
