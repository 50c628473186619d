SPECIFICATION FairSpec
CONSTANTS
  m1 = m1
  m2 = m2
  m3 = m3
  writer = writer
  reader = reader
  Masters <- MCMasters
  Clients <- MCClients
  Role <- MCRole
  Listed <- MCListed
  None = None
  AccessLife = 1
  RefreshLife = 2
  MaxTime = 2
  MaxLogins = 1
  MaxRequests = 1
  MaxElections = 2
  MaxErrors = 1
  Faults = {}
CHECK_DEADLOCK FALSE
INVARIANTS TypeOK AnswersTellTruth AuditMatches OnlyPermitted ForwardedOnce RefusedInTransitionOnly
PROPERTY RequestsAnswered
