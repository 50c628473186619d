SPECIFICATION Spec
CONSTANTS
  Pools <- MCPools
  Requests <- MCRequests
INVARIANTS
  TypeOK
  NoOversubscription
  PortsBoundOnce
  AllOrNothing
  SpreadEvenly
