SPECIFICATION Spec
CONSTANTS
  Webhooks = {m1, m2, m3}
  Slow = {m3}
  Nothing = Nothing
  HasRpc = TRUE
  Limit = 2
  Budget = 1
  Slack = 1
  MaxClock = 4
  Requests <- MCRequests
  Quotes <- MCQuotes
  Resting <- MCResting
CHECK_DEADLOCK FALSE
INVARIANTS
  TypeOK
  BestAccepted
PROPERTIES
  AlwaysEnds
