\* The reply carrying the receiver may be dropped unread.
CONSTANTS
  Window = 1
  Batch = 1
  Last = 3
  AwaitGrant = FALSE
  Rogue = {}
  GrantBound = 0
SPECIFICATION FairFlowSpec
PROPERTY EveryFlowSettles
CHECK_DEADLOCK FALSE
