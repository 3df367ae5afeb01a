\* One download under every interleaving of cancel, loss, panic and exit.  The agent
\* may send without credit, and Last leaves it room to.
CONSTANTS
  Window = 1
  Batch = 1
  Last = 3
  AwaitGrant = FALSE
  Rogue = {"sender"}
  GrantBound = 0
SPECIFICATION FairFlowSpec
INVARIANTS FlowTypeOK StoppedMeansCanceled EndedRowIsTrue
  CancelFollowsCommand
PROPERTIES ImplementsCredit TerminalRowStays FlowSettles
CHECK_DEADLOCK FALSE
