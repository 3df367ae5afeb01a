\* One session, and two connections of its agent that may overlap.
SPECIFICATION FairTermSpec
CONSTANTS
  Shells = {a}
  MaxLinks = 2
  MaxRequests = 3
  MaxTroubles = 2
INVARIANTS ListAgrees ClosedStaysClosed
PROPERTY ClosedShellEnds
CHECK_DEADLOCK FALSE
