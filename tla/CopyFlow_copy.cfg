\* One segment and one lost connection, on either side: a partial may be empty, torn
\* or whole, of either version.  CopyFlowProofs has any number of segments.
CONSTANTS
  Segments = 1
  MaxLosses = 1
SPECIFICATION FairCopySpec
INVARIANTS PublishedIsWhole PartialFollowsRow SettledMeansStopped
  ErroredForACause
PROPERTIES KeepsPromise NothingLost CopySettles
CHECK_DEADLOCK FALSE
