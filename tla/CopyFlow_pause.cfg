\* A pause while the copy of a changed source is being discarded.
CONSTANTS
  Segments = 1
  MaxLosses = 0
SPECIFICATION CopySpec
INVARIANT PausedIsDurable
CHECK_DEADLOCK FALSE
