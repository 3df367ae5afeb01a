\* Two streams for one slot and one command; lanes of one place, so
\* that a cancel may have to wait.  Two connections, and one broken socket or restart.
CONSTANTS
  Streams = {s1, s2}
  Commands = {c1}
  Slots = 1
  PriorityRoom = 1
  CommandRoom = 1
  MaxConnections = 2
  MaxTroubles = 1
SPECIFICATION FairWorkSpec
INVARIANTS CancelFindsItsWorker AdmittedStreamIsTaken
PROPERTIES CallersHear LeftWorkStops
CHECK_DEADLOCK FALSE
