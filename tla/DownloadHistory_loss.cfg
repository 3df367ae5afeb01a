\* A resumed download and the stream it continues lose their agent.
CONSTANTS
  Requests = {1, 2}
  Size = 1
  Frame = 1
SPECIFICATION FairHistorySpec
PROPERTY EndedRowStaysOnLoss
CHECK_DEADLOCK FALSE
