\* Three requests for a file of two blocks, each resuming what it can.
CONSTANTS
  Requests = {1, 2, 3}
  Size = 2
  Frame = 1
SPECIFICATION HistorySpec
INVARIANTS OneDriver CountsItsDriver CancelIsOwed
PROPERTY EndedRowStays
CHECK_DEADLOCK FALSE
