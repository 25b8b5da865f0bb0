SPECIFICATION Spec
CONSTANTS
  Chunk = 2
  MaxTimeouts = 1
  Requests <- SomeRequests
INVARIANT SignalledIsFinished
CHECK_DEADLOCK FALSE
