\* Four frames for the callback and one subscription that join, lag and leave.
SPECIFICATION PolledSpec
CONSTANTS
  Sizes = {1, 2, 4}
  Buffers <- OneNarrow
  MaxSubscriptions = 1
  MaxSequence = 4
  HasCallback = TRUE
INVARIANTS
  NoGap
  MissingFollowsPrefix
  CompletedSawAll
PROPERTIES
  StreamsKept
  NoFrameTakenAfterReturn
  ShutdownReturns
  ReadersEnd
CHECK_DEADLOCK FALSE
