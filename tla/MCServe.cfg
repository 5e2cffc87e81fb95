SPECIFICATION Spec
CONSTANTS
  MaxInput = 6
  MaxRequestBytes = 2
  MaxBatchItems = 2
  Objects <- MCObjects
INVARIANTS FramesExact OneReplyPerLine ReplyFitsRequest StdoutPure
CHECK_DEADLOCK FALSE
