SPECIFICATION PipelineSpec
CONSTANTS
  RingCap = 2
  QueueCap = 1
  FrameChunks = 2
  Reporting = TRUE
  MaxStreams = 2
  MaxChunks = 4
INVARIANTS
  PipelineTypeOK
  TasksOutlived
  NothingLeft
  SentAsCaptured
CHECK_DEADLOCK FALSE
