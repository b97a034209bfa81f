SPECIFICATION FairSpec
CONSTANTS
  Workers = {w1, w2}
  Clients = {l1}
  SendCap = 1
  MaxFrames = 2
INVARIANTS
  Delivered
PROPERTIES
  ImplementsRecording
  NeverBlocked
  LeaverUnsubscribed
CHECK_DEADLOCK FALSE
