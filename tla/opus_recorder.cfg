SPECIFICATION FairSpec
CONSTANTS
  Loops = {l1, l2}
  Cleanups = {c1, c2}
  ChannelCap = 2
  WarmupSkip = 2
  Preskip = 3
  FrameSamples = 10
  MaxPackets = 4
INVARIANTS
  FileHoldsAccepted
PROPERTIES
  ImplementsRecording
  FinalizeEnds
CHECK_DEADLOCK FALSE
