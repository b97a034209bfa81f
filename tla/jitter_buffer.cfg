SPECIFICATION FairSpec
CONSTANTS
  SeqMod = 7
  Target = 1
  FirstSeq = 5
  Window = 3
  MaxPackets = 8
  MaxDups = 1
  LastArrival = 2
INVARIANTS
  Accounted
  CursorAccounted
  InOrderUnlessOvertaken
  LostIsMissing
PROPERTIES
  NoneStranded
