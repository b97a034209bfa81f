SPECIFICATION Spec
CONSTANTS
  Capacity = 3
  Samples = {1, 2}
  SizeMax = 255
  MaxBlock = 4
  MaxTotal = 8
INVARIANTS
  Conserved
  WatermarksBracket
PROPERTIES
  DropsOldest
