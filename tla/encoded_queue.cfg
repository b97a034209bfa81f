SPECIFICATION Spec
CONSTANTS
  Slots = 2
  SlotSize = 2
  Bytes = {1, 2}
  OutCaps = {1, 2}
  MaxLen = 3
  MaxOffers = 4
INVARIANTS
  Conserved
PROPERTIES
  DropsOldest
