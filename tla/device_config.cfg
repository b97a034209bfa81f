SPECIFICATION ConfigSpec
CONSTANTS
  Calls = {c1, c2}
  Requests <- Bodies
  LongHosts = {"a host of 128 characters"}
  UintMax = 262143
  MaxBoots = 3
INVARIANTS
  AppliedWhole
  AckedInForce
CHECK_DEADLOCK FALSE
