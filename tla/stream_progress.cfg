SPECIFICATION FairSpec
CONSTANTS
  d1 = d1
  d2 = d2
  Streams = {s1}
  Devices = {d1}
  DevOf <- OneDevice
  Stoppers = {t1}
  Monitor = monitor
  None = none
  FixedPort = TRUE
  MaxCrashes = 0
  Scanning = {monitor}
  Recordable = {"wav", "opus"}
INVARIANTS
  RecordingEndsWithStream
PROPERTIES
  NoStreamStuck
