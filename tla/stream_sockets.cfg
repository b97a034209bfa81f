SPECIFICATION Spec
CONSTANTS
  d1 = d1
  d2 = d2
  Streams = {s1, s2}
  Devices = {d1}
  DevOf <- OneDevice
  Stoppers = {t1}
  Monitor = monitor
  None = none
  FixedPort = TRUE
  MaxCrashes = 0
  Scanning = {d1}
  Recordable = {}
VIEW SocketView
SYMMETRY Interchangeable
INVARIANTS
  OneLivePerDevice
  SocketsMatchStreams
