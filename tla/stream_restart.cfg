SPECIFICATION Spec
CONSTANTS
  d1 = d1
  d2 = d2
  Streams = {s1, s2}
  Devices = {d1}
  DevOf <- OneDevice
  Stoppers = {}
  Monitor = monitor
  None = none
  FixedPort = FALSE
  MaxCrashes = 1
  Scanning = {monitor}
  Recordable = {}
SYMMETRY Interchangeable
INVARIANTS
  SocketOwned
  ReplacedIsPersisted
  NoGhostRows
PROPERTIES
  LifecycleFollowed
