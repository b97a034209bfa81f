SPECIFICATION FairSpec
CONSTANTS
  WIFI_RECONNECT_MIN = 1
  WIFI_RECONNECT_MAX = 16
  RECONNECT_MIN = 1
  RECONNECT_MAX = 16
  READ_TIMEOUT = 5
  CONTROL_DEAD = 30
INVARIANTS
  ReconnectPending
  NeverAhead
  FreshSession
PROPERTIES
  StreamEnds
  Retries
