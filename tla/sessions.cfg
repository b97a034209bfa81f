SPECIFICATION FairSpec
CONSTANTS
  Conns = {c1, c2}
  StreamCalls = {q1}
  PlainCalls = {q2}
  None = none
  MaxPings = 1
INVARIANTS
  CurrentNotEvicted
  NoDeadSession
  AnsweredByOwn
PROPERTIES
  DeadLinkReaped
CHECK_DEADLOCK FALSE
