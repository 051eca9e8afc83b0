SPECIFICATION EmitSpec
CONSTANTS
  Count = 3
  Host = {h1}
  NoHost = NoHost
  GlobalLimit = 2
  PerHostLimit = 1
  Panics = TRUE
  MaxUpdates = 1
  NoEvent = NoEvent
INVARIANTS GlobalCap HostCap EachItemOnce MemberOrder NumbersComplete EveryMemberHeard
PROPERTY CallEnds
CHECK_DEADLOCK FALSE
