SPECIFICATION FairSpec
CONSTANTS
  Proc = {p1}
  NoProc = NoProc
  Member = {m1, m2}
  NoMember = NoMember
  NoRec = NoRec
  Kind = {"untracked"}
  PushOptions <- PlainOrEverything
  FreshIds = TRUE
  MaxRequests = 3
  MaxEdits = 1
INVARIANT PayloadOnRecord
PROPERTIES PushEndsDecided LockComesFree
CHECK_DEADLOCK FALSE
