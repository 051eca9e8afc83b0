SPECIFICATION Spec
CONSTANTS
  Proc = {p1, p2}
  NoProc = NoProc
  Member = {m1, m2}
  NoMember = NoMember
  NoRec = NoRec
  Kind = {"unstaged"}
  PushOptions <- TrackedOnly
  FreshIds = TRUE
  MaxRequests = 3
  MaxEdits = 0
SYMMETRY Symmetry
PROPERTY OnlySelectedRecordsUpdated
CHECK_DEADLOCK FALSE
