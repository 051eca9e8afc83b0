SPECIFICATION Spec
CONSTANTS
  Proc = {p1, p2}
  NoProc = NoProc
  Member = {m1, m2}
  NoMember = NoMember
  NoRec = NoRec
  Kind = {"unstaged"}
  PushOptions <- TrackedOnly
  FreshIds = TRUE
  MaxRequests = 3
  MaxEdits = 1
SYMMETRY Symmetry
INVARIANTS MutatorExclusion ConsumedIsGone
PROPERTIES RemovalLeavesNoOrphan RestoreMatchesBundle
CHECK_DEADLOCK FALSE
