SPECIFICATION Spec
CONSTANTS
  Proc = {p1, p2}
  NoProc = NoProc
  p1 = p1
  p2 = p2
  Member = {m1, m2}
  m1 = m1
  m2 = m2
  Branch = {main, side}
  main = main
  side = side
  Change = {c1, c2}
  c1 = c1
  c2 = c2
  Detached = Detached
  NoRef = NoRef
  NoState = NoState
  NoMember = NoMember
  Trunk = main
  StartRefs <- Starts
  Requests <- MCRequests
  MaxRequests = 2
  MaxEdits = 1
SYMMETRY Symmetry
CHECK_DEADLOCK FALSE
INVARIANTS HeadResolves LockFollowsMembers
PROPERTIES RollbackIsComplete NoBranchLosesWork
