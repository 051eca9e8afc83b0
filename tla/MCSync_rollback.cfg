SPECIFICATION Spec
CONSTANTS
  Member = {m1, m2}
  m1 = m1
  m2 = m2
  Manifests = {{m1, m2}, {m1}}
  Branch = {main, side}
  main = main
  side = side
  Change = {c1, c2}
  c1 = c1
  c2 = c2
  Trunk = main
  Detached = Detached
  NoRef = NoRef
  NoState = NoState
  NoSnapshot = NoSnapshot
  Absent = Absent
  Files = Files
  Disturbed = Disturbed
  Starts <- MCStarts
  SyncModes = {"fetch_only", "ff_only", "merge", "rebase", "reset"}
  MaxRequests = 1
  MaxEdits = 1
CHECK_DEADLOCK FALSE

PROPERTY RollbackRemovesOnlyClones

