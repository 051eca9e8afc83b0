SPECIFICATION Spec
CONSTANTS
  Member = {m1, m2}
  m1 = m1
  m2 = m2
  Root = Root
  Branch = {main}
  main = main
  Trunk = main
  Tag = {v1}
  v1 = v1
  Change = {c1, c2}
  c1 = c1
  c2 = c2
  Detached = Detached
  NoRef = NoRef
  NoRemote = NoRemote
  Absent = Absent
  Disturbed = Disturbed
  Plain = {}
  Locked = {m1, m2}
  Starts <- MCStarts
  Asked <- MCAsked
  Selections <- MCSelections
  MaxTurns = 2
  WorkspaceRoot <- MCRoot
  PathOf <- MCPathOf
  File <- MCFile
  Asks <- MCAsks
  u1 = u1
  u2 = u2
  g1 = g1
  g2 = g2
  j1 = j1
  old = old
  new = new
  UserEdit = {u1, u2, g1, g2, j1}
  FileOf <- MCFileOf
  Joins = m2
  Version = {old, new}
  Gone = Gone
  NoRecord = NoRecord
  Markers = Markers
  NoMerge = NoMerge
  RootStarts <- MCRootStarts
  Policies <- MCPolicies
  MaxWrites = 5
  MaxMoves = 2
CHECK_DEADLOCK FALSE
PROPERTIES StagedWhereOwned ReportTellsPush ReadyBeforeAnyMoves PublishedOnlyGrows
  TagReachesEveryMember RootKeepsWork  RootSettled
