SPECIFICATION Spec
CONSTANTS
  Process = {p1, p2}
  p1 = p1
  p2 = p2
  Path = {a, b, ab}
  a = a
  b = b
  ab = ab
  Inside <- MCInside
  Starts <- MCStarts
  NoFile = NoFile
  Absent = Absent
  Files = Files
  MaxCommits = 2
  MaxRequests = 2
  MaxEdits = 2
  MaxStops = 1
SYMMETRY Symmetry
CHECK_DEADLOCK FALSE
INVARIANTS LockWithinManifest RecordsAgree
PROPERTIES PublishesOwnArtifact RecordsLiveCommits FailedInitLeavesNothing
