\* Five servers: a vote of an earlier election makes a majority.
SPECIFICATION Spec
CONSTANTS
  Server = {s1, s2, s3, s4, s5}
  Nil = Nil
  SnapshotPoints = {}
  MaxElections = 3
  MaxStarts = 0
  MaxCrashes = 0
INVARIANTS
  ElectionSafety
SYMMETRY Symmetry
CHECK_DEADLOCK FALSE
