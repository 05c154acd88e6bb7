\* A follower applies a command and installs a snapshot at the same time.
SPECIFICATION SpecLagging
CONSTANTS
  Server = {s1, s2, s3}
  Nil = Nil
  SnapshotPoints = {1}
  MaxElections = 1
  MaxStarts = 2
  MaxCrashes = 0
INVARIANTS
  ServiceInOrder
CHECK_DEADLOCK FALSE
