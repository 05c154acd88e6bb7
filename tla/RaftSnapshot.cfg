\* A follower lags behind the leader's snapshot; one crash.
SPECIFICATION SpecLagging
CONSTANTS
  Server = {s1, s2, s3}
  Nil = Nil
  SnapshotPoints = {1}
  MaxElections = 1
  MaxStarts = 2
  MaxCrashes = 1
INVARIANTS
  TypeOK
  SnapshotWithinLog
CHECK_DEADLOCK FALSE
