\* A follower lags behind the leader's snapshot and keeps an entry beyond it.
SPECIFICATION SpecLagging
CONSTANTS
  Server = {s1, s2, s3}
  Nil = Nil
  SnapshotPoints = {1}
  MaxElections = 1
  MaxStarts = 3
  MaxCrashes = 0
INVARIANTS
  StateMachineSafety
CHECK_DEADLOCK FALSE
