\* A leader of term 1 leads again in term 3.
SPECIFICATION SpecReturned
CONSTANTS
  Server = {s1, s2, s3}
  Nil = Nil
  SnapshotPoints = {}
  MaxElections = 3
  MaxStarts = 4
  MaxCrashes = 0
INVARIANTS
  StateMachineSafety
CHECK_DEADLOCK FALSE
