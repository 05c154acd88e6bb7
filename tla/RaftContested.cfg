\* Three servers: an election against a leader's command, with and without crashes; late votes
\* of a first election; and leaders of a term each, with messages of all on their way.
SPECIFICATION SpecContested
CONSTANTS
  Server = {s1, s2, s3}
  Nil = Nil
  SnapshotPoints = {}
  MaxElections = 3
  MaxStarts = 4
  MaxCrashes = 2
INVARIANTS
  ElectionSafety
  EntriesIdentified
  NoIndexPanic
  DecidedOnMajority
  LeaderCompleteness
PROPERTIES
  VoteOnce
  CommitMonotonic
  ImplementsLog
CHECK_DEADLOCK FALSE
