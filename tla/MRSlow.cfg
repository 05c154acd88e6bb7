\* Live workers may hold a task for longer than ten seconds.
SPECIFICATION Spec
CONSTANTS
  Worker = {w1, w2}
  MapTask = {m1, m2}
  ReduceTask = {r1}
  Key = {k1}
  NoTask = NoTask
  SlowWorkers = TRUE
  MaxCrashes = 1
INVARIANTS
  CountersExact
  MapsBeforeReduces
  OneWatchPerAssignment
  NoMissingInput
PROPERTIES
  JobFinishes
  ImplementsJob
CHECK_DEADLOCK FALSE
