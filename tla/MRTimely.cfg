\* Workers that always answer within ten seconds, in spite of two crashes.
SPECIFICATION Spec
CONSTANTS
  Worker = {w1, w2}
  MapTask = {m1, m2}
  ReduceTask = {r1, r2}
  Key = {k1, k2}
  NoTask = NoTask
  SlowWorkers = FALSE
  MaxCrashes = 2
INVARIANTS
  TypeOK
  OutputIsComplete
PROPERTIES
  OutputFinalAfterExit
  WorkersExit
CHECK_DEADLOCK FALSE
