\* Nobody dies, but a worker may be slower than the ten seconds of its timer.
SPECIFICATION Spec
CONSTANTS
  Worker = {w1, w2}
  MapTask = {m1, m2}
  ReduceTask = {r1}
  Key = {k1}
  NoTask = NoTask
  SlowWorkers = TRUE
  MaxCrashes = 0
CHECK_DEADLOCK FALSE
INVARIANT
  FinalOutputIsComplete
SYMMETRY Symmetry
