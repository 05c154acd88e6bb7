---------------------------- MODULE MCMapReduce ----------------------------
EXTENDS MapReduce, TLC

\* Tasks, keys and workers are interchangeable in runs without liveness.
Symmetry ==
  Permutations(Worker) \cup Permutations(MapTask) \cup Permutations(Key)
=============================================================================
