------------------------------- MODULE MRJob -------------------------------
(***************************************************************************)
(* What the MapReduce library of src/Distributed Systems/mr promises to    *)
(* its user: every map task is finished once, every reduce task is         *)
(* finished once, no reduce task is finished before all the map tasks are, *)
(* and the job as a whole finishes.  Which worker runs a task, how often a *)
(* task is handed out and which processes die on the way is not visible    *)
(* here; module MapReduce implements this one.                             *)
(***************************************************************************)
CONSTANTS MapTask, ReduceTask

VARIABLES finishedMaps,     \* the map tasks the job has finished
          finishedReduces   \* the reduce tasks the job has finished

jobVars == <<finishedMaps, finishedReduces>>

Init == finishedMaps = {} /\ finishedReduces = {}

FinishMap(m) ==
  /\ m \notin finishedMaps
  /\ finishedMaps' = finishedMaps \cup {m}
  /\ UNCHANGED finishedReduces

FinishReduce(r) ==
  /\ finishedMaps = MapTask
  /\ r \notin finishedReduces
  /\ finishedReduces' = finishedReduces \cup {r}
  /\ UNCHANGED finishedMaps

Next ==
  \/ \E m \in MapTask : FinishMap(m)
  \/ \E r \in ReduceTask : FinishReduce(r)

Spec == Init /\ [][Next]_jobVars /\ WF_jobVars(Next)
=============================================================================
