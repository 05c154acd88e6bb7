-------------------------- MODULE MapReduceProofs --------------------------
(***************************************************************************)
(* What module MapReduce guarantees for every number of workers, tasks and *)
(* keys, whether workers are slow or not, and however many die.            *)
(***************************************************************************)
EXTENDS MapReduce, FiniteSetTheorems, TLAPS

\* The files of map task m have all been created.
Written(m) == \A r \in ReduceTask : inter[m][r] # "absent"

\* A worker's program counter agrees with its task and its loop, and what it
\* is about to report is on disk.
WorkerInv ==
  \A w \in Worker :
    /\ pc[w] \in {"map", "write"} => task[w] \in MapTask
    /\ pc[w] \in {"read", "output", "line"} => task[w] \in ReduceTask
    /\ pc[w] = "write" => todo[w] \subseteq ReduceTask /\ Written(task[w])
    /\ pc[w] = "read" => todo[w] \subseteq MapTask
    /\ pc[w] = "line" => todo[w] \subseteq Key
    /\ args[w] \in MapTask => Written(args[w])
    /\ args[w] \in ReduceTask => Unfinished(MapTask) = {}

CompletedIsWritten == \A m \in MapTask : status[m] = "COMPLETED" => Written(m)

\* The inductive invariant.
IInv == /\ TypeOK
        /\ CountersExact
        /\ MapsBeforeReduces
        /\ OneWatchPerAssignment
        /\ WorkerInv
        /\ CompletedIsWritten

-----------------------------------------------------------------------------
LEMMA UnfinishedFinite ==
  ASSUME NEW st, NEW level, level = MapTask \/ level = ReduceTask
  PROVE  /\ IsFiniteSet({x \in level : st[x] # "COMPLETED"})
         /\ Cardinality({x \in level : st[x] # "COMPLETED"}) \in Nat
         /\ Cardinality({x \in level : st[x] # "COMPLETED"}) = 0
              <=> {x \in level : st[x] # "COMPLETED"} = {}
<1> DEFINE U == {x \in level : st[x] # "COMPLETED"}
<1>1. IsFiniteSet(level) /\ U \in SUBSET level
  BY MRAssumption DEF MRAssumption
<1>2. IsFiniteSet(U)
  BY <1>1, FS_Subset
<1>3. QED
  BY <1>2, FS_CardinalityType, FS_EmptySet

\* Booking a report completes at most the reported task, and each counter still
\* counts the tasks that are not completed (taskDone).
LEMMA BookReport ==
  ASSUME TypeOK, CountersExact, NEW t \in TaskOrNone
  PROVE  /\ StatusAfter(t) \in [Task -> {"FREE", "ASSIGNED", "COMPLETED"}]
         /\ \A x \in Task : x # t => StatusAfter(t)[x] = status[x]
         /\ t \in Task => StatusAfter(t)[t] = "COMPLETED"
         /\ LeftAfter(nMap, MapTask, t)
              = Cardinality({x \in MapTask : StatusAfter(t)[x] # "COMPLETED"})
         /\ LeftAfter(nReduce, ReduceTask, t)
              = Cardinality({x \in ReduceTask : StatusAfter(t)[x] # "COMPLETED"})
<1>1. /\ StatusAfter(t) \in [Task -> {"FREE", "ASSIGNED", "COMPLETED"}]
      /\ \A x \in Task : x # t => StatusAfter(t)[x] = status[x]
      /\ t \in Task => StatusAfter(t)[t] = "COMPLETED"
  BY MRAssumption DEF StatusAfter, CountDone, TypeOK, CoordTypeOK, TaskOrNone, MRAssumption
<1>2. ASSUME NEW n, NEW level, level = MapTask \/ level = ReduceTask,
             n = Cardinality(Unfinished(level))
      PROVE  LeftAfter(n, level, t)
               = Cardinality({x \in level : StatusAfter(t)[x] # "COMPLETED"})
  <2> DEFINE U == {x \in level : StatusAfter(t)[x] # "COMPLETED"}
  <2>1. CASE CountDone(t) /\ t \in level
    <3>1. t \in Unfinished(level) /\ U = Unfinished(level) \ {t}
      BY <1>1, <1>2, <2>1 DEF Unfinished, CountDone, Task
    <3>2. IsFiniteSet(Unfinished(level))
      BY <1>2, UnfinishedFinite DEF Unfinished
    <3>3. Cardinality(U) = n - 1
      BY <1>2, <3>1, <3>2, FS_RemoveElement
    <3>4. QED
      BY <2>1, <3>3 DEF LeftAfter
  <2>2. CASE ~(CountDone(t) /\ t \in level)
    <3>1. U = Unfinished(level)
      BY <1>1, <1>2, <2>2, MRAssumption
      DEF Unfinished, CountDone, StatusAfter, Task, TaskOrNone, MRAssumption
    <3>2. QED
      BY <1>2, <2>2, <3>1 DEF LeftAfter
  <2>3. QED
    BY <2>1, <2>2
<1>3. QED
  BY <1>1, <1>2 DEF CountersExact

\* What a request does to the coordinator's state.
LEMMA AskPreserves ==
  ASSUME IInv, NEW w \in Worker, AskForTask(w)
  PROVE  IInv'
<1> DEFINE t == args[w]
           st == StatusAfter(t)
           nm == LeftAfter(nMap, MapTask, t)
           Left(level) == {x \in level : st[x] # "COMPLETED"}
<1> USE DEF IInv, Task, TaskOrNone
<1>1. t = args[w] /\ t \in TaskOrNone
  BY DEF TypeOK, WorkerTypeOK
<1>2. /\ st \in [Task -> {"FREE", "ASSIGNED", "COMPLETED"}]
      /\ \A x \in Task : x # t => st[x] = status[x]
      /\ t \in Task => st[t] = "COMPLETED"
      /\ nMap' = Cardinality(Left(MapTask)) /\ nm = Cardinality(Left(MapTask))
      /\ nReduce' = Cardinality(Left(ReduceTask))
  <2>1. /\ st \in [Task -> {"FREE", "ASSIGNED", "COMPLETED"}]
        /\ \A x \in Task : x # t => st[x] = status[x]
        /\ t \in Task => st[t] = "COMPLETED"
        /\ LeftAfter(nMap, MapTask, t) = Cardinality(Left(MapTask))
        /\ LeftAfter(nReduce, ReduceTask, t) = Cardinality(Left(ReduceTask))
    BY <1>1, BookReport
  <2>2. nMap' = nm /\ nReduce' = LeftAfter(nReduce, ReduceTask, t)
    BY DEF AskForTask
  <2> QED BY <2>1, <2>2
<1>3. /\ Left(MapTask) \subseteq Unfinished(MapTask)
      /\ nm = 0 <=> Left(MapTask) = {}
      /\ nMap' \in Nat /\ nReduce' \in Nat
  <2>1. Left(MapTask) \subseteq Unfinished(MapTask)
    BY <1>2 DEF Unfinished
  <2>2. /\ IsFiniteSet(Left(MapTask))
        /\ IsFiniteSet(Left(ReduceTask))
    BY UnfinishedFinite
  <2>3. /\ Cardinality(Left(MapTask)) \in Nat
        /\ Cardinality(Left(ReduceTask)) \in Nat
        /\ Cardinality(Left(MapTask)) = 0 <=> Left(MapTask) = {}
    <3> HIDE DEF Left
    <3> QED BY <2>2, FS_CardinalityType, FS_EmptySet
  <2> HIDE DEF Left, nm
  <2> QED BY <1>2, <2>1, <2>3
<1>4. /\ UNCHANGED <<running, args, input, pos, crashes, inter, out>>
      /\ pc[w] = "ask"
      /\ \A m \in MapTask : Written(m)' <=> Written(m)
  BY DEF AskForTask, fileVars, Written
<1>5. \A m \in MapTask : st[m] = "COMPLETED" => Written(m)
  BY <1>1, <1>2 DEF CompletedIsWritten, WorkerInv
<1>6. CASE status' = st /\ UNCHANGED <<timers, task, pc, todo>>
  <2>1. \A level : Unfinished(level)' = Left(level)
    BY <1>6 DEF Unfinished
  <2>2. TypeOK'
    BY <1>2, <1>3, <1>4, <1>6 DEF TypeOK, CoordTypeOK, WorkerTypeOK, FileTypeOK
  <2>3. CountersExact'
    BY <1>2, <2>1 DEF CountersExact
  <2>4. MapsBeforeReduces'
    BY <1>1, <1>2, <1>3, <1>6, <2>1 DEF MapsBeforeReduces, WorkerInv
  <2>5. OneWatchPerAssignment'
    BY <1>2, <1>6 DEF OneWatchPerAssignment
  <2>6. WorkerInv' /\ CompletedIsWritten'
    BY <1>3, <1>4, <1>5, <1>6, <2>1 DEF WorkerInv, TypeOK, WorkerTypeOK, CompletedIsWritten
  <2>7. QED
    BY <2>2, <2>3, <2>4, <2>5, <2>6
<1>7. ASSUME NEW new \in Offer(st, nm),
             status' = [st EXCEPT ![new] = "ASSIGNED"],
             timers' = [timers EXCEPT ![new] = @ + 1],
             task' = [task EXCEPT ![w] = new],
             pc' = [pc EXCEPT ![w] = IF new \in MapTask THEN "map" ELSE "read"],
             todo' = [todo EXCEPT ![w] = IF new \in MapTask THEN {} ELSE MapTask]
      PROVE  IInv'
  <2>1. /\ new \in Task /\ st[new] = "FREE" /\ status[new] = "FREE"
        /\ new \in ReduceTask => Left(MapTask) = {}
        /\ new \in MapTask => new \notin ReduceTask
    BY <1>2, <1>3, MRAssumption DEF Offer, MRAssumption
  <2>2. \A level : level = MapTask \/ level = ReduceTask => Unfinished(level)' = Left(level)
    BY <1>2, <1>7, <2>1 DEF Unfinished
  <2>3. TypeOK'
    <3>1. CoordTypeOK'
      BY <1>2, <1>3, <1>4, <1>7, <2>1 DEF TypeOK, CoordTypeOK
    <3>2. WorkerTypeOK'
      BY <1>4, <1>7, <2>1 DEF TypeOK, WorkerTypeOK
    <3>3. QED
      BY <1>4, <3>1, <3>2 DEF TypeOK, FileTypeOK
  <2>4. CountersExact'
    BY <1>2, <2>2 DEF CountersExact
  <2>5. MapsBeforeReduces'
    BY <1>1, <1>2, <1>3, <1>7, <2>1, <2>2
    DEF MapsBeforeReduces, WorkerInv, TypeOK, WorkerTypeOK
  <2>6. OneWatchPerAssignment'
    BY <1>2, <1>7, <2>1 DEF OneWatchPerAssignment, TypeOK, CoordTypeOK
  <2>7. WorkerInv'
    BY <1>3, <1>4, <1>7, <2>1, <2>2 DEF WorkerInv, TypeOK, WorkerTypeOK
  <2>8. CompletedIsWritten'
    BY <1>2, <1>4, <1>5, <1>7, <2>1 DEF CompletedIsWritten
  <2>9. QED
    BY <2>3, <2>4, <2>5, <2>6, <2>7, <2>8
<1>8. QED
  BY <1>6, <1>7 DEF AskForTask, Watch

\* A timer frees a task that nobody has completed.
LEMMA CheckProgressPreserves ==
  ASSUME IInv, NEW t \in Task, CheckProgress(t)
  PROVE  IInv'
<1> USE DEF IInv, Task, TaskOrNone
<1>1. /\ UNCHANGED <<nMap, nReduce, running, pc, task, args, todo, input, pos, crashes, inter, out>>
      /\ timers[t] > 0
      /\ timers' = [timers EXCEPT ![t] = @ - 1]
      /\ status' = IF status[t] = "ASSIGNED" THEN [status EXCEPT ![t] = "FREE"] ELSE status
  BY DEF CheckProgress, workerVars, fileVars
<1>2. \A level : level = MapTask \/ level = ReduceTask => Unfinished(level)' = Unfinished(level)
  BY <1>1 DEF Unfinished, TypeOK, CoordTypeOK
<1>3. TypeOK'
  <2>1. CoordTypeOK'
    BY <1>1 DEF TypeOK, CoordTypeOK
  <2>2. WorkerTypeOK' /\ FileTypeOK'
    BY <1>1 DEF TypeOK, WorkerTypeOK, FileTypeOK
  <2>3. QED
    BY <2>1, <2>2 DEF TypeOK
<1>4. CountersExact'
  BY <1>1, <1>2 DEF CountersExact
<1>5. MapsBeforeReduces'
  BY <1>1, <1>2 DEF MapsBeforeReduces, TypeOK, CoordTypeOK
<1>6. OneWatchPerAssignment'
  BY <1>1 DEF OneWatchPerAssignment, TypeOK, CoordTypeOK
<1>7. WorkerInv'
  BY <1>1, <1>2 DEF WorkerInv, Written
<1>8. CompletedIsWritten'
  BY <1>1 DEF CompletedIsWritten, Written, TypeOK, CoordTypeOK
<1>9. QED
  BY <1>3, <1>4, <1>5, <1>6, <1>7, <1>8

\* A step of a worker that leaves the coordinator alone, forgets no file and
\* takes no new task only has to keep the worker's own part of the invariant.
LEMMA WorkerStepPreserves ==
  ASSUME IInv,
         UNCHANGED <<status, nMap, nReduce, timers>>,
         CoordTypeOK', WorkerTypeOK', FileTypeOK',
         \A v \in Worker : task'[v] = task[v] \/ task'[v] = NoTask,
         \A m \in MapTask : Written(m) => Written(m)',
         Unfinished(MapTask)' = Unfinished(MapTask) => WorkerInv'
  PROVE  IInv'
<1> USE DEF IInv, Task, TaskOrNone
<1>1. \A level : Unfinished(level)' = Unfinished(level)
  BY DEF Unfinished
<1>2. TypeOK' /\ CountersExact' /\ OneWatchPerAssignment'
  BY <1>1 DEF TypeOK, CountersExact, OneWatchPerAssignment
<1>3. MapsBeforeReduces'
  BY <1>1, MRAssumption DEF MapsBeforeReduces, MRAssumption
<1>4. WorkerInv' /\ CompletedIsWritten'
  BY <1>1 DEF CompletedIsWritten
<1>5. QED
  BY <1>2, <1>3, <1>4

\* A write at an offset leaves a sequence of lines and holes.
LEMMA WriteAtType ==
  ASSUME NEW file \in Seq(OutLine), NEW p \in Nat, NEW line \in OutLine
  PROVE  WriteAt(file, p, line) \in Seq(OutLine)
<1> DEFINE n == IF Len(file) > p THEN Len(file) ELSE p + 1
           x(i) == IF i = p + 1 THEN line ELSE IF i <= Len(file) THEN file[i] ELSE Hole
<1>1. n \in Nat
  OBVIOUS
<1>2. \A i \in 1 .. n : x(i) \in OutLine
  BY DEF OutLine
<1>3. [i \in 1 .. n |-> x(i)] \in Seq(OutLine)
  BY <1>1, <1>2
<1>4. QED
  BY <1>3 DEF WriteAt

LEMMA CreateFilesPreserves ==
  ASSUME IInv, NEW w \in Worker, CreateFiles(w)
  PROVE  IInv'
<1> USE DEF IInv, TypeOK, Task, TaskOrNone
<1>1. /\ UNCHANGED <<status, nMap, nReduce, timers, running, task, args, input, pos, crashes, out>>
      /\ pc[w] = "map" /\ task[w] \in MapTask
      /\ inter' = [inter EXCEPT ![task[w]] = [r \in ReduceTask |-> "empty"]]
      /\ pc' = [pc EXCEPT ![w] = "write"]
      /\ todo' = [todo EXCEPT ![w] = ReduceTask]
  BY DEF CreateFiles, coordVars, WorkerInv
<1>2. CoordTypeOK'
  BY <1>1 DEF CoordTypeOK
<1>3. WorkerTypeOK'
  BY <1>1 DEF WorkerTypeOK
<1>4. FileTypeOK'
  BY <1>1 DEF FileTypeOK
<1>5. Written(task[w])' /\ \A m \in MapTask : Written(m) => Written(m)'
  BY <1>1 DEF Written, FileTypeOK
<1>6. ASSUME Unfinished(MapTask)' = Unfinished(MapTask) PROVE WorkerInv'
  BY <1>1, <1>5, <1>6 DEF WorkerInv, WorkerTypeOK, Written
<1>7. QED
  BY <1>1, <1>2, <1>3, <1>4, <1>5, <1>6, WorkerStepPreserves

LEMMA WritePartitionPreserves ==
  ASSUME IInv, NEW w \in Worker, WritePartition(w)
  PROVE  IInv'
<1> USE DEF IInv, TypeOK, Task, TaskOrNone
<1>1. PICK r \in todo[w] :
        /\ inter' = [inter EXCEPT ![task[w]][r] = "full"]
        /\ IF todo[w] = {r}
           THEN LoopEnd(w, task[w])
           ELSE /\ todo' = [todo EXCEPT ![w] = @ \ {r}]
                /\ UNCHANGED <<pc, args, input, pos>>
  BY DEF WritePartition
<1>2. /\ UNCHANGED <<status, nMap, nReduce, timers, running, task, crashes, out>>
      /\ pc[w] = "write" /\ task[w] \in MapTask /\ r \in ReduceTask /\ Written(task[w])
  BY DEF WritePartition, coordVars, WorkerInv
<1>3. CoordTypeOK'
  BY <1>2 DEF CoordTypeOK
<1>4. WorkerTypeOK'
  BY <1>1, <1>2 DEF WorkerTypeOK, LoopEnd
<1>5. FileTypeOK'
  BY <1>1, <1>2 DEF FileTypeOK
<1>6. Written(task[w])' /\ \A m \in MapTask : Written(m) => Written(m)'
  BY <1>1, <1>2 DEF Written, FileTypeOK
<1>7. ASSUME Unfinished(MapTask)' = Unfinished(MapTask) PROVE WorkerInv'
  <2>1. CASE todo[w] = {r}
    BY <1>1, <1>2, <1>6, <1>7, <2>1, MRAssumption
    DEF WorkerInv, WorkerTypeOK, LoopEnd, Written, MRAssumption
  <2>2. CASE todo[w] # {r}
    BY <1>1, <1>2, <1>6, <1>7, <2>2 DEF WorkerInv, WorkerTypeOK, Written
  <2>3. QED
    BY <2>1, <2>2
<1>8. QED
  BY <1>2, <1>3, <1>4, <1>5, <1>6, <1>7, WorkerStepPreserves

LEMMA ReadPartitionPreserves ==
  ASSUME IInv, NEW w \in Worker, ReadPartition(w)
  PROVE  IInv'
<1> USE DEF IInv, TypeOK, Task, TaskOrNone
<1>1. PICK m \in todo[w] :
        IF inter[m][task[w]] = "absent"
        THEN LoopEnd(w, args[w])
        ELSE /\ input' = [input EXCEPT ![w] = IF inter[m][task[w]] = "full" THEN @ \cup {m} ELSE @]
             /\ todo' = [todo EXCEPT ![w] = @ \ {m}]
             /\ pc' = IF todo[w] = {m} THEN [pc EXCEPT ![w] = "output"] ELSE pc
             /\ UNCHANGED <<args, pos>>
  BY DEF ReadPartition
<1>2. /\ UNCHANGED <<status, nMap, nReduce, timers, running, task, crashes, inter, out>>
      /\ pc[w] = "read" /\ task[w] \in ReduceTask /\ m \in MapTask
  BY DEF ReadPartition, coordVars, fileVars, WorkerInv
<1>3. CoordTypeOK' /\ FileTypeOK'
  BY <1>2 DEF CoordTypeOK, FileTypeOK
<1>4. WorkerTypeOK'
  BY <1>1, <1>2 DEF WorkerTypeOK, LoopEnd
<1>5. \A x \in MapTask : Written(x)' <=> Written(x)
  BY <1>2 DEF Written
<1>6. ASSUME Unfinished(MapTask)' = Unfinished(MapTask) PROVE WorkerInv'
  BY <1>1, <1>2, <1>5, <1>6 DEF WorkerInv, WorkerTypeOK, LoopEnd
<1>7. QED
  BY <1>2, <1>3, <1>4, <1>5, <1>6, WorkerStepPreserves

LEMMA CreateOutputPreserves ==
  ASSUME IInv, NEW w \in Worker, CreateOutput(w)
  PROVE  IInv'
<1> USE DEF IInv, TypeOK, Task, TaskOrNone
<1>1. /\ UNCHANGED <<status, nMap, nReduce, timers, running, task, crashes, inter>>
      /\ pc[w] = "output" /\ task[w] \in ReduceTask
      /\ out' = [out EXCEPT ![task[w]] = <<>>]
      /\ IF input[w] = {}
         THEN LoopEnd(w, task[w])
         ELSE /\ pc' = [pc EXCEPT ![w] = "line"]
              /\ todo' = [todo EXCEPT ![w] = Key]
              /\ UNCHANGED <<args, input, pos>>
  BY DEF CreateOutput, coordVars, WorkerInv
<1>2. CoordTypeOK'
  BY <1>1 DEF CoordTypeOK
<1>3. WorkerTypeOK'
  <2>1. CASE input[w] = {}
    <3>1. LoopEnd(w, task[w]) /\ task' = task /\ crashes' = crashes /\ task[w] \in TaskOrNone
      BY <1>1, <2>1
    <3>2. WorkerTypeOK
      OBVIOUS
    <3>3. QED
      BY ONLY <3>1, <3>2 DEF LoopEnd, WorkerTypeOK, Task, TaskOrNone
  <2>2. CASE input[w] # {}
    BY <1>1, <2>2 DEF WorkerTypeOK
  <2>3. QED
    BY <2>1, <2>2
<1>4. FileTypeOK'
  BY <1>1 DEF FileTypeOK
<1>5. \A x \in MapTask : Written(x)' <=> Written(x)
  BY <1>1 DEF Written
<1>6. Unfinished(MapTask) = {}
  BY <1>1 DEF MapsBeforeReduces
<1>7. ASSUME Unfinished(MapTask)' = Unfinished(MapTask) PROVE WorkerInv'
  BY <1>1, <1>5, <1>6, <1>7, MRAssumption DEF WorkerInv, WorkerTypeOK, LoopEnd, MRAssumption
<1>8. QED
  BY <1>1, <1>2, <1>3, <1>4, <1>5, <1>7, WorkerStepPreserves

LEMMA WriteLinePreserves ==
  ASSUME IInv, NEW w \in Worker, WriteLine(w)
  PROVE  IInv'
<1> USE DEF IInv, TypeOK, Task, TaskOrNone
<1>1. PICK k \in todo[w] :
        /\ out' = [out EXCEPT ![task[w]] = WriteAt(@, pos[w], Line(k, input[w]))]
        /\ IF todo[w] = {k}
           THEN LoopEnd(w, task[w])
           ELSE /\ todo' = [todo EXCEPT ![w] = @ \ {k}]
                /\ pos' = [pos EXCEPT ![w] = @ + 1]
                /\ UNCHANGED <<pc, args, input>>
  BY DEF WriteLine
<1>2. /\ UNCHANGED <<status, nMap, nReduce, timers, running, task, crashes, inter>>
      /\ pc[w] = "line" /\ task[w] \in ReduceTask /\ k \in Key
  BY DEF WriteLine, coordVars, WorkerInv
<1>3. CoordTypeOK'
  BY <1>2 DEF CoordTypeOK
<1>4. WorkerTypeOK'
  BY <1>1, <1>2 DEF WorkerTypeOK, LoopEnd
<1>5. FileTypeOK'
  <2>1. Line(k, input[w]) \in OutLine /\ pos[w] \in Nat /\ out[task[w]] \in Seq(OutLine)
    BY <1>2 DEF OutLine, WorkerTypeOK, FileTypeOK
  <2>2. WriteAt(out[task[w]], pos[w], Line(k, input[w])) \in Seq(OutLine)
    BY <2>1, WriteAtType
  <2>3. QED
    BY <1>1, <1>2, <2>2 DEF FileTypeOK
<1>6. \A x \in MapTask : Written(x)' <=> Written(x)
  BY <1>2 DEF Written
<1>7. Unfinished(MapTask) = {}
  BY <1>2 DEF MapsBeforeReduces
<1>8. ASSUME Unfinished(MapTask)' = Unfinished(MapTask) PROVE WorkerInv'
  <2>1. CASE todo[w] = {k}
    BY <1>1, <1>2, <1>6, <1>7, <1>8, <2>1, MRAssumption
    DEF WorkerInv, WorkerTypeOK, LoopEnd, MRAssumption
  <2>2. CASE todo[w] # {k}
    BY <1>1, <1>2, <1>6, <1>7, <1>8, <2>2 DEF WorkerInv, WorkerTypeOK
  <2>3. QED
    BY <2>1, <2>2
<1>9. QED
  BY <1>2, <1>3, <1>4, <1>5, <1>6, <1>8, WorkerStepPreserves

\* Processes that die, start or exit, and the coordinator's exit.
LEMMA ProcessStepPreserves ==
  ASSUME IInv,
         \/ CoordinatorExit
         \/ \E w \in Worker : WorkerExit(w) \/ Crash(w) \/ Restart(w)
  PROVE  IInv'
<1> USE DEF IInv, TypeOK, Task, TaskOrNone
<1>1. UNCHANGED <<status, nMap, nReduce, timers, inter, out>>
  BY DEF CoordinatorExit, WorkerExit, Crash, Restart, coordVars, fileVars
<1>2. /\ CoordTypeOK' /\ FileTypeOK'
      /\ \A m \in MapTask : Written(m)' <=> Written(m)
  BY <1>1 DEF CoordinatorExit, WorkerExit, Crash, Restart, coordVars, CoordTypeOK, FileTypeOK, Written
<1>3. /\ WorkerTypeOK'
      /\ \A v \in Worker : task'[v] = task[v] \/ task'[v] = NoTask
      /\ Unfinished(MapTask)' = Unfinished(MapTask) => WorkerInv'
  <2>1. CASE CoordinatorExit
    BY <1>2, <2>1 DEF CoordinatorExit, workerVars, WorkerTypeOK, WorkerInv
  <2>2. ASSUME NEW w \in Worker, WorkerExit(w) \/ Restart(w) PROVE <1>3!1 /\ <1>3!2 /\ <1>3!3
    BY <1>2, <2>2 DEF WorkerExit, Restart, WorkerTypeOK, WorkerInv
  <2>3. ASSUME NEW w \in Worker, Crash(w) PROVE <1>3!1 /\ <1>3!2 /\ <1>3!3
    <3>1. WorkerTypeOK' /\ \A v \in Worker : task'[v] = task[v] \/ task'[v] = NoTask
      BY <2>3 DEF Crash, WorkerTypeOK
    <3>2. Unfinished(MapTask)' = Unfinished(MapTask) => WorkerInv'
      BY <1>2, <2>3, MRAssumption DEF Crash, WorkerTypeOK, WorkerInv, MRAssumption
    <3>3. QED
      BY <3>1, <3>2
  <2>4. QED
    BY <2>1, <2>2, <2>3
<1>4. QED
  BY <1>1, <1>2, <1>3, WorkerStepPreserves

-----------------------------------------------------------------------------
LEMMA InitIInv == Init => IInv
<1> SUFFICES ASSUME Init PROVE IInv
  OBVIOUS
<1> USE DEF Init, Task, TaskOrNone
<1>1. /\ Cardinality(MapTask) \in Nat /\ Cardinality(ReduceTask) \in Nat
      /\ Unfinished(MapTask) = MapTask /\ Unfinished(ReduceTask) = ReduceTask
  BY MRAssumption, FS_CardinalityType DEF MRAssumption, Unfinished
<1>2. TypeOK
  BY <1>1 DEF TypeOK, CoordTypeOK, WorkerTypeOK, FileTypeOK
<1>3. CountersExact /\ MapsBeforeReduces /\ OneWatchPerAssignment
  BY <1>1, MRAssumption DEF CountersExact, MapsBeforeReduces, OneWatchPerAssignment, MRAssumption
<1>4. WorkerInv /\ CompletedIsWritten
  BY MRAssumption DEF WorkerInv, CompletedIsWritten, MRAssumption
<1>5. QED
  BY <1>2, <1>3, <1>4 DEF IInv

LEMMA NextIInv == IInv /\ [Next]_vars => IInv'
<1> SUFFICES ASSUME IInv, [Next]_vars PROVE IInv'
  OBVIOUS
<1>1. ASSUME NEW w \in Worker, WorkerStep(w) PROVE IInv'
  <2>1. CASE AskForTask(w)
    BY <2>1, AskPreserves
  <2>2. CASE WorkerExit(w)
    BY <2>2, ProcessStepPreserves
  <2>3. CASE CreateFiles(w)
    BY <2>3, CreateFilesPreserves
  <2>4. CASE WritePartition(w)
    BY <2>4, WritePartitionPreserves
  <2>5. CASE ReadPartition(w)
    BY <2>5, ReadPartitionPreserves
  <2>6. CASE CreateOutput(w)
    BY <2>6, CreateOutputPreserves
  <2>7. CASE WriteLine(w)
    BY <2>7, WriteLinePreserves
  <2>8. QED
    BY <1>1, <2>1, <2>2, <2>3, <2>4, <2>5, <2>6, <2>7 DEF WorkerStep
<1>2. ASSUME NEW w \in Worker, Crash(w) \/ Restart(w) PROVE IInv'
  BY <1>2, ProcessStepPreserves
<1>3. ASSUME NEW t \in Task, CheckProgress(t) PROVE IInv'
  BY <1>3, CheckProgressPreserves
<1>4. CASE CoordinatorExit
  BY <1>4, ProcessStepPreserves
<1>5. CASE UNCHANGED vars
  <2>1. /\ UNCHANGED <<status, nMap, nReduce, timers, running, inter, out>>
        /\ UNCHANGED <<pc, task, args, todo, input, pos, crashes>>
    BY <1>5 DEF vars, coordVars, workerVars, fileVars
  <2>2. TypeOK'
    BY <2>1 DEF IInv, TypeOK, CoordTypeOK, WorkerTypeOK, FileTypeOK, Task, TaskOrNone
  <2>3. Unfinished(MapTask)' = Unfinished(MapTask) /\ Unfinished(ReduceTask)' = Unfinished(ReduceTask)
    BY <2>1 DEF Unfinished
  <2>4. CountersExact' /\ MapsBeforeReduces' /\ OneWatchPerAssignment'
    BY <2>1, <2>3 DEF IInv, CountersExact, MapsBeforeReduces, OneWatchPerAssignment, Task
  <2>5. WorkerInv' /\ CompletedIsWritten'
    BY <2>1, <2>3 DEF IInv, WorkerInv, CompletedIsWritten, Written
  <2>6. QED
    BY <2>2, <2>4, <2>5 DEF IInv
<1>6. QED
  BY <1>1, <1>2, <1>3, <1>4, <1>5 DEF Next

THEOREM Invariant == Spec => []IInv
  BY InitIInv, NextIInv, PTL DEF Spec

\* Every variable of the coordinator, the timers, the workers and the files keeps its
\* type; the counters stay natural numbers.
THEOREM TypesCorrect == Spec => []TypeOK
<1>1. IInv => TypeOK
  BY DEF IInv
<1>2. QED
  BY <1>1, Invariant, PTL

\* The coordinator's counters, which taskDone decrements on the word of the
\* workers, are at every moment the numbers of tasks that are not completed.
THEOREM CountersAlwaysExact == Spec => []CountersExact
<1>1. IInv => CountersExact
  BY DEF IInv
<1>2. QED
  BY Invariant, <1>1, PTL

\* No reduce task is handed out before the last map task is completed
\* (the test of nMap in AskForTask).
THEOREM MapsAlwaysBeforeReduces == Spec => []MapsBeforeReduces
<1>1. IInv => MapsBeforeReduces
  BY DEF IInv
<1>2. QED
  BY Invariant, <1>1, PTL

\* Every assigned task has exactly one checkProgress goroutine, a free one none:
\* no crash strands a task and no old timer revokes a fresh assignment.
THEOREM AlwaysOneWatch == Spec => []OneWatchPerAssignment
<1>1. IInv => OneWatchPerAssignment
  BY DEF IInv
<1>2. QED
  BY Invariant, <1>1, PTL

\* A worker that runs a reduce task finds every intermediate file
\* (the os.Open of processReduce).
THEOREM InputNeverMissing == Spec => []NoMissingInput
<1>1. IInv => NoMissingInput
  <2> SUFFICES ASSUME IInv, NEW w \in Worker, pc[w] = "read", NEW m \in MapTask
               PROVE  inter[m][task[w]] # "absent"
    BY DEF NoMissingInput
  <2>1. task[w] \in ReduceTask
    BY DEF IInv, WorkerInv
  <2>2. status[m] = "COMPLETED"
    BY <2>1 DEF IInv, MapsBeforeReduces, Unfinished
  <2>3. QED
    BY <2>1, <2>2 DEF IInv, CompletedIsWritten, Written
<1>2. QED
  BY Invariant, <1>1, PTL

-----------------------------------------------------------------------------
\* The safety part of MRJob, through the refinement mapping of MapReduce.
JobSafety == Job!Init /\ [][Job!Next]_(Job!jobVars)

LEMMA AskRefines ==
  ASSUME IInv, NEW w \in Worker, AskForTask(w)
  PROVE  Job!Next \/ UNCHANGED Job!jobVars
<1> DEFINE t == args[w]
<1> USE DEF Task, TaskOrNone
<1>1. /\ t \in TaskOrNone
      /\ StatusAfter(t) \in [Task -> {"FREE", "ASSIGNED", "COMPLETED"}]
      /\ \A x \in Task : x # t => StatusAfter(t)[x] = status[x]
      /\ t \in Task => StatusAfter(t)[t] = "COMPLETED"
  <2>1. t \in TaskOrNone
    BY DEF IInv, TypeOK, WorkerTypeOK
  <2>2. QED
    BY <2>1, BookReport DEF IInv
<1>2. \A x \in Task : status'[x] = "COMPLETED" <=> StatusAfter(t)[x] = "COMPLETED"
  BY <1>1 DEF AskForTask, Offer
<1>3. \A x \in Task : status'[x] = "COMPLETED" <=> x = t \/ status[x] = "COMPLETED"
  BY <1>1, <1>2
<1>4. CASE t \in MapTask /\ status[t] # "COMPLETED"
  <2>1. /\ t \notin MapTask \ Unfinished(MapTask)
        /\ (MapTask \ Unfinished(MapTask))' = (MapTask \ Unfinished(MapTask)) \cup {t}
        /\ (ReduceTask \ Unfinished(ReduceTask))' = ReduceTask \ Unfinished(ReduceTask)
    BY <1>3, <1>4, MRAssumption DEF Unfinished, MRAssumption
  <2>2. Job!FinishMap(t)
    BY <2>1 DEF Job!FinishMap
  <2>3. QED
    BY <1>4, <2>2 DEF Job!Next
<1>5. CASE t \in ReduceTask /\ status[t] # "COMPLETED"
  <2>1. Unfinished(MapTask) = {}
    BY <1>5 DEF IInv, WorkerInv
  <2>2. /\ t \notin ReduceTask \ Unfinished(ReduceTask)
        /\ (ReduceTask \ Unfinished(ReduceTask))' = (ReduceTask \ Unfinished(ReduceTask)) \cup {t}
        /\ (MapTask \ Unfinished(MapTask))' = MapTask \ Unfinished(MapTask)
        /\ MapTask \ Unfinished(MapTask) = MapTask
    BY <1>3, <1>5, <2>1, MRAssumption DEF Unfinished, MRAssumption
  <2>3. Job!FinishReduce(t)
    BY <2>2 DEF Job!FinishReduce
  <2>4. QED
    BY <1>5, <2>3 DEF Job!Next
<1>6. CASE ~(t \in Task /\ status[t] # "COMPLETED")
  <2>1. Unfinished(MapTask)' = Unfinished(MapTask) /\ Unfinished(ReduceTask)' = Unfinished(ReduceTask)
    BY <1>1, <1>3, <1>6, MRAssumption DEF Unfinished, MRAssumption
  <2>2. QED
    BY <2>1 DEF Job!jobVars
<1>7. QED
  BY <1>4, <1>5, <1>6

\* Every behaviour of the coordinator and its workers is, seen through the sets
\* of completed tasks, a behaviour of MRJob: each task finishes once, and reduce
\* tasks only after all map tasks.
THEOREM RefinesJob == Spec => JobSafety
<1>1. Init => Job!Init
  BY DEF Init, Job!Init, Unfinished, Task
<1>2. IInv /\ [Next]_vars => [Job!Next]_(Job!jobVars)
  <2> SUFFICES ASSUME IInv, [Next]_vars PROVE Job!Next \/ UNCHANGED Job!jobVars
    OBVIOUS
  <2>1. ASSUME NEW w \in Worker, AskForTask(w) PROVE Job!Next \/ UNCHANGED Job!jobVars
    BY <2>1, AskRefines
  <2>2. ASSUME NEW t \in Task, CheckProgress(t) PROVE UNCHANGED Job!jobVars
    <3>1. Unfinished(MapTask)' = Unfinished(MapTask) /\ Unfinished(ReduceTask)' = Unfinished(ReduceTask)
      BY <2>2 DEF CheckProgress, Unfinished, IInv, TypeOK, CoordTypeOK, Task
    <3>2. QED
      BY <3>1 DEF Job!jobVars
  <2>3. ASSUME UNCHANGED status PROVE UNCHANGED Job!jobVars
    BY <2>3 DEF Job!jobVars, Unfinished
  <2>4. QED
    BY <2>1, <2>2, <2>3
    DEF Next, WorkerStep, WorkerExit, Crash, Restart, CoordinatorExit, CreateFiles,
        WritePartition, ReadPartition, CreateOutput, WriteLine, coordVars, vars
<1>3. QED
  BY Invariant, <1>1, <1>2, PTL DEF Spec, JobSafety
-----------------------------------------------------------------------------
(***************************************************************************)
(* What the output files hold when ten seconds are long enough for every   *)
(* live worker (SlowWorkers = FALSE).  MRSlowOutput.cfg shows that slow    *)
(* workers break these properties.                                         *)
(***************************************************************************)
Working(w) == pc[w] \in {"map", "write", "read", "output", "line"}

\* The live worker w runs task t, or has run it and not reported it yet.
Owns(w, t) ==
  \/ Working(w) /\ task[w] = t
  \/ pc[w] = "ask" /\ args[w] = t /\ status[t] # "COMPLETED"

\* A task that a live worker owns is assigned, and nobody else owns it.
OwnersInv ==
  \A w \in Worker, t \in Task : Owns(w, t) =>
    /\ status[t] = "ASSIGNED"
    /\ \A v \in Worker : Owns(v, t) => v = w

Full(m) == \A r \in ReduceTask : inter[m][r] = "full"

\* What a task reported as completed has left in its files.
TaskOutput(t) == /\ t \in MapTask => Full(t)
                 /\ t \in ReduceTask => Complete(t)

FilesInv == \A t \in Task : status[t] = "COMPLETED" => TaskOutput(t)

\* File r holds a line for each key outside left, all of them with the values
\* of all map tasks, and nothing else.
Partial(r, left) ==
  /\ IsFiniteSet(left)
  /\ Len(out[r]) + Cardinality(left) = Cardinality(Key)
  /\ \A k \in Key \ left : \E i \in 1 .. Len(out[r]) : out[r][i] = Line(k, MapTask)

\* How far worker w has got with its task, or what it is about to report.
Progress(w) ==
  /\ pc[w] = "write" => \A r \in ReduceTask \ todo[w] : inter[task[w]][r] = "full"
  /\ pc[w] = "read" => input[w] \cup todo[w] = MapTask
  /\ pc[w] \in {"output", "line"} => input[w] = MapTask
  /\ pc[w] = "line" => pos[w] = Len(out[task[w]]) /\ Partial(task[w], todo[w])
  /\ pc[w] # "line" => pos[w] = 0
  /\ pc[w] = "ask" => TaskOutput(args[w])
  /\ pc[w] = "dead" => args[w] = NoTask

ProgressInv == \A w \in Worker : Progress(w)

\* Nobody exits before the job is done.
ExitInv ==
  /\ ~running => Unfinished(ReduceTask) = {}
  /\ \A w \in Worker : pc[w] = "exited" => ~running

\* The inductive invariant of timely workers, beside IInv.
TimelyInv == OwnersInv /\ FilesInv /\ ProgressInv /\ ExitInv

-----------------------------------------------------------------------------
\* A step of a worker that runs a task touches the files of that task only, and
\* nobody else reads its progress there.
LEMMA WorkingStep ==
  ASSUME IInv, TimelyInv, NEW w \in Worker, Working(w),
         UNCHANGED <<status, running, task>>,
         \A v \in Worker : v # w =>
           /\ pc'[v] = pc[v] /\ args'[v] = args[v] /\ todo'[v] = todo[v]
           /\ input'[v] = input[v] /\ pos'[v] = pos[v],
         \A m \in MapTask : m # task[w] => inter'[m] = inter[m],
         \A r \in ReduceTask : r # task[w] => out'[r] = out[r],
         Working(w)' \/ (pc'[w] = "ask" /\ args'[w] = task[w]),
         Progress(w)'
  PROVE  TimelyInv'
<1> USE DEF TimelyInv
<1>1. task[w] \in Task /\ Owns(w, task[w]) /\ status[task[w]] = "ASSIGNED"
  <2>1. task[w] \in Task
    BY DEF Working, IInv, WorkerInv, Task
  <2>2. QED
    BY <2>1 DEF OwnersInv, Owns
<1>2. \A v \in Worker, t \in Task : Owns(v, t)' => Owns(v, t)
  BY <1>1 DEF Owns, Working
<1>3. OwnersInv'
  BY <1>2 DEF OwnersInv
<1>4. \A t \in TaskOrNone : t # task[w] /\ TaskOutput(t) => TaskOutput(t)'
  BY DEF TaskOutput, Full, Complete
<1>5. FilesInv'
  BY <1>1, <1>4 DEF FilesInv, TaskOrNone
<1>6. ASSUME NEW v \in Worker PROVE Progress(v)'
  <2>1. CASE v = w
    BY <2>1
  <2>2. CASE v # w
    <3>1. /\ pc'[v] = pc[v] /\ task'[v] = task[v] /\ args'[v] = args[v] /\ todo'[v] = todo[v]
          /\ input'[v] = input[v] /\ pos'[v] = pos[v] /\ Progress(v)
      BY <2>2 DEF ProgressInv
    <3>2. Working(v) => task[v] # task[w]
      BY <1>1, <2>2 DEF OwnersInv, Owns
    <3>3. pc[v] = "ask" => args[v] # task[w]
      BY <1>1, <2>2 DEF OwnersInv, Owns
    <3>4. args[v] \in TaskOrNone
      BY DEF IInv, TypeOK, WorkerTypeOK
    <3>5. pc'[v] = "ask" => TaskOutput(args[v])'
      BY <1>4, <3>1, <3>3, <3>4 DEF Progress
    <3>6. /\ pc[v] = "write" => task[v] \in MapTask /\ inter'[task[v]] = inter[task[v]]
          /\ pc[v] = "line" => task[v] \in ReduceTask /\ out'[task[v]] = out[task[v]]
      BY <3>2 DEF Working, IInv, WorkerInv
    <3>7. QED
      BY <3>1, <3>5, <3>6 DEF Progress, Partial
  <2>3. QED
    BY <2>1, <2>2
<1>7. ExitInv'
  <2>1. pc'[w] # "exited"
    BY DEF Working
  <2>2. QED
    BY <2>1 DEF ExitInv, Unfinished
<1>8. QED
  BY <1>3, <1>5, <1>6, <1>7 DEF ProgressInv

LEMMA CreateFilesTimely ==
  ASSUME IInv, TimelyInv, NEW w \in Worker, CreateFiles(w)
  PROVE  TimelyInv'
<1>1. /\ UNCHANGED <<status, running, task, args, input, pos, out>>
      /\ pc[w] = "map" /\ task[w] \in MapTask /\ Working(w) /\ pos[w] = 0
      /\ inter' = [inter EXCEPT ![task[w]] = [r \in ReduceTask |-> "empty"]]
      /\ pc' = [pc EXCEPT ![w] = "write"]
      /\ todo' = [todo EXCEPT ![w] = ReduceTask]
  BY DEF CreateFiles, coordVars, IInv, WorkerInv, Working, TimelyInv, ProgressInv, Progress
<1>2. pc \in [Worker -> {"ask", "map", "write", "read", "output", "line", "exited", "dead"}]
      /\ todo \in [Worker -> SUBSET (MapTask \cup ReduceTask \cup Key)]
      /\ inter \in [MapTask -> [ReduceTask -> {"absent", "empty", "full"}]]
  BY DEF IInv, TypeOK, WorkerTypeOK, FileTypeOK
<1>3. Progress(w)' /\ Working(w)'
  BY <1>1, <1>2 DEF Progress, Working
<1>4. QED
  BY <1>1, <1>2, <1>3, WorkingStep

LEMMA WritePartitionTimely ==
  ASSUME IInv, TimelyInv, NEW w \in Worker, WritePartition(w)
  PROVE  TimelyInv'
<1>1. PICK r \in todo[w] :
        /\ inter' = [inter EXCEPT ![task[w]][r] = "full"]
        /\ IF todo[w] = {r}
           THEN LoopEnd(w, task[w])
           ELSE /\ todo' = [todo EXCEPT ![w] = @ \ {r}]
                /\ UNCHANGED <<pc, args, input, pos>>
  BY DEF WritePartition
<1>2. /\ UNCHANGED <<status, running, task, out>>
      /\ pc[w] = "write" /\ task[w] \in MapTask /\ r \in ReduceTask /\ Working(w)
      /\ pos[w] = 0
      /\ \A x \in ReduceTask \ todo[w] : inter[task[w]][x] = "full"
  BY DEF WritePartition, coordVars, IInv, WorkerInv, Working, TimelyInv, ProgressInv, Progress
<1>3. WorkerTypeOK /\ FileTypeOK
  BY DEF IInv, TypeOK
<1>4. /\ inter'[task[w]][r] = "full"
      /\ \A x \in ReduceTask : x # r => inter'[task[w]][x] = inter[task[w]][x]
      /\ \A m \in MapTask : m # task[w] => inter'[m] = inter[m]
  BY <1>1, <1>2, <1>3 DEF FileTypeOK
<1>5. \A v \in Worker : v # w =>
           /\ pc'[v] = pc[v] /\ args'[v] = args[v] /\ todo'[v] = todo[v]
           /\ input'[v] = input[v] /\ pos'[v] = pos[v]
  BY <1>1, <1>3 DEF LoopEnd, WorkerTypeOK
<1>6. CASE todo[w] = {r}
  <2>1. pc'[w] = "ask" /\ args'[w] = task[w]
    BY <1>1, <1>3, <1>6 DEF LoopEnd, WorkerTypeOK
  <2>5. pos'[w] = 0
    BY <1>1, <1>3, <1>6 DEF LoopEnd, WorkerTypeOK
  <2>2. Full(task[w])'
    BY <1>2, <1>4, <1>6 DEF Full
  <2>3. Progress(w)'
    BY <1>2, <2>1, <2>5, <2>2, MRAssumption DEF Progress, TaskOutput, MRAssumption
  <2>4. QED
    BY <1>2, <1>4, <1>5, <2>1, <2>3, WorkingStep
<1>7. CASE todo[w] # {r}
  <2>1. pc'[w] = "write" /\ todo'[w] = todo[w] \ {r} /\ Working(w)' /\ pos'[w] = 0
    BY <1>1, <1>2, <1>3, <1>7 DEF WorkerTypeOK, Working
  <2>2. Progress(w)'
    BY <1>2, <1>4, <2>1 DEF Progress
  <2>3. QED
    BY <1>2, <1>4, <1>5, <2>1, <2>2, WorkingStep
<1>8. QED
  BY <1>6, <1>7

\* A reduce task is run on the complete files of all map tasks.
LEMMA InputIsFull ==
  ASSUME IInv, TimelyInv, NEW w \in Worker, task[w] \in ReduceTask, NEW m \in MapTask
  PROVE  inter[m][task[w]] = "full"
<1>1. status[m] = "COMPLETED"
  BY DEF IInv, MapsBeforeReduces, Unfinished
<1>2. Full(m)
  BY <1>1 DEF TimelyInv, FilesInv, TaskOutput, Task
<1>3. QED
  BY <1>2 DEF Full

LEMMA ReadPartitionTimely ==
  ASSUME IInv, TimelyInv, NEW w \in Worker, ReadPartition(w)
  PROVE  TimelyInv'
<1>1. /\ UNCHANGED <<status, running, task, inter, out>>
      /\ pc[w] = "read" /\ task[w] \in ReduceTask /\ Working(w)
      /\ todo[w] \subseteq MapTask /\ input[w] \cup todo[w] = MapTask /\ pos[w] = 0
  BY DEF ReadPartition, coordVars, fileVars, IInv, WorkerInv, Working, TimelyInv, ProgressInv, Progress
<1>2. PICK m \in todo[w] :
        /\ input' = [input EXCEPT ![w] = @ \cup {m}]
        /\ todo' = [todo EXCEPT ![w] = @ \ {m}]
        /\ pc' = IF todo[w] = {m} THEN [pc EXCEPT ![w] = "output"] ELSE pc
        /\ UNCHANGED <<args, pos>>
  <2>1. \A m \in todo[w] : inter[m][task[w]] = "full"
    BY <1>1, InputIsFull
  <2>2. QED
    BY <2>1 DEF ReadPartition
<1>3. WorkerTypeOK
  BY DEF IInv, TypeOK
<1>4. /\ input'[w] = input[w] \cup {m} /\ todo'[w] = todo[w] \ {m}
      /\ pc'[w] = IF todo[w] = {m} THEN "output" ELSE "read"
      /\ input'[w] \cup todo'[w] = MapTask
  BY <1>1, <1>2, <1>3 DEF WorkerTypeOK
<1>5. Progress(w)' /\ Working(w)'
  <2>1. pos'[w] = 0
    BY <1>1, <1>2
  <2>2. CASE todo[w] = {m}
    <3>1. pc'[w] = "output" /\ input'[w] = MapTask
      BY <1>4, <2>2
    <3>2. QED
      BY <2>1, <3>1 DEF Progress, Working
  <2>3. CASE todo[w] # {m}
    <3>1. pc'[w] = "read"
      BY <1>4, <2>3
    <3>2. QED
      BY <1>4, <2>1, <3>1 DEF Progress, Working
  <2>4. QED
    BY <2>2, <2>3
<1>6. \A v \in Worker : v # w =>
           /\ pc'[v] = pc[v] /\ args'[v] = args[v] /\ todo'[v] = todo[v]
           /\ input'[v] = input[v] /\ pos'[v] = pos[v]
  BY <1>2, <1>3 DEF WorkerTypeOK
<1>7. QED
  BY <1>1, <1>5, <1>6, WorkingStep

LEMMA CreateOutputTimely ==
  ASSUME IInv, TimelyInv, NEW w \in Worker, CreateOutput(w)
  PROVE  TimelyInv'
<1>1. /\ UNCHANGED <<status, running, task, inter>>
      /\ pc[w] = "output" /\ task[w] \in ReduceTask /\ Working(w)
      /\ input[w] = MapTask
      /\ out' = [out EXCEPT ![task[w]] = <<>>]
      /\ pc' = [pc EXCEPT ![w] = "line"]
      /\ todo' = [todo EXCEPT ![w] = Key]
      /\ UNCHANGED <<args, input, pos>>
  BY MRAssumption
  DEF CreateOutput, coordVars, IInv, WorkerInv, Working, TimelyInv, ProgressInv, Progress, MRAssumption
<1>2. WorkerTypeOK /\ FileTypeOK
  BY DEF IInv, TypeOK
<1>3. pos[w] = 0 /\ pc'[w] = "line" /\ Working(w)' /\ todo'[w] = Key /\ out'[task[w]] = <<>>
  BY <1>1, <1>2 DEF TimelyInv, ProgressInv, Progress, Working, WorkerTypeOK, FileTypeOK
<1>4. Partial(task[w], todo[w])'
  BY <1>1, <1>3, MRAssumption, FS_CardinalityType DEF Partial, MRAssumption
<1>5. Progress(w)'
  BY <1>1, <1>3, <1>4 DEF Progress
<1>6. /\ \A v \in Worker : v # w => pc'[v] = pc[v] /\ todo'[v] = todo[v]
      /\ \A r \in ReduceTask : r # task[w] => out'[r] = out[r]
  BY <1>1, <1>2 DEF WorkerTypeOK, FileTypeOK
<1>7. QED
  BY <1>1, <1>3, <1>5, <1>6, WorkingStep

\* A write at the end of a file appends the line.
LEMMA WriteAtEnd ==
  ASSUME NEW file \in Seq(OutLine), NEW line
  PROVE  /\ Len(WriteAt(file, Len(file), line)) = Len(file) + 1
         /\ \A i \in 1 .. Len(file) : WriteAt(file, Len(file), line)[i] = file[i]
         /\ WriteAt(file, Len(file), line)[Len(file) + 1] = line
<1> DEFINE x(i) == IF i = Len(file) + 1 THEN line ELSE IF i <= Len(file) THEN file[i] ELSE Hole
           new == [i \in 1 .. Len(file) + 1 |-> x(i)]
<1>1. Len(file) \in Nat
  OBVIOUS
<1>2. WriteAt(file, Len(file), line) = new
  BY <1>1 DEF WriteAt
<1>3. Len(new) = Len(file) + 1
  BY <1>1
<1>4. QED
  BY <1>1, <1>2, <1>3

LEMMA WriteLineTimely ==
  ASSUME IInv, TimelyInv, NEW w \in Worker, WriteLine(w)
  PROVE  TimelyInv'
<1> DEFINE r == task[w]
<1>1. PICK k \in todo[w] :
        /\ out' = [out EXCEPT ![r] = WriteAt(@, pos[w], Line(k, input[w]))]
        /\ IF todo[w] = {k}
           THEN LoopEnd(w, r)
           ELSE /\ todo' = [todo EXCEPT ![w] = @ \ {k}]
                /\ pos' = [pos EXCEPT ![w] = @ + 1]
                /\ UNCHANGED <<pc, args, input>>
  BY DEF WriteLine
<1>2. /\ UNCHANGED <<status, running, task, inter>>
      /\ pc[w] = "line" /\ r \in ReduceTask /\ k \in Key /\ Working(w)
      /\ input[w] = MapTask /\ pos[w] = Len(out[r]) /\ Partial(r, todo[w])
  BY DEF WriteLine, coordVars, IInv, WorkerInv, Working, TimelyInv, ProgressInv, Progress
<1>3. WorkerTypeOK /\ FileTypeOK
  BY DEF IInv, TypeOK
<1>4. /\ Len(out'[r]) = Len(out[r]) + 1
      /\ \A i \in 1 .. Len(out[r]) : out'[r][i] = out[r][i]
      /\ out'[r][Len(out[r]) + 1] = Line(k, MapTask)
  <2>1. out[r] \in Seq(OutLine) /\ out'[r] = WriteAt(out[r], Len(out[r]), Line(k, MapTask))
    BY <1>1, <1>2, <1>3 DEF FileTypeOK
  <2>2. QED
    BY <2>1, WriteAtEnd
<1>5. \A v \in Worker : v # w =>
           /\ pc'[v] = pc[v] /\ args'[v] = args[v] /\ todo'[v] = todo[v]
           /\ input'[v] = input[v] /\ pos'[v] = pos[v]
  BY <1>1, <1>3 DEF LoopEnd, WorkerTypeOK
<1>6. /\ \A x \in ReduceTask : x # r => out'[x] = out[x]
      /\ \A m \in MapTask : inter'[m] = inter[m]
      /\ Len(out[r]) \in Nat
  BY <1>1, <1>2, <1>3 DEF FileTypeOK
<1> DEFINE left == todo[w] \ {k}
\* The file with its new line, for the keys that are left.
<1>7. /\ IsFiniteSet(left)
      /\ Len(out'[r]) + Cardinality(left) = Cardinality(Key)
      /\ \A x \in Key \ left : \E i \in 1 .. Len(out'[r]) : out'[r][i] = Line(x, MapTask)
  <2>1. IsFiniteSet(left) /\ Cardinality(left) = Cardinality(todo[w]) - 1
    BY <1>2, FS_RemoveElement DEF Partial
  <2>2. Cardinality(todo[w]) \in Nat
    BY <1>2, FS_CardinalityType DEF Partial
  <2>3. Len(out'[r]) + Cardinality(left) = Cardinality(Key)
    <3> DEFINE n == Len(out[r])
               c == Cardinality(todo[w])
    <3>1. /\ n \in Nat /\ c \in Nat /\ n + c = Cardinality(Key)
          /\ Len(out'[r]) = n + 1 /\ Cardinality(left) = c - 1
      BY <1>2, <1>4, <1>6, <2>1, <2>2 DEF Partial
    <3> HIDE DEF n, c, left, r
    <3>2. QED
      BY <3>1
  <2>4. ASSUME NEW x \in Key \ left
        PROVE  \E i \in 1 .. Len(out'[r]) : out'[r][i] = Line(x, MapTask)
    <3>1. CASE x = k
      BY <1>4, <1>6, <3>1
    <3>2. CASE x # k
      <4>1. PICK i \in 1 .. Len(out[r]) : out[r][i] = Line(x, MapTask)
        BY <1>2, <3>2 DEF Partial
      <4>2. QED
        BY <1>4, <1>6, <4>1
    <3>3. QED
      BY <3>1, <3>2
  <2>5. QED
    BY <2>1, <2>3, <2>4
<1>8. CASE todo[w] = {k}
  <2>1. pc'[w] = "ask" /\ args'[w] = r /\ pos'[w] = 0
    BY <1>1, <1>3, <1>8 DEF LoopEnd, WorkerTypeOK
  <2>2. left = {} /\ Cardinality(left) = 0
    BY <1>8, FS_EmptySet
  <2>3. Complete(r)'
    BY <1>2, <1>4, <1>6, <1>7, <2>2 DEF Complete
  <2>4. Progress(w)'
    BY <1>2, <2>1, <2>3, MRAssumption DEF Progress, TaskOutput, MRAssumption
  <2>5. QED
    BY <1>2, <1>5, <1>6, <2>1, <2>4, WorkingStep
<1>9. CASE todo[w] # {k}
  <2>1. /\ pc'[w] = "line" /\ todo'[w] = left /\ pos'[w] = pos[w] + 1 /\ input'[w] = input[w]
        /\ Working(w)'
    BY <1>1, <1>2, <1>3, <1>9 DEF WorkerTypeOK, Working
  <2>2. Partial(task[w], todo[w])'
    BY <1>2, <1>7, <2>1 DEF Partial
  <2>3. Progress(w)'
    BY <1>2, <1>4, <2>1, <2>2 DEF Progress
  <2>4. QED
    BY <1>2, <1>5, <1>6, <2>1, <2>3, WorkingStep
<1>10. QED
  BY <1>8, <1>9

\* A report completes the task its worker owns, and the new task had no owner.
LEMMA AskTimely ==
  ASSUME IInv, TimelyInv, NEW w \in Worker, AskForTask(w)
  PROVE  TimelyInv'
<1> DEFINE t == args[w]
           st == StatusAfter(t)
<1> USE DEF TimelyInv
<1>1. /\ UNCHANGED <<running, args, input, pos, inter, out>>
      /\ running /\ pc[w] = "ask" /\ t \in TaskOrNone
      /\ CoordTypeOK /\ WorkerTypeOK
  BY DEF AskForTask, fileVars, IInv, TypeOK, WorkerTypeOK
<1>2. /\ st \in [Task -> {"FREE", "ASSIGNED", "COMPLETED"}]
      /\ \A x \in Task : x # t => st[x] = status[x]
      /\ t \in Task => st[t] = "COMPLETED"
  BY <1>1, BookReport DEF IInv
<1>3. TaskOutput(t)
  BY <1>1 DEF ProgressInv, Progress
<1>4. \A x \in TaskOrNone : TaskOutput(x)' <=> TaskOutput(x)
  BY <1>1 DEF TaskOutput, Full, Complete
<1>5. \/ status' = st /\ UNCHANGED <<task, pc, todo>>
      \/ \E new \in Task :
           /\ st[new] = "FREE"
           /\ status' = [st EXCEPT ![new] = "ASSIGNED"]
           /\ task' = [task EXCEPT ![w] = new]
           /\ pc' = [pc EXCEPT ![w] = IF new \in MapTask THEN "map" ELSE "read"]
           /\ todo' = [todo EXCEPT ![w] = IF new \in MapTask THEN {} ELSE MapTask]
  BY DEF AskForTask, Offer, Task
<1>6. \A x \in Task : status'[x] = "COMPLETED" <=> st[x] = "COMPLETED"
  BY <1>2, <1>5
<1>7. FilesInv'
  BY <1>2, <1>3, <1>4, <1>6 DEF FilesInv, TaskOrNone
<1>8. \A v \in Worker : v # w => /\ pc'[v] = pc[v] /\ task'[v] = task[v]
                                 /\ args'[v] = args[v] /\ todo'[v] = todo[v]
                                 /\ input'[v] = input[v] /\ pos'[v] = pos[v]
  BY <1>1, <1>5 DEF WorkerTypeOK
\* The other workers own what they owned before.
<1>9. ASSUME NEW v \in Worker, v # w, NEW x \in Task, Owns(v, x)'
      PROVE  Owns(v, x) /\ x # t /\ status'[x] = "ASSIGNED"
  <2>1. Owns(v, x)
    BY <1>2, <1>6, <1>8, <1>9 DEF Owns, Working
  <2>2. status[x] = "ASSIGNED" /\ ~Owns(w, x)
    BY <1>9, <2>1 DEF OwnersInv
  <2>3. x # t
    BY <1>1, <2>2 DEF Owns
  <2>4. QED
    BY <1>2, <1>5, <2>1, <2>2, <2>3
<1>10. ASSUME NEW x \in Task, Owns(w, x)'
       PROVE  status'[x] = "ASSIGNED" /\ st[x] = "FREE"
  <2>1. CASE status' = st /\ UNCHANGED <<task, pc, todo>>
    BY <1>1, <1>2, <1>10, <2>1 DEF Owns, Working
  <2>2. ASSUME NEW new \in Task,
               st[new] = "FREE",
               status' = [st EXCEPT ![new] = "ASSIGNED"],
               task' = [task EXCEPT ![w] = new],
               pc' = [pc EXCEPT ![w] = IF new \in MapTask THEN "map" ELSE "read"]
        PROVE  status'[x] = "ASSIGNED" /\ st[x] = "FREE"
    <3>1. pc'[w] \in {"map", "read"} /\ task'[w] = new /\ status'[new] = "ASSIGNED"
      BY <1>1, <1>2, <2>2 DEF WorkerTypeOK
    <3>2. QED
      BY <1>10, <2>2, <3>1 DEF Owns
  <2>3. QED
    BY <1>5, <2>1, <2>2
<1>11. OwnersInv'
  <2> SUFFICES ASSUME NEW v \in Worker, NEW x \in Task, Owns(v, x)',
                      NEW u \in Worker, Owns(u, x)'
               PROVE  status'[x] = "ASSIGNED" /\ u = v
    BY DEF OwnersInv
  <2>1. ASSUME NEW y \in Worker, y # w, Owns(y, x)' PROVE ~Owns(w, x)'
    BY <1>2, <1>9, <1>10, <2>1 DEF OwnersInv
  <2>2. QED
    BY <1>9, <1>10, <2>1 DEF OwnersInv
<1>12. ASSUME NEW v \in Worker PROVE Progress(v)'
  <2>1. Progress(v) /\ args[v] \in TaskOrNone
    BY <1>1 DEF ProgressInv, WorkerTypeOK
  <2>2. CASE v # w
    BY <1>1, <1>4, <1>8, <2>1, <2>2 DEF Progress, Partial
  <2>3. CASE v = w /\ UNCHANGED <<task, pc, todo>>
    BY <1>1, <1>4, <2>1, <2>3 DEF Progress, Partial
  <2>4. ASSUME v = w, NEW new \in Task,
               pc' = [pc EXCEPT ![w] = IF new \in MapTask THEN "map" ELSE "read"],
               todo' = [todo EXCEPT ![w] = IF new \in MapTask THEN {} ELSE MapTask]
        PROVE  Progress(v)'
    <3>1. /\ pc'[w] \in {"map", "read"} /\ pos'[w] = 0
          /\ pc'[w] = "read" => todo'[w] = MapTask
      BY <1>1, <2>1, <2>4 DEF WorkerTypeOK, Progress
    <3>2. input[w] \subseteq MapTask /\ input' = input
      BY <1>1 DEF WorkerTypeOK
    <3>3. QED
      BY <2>4, <3>1, <3>2 DEF Progress
  <2>5. QED
    BY <1>5, <2>2, <2>3, <2>4
<1>13. ExitInv'
  BY <1>1, <1>5 DEF ExitInv, WorkerTypeOK
<1>14. QED
  BY <1>7, <1>11, <1>12, <1>13 DEF ProgressInv

\* The timer of a task that a live worker runs does not free it.
LEMMA CheckProgressTimely ==
  ASSUME SlowWorkers = FALSE, IInv, TimelyInv, NEW t \in Task, CheckProgress(t)
  PROVE  TimelyInv'
<1> USE DEF TimelyInv
<1>1. /\ UNCHANGED <<running, pc, task, args, todo, input, pos, inter, out>>
      /\ status[t] = "ASSIGNED" => ~Held(t)
      /\ status' = IF status[t] = "ASSIGNED" THEN [status EXCEPT ![t] = "FREE"] ELSE status
      /\ CoordTypeOK
  BY DEF CheckProgress, workerVars, fileVars, IInv, TypeOK
<1>2. \A w \in Worker : Owns(w, t) => Held(t)
  BY DEF Owns, Working, Held
<1>3. \A x \in Task : /\ status'[x] = "COMPLETED" <=> status[x] = "COMPLETED"
                      /\ x # t => status'[x] = status[x]
                      /\ status[t] # "ASSIGNED" => status'[t] = status[t]
  BY <1>1 DEF CoordTypeOK
<1>4. \A x \in Task, w \in Worker : Owns(w, x)' => Owns(w, x)
  BY <1>1, <1>3 DEF Owns, Working
<1>5. OwnersInv'
  BY <1>1, <1>2, <1>3, <1>4 DEF OwnersInv
<1>6. \A x \in TaskOrNone : TaskOutput(x)' <=> TaskOutput(x)
  BY <1>1 DEF TaskOutput, Full, Complete
<1>7. FilesInv'
  BY <1>3, <1>6 DEF FilesInv, TaskOrNone
<1>8. ProgressInv'
  BY <1>1, <1>6 DEF ProgressInv, Progress, Partial, IInv, TypeOK, WorkerTypeOK
<1>9. ExitInv'
  BY <1>1, <1>3 DEF ExitInv, Unfinished, Task
<1>10. QED
  BY <1>5, <1>7, <1>8, <1>9

\* Processes that die, start or exit, and the coordinator's exit: the files stay,
\* and nobody gets a task.
LEMMA ProcessStepTimely ==
  ASSUME IInv, TimelyInv,
         \/ CoordinatorExit
         \/ \E w \in Worker : WorkerExit(w) \/ Crash(w) \/ Restart(w)
  PROVE  TimelyInv'
<1> USE DEF TimelyInv
<1>1. /\ UNCHANGED <<status, inter, out>>
      /\ WorkerTypeOK
  BY DEF CoordinatorExit, WorkerExit, Crash, Restart, coordVars, fileVars, IInv, TypeOK
<1>2. \A x \in TaskOrNone : TaskOutput(x)' <=> TaskOutput(x)
  BY <1>1 DEF TaskOutput, Full, Complete
<1>3. FilesInv'
  BY <1>1, <1>2 DEF FilesInv, TaskOrNone
<1>4. CASE CoordinatorExit
  <2>1. UNCHANGED <<pc, task, args, todo, input, pos>> /\ running' = FALSE /\ nReduce = 0
    BY <1>4 DEF CoordinatorExit, workerVars, Done
  <2>2. OwnersInv'
    BY <1>1, <2>1 DEF OwnersInv, Owns, Working
  <2>3. ProgressInv'
    BY <1>1, <1>2, <2>1 DEF ProgressInv, Progress, Partial, WorkerTypeOK
  <2>4. Unfinished(ReduceTask) = {}
    BY <2>1, UnfinishedFinite DEF IInv, CountersExact, Unfinished
  <2>5. ExitInv'
    BY <1>1, <2>1, <2>4 DEF ExitInv, Unfinished
  <2>6. QED
    BY <1>3, <2>2, <2>3, <2>5
<1>5. ASSUME NEW w \in Worker, WorkerExit(w) \/ Crash(w) \/ Restart(w)
      PROVE  TimelyInv'
  <2>1. /\ \A v \in Worker : v # w => /\ pc'[v] = pc[v] /\ task'[v] = task[v]
                                      /\ args'[v] = args[v] /\ todo'[v] = todo[v]
                                      /\ input'[v] = input[v] /\ pos'[v] = pos[v]
        /\ running' = running
    BY <1>1, <1>5 DEF WorkerExit, Crash, Restart, WorkerTypeOK, coordVars
  <2>2. /\ pc'[w] \in {"ask", "exited", "dead"} /\ pos'[w] = 0
        /\ pc'[w] \in {"ask", "dead"} => args'[w] = NoTask
        /\ pc'[w] = "exited" => ~running
    BY <1>1, <1>5 DEF WorkerExit, Crash, Restart, WorkerTypeOK, ProgressInv, Progress
  <2>3. \A v \in Worker, x \in Task : Owns(v, x)' => v # w /\ Owns(v, x)
    BY <1>1, <2>1, <2>2, MRAssumption DEF Owns, Working, MRAssumption
  <2>4. OwnersInv'
    BY <1>1, <2>3 DEF OwnersInv
  <2>5. ASSUME NEW v \in Worker PROVE Progress(v)'
    <3>1. CASE v = w
      BY <2>2, <3>1, MRAssumption DEF Progress, TaskOutput, Task, MRAssumption
    <3>2. CASE v # w
      <4>1. Progress(v) /\ args[v] \in TaskOrNone
        BY <1>1 DEF ProgressInv, WorkerTypeOK
      <4>2. QED
        BY <1>1, <1>2, <2>1, <3>2, <4>1 DEF Progress, Partial
    <3>3. QED
      BY <3>1, <3>2
  <2>6. ExitInv'
    <3>1. Unfinished(ReduceTask)' = Unfinished(ReduceTask)
      BY <1>1 DEF Unfinished
    <3>2. QED
      BY <2>1, <2>2, <3>1 DEF ExitInv
  <2>7. QED
    BY <1>3, <2>4, <2>5, <2>6 DEF ProgressInv
<1>6. QED
  BY <1>4, <1>5

-----------------------------------------------------------------------------
LEMMA InitTimely == Init => TimelyInv
<1> SUFFICES ASSUME Init PROVE TimelyInv
  OBVIOUS
<1> USE DEF Init
<1>1. OwnersInv
  BY MRAssumption DEF OwnersInv, Owns, Working, MRAssumption
<1>2. FilesInv
  BY DEF FilesInv
<1>3. ProgressInv
  BY MRAssumption DEF ProgressInv, Progress, TaskOutput, Task, MRAssumption
<1>4. ExitInv
  BY DEF ExitInv
<1>5. QED
  BY <1>1, <1>2, <1>3, <1>4 DEF TimelyInv

LEMMA NextTimely ==
  ASSUME SlowWorkers = FALSE, IInv, TimelyInv, [Next]_vars
  PROVE  TimelyInv'
<1>1. ASSUME NEW w \in Worker, WorkerStep(w) PROVE TimelyInv'
  <2>1. CASE AskForTask(w)
    BY <2>1, AskTimely
  <2>2. CASE WorkerExit(w)
    BY <2>2, ProcessStepTimely
  <2>3. CASE CreateFiles(w)
    BY <2>3, CreateFilesTimely
  <2>4. CASE WritePartition(w)
    BY <2>4, WritePartitionTimely
  <2>5. CASE ReadPartition(w)
    BY <2>5, ReadPartitionTimely
  <2>6. CASE CreateOutput(w)
    BY <2>6, CreateOutputTimely
  <2>7. CASE WriteLine(w)
    BY <2>7, WriteLineTimely
  <2>8. QED
    BY <1>1, <2>1, <2>2, <2>3, <2>4, <2>5, <2>6, <2>7 DEF WorkerStep
<1>2. ASSUME NEW w \in Worker, Crash(w) \/ Restart(w) PROVE TimelyInv'
  BY <1>2, ProcessStepTimely
<1>3. ASSUME NEW t \in Task, CheckProgress(t) PROVE TimelyInv'
  BY <1>3, CheckProgressTimely
<1>4. CASE CoordinatorExit
  BY <1>4, ProcessStepTimely
<1>5. CASE UNCHANGED vars
  <2>1. UNCHANGED <<status, running, pc, task, args, todo, input, pos, inter, out>>
    BY <1>5 DEF vars, coordVars, workerVars, fileVars
  <2>2. \A t : TaskOutput(t)' <=> TaskOutput(t)
    BY <2>1 DEF TaskOutput, Full, Complete
  <2>3. OwnersInv'
    BY <2>1 DEF TimelyInv, OwnersInv, Owns, Working
  <2>4. FilesInv'
    BY <2>1, <2>2 DEF TimelyInv, FilesInv
  <2>5. ProgressInv'
    BY <2>1, <2>2 DEF TimelyInv, ProgressInv, Progress, Partial
  <2>6. ExitInv'
    BY <2>1 DEF TimelyInv, ExitInv, Unfinished
  <2>7. QED
    BY <2>3, <2>4, <2>5, <2>6 DEF TimelyInv
<1>6. QED
  BY <1>1, <1>2, <1>3, <1>4, <1>5 DEF Next

THEOREM TimelyInvariant ==
  ASSUME SlowWorkers = FALSE
  PROVE  Spec => [](IInv /\ TimelyInv)
<1>1. IInv /\ TimelyInv /\ [Next]_vars => (IInv /\ TimelyInv)'
  BY NextIInv, NextTimely
<1>2. QED
  BY <1>1, InitIInv, InitTimely, PTL DEF Spec

\* When the coordinator reports the job done, every mr-out file has one line for
\* each key, reduced over the values of all map tasks, and no other line:
\* crashed workers, whose tasks are run again, leave no trace in them.
THEOREM OutputAlwaysComplete ==
  ASSUME SlowWorkers = FALSE
  PROVE  Spec => []OutputIsComplete
<1>1. IInv /\ TimelyInv => OutputIsComplete
  <2> SUFFICES ASSUME IInv, TimelyInv, Done, NEW r \in ReduceTask PROVE Complete(r)
    BY DEF OutputIsComplete
  <2>1. Unfinished(ReduceTask) = {}
    BY UnfinishedFinite DEF Done, IInv, CountersExact, Unfinished
  <2>2. status[r] = "COMPLETED"
    BY <2>1 DEF Unfinished
  <2>3. QED
    BY <2>2 DEF TimelyInv, FilesInv, TaskOutput, Task
<1>2. QED
  BY <1>1, TimelyInvariant, PTL

\* What test-mr.sh compares with the sequential program's output, when every
\* process has stopped, is complete.
THEOREM FinalOutputAlwaysComplete ==
  ASSUME SlowWorkers = FALSE
  PROVE  Spec => []FinalOutputIsComplete
<1>1. IInv /\ TimelyInv => FinalOutputIsComplete
  <2> SUFFICES ASSUME IInv, TimelyInv, ~running, NEW r \in ReduceTask PROVE Complete(r)
    BY DEF FinalOutputIsComplete
  <2>1. status[r] = "COMPLETED"
    BY DEF TimelyInv, ExitInv, Unfinished
  <2>2. QED
    BY <2>1 DEF TimelyInv, FilesInv, TaskOutput, Task
<1>2. QED
  BY <1>1, TimelyInvariant, PTL

\* Once the coordinator or a worker has exited no output file is written any
\* more: the exit tells test-mr.sh that the output is final.
THEOREM OutputStaysFinal ==
  ASSUME SlowWorkers = FALSE
  PROVE  Spec => OutputFinalAfterExit
<1>1. IInv /\ TimelyInv /\ [Next]_vars
        => [(~running \/ \E w \in Worker : pc[w] = "exited") => out' = out]_vars
  <2> SUFFICES ASSUME IInv, TimelyInv, Next,
                      ~running \/ \E w \in Worker : pc[w] = "exited"
               PROVE  out' = out
    OBVIOUS
  <2>1. Unfinished(ReduceTask) = {}
    BY DEF TimelyInv, ExitInv
  <2>2. ASSUME NEW w \in Worker PROVE pc[w] \notin {"output", "line"}
    <3>1. SUFFICES ASSUME pc[w] \in {"output", "line"} PROVE FALSE
      OBVIOUS
    <3>2. task[w] \in ReduceTask /\ Owns(w, task[w])
      BY <3>1 DEF IInv, WorkerInv, Owns, Working
    <3>3. status[task[w]] = "ASSIGNED"
      BY <3>2 DEF TimelyInv, OwnersInv, Task
    <3>4. QED
      BY <2>1, <3>2, <3>3 DEF Unfinished
  <2>3. QED
    BY <2>2
    DEF Next, WorkerStep, AskForTask, WorkerExit, Crash, Restart, CoordinatorExit, CheckProgress,
        CreateFiles, WritePartition, ReadPartition, CreateOutput, WriteLine, fileVars
<1>2. QED
  BY <1>1, TimelyInvariant, PTL DEF Spec, OutputFinalAfterExit
=============================================================================
