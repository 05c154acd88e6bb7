----------------------------- MODULE MapReduce -----------------------------
(***************************************************************************)
(* The MapReduce library (src/Distributed Systems/mr): a coordinator that  *)
(* hands out map and reduce tasks, the workers that run them over shared   *)
(* files, and the coordinator's ten-second timers.                         *)
(*                                                                         *)
(* Coordinator.AskForTask runs under the coordinator's mutex and the RPC   *)
(* goes over a local socket, so one request with its reply is one step.    *)
(* A worker's file accesses are steps of their own: that is where workers  *)
(* that hold the same task meet.                                           *)
(***************************************************************************)
EXTENDS Integers, Sequences, FiniteSets

CONSTANTS
  Worker,        \* worker processes
  MapTask,       \* one per input file
  ReduceTask,    \* one per partition
  Key,           \* the keys every partition receives
  NoTask,        \* what a worker reports and runs before its first task
  SlowWorkers,   \* may a live worker hold a task for longer than ten seconds?
  MaxCrashes     \* bound on the worker processes that die

Task == MapTask \cup ReduceTask
TaskOrNone == Task \cup {NoTask}

ASSUME MRAssumption ==
  /\ IsFiniteSet(MapTask) /\ IsFiniteSet(ReduceTask) /\ IsFiniteSet(Key)
  /\ MapTask # {} /\ ReduceTask # {}
  /\ MapTask \cap ReduceTask = {}
  /\ NoTask \notin Task
  /\ SlowWorkers \in BOOLEAN
  /\ MaxCrashes \in Nat

VARIABLES
  \* the coordinator
  status,      \* mapTasks and reduceTasks: each task's Status
  nMap,        \* map tasks not completed yet, as the coordinator counts them
  nReduce,     \* reduce tasks not completed yet, as the coordinator counts them
  timers,      \* checkProgress goroutines asleep, by task
  running,     \* is the coordinator process alive?
  \* the workers
  pc,          \* where the worker loop stands
  task,        \* the task of the last reply
  args,        \* the RPCArgs of the next request: the task it reports
  todo,        \* partitions, input files or keys left in the current step
  input,       \* map tasks whose pairs this reduce run has read
  pos,         \* offset of the next write in the output file
  crashes,     \* worker processes that have died
  \* the shared directory
  inter,       \* mr-<map>-<reduce>
  out          \* mr-out-<reduce>, a sequence of lines

coordVars == <<status, nMap, nReduce, timers, running>>
workerVars == <<pc, task, args, todo, input, pos>>
fileVars == <<inter, out>>
vars == <<coordVars, workerVars, crashes, fileVars>>

-----------------------------------------------------------------------------
\* A line of mr-out: a key with the map tasks whose values were reduced.
Line(k, maps) == <<k, maps>>
Hole == <<>>

\* What a write at offset p leaves in a file that somebody may have truncated.
WriteAt(file, p, line) ==
  [i \in 1 .. (IF Len(file) > p THEN Len(file) ELSE p + 1) |->
     IF i = p + 1 THEN line ELSE IF i <= Len(file) THEN file[i] ELSE Hole]

Complete(r) ==
  /\ Len(out[r]) = Cardinality(Key)
  /\ \A k \in Key : \E i \in 1 .. Len(out[r]) : out[r][i] = Line(k, MapTask)

-----------------------------------------------------------------------------
Init ==
  /\ status = [t \in Task |-> "FREE"]
  /\ nMap = Cardinality(MapTask)
  /\ nReduce = Cardinality(ReduceTask)
  /\ timers = [t \in Task |-> 0]
  /\ running = TRUE
  /\ pc = [w \in Worker |-> "ask"]
  /\ task = [w \in Worker |-> NoTask]
  /\ args = [w \in Worker |-> NoTask]
  /\ todo = [w \in Worker |-> {}]
  /\ input = [w \in Worker |-> {}]
  /\ pos = [w \in Worker |-> 0]
  /\ crashes = 0
  /\ inter = [m \in MapTask |-> [r \in ReduceTask |-> "absent"]]
  /\ out = [r \in ReduceTask |-> <<>>]

-----------------------------------------------------------------------------
\* The coordinator.

\* Mutant of CountDone: a task reported by two workers is counted twice.
CountEveryReport(t) == t # NoTask

\* taskDone returns early for a task that is COMPLETED already.
CountDone(t) == t # NoTask /\ status[t] # "COMPLETED"

StatusAfter(t) == IF CountDone(t) THEN [status EXCEPT ![t] = "COMPLETED"] ELSE status
LeftAfter(n, level, t) == IF CountDone(t) /\ t \in level THEN n - 1 ELSE n

\* Mutant of Offer: reduce tasks are handed out once no map task is free.
OfferEagerly(st, n) ==
  LET free == {t \in Task : st[t] = "FREE"}
  IN  IF free \cap MapTask # {} THEN free \cap MapTask ELSE free

\* What AskForTask may hand out once the report is booked: map tasks as long as
\* one of them is not completed, then reduce tasks.
Offer(st, n) ==
  {t \in IF n # 0 THEN MapTask ELSE ReduceTask : st[t] = "FREE"}

\* Mutant of Watch: no checkProgress goroutine is started.
ForgetWatch(t) == timers

\* go checkProgress(c, reply.Id, reply.Level)
Watch(t) == [timers EXCEPT ![t] = @ + 1]

\* AskForTask books the report and answers with a task, or with Id -1 or -2 when
\* it has none; the worker then asks again with the same report.
AskForTask(w) ==
  LET t  == args[w]
      st == StatusAfter(t)
      nm == LeftAfter(nMap, MapTask, t)
  IN  /\ running /\ pc[w] = "ask"
      /\ nMap' = nm
      /\ nReduce' = LeftAfter(nReduce, ReduceTask, t)
      /\ \/ \E new \in Offer(st, nm) :
              /\ status' = [st EXCEPT ![new] = "ASSIGNED"]
              /\ timers' = Watch(new)
              /\ task' = [task EXCEPT ![w] = new]
              /\ pc' = [pc EXCEPT ![w] = IF new \in MapTask THEN "map" ELSE "read"]
              /\ todo' = [todo EXCEPT ![w] = IF new \in MapTask THEN {} ELSE MapTask]
         \/ /\ Offer(st, nm) = {}
            /\ status' = st
            /\ UNCHANGED <<timers, task, pc, todo>>
      /\ UNCHANGED <<running, args, input, pos, crashes, fileVars>>

\* A live worker runs task t or has not reported it yet.
Held(t) == \E w \in Worker : \/ pc[w] \in {"map", "write", "read", "output", "line"} /\ task[w] = t
                             \/ pc[w] = "ask" /\ args[w] = t

\* checkProgress wakes up after ten seconds and frees a task that is still
\* assigned.  When SlowWorkers is FALSE that is long enough for every live worker.
CheckProgress(t) ==
  /\ timers[t] > 0
  /\ SlowWorkers \/ status[t] # "ASSIGNED" \/ ~Held(t)
  /\ timers' = [timers EXCEPT ![t] = @ - 1]
  /\ status' = IF status[t] = "ASSIGNED" THEN [status EXCEPT ![t] = "FREE"] ELSE status
  /\ UNCHANGED <<nMap, nReduce, running, workerVars, crashes, fileVars>>

\* Coordinator.Done
Done == nReduce = 0

\* The main loop of mrcoordinator.go polls Done and then exits.
CoordinatorExit ==
  /\ running /\ Done
  /\ running' = FALSE
  /\ UNCHANGED <<status, nMap, nReduce, timers, workerVars, crashes, fileVars>>

-----------------------------------------------------------------------------
\* The workers.

\* The loop body ends and its local variables go: with err = nil the next
\* request reports the task, otherwise it repeats the report before.
LoopEnd(w, report) ==
  /\ pc' = [pc EXCEPT ![w] = "ask"]
  /\ args' = [args EXCEPT ![w] = report]
  /\ todo' = [todo EXCEPT ![w] = {}]
  /\ input' = [input EXCEPT ![w] = {}]
  /\ pos' = [pos EXCEPT ![w] = 0]

\* createFiles of processMap: os.Create makes or truncates mr-<map>-<partition>.
CreateFiles(w) ==
  /\ pc[w] = "map"
  /\ inter' = [inter EXCEPT ![task[w]] = [r \in ReduceTask |-> "empty"]]
  /\ pc' = [pc EXCEPT ![w] = "write"]
  /\ todo' = [todo EXCEPT ![w] = ReduceTask]
  /\ UNCHANGED <<coordVars, task, args, input, pos, crashes, out>>

\* writeInFile encodes the pairs of a partition, processMap ends with the last.
WritePartition(w) ==
  /\ pc[w] = "write"
  /\ \E r \in todo[w] :
       /\ inter' = [inter EXCEPT ![task[w]][r] = "full"]
       /\ IF todo[w] = {r}
          THEN LoopEnd(w, task[w])
          ELSE /\ todo' = [todo EXCEPT ![w] = @ \ {r}]
               /\ UNCHANGED <<pc, args, input, pos>>
  /\ UNCHANGED <<coordVars, task, crashes, out>>

\* processReduce reads the partition of one map task; a missing file is an error.
ReadPartition(w) ==
  /\ pc[w] = "read"
  /\ \E m \in todo[w] :
       IF inter[m][task[w]] = "absent"
       THEN LoopEnd(w, args[w])
       ELSE /\ input' = [input EXCEPT ![w] = IF inter[m][task[w]] = "full" THEN @ \cup {m} ELSE @]
            /\ todo' = [todo EXCEPT ![w] = @ \ {m}]
            /\ pc' = IF todo[w] = {m} THEN [pc EXCEPT ![w] = "output"] ELSE pc
            /\ UNCHANGED <<args, pos>>
  /\ UNCHANGED <<coordVars, task, crashes, fileVars>>

\* os.Create of mr-out-<reduce>; without input there is no key to write.
CreateOutput(w) ==
  /\ pc[w] = "output"
  /\ out' = [out EXCEPT ![task[w]] = <<>>]
  /\ IF input[w] = {}
     THEN LoopEnd(w, task[w])
     ELSE /\ pc' = [pc EXCEPT ![w] = "line"]
          /\ todo' = [todo EXCEPT ![w] = Key]
          /\ UNCHANGED <<args, input, pos>>
  /\ UNCHANGED <<coordVars, task, crashes, inter>>

\* One Fprintf at the worker's own offset; a Go map is ranged over in any order.
WriteLine(w) ==
  /\ pc[w] = "line"
  /\ \E k \in todo[w] :
       /\ out' = [out EXCEPT ![task[w]] = WriteAt(@, pos[w], Line(k, input[w]))]
       /\ IF todo[w] = {k}
          THEN LoopEnd(w, task[w])
          ELSE /\ todo' = [todo EXCEPT ![w] = @ \ {k}]
               /\ pos' = [pos EXCEPT ![w] = @ + 1]
               /\ UNCHANGED <<pc, args, input>>
  /\ UNCHANGED <<coordVars, task, crashes, inter>>

\* call exits the process when the coordinator's socket does not answer.
WorkerExit(w) ==
  /\ ~running /\ pc[w] = "ask"
  /\ pc' = [pc EXCEPT ![w] = "exited"]
  /\ UNCHANGED <<coordVars, task, args, todo, input, pos, crashes, fileVars>>

\* The process dies wherever it stands, as crash.go's os.Exit in Map and Reduce.
Crash(w) ==
  /\ crashes < MaxCrashes
  /\ pc[w] \notin {"dead", "exited"}
  /\ crashes' = crashes + 1
  /\ pc' = [pc EXCEPT ![w] = "dead"]
  /\ task' = [task EXCEPT ![w] = NoTask]
  /\ args' = [args EXCEPT ![w] = NoTask]
  /\ todo' = [todo EXCEPT ![w] = {}]
  /\ input' = [input EXCEPT ![w] = {}]
  /\ pos' = [pos EXCEPT ![w] = 0]
  /\ UNCHANGED <<coordVars, fileVars>>

\* test-mr.sh starts another worker as long as the coordinator lives.
Restart(w) ==
  /\ running /\ pc[w] = "dead"
  /\ pc' = [pc EXCEPT ![w] = "ask"]
  /\ UNCHANGED <<coordVars, task, args, todo, input, pos, crashes, fileVars>>

WorkerStep(w) ==
  \/ AskForTask(w) \/ WorkerExit(w)
  \/ CreateFiles(w) \/ WritePartition(w)
  \/ ReadPartition(w) \/ CreateOutput(w) \/ WriteLine(w)

Next ==
  \/ \E w \in Worker : WorkerStep(w) \/ Crash(w) \/ Restart(w)
  \/ \E t \in Task : CheckProgress(t)
  \/ CoordinatorExit

Spec ==
  /\ Init /\ [][Next]_vars
  /\ \A w \in Worker : WF_vars(WorkerStep(w)) /\ WF_vars(Restart(w))
  /\ \A t \in Task : WF_vars(CheckProgress(t))
  /\ WF_vars(CoordinatorExit)

-----------------------------------------------------------------------------
CoordTypeOK ==
  /\ status \in [Task -> {"FREE", "ASSIGNED", "COMPLETED"}]
  /\ nMap \in Nat /\ nReduce \in Nat
  /\ timers \in [Task -> Nat]
  /\ running \in BOOLEAN

WorkerTypeOK ==
  /\ pc \in [Worker -> {"ask", "map", "write", "read", "output", "line", "exited", "dead"}]
  /\ task \in [Worker -> TaskOrNone]
  /\ args \in [Worker -> TaskOrNone]
  /\ todo \in [Worker -> SUBSET (MapTask \cup ReduceTask \cup Key)]
  /\ input \in [Worker -> SUBSET MapTask]
  /\ pos \in [Worker -> Nat]
  /\ crashes \in Nat

OutLine == {Hole} \cup {Line(k, s) : k \in Key, s \in SUBSET MapTask}

FileTypeOK ==
  /\ inter \in [MapTask -> [ReduceTask -> {"absent", "empty", "full"}]]
  /\ out \in [ReduceTask -> Seq(OutLine)]

\* The counters stay naturals although every report may decrement them.
TypeOK == CoordTypeOK /\ WorkerTypeOK /\ FileTypeOK

Unfinished(level) == {t \in level : status[t] # "COMPLETED"}

\* nMap and nReduce, which the code decrements, are the numbers of tasks that are
\* not completed, however often workers report the same task (taskDone).
CountersExact ==
  /\ nMap = Cardinality(Unfinished(MapTask))
  /\ nReduce = Cardinality(Unfinished(ReduceTask))

\* The barrier between the phases: no reduce task is handed out, and no worker
\* reads intermediate files, before every map task is completed (AskForTask).
MapsBeforeReduces ==
  Unfinished(MapTask) # {} =>
    /\ \A r \in ReduceTask : status[r] = "FREE"
    /\ \A w \in Worker : task[w] \notin ReduceTask

\* An assigned task always has exactly one checkProgress goroutine that will
\* free it, and a free task none: a dead worker strands no task, and a timer of
\* an earlier assignment never frees a task that has just been assigned again.
OneWatchPerAssignment ==
  \A t \in Task : /\ status[t] = "ASSIGNED" => timers[t] = 1
                  /\ status[t] = "FREE" => timers[t] = 0

\* The open of processReduce never fails: once a worker runs a reduce task,
\* every mr-<map>-<reduce> file exists (though it may be truncated).
NoMissingInput ==
  \A w \in Worker : pc[w] = "read" =>
    \A m \in MapTask : inter[m][task[w]] # "absent"

\* When the coordinator reports the job done, every output file has one line per
\* key, reduced over the values of all the map tasks.
OutputIsComplete == Done => \A r \in ReduceTask : Complete(r)

\* test-mr.sh waits for every process and then compares the output with that of
\* mrsequential: what is left in the files at the end is complete.
FinalOutputIsComplete ==
  (~running /\ \A w \in Worker : pc[w] \in {"exited", "dead"}) =>
    \A r \in ReduceTask : Complete(r)

\* test-mr.sh: "a process has exited. this means that the output should be
\* finalized": after a worker or the coordinator has exited no output file changes.
OutputFinalAfterExit ==
  [][(~running \/ \E w \in Worker : pc[w] = "exited") => out' = out]_vars

\* The job is done in spite of the workers that die, and then every worker that
\* is not dead exits: test-mr.sh waits for both.
JobFinishes == <>Done
WorkersExit == <>[](\A w \in Worker : pc[w] \in {"exited", "dead"})

\* The coordinator implements the job its user sees.
Job == INSTANCE MRJob WITH
  finishedMaps <- MapTask \ Unfinished(MapTask),
  finishedReduces <- ReduceTask \ Unfinished(ReduceTask)
ImplementsJob == Job!Spec
=============================================================================
