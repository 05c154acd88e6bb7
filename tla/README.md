# A verification project for the systems of this repository

The repository collects university assignments. Three of them are programs with
enough logic of their own to be worth a model, and this directory holds TLA+ modules
of them, TLC configurations and TLAPS proofs:

- `src/Distributed Systems` (Go): a MapReduce library, a Raft library with a
  persister, a simulated network and a replicated key/value service;
- `src/AI` (Python): the graph searches and the agents of the Pacman projects, with
  the rules of the game they play;
- `src/Nand2Tetris` (Python): the Jack compiler, the translator of VM code, the
  assembler and the simulator of the Hack computer.

Everything is translated from the code; the tests and comments are used only for what
they claim of it.

## 1. Inventory

### Components

| part | state | operations | interacts through |
|---|---|---|---|
| MapReduce coordinator (`mr/coordinator.go`, `main/mrcoordinator.go`) | `mapTasks`, `reduceTasks` (Status), `nMap`, `nReduce`, sleeping `checkProgress` goroutines | `AskForTask`, `checkProgress`, `Done`, exit | one RPC, under its mutex; timers |
| MapReduce worker (`mr/worker.go`) | the last reply, the report of the next request, files it has open | ask, map (create, write), reduce (read, create, write), exit, crash | RPC; the files `mr-m-r` and `mr-out-r` |
| Raft peer (`raft/raft.go`) | persisted: term, votes, log, snapshot index and term; volatile: state, votes received, next/match index, commit and apply indices | `startElections`, `RequestVote`, `Start`, `sendHeartBeats`, `startAgreement`, `AppendEntry`, `checkIfCommitted`, `sendApply`, `Snapshot`, `InstallSnapshot`, `readPersist`, and the code after each RPC's reply | RPCs; `rf.mu`; `applyCh`; the persister |
| Persister (`raft/persister.go`) | `raftstate`, `snapshot` | `SaveRaftState`, `SaveStateAndSnapshot`, `Copy` | called by its Raft peer, copied at a crash |
| Service above Raft (`raft/config.go`: `applierSnap`, `ingestSnap`, `crash1`, `start1`) | commands applied per server | receive a command or a snapshot, call `Snapshot`, crash, restart | `applyCh` |
| Network (`labrpc/labrpc.go`) | messages on their way, which server instances exist | delay, lose, reorder, discard replies of deleted servers | all RPCs of Raft and of the key/value service |
| Key/value service (`kvraft/server.go`, `client.go`) | database, outcomes by command; the clerk's guess of the leader | `Get`, `PutAppend`, `readApplyChannel`; the clerk's retries | `Start`, `applyCh`; RPC |
| Searches (`search.py`, `util.py`) | fringe, visited or least costs, parents | the four search functions | called with a `SearchProblem`, which they ask for successors |
| Search agents (`searchAgents.py`) | plan, how much of it is played | `registerInitialState`, `getAction`; problems and heuristics | searches; the game's first state, then one action a turn |
| Pacman (`pacman.py`, `game.py`, `ghostAgents.py`) | food, capsules, positions, directions, timers, score | legal actions and successors of each agent, the loop of turns | asks agents for actions |
| Look-ahead (`multiAgents.py`) | none between turns | `MinimaxAgent`, `AlphaBetaAgent` | makes successors of game states |
| Jack compiler (`Compiler(2)`) | symbol tables, the next label | tokenize, parse to XML, generate VM code from it | its output is input of the VM translator |
| VM translator (`VM(2)`), assembler (`Assembler`) | symbol table, place in the file | translate, two passes | text of the one is input of the other |
| Hack simulator (`Hack Simulator`) | memory, two registers, program counter | a cycle | runs what the assembler wrote |
| labgob, porcupine, `shardctrler`, `shardkv`, `mrapps`, `mrsequential` | - | encoding; vendored checker; empty skeletons; user code | - |
| Wolvo (`oop final project`) | MySQL tables: couriers, orders, friends | servlets | the database |
| Messenger and other mobile apps | Firebase or nothing | user interface | Firebase |
| Disassembler, emulator, automata simulators, other AI, ML, NLP, bioinformatics, cryptography, SQL | - | sequential programs over their input | - |

### What is hard, and what makes each component correct

*MapReduce.* A worker may die or be slow at any file access; the coordinator
hands its task out again after ten seconds, so two workers can run one task over
the same files and both report it. Correct means: each task is counted once, no
reduce task starts before the last map task, a dead worker strands no task,
output is complete when `Done` says so, and everything ends.

*Raft.* Each handler holds `rf.mu`, but the goroutine of an RPC takes it again
for the reply, possibly terms later; the service is handed commands without it;
and a restart may come between any two steps. Correct means: one leader per term,
equal entries have equal logs below them, what a service applied stays in every
later leader's log, services agree at every index, indices stay inside the slice,
and what is acknowledged is on disk.

*Key/value service.* A clerk repeats a command at other servers; leaders change
between the steps of a handler. Correct means: every operation takes effect
exactly once between its call and its return, and it returns.

*Searches and agents.* Nothing is concurrent but the turns of the game; what is hard is
that a search revises what it has decided (a parent, a cost) while older entries of the
fringe are still to come, that a plan is made against a copy of the game and played
without a look at the real one, and that agents move one after the other at different
speeds. Correct means: a path is legal, ends at a goal and is a cheapest or shortest one
where the search promises that; a search ends, and fails only where there is no goal; a
plan works; nobody passes through a ghost or gets stuck; pruning changes nothing.

*Hack tools.* Each is sequential. A property of one alone says little: the translator is
right if its output, assembled and run, does what the VM commands mean, after any
nesting of calls. Correct means that the three of them together implement the VM. The
compiler has in turn to keep values, objects and array items apart with one THIS and one
THAT and a stack; correct means that a program answers what it answers in Jack.

`PROJECT.json` lists the hazards one by one at their lines, with the properties
aimed at each.

## 2. Modules

| module | what it is |
|---|---|
| `MRJob` | what the MapReduce library promises: tasks finish once, maps before reduces, the job finishes |
| `MapReduce` | coordinator, workers, files, timers, crashes |
| `MCMapReduce` | symmetry for TLC |
| `MapReduceProofs` | its inductive invariant and what follows, the safety part of the refinement of `MRJob`, and complete output while no worker is slow |
| `ReplicatedLog` | what Raft promises the services: one growing log, each service holds a prefix of it and falls back only to a prefix |
| `Raft` | peer, persister, service and network |
| `MCRaft` | the runs' initial states and the order that sends first |
| `RaftProofs` | the inductive invariant of elections and persistence; the types of logs, slices, persisters and messages; that no snapshot on disk is beyond the log there |
| `KVStore` | what the key/value service promises its clerks: a linearizable store that does each write once |
| `KVServer` | clerks, handlers and `readApplyChannel` over `ReplicatedLog` (an `INSTANCE`: Raft is exactly its promise) |
| `MCKVServer` | symmetry for TLC |
| `KVServerProofs` | the inductive invariant of the key/value service, and that a server's data is a function of its place in the log |
| `KVStoreProofs` | the refinement of `KVStore`: the service is linearizable |
| `NatRecursion` | induction over an initial segment of the naturals, and that primitive recursion over one defines a function |
| `Search` | the four searches as one loop, for any problem |
| `SearchProofs` | types, legal paths, failure only without a goal, actions that cost least or are fewest, for every problem |
| `Pacman` | rules and turns of the game |
| `PacmanProofs` | types, nobody passes a ghost, everyone can move, and pruning a look-ahead changes no choice, in every maze |
| `SearchAgents` | problems, heuristics and agents: `Search` and `Pacman` composed |
| `AgentProofs` | types, plans that work and consistent heuristics in every maze, and what `SearchProofs` and `PacmanProofs` say of the composition's searches and games |
| `MultiAgent` | minimax and alpha-beta over `Pacman` |
| `MCPacman` | the graphs and mazes of the run |
| `Word`, `Assembler`, `VMTranslator` | 16-bit words; the two translations as functions |
| `HackSimulator` | the computer |
| `VMStack` | what a VM program means: a machine with frames, each with its stack |
| `VMOnHack` | the composition, for which programs it promises something, and what the computer's memory means as a state of `VMStack` |
| `JackSyntax` | Jack programs as trees, and the tokens they are written in |
| `CompilationEngine` | the Jack compiler from tokens to trees |
| `JackCompiler` | its code generator, a function from classes to VM commands |
| `Jack` | what Jack programs mean: objects are records and variables go by their names |
| `MCJack` | Jack programs and what they answer |
| `MCHack` | the programs of the run |

### MapReduce and the code

One `AskForTask` is one step: the handler runs under the coordinator's mutex,
and the RPC is a local socket call that is answered before the worker goes on. It
books the report (`taskDone`), starts the timer and answers. Each file access of
a worker is a step of its own, as that is where two workers with the same task
meet: `CreateFiles` (the `os.Create` calls of `processMap`, which the code issues
back to back, are one step), `WritePartition` (per partition), `ReadPartition`
(per input file), `CreateOutput`, `WriteLine` (one `Fprintf` at the worker's own
offset). Intermediate files are reduced to absent, empty or full; output files
are sequences of lines that say which map tasks' values went into the line.
`CheckProgress` is the body of the goroutine after its sleep. With `SlowWorkers =
FALSE` ten seconds are enough for every live worker; with `TRUE` they need not be.
`Crash` may come between any two steps; `Restart` is the loop of
`main/test-mr.sh` that starts another worker while the coordinator's socket
answers.

### Raft and the code

*Atomicity.* A critical section of `rf.mu` is one step, `persist()` at its end
included (`Persist` is a conjunct of each action). Where a handler keeps the lock
over several visible effects, they are several steps: `Snapshot` and
`InstallSnapshot` write `raftstate` first and `raftstate` with the snapshot later,
and `mode[s] = "save"` stops everything else of the server in between, except a
crash. Where the code releases the lock, the model does: `sendApply` reads
the entry in one step and the service receives it in another (without snapshots
nothing can happen in between that changes the message, and the model takes one
step). `mode` also records how a server ends: `panic` (index out of range), `fatal`
(the tester's `log.Fatalf`), `stuck` (both the service and the handler wait).

*Network.* A message in `requests` may stay there for ever, which is to lose it.
Vote requests are sent once and consumed; everything a leader sends it sends again
every 10 or 100 ms, so those messages may be delivered any number of times. Replies
carry the incarnation of the instance that asked; a crashed one never gets them.

*Left to nondeterminism.* The ticker, its random timeouts and the heartbeat channel:
any server may start an election at any time (it decides under the lock and calls
`startElections` after releasing it, so even a fresh leader may).

*Crash.* `crash1` followed by `start1`: a new instance from a copy of the persister,
whatever the old one was doing; the service starts from the snapshot, and the goroutine
of `readPersistedSnapshot` offers it once more. It has the data from the restart, reads
`lastIncludedIndex` when it makes the message, without `rf.mu` (`ReadPersistedSnapshot`),
and sends that at any later time (`ApplyPersistedSnapshot`).

*Positions.* `entries[s]` is the Go slice with its dummy slot 0. `Slot(s, i)` is
`rf.log.Entries[i]`, and an index is a slot plus `lastIncludedIndex`.

*Bounds.* `MaxElections`, `MaxStarts` and `MaxCrashes` appear only as guards of
the action they bound. `Term == 1 .. MaxElections` bounds the terms because only an
election makes a new one.

### The key/value service and the code

*Threads.* labrpc answers a call only when the handler has returned or its server
is gone, and a clerk has one call at a time. A clerk and the handler that runs
for it are therefore one thread: `pc[c]` says where it is (`send` in the clerk's
loop; `look`, `start`, `poll`, `read` in the handler; `reply` when it has returned) and
`leader[c]` at which server. `Retry` is the loop of `Clerk.Get` and
`Clerk.PutAppend`. Each critical section of `kv.mu` and each call of Raft is a
step. A request that is lost or refused sends the clerk to the next server and
changes nothing else; so the next one that is accepted may be at any server.

*Raft.* `started`, `decided` and `applied` are the commands that `Start` accepted, the
log and what each server has received of it. `ReadApplyChannel` is a step of
`ReplicatedLog` (`Decide` or `Advance` by one command) together with what the
service does with the command. Who leads is left open: every `GetState` and `Start`
may find a leader or not, so a deposed leader's handler may also log its command
late. What the model relies on is the promise, not this repository's Raft:
section 4 tells where that breaks it.

*Data.* A value is the list of the CommandIds that made it: `Put` makes a list of one,
`Append` adds its own. The absent key is the empty list. Ids are drawn from 62 random
bits; the model takes them as fresh.

*Crash.* `ShutdownServer` and `StartServer`: the new `KVServer` has nothing, Raft
gives it the log from the beginning (the service never takes a snapshot), and
the clerks that wait for the old one get no answer.

*The store.* `Effects[n]` replays the first n entries of the log: the writes among them,
each where it is logged first, and `stores`, every key's value before the first of them
and after each. It is the mapping to `KVStore`, whose `stores` the replies read from.

*Linearizability.* `floor`, `seen` and `saw` are history: `saw[c]` is the number of
writes that the answer of c rests on, `seen` the largest of those that have
returned, `floor[c]` what `seen` was at the call of c. `KVStore` lets a call be
answered with the value after any number of writes from `floor[c]` to now, a write
only after it has taken effect, once. That is linearizability, with reads
ordered by the writes they saw.

### Search, agents and game, and the code

*Searches.* `depthFirstSearch`, `breadthFirstSearch`, `uniformCostSearch` and
`aStarSearch` are one loop with three differences, as in the code: which entry `pop`
returns (`First`), what is remembered of a state (`visited` or `dis`) and when a
successor is taken (`Takes`). `Pop` is a round's beginning up to the `for` loop,
`Examine` one round of that loop, `Trace` one of the walk back. The fringe is the set
of pushes with their number; the heap's ties fall to the earlier push, as its `count`
does. `raised` is `IndexError` of `pop` on an empty fringe, or `KeyError` of a state
without parent. `parents` and `dis` are two dictionaries, as in the code, and each is
written by an operator of its own (`Linked`, `Assign`): that they fit together is for
the properties to say. What a search returns is `ans`, and `CostOfActions` adds up
what its actions cost one after the other, without a look at `dis`. `Problem` and its
operators are constants, and `GridAssumption` says what they are for problems about
mazes; `MCPacman` gives them those and graphs.

*Agents.* `phase` says where an agent is: in `registerInitialState` (`register`,
`search`, and `walk` where `ClosestDotSearchAgent` moves its own state on) or playing.
The game does not begin before that is over. StayEastSearchAgent's costs `.5 ** x` are
scaled to integers by the width of the maze, which changes no comparison of sums.
`Plannable` is what an agent's maze must have: no ghosts, which no search problem
knows of (`mediumScaryMaze` has some, and whether a plan survives there is luck); food
where the search ends, which `PositionSearchProblem` and `CornersProblem` warn of if
it is missing (`searchAgents.py:162`, `288`); and for `FoodSearchProblem` a maze in
one piece, as `mazeDistance` raises between pieces.

*Game.* Positions are in half cells, as scared ghosts move at half speed; a
`COLLISION_TOLERANCE` of 0.7 cells is a distance of at most one half. `_eaten`,
`_foodEaten` and the like only tell the display what to draw. Both ghosts of
`ghostAgents.py` give every legal action a positive probability, so a ghost's turn is
any legal action. A keyboard game ends at the bound `MaxMoves`, a planned one a turn
after its plan (`getAction` answers Stop). The keyboard is any legal action of Pacman.

*Actions.* Whose choice an action is, the game asks only whether it is legal, so
`LegalActions` is a set; the order of `_directionsAsList` matters to the look-ahead alone,
which asks for `ActionList`.

*Look-ahead.* `Minimax` and `AlphaBeta` are functions of the turns that are left to
look ahead, which `currentDepth` and the agent's number come to (`Turns`), and then of
a maze and a view: a position, whose turn it is and, for `AlphaBeta`, the bounds.
`Loop` is the loop over the actions in both of its places, with its local `alpha`,
`beta` and `ans`; a bound that is `None` is the empty set. `Infinity` is the
9949345345990 that `ans` starts from (`multiAgents.py:206`, `250`);
`LookAheadAssumption` is that no score gets there within the bound on moves, at 500
points for each ghost and 511 more a turn. In a maze without ghosts both agents ask
for the actions of agent 1 and raise (`multiAgents.py:184`); `AlphaBetaAgrees` is
about mazes with ghosts.

### The Hack tools and the code

*Translation.* `Translate` and `Assemble` are pure and follow the code's templates line by
line; a line of assembly is a record instead of its text, a symbol the parts its name is
joined from. `Linked` numbers the commands as `translate` does, per file, with
the `call Sys.init` that is put before every file when there are several.
A computation that `Translator`'s table lacks raises `KeyError`, and nothing is saved
(`Raises`): the table has `D+M` and `D+A`, and the VM translator writes `A=M+D` and
`A=A+D`. That is for the assembler of the course's CPU emulator, into which the `.tst`
files of `VM(2)` load the translation (`FibonacciElement.tst`: "load
FibonacciElement.asm"); `EmulatorComp`, `Translator`'s table with both sums either way
round, is that external assembler's. `Assemble` takes a table, and the run has programs
for both.

*Compiler.* `CompileClass` is the compilation engine and `Generate` the code generator,
both method by method. In the code an element is XML text around its tokens, which the
generator walks over line by line; here it is a tree, so that indentation and the
arithmetic of indices into the text are left out. A missing `else` is an empty list of
statements, and the code's test for the next keyword is a test for that. The engine
decides by the text of a token, whatever its kind: a string that is a bracket alone as
first argument would end the argument list (`compiler.py:393`); strings in the model are
no signs. `labels` is the generator's `label_count`, passed from statement to statement.
`Jack` knows nothing of segments, pointers or labels: its state is variables by their
names, objects with fields, and the memory that arrays point into. A program of the run is
a tree; `ClassTokens` writes it as tokens, the compiler gets those, and `Jack` the tree.
The operating system's `Memory.alloc` and `Math.multiply` are VM code of the run.

*Programs.* `program` is the place of a program in `Programs`, which holds what the
translator and the assembler make of each of them (`Built`). Where the answers of Jack
programs come from is `Jack!Answer`, not the compiler. The code does not promise
something for every program, and what it needs is written down as the preconditions of
the properties: that the program assembles and its labels are apart (`Sound`,
`LabelsApart`), and that the compiler gives each variable of a class a cell of its own
(`CellsApart`). They are about VM commands and declarations, before anything is
translated. Programs for which they are false are in the run too, and run as they can
(section 4).

*Computer.* A step is a cycle. `ram` holds the cells that have been written; a result
is cut by `c_short` before it is stored, tested or used as an address, and a negative
index counts from the list's end, as in Python. `ram` and `written` are attributes of
the class, so a second computer in one process starts with the first one's memory: the
model is of the first.

*What memory means.* `vm` is a history variable: when a command begins, `Meaning` reads
from the memory which frames there are (from SP, LCL, ARG, THIS and THAT, and the saved
ones from frame to frame), the statics, the temporaries and the heap. `VMStack` says
what commands do to such a machine and knows nothing of cells. Where `eq`, `lt` and `gt`
subtract numbers whose difference is no word, the code compares what is left after the
overflow; the abstract machine leaves the answer to `lt` and `gt` open there.

## 3. Runs

| run | question | bounds |
|---|---|---|
| `kv_service` | with leaders that change, replies that get lost and a restart: is each write in a value once, do servers agree on outcomes, is every answer in the log, is the service a linearizable store? | 2 servers, 2 clerks, 1 key, 2 calls, 3 log entries, 1 restart |
| `mr_timely` | with workers that meet the ten seconds: is output complete at `Done` and final after an exit, do the workers exit? | 2 workers, 2 map, 2 reduce tasks, 2 keys, 2 deaths |
| `mr_slow` | with slow workers: counters, barrier, timers, files, the job finishes, `MRJob` is implemented | 2 workers, 2 map tasks, 1 reduce task, 1 death |
| `mr_slow_output` | is the output left at the end complete with slow workers? (it is not) | as above, no death |
| `raft_contested` | are decisions on a majority of disks and in every later leader's log, and votes final, with crashes; one leader per term although votes come late; and with three leaders' messages at once: do index and term identify an entry, index bounds, monotone commit index, `ReplicatedLog` | 3 servers; 1 election after a leader's command; a candidate against it and 2 crashes; 3 elections without commands; 3 servers that have led a term each, 3 commands done and 1 more, 1 crash |
| `raft_snapshot` | a lagging follower, snapshots and a crash: types, and is the snapshot that a server starts again with never beyond its log? | 3 servers, 2 commands, 1 crash |
| `raft_snapshot_shift` | do services agree after a follower has kept entries beyond a snapshot? (they do not) | 3 servers, 3 commands, no crash |
| `raft_two_leaders` | one leader per term with five servers (it fails) | 5 servers, 3 elections |
| `raft_divergence` | services agree when a leader leads again (they do not) | 3 servers, 3 elections done, 1 more command |
| `raft_snapshot_order` | the service gets commands in order when snapshots are installed (it does not) | as `raft_snapshot`, no crash |
| `pacman` | are paths legal, cheapest or shortest, do searches end, are the heuristics consistent, do plans work, can nobody pass a ghost or get stuck, does pruning change nothing? | all graphs with 4 nodes and some of 6 arcs of cost 1 or 3, with 3 guesses as heuristic; 4 mazes without ghosts for every agent and problem; 2 with ghosts, 16 moves |
| `hack` | does translated code do what VM commands mean, do tests end with their results, do compiled Jack programs answer what they should, do words stay words? | 3 programs of the tests; 45 Jack programs; 389 with a function body of 2 free commands, or of two comparisons; 2 for the repository's own assembler, one for two files that compare |

Why the bounds are enough to be interesting. In MapReduce a task held by two workers
needs two workers, the barrier two map tasks, and partial output two keys; two deaths
can hit both holders of one task. In Raft three servers are the smallest group with a
majority that is not everybody, three elections let a leader be deposed and lead
again, and a crash can strike every window of a persister write. One case is out of
reach: that a leader commits an entry of an earlier term, which another server that led
in between has not. Here a new leader's `nextIndex` begins at the end of its log, so that
it sends older entries only along with a command of its own, unless a late refusal moves
the index back, and it takes five servers or a fourth election (`raft.go:626`; leaving
the guard out breaks no property of the run). In the key/value
service two calls race each other or follow each other (a `Get` that must see a
finished `Append`), three entries let a retried command be in the log twice beside the
other, and one restart replays it; more keys do not meet in any step. In the searches
six arcs make every graph with a detour that is cheaper than the direct way, a cycle
and an unreachable goal, and the guesses make a state be taken again after it was
expanded. A ring has two ways round, and a second capsule restarts a fright in the
middle of a step. Two free commands put any command after any other in a function
whose caller has something on its stack, whose frame has arguments and locals, and
which may call again, with and without arguments. The Jack programs put each of eight
values (items inside indices, calls of methods that set THIS, operators without
precedence) into a local variable, a static, an item and an item of an item; any two of
three jumping statements follow each other; and there are strings, constructors that count
and a loop that returns from its middle. Mutants of the code (`PROJECT.json`)
break every property that passes within these bounds.

*Initial states.* From `Init`, command runs spend their states on elections. They
start later instead, in a state that `Init` leads to, built by `InitAfter`:
`InitElected` (one election that all voted in, and the leader has logged a command;
one more election follows), `InitDeposed` (beside that leader p is a candidate of term
2, with or without the command, and has asked the others; up to two crashes follow),
`InitVoted` (s leads term 1 with the vote of p, that of q is on its way; no commands
and no crashes follow, only the other two elections), `InitContested` (s led term 1
and has two entries that nobody got, and heard of term 2 when it refused its vote; p
led term 2 and replicated an entry to q; q leads term 3; messages of s and p are still
on their way), `InitLagging` (an elected leader, two commands, one follower
acknowledged both, the other got nothing) and `InitReturned` (s led term 1, another
term 2, s leads term 3, one message of term 1 outstanding). What these states drop
compared with the path are messages that were consumed, lost or superseded. The pacman
and hack runs start where their programs do.

*Sending first.* `NextSendFirst` lets leaders send as soon as they can before any
other step. `requests` only grows by a send, every message may stay in it for ever,
and a send changes nothing else (or, when the index is out of range, panics, which
remains a step of `Next`); so any sequence of states of the servers possible when
sends come later is possible when they come at once.

*Fairness.* MapReduce: weak fairness of each worker's loop, of the restart loop, of
each timer and of the coordinator's exit: each is a goroutine or process that
nothing can disable for ever but its own progress. No fairness of `Crash`. Raft and
the key/value service: none, as only safety is checked. Searches: weak fairness of
`Planning` (of the loop in `SearchSpec`), a single call that runs in one thread; players
need not play. The computer: weak fairness of its cycle; `simulate` runs as many as it
is asked for, and the tests ask for enough.

*Deadlock* is not checked: a finished job stops, a game and a search end, Raft and the
key/value service stop when their constants are used up, and a program that does not
assemble has no instructions. That the other programs of `hack`, which all end in a
loop, do not stop before is in the fairness of `ImplementsVM`.

## 4. What the runs found

1. `mr_slow_output` (`worker.go:47`, `:97`): a worker slower than ten seconds still
   creates its files, truncating what the worker that got the task again has
   written, or the final output. `test-mr.sh` compares that output.
2. `raft_two_leaders` (`raft.go:433`): votes of an earlier election are counted for
   the next; only the last one's term is compared. Five servers can have two
   leaders in one term. Three cannot, which `RaftProofs` proves.
3. `raft_divergence` (`raft.go:475`): the reply to an `AppendEntry` is used without
   comparing the term it was sent in, and `AppendEntry` compares only the first of
   several entries (`:281`). Together they let a follower apply a different command.
4. `raft_snapshot_order` (`raft.go:225`, `:355`): the service can be given a snapshot
   after `sendApply` chose the next command and before it delivers it.
5. `raft_snapshot_shift` (`raft.go:361`): `InstallSnapshot` keeps the first retained
   entry in slot 0, where nothing looks at it and from where the entries after it count
   one index less than they have. A follower applies the third command as the second.

And in the Python code. Each of these has a program in the run `hack`; the properties
exclude it by their preconditions, and fail on it without them (each was tried):

- the assembler here cannot read what the VM translator here writes (`M+D`, section 2):
  the test program NestedCall gets no instructions;
- labels of comparisons (`TRUE_RESULT3`) are numbered per file and not qualified by it
  (`translator.py:231`), so two files that compare in their fifth command share one, and
  the first goes on in the second; return labels (`callee$ret.n`) likewise
  (`translator.py:262`);
- the Jack compiler's labels are counted from 0 in each class (`generator.py:56`), and a
  VM label is not qualified by its function: of two classes with an `if` the first jumps
  into the second;
- the first static of a declaration gets the index of the next field, which statics do
  not move on (`generator.py:123`), and in a list the type is compared where the kind is
  meant (`:143`), so that b and c of `static int a, b, c` are one cell.

Minimax raises without ghosts (`multiAgents.py:184`).

Counterexamples to stronger forms of the properties, met on the way and visible in the
model, each at its line: a refusal with `ConflictingIndex` 0 makes a leader whose log
begins after a snapshot panic (`raft.go:478-479`; `NoIndexPanic` is checked where no
snapshot is taken); `InstallSnapshot` waits on `applyCh` with `rf.mu` held while the
service, inside `Snapshot`, waits for `rf.mu` (`:355`, `:157`); a crash between the
two writes of a snapshot leaves the trimmed log without it (`:164-165`);
`readPersistedSnapshot` pairs an old snapshot with a newer index, or offers both after
the service has gone on, which falls back to it (`:139-140`, `:756`); with two snapshot
points and a crash a service that has fallen back is even given the dummy entry of slot 0
as a command, which is why `TypeOK` says that `applied` has commands from 0 on (3 million
states, not a run); `EntriesIdentified` and `OnePlaceEach` fail where
`raft_snapshot_shift` does; a log that is all in a snapshot counts as
empty in elections (`:323-326`, `:679-682`).

## 5. Proofs

The proofs hold for every value of the constants that satisfies the modules'
assumptions: finite sets of tasks or servers, bounds that are naturals. What a theorem
assumes beyond that is in its ASSUME and said here.

`MapReduceProofs`. `IInv` is the type invariant with: the counters are the
numbers of unfinished tasks; nothing of the reduce phase exists while a map task
is unfinished; a worker that has a task has one that was handed out; an assigned
task has one timer, a free one none; and a completed map task has all its
files. The counters alone are not inductive: a report decrements one only for a
task that is not completed, and for `nMap` to reach zero only with the last one the
counter has to be the cardinality. `NoMissingInput` needs that whoever reports a map
task has created its files. One lemma per action; theorems for the four
invariants and for the refinement (`RefinesJob`: every step is a step of `MRJob`
or a stutter).

Its second half assumes `SlowWorkers = FALSE`, that no live worker is slower than the ten
seconds of `checkProgress`: with slower ones the output may be incomplete, as
`mr_slow_output` shows. `TimelyInv` says that a task has at most one worker then, and an
assigned one whose worker lives has exactly that (`OwnersInv`); that the files of a
completed map task are full, and a completed output has a line for every key with the
values of every map task (`FilesInv`); that a reduce worker's lines are those of the keys
it is past, made of what it has read (`ProgressInv`); and that a worker exits only when
the coordinator is gone (`ExitInv`). A worker that died leaves files half written, which
whoever gets the task again truncates first. `OutputAlwaysComplete`,
`FinalOutputAlwaysComplete` and `OutputStaysFinal` follow.

`RaftProofs`. `IInv` is about elections only. `ServerTypeOK` bounds every term by the
number of elections; `MessagesOK` says that a granted vote on its way is one its
sender has recorded; `VotesPersisted` that the disk always has the term and the
votes the server has; `VotesPast` that no vote is given in a term to come (so a
new candidate finds its own vote free); `OwnVote` that a candidate or leader has its
own vote in its term; `OthersVote` that a leader has the vote of another server in
its term. From it,
`VotesAreFinal` (no crash makes a server vote twice in a term) is an action
property of every step. `ThreeServersElectOne` adds the counting argument that this
code allows: the vote that makes a majority is compared with the current term, so a
leader of term t has its own vote and one other server's of t. Two leaders of t
therefore need four servers: two voters for themselves and one other voter each,
all different as votes are final. Up to three servers there is one leader per term;
with five the argument fails, and `raft_two_leaders` shows that the code does.

The module also proves the type invariant of all of Raft, which is where its indices
could go wrong: `TypesInv` says that every slice keeps a slot 0, in memory, on disk and in
messages, that indices are naturals and that no entry above slot 0 is a dummy. Snapshots,
restarts and crashes at any point are covered. `SnapshotsWithinLogs` is about the two
writes of a snapshot, of which a crash may leave the first: whatever snapshot a server
starts again with reaches no further than where its log on disk begins, and that no
further than where its log begins in memory. It needs that a service about to write a
snapshot has applied no more than where that log begins (the third part of
`SnapshotOK`). The other direction is false: the log may begin after the snapshot.

What is in the logs is proved for `SnapshotPoints = {}`, services that take no
snapshot; crashes, restarts, lost and repeated messages stay. `NoSnapshots` says that
every slice begins at index 0, that the disk has the slice that is in memory, and that
the only snapshot ever sent is the empty one of a leader whose `nextIndex` for a peer
fell to 0. It contains `InOrderWithoutSnapshots`: services get commands without a gap,
so that what `raft_snapshot_order` finds needs a snapshot. `PlacesInv` looks at all
that is logged, in slices and in messages, and all that has been applied: no command
has two indices there. Only `Start` numbers a command. Whatever else writes entries
moves some that exist already, at their indices (`NothingNew`), which for
`AppendEntry` is `MergedPlaces`: each slot of the merged slice is the follower's or
that of the message for the same index, wherever the log was cut. This holds for any
number of servers, two leaders of a term and logs that have come to differ
(`CommandsHaveOnePlace`). `TermsIdentifyEntries` is for at most three servers.
`TermsInv` strengthens it with where entries come from: a term of which something is
logged has a server that was elected in it and is no candidate of it any more (`Led`),
and its leader has all of it. Who wins a term was its candidate until then, and by the
counting argument the only one to be elected in it, so nothing of the term is logged
yet (`TurnStep`, `TermsKept`). Both statements are false with snapshots:
`InstallSnapshot` puts the first entry that it retains in slot 0, which is the
snapshot's own, so the others move down by one index (`raft.go:361`); TLC finds that
in `raft_snapshot_shift`. And of Raft's Log Matching only this half
can be had: that two logs with the same entry agree below it as well fails in the
scenario of `raft_divergence`.

`KVServerProofs`. It holds for every set of servers, clerks and keys (`KVAssumption`
and `NilAssumption`), with what `ReplicatedLog` allows as Raft. That a write is in a
value once is not inductive: the code tests outcomes, not values. `WritesKnown` says
that whatever is in a server's value has an outcome there, and a restart empties both.
`AnswersLogged` needs `OutcomesLogged` (what has an outcome is in the log) and
`IdsUnique` (the entry with the same id is the same call). `StepInvariant` has one
lemma per action. `OutcomesAlwaysAgree` needs a second invariant, as two servers
execute a command at different times: `ReplayInv` says that there are two functions of
the places of the log (`Replay`), the database and the outcomes after so many entries,
each made by one command from those before, and that every server has the values of
its own place (`Follows`, `Prefixes`). A server that starts again is at place 0. A
server that executes an entry does to its own data what the entry did to the
function's, and a new entry of the log extends the function without touching what it
was; so whatever two servers answer to a command is what its first entry did.

`KVStoreProofs`. `Linearizable` is the whole refinement of `KVStore`. The mapping is
`Effects`, the log replayed with repeated commands left out; that it is what its recursion
says is `PrimitiveRecursion` of `NatRecursion`, and `ReplayLinked` that every server's
database and outcomes are what this replay gives at its place. `StoreInv`
has what a handler knows (`HandlerInv`: an outcome that it has found is that of a logged
command, and what `Get` is about to answer is what some prefix of the log gives), what
answers rest on (`SeenInv`), and real time: a call in progress has its write, if it is
logged at all, above what had returned when it was called (`FloorInv`), for which an
accepted command must be logged or still be called (`StartedInv`). The steps that the
store sees are `Call`, `Return`, the deciding of a write that is not in the log yet
(`Effective`), the ways to an answer and the loss of some; all others are stutters.

`SearchProofs`, for every set of problems, even infinite ones, whose costs and
heuristics are naturals. `SearchTypeCorrect` is the type invariant with: what has been
pushed has a cost. `PathsLegal` needs that every parent is a legal action from a state
that is the start or has a parent itself (`Parented`), which an overwritten parent
keeps. `RaisesRightly` needs that a state that has been seen is in the fringe, or is
being expanded, or was expanded and has all its successors seen (`SeenHandled`); with
an empty fringe only the last is left. For `CheapestFound` no paths are needed:
`Bound` is a function of states that is at most 0 at the start, grows by no more than
a step costs, and is the found path's cost at every goal; summed along any path it
bounds that path's cost. That gives the least cost to the goal that was popped. It is
`dis` of it, and what is returned is a walk along `parents`, which a search may
overwrite: that the actions cost no more is `WalkInv`. A state whose parent is p was
reached from it by an action that costs no more than what `dis` has risen by
(`LinksPaid`), and what the walk has collected costs no more than from where it is to
the goal (`WalkPaid`); `CostOfActions` is a sum over a sequence that grows at its
front, and `CostPrepended` is one step of it. The invariant of `Bound` (`DisInv`) is
that a state is queued at no more than its cost and heuristic, or all its successors
cost no more than by way of it, and that no entry is queued for less than that; the
entry popped last has the least priority of all. Zero costs, cycles and entries of
superseded costs need no assumption.

`AdmissibleFindsCheapest` is about heuristics that are not consistent. The reference
is `CostToGo`, a recursive function: the costs to a goal by at most n actions. Its
tables never rise with n; `Limit` is the least they get to, and as long as some state
is above its limit, one more reaches it with the next action (`OneMoreAtLimit`), so
that as many actions as there are states are enough (`CostToGoStable`). The limit
satisfies `Potential`. Below, `Paid` says that whatever has a cost costs no less than
any such table allows; above, `DisInv` gives the bound of `CheapestFound` where the
heuristic is admissible. It assumes finitely many states, and a cost of at most
`NoWay`: the table gives a state without a way to a goal 999999, as `getCostOfActions`
does, so a path that costs more says nothing.

`FewestFound` takes the sets of states within k actions as `Layers`. `Layered` says
that the queue holds states of at most two depths, the lesser first, that a state's
parent is one step less deep, and that nothing less deep than what is queued is a goal.

`PacmanProofs`, about `GameSpec`: games that are played with the keyboard, in
every maze, with any number of ghosts, for any number of moves. `GameInv` is that
positions have their types, Pacman's own timer is 0, every agent is on track
(`OnTrack`), and whoever has met him has been put back or has ended the game.
Positions are in half cells and a `COLLISION_TOLERANCE` of 0.7 is a distance of one half,
so that a ghost touches Pacman exactly when it is at most that far from him. Agents
move one at a time; Pacman's move is checked against all ghosts, a ghost's against that
ghost, which are all the pairs that it has brought together, and a ghost that was put
back where it started may touch him with impunity until someone moves again. For
`EveryoneCanMove` what needed care is the end of a fright in the middle of a cell:
`decrementTimer` puts the ghost on the nearest point, which is one of the two
cells it is between. `LayoutAssumption` says of the mazes what the parser of layouts gives
them: agents stand on free cells, and no food under them.

`PruningNeverMatters` is in the same module: at every depth, with any number of
ghosts, `AlphaBetaAgent` chooses the action of `MinimaxAgent`, of several equally good
ones the same. That the pruned recursion returns minimax's value is not inductive, as
under bounds that have been set it does not. What is inductive is `Exact`, a relation
of the value m, the result r and the bounds a and b: r is m where m is between them;
where m is below a, r is too, and no less than m; where m is above b, r is too, and no
more than m. Pacman's loop keeps it for the greatest value so far with the bound that
its own results have raised (`Raised`, `LoopUp`), a ghost's for the least (`Lowered`,
`LoopDown`); a loop that returns early is on the far side of a bound, where the loop
that set the bound has something better. `NodeCorrect` is the induction on the turns,
for all positions and bounds at once. At the root nothing is cut off, alpha is the
greatest value so far, and a result is greater than it exactly if the value is; so
both loops keep the first action of the greatest value (`FirstOf`, `SameAction`). The
code's pruning on strict inequality (`ans > beta`, `ans < alpha`) is what makes ties
come out the same. That scores are smaller than what the loops start from is an
invariant of the game (`Paced`, with `RoomEnough`): a turn changes a score by at most
`MaxChange`, and there are no more turns than `MaxMoves` allows, which is where the
bound enters the proof; `Changes` is shown of every move with the rest of what it
does. The recursive functions are what their recursions say by `StageRecursion`.

`AgentProofs`, about `Spec` of `SearchAgents`, for every set of mazes, problems and
tasks that satisfies the assumptions. `AgentInv` has three parts. `SearchInv` puts the
invariants of `SearchProofs` together: a call starts them anew (`CallSearch`), from
any moment of an earlier search, so they hold of each of the searches that
`ClosestDotSearchAgent` makes. To them it adds `Onward`: no state on the way but the
last is a goal, without which a plan might end the game before its end. `GameInv` is
that of `PacmanProofs`. Between the two is `Matches`: what a state of the problem says
of the game. Pacman stands in its cell, and what is uneaten is what the problem's kind
makes of it (`Uneaten`): all but the cell itself for the nearest food, the food in the
state for `FoodSearchProblem`, one food in every corner that has not been reached for
`CornersProblem`, one at the goal for the others. `StepAlong` is the heart of it:
where a state matches and is no goal there is food left, so the game goes on, the
successor's action is legal, and the successor matches what the game makes of it. An
agent with one plan is then at the `WayPoint` of its `actionIndex` (`OnePlan`). One
that plans path after path (`PathByPath`) checks each path in a state of its own, so
the invariant has a history of legal moves that leads to that state (`Along`), which a
step of `Walk` makes longer, and the game is at some place of that history. After its
plan an agent answers Stop, which eats nothing as Pacman's own cell has no food
(`AloneStops`). `PlansAlwaysWork` and the rest follow.

For `PruningNeverMattersToAgents` a game is `Paced` in tasks without a plan, and who has
a plan is alone in the maze (`NoGhosts`).

`HeuristicsAlwaysConsistent` needs what two recursive functions are. `Tour` has
been shown to be one (`TourRecursion`), and a tour that starts one cell away costs at most
one more: it may go to the same cell first (`TourMoves`, by the triangle inequality), and
a corner that the step has reached is one it would have had to visit. The balls of
`Near` grow by the cells next to them, so a maze distance changes by one at most
(`MazeStep`), and the greatest of them with it (`FoodConsistent`). With
`AgentsFindCheapest` it follows that what `aStarSearch` finds for an agent is a cheapest
path.

`NatRecursion` has the two lemmas on recursion that the others cite. The library's
induction theorems take an operator as a parameter, which no prover here instantiates;
with a set in its place (`NatIn`) they can be cited, and a recursive function over an
initial segment of the naturals can be shown to exist (`PrimitiveRecursion`).

`TypesCorrect` of MapReduce and KVServer follow from their invariants.

Only model-checked:

- liveness under fairness (`JobFinishes`, `WorkersExit`, `Terminates`,
  `GivesResults`);
- of Raft, what has been decided: `LeaderCompleteness`, `DecidedOnMajority`,
  `CommitMonotonic` and `ImplementsLog`, with `NoIndexPanic`.
  They hold within the bounds of their runs and not for every value of the constants:
  a reply of an old term still moves `matchIndex` (`raft.go:475`), `AppendEntry`
  compares one entry of several (`:281`) and `InstallSnapshot` can shorten a log
  (`:360`), so `raft_divergence` refutes the chain of invariants that a proof would
  need. What is proved of elections and logs does not depend on them;
- the Hack tools and the Jack compiler (`Word` rests on `Bitwise`, and trees need
  recursive operators), with `TypeOK` of `VMOnHack` and the refinement of `VMStack`.

## 6. Not modelled, and why

- Timing: election timeouts, the heartbeat channel and the ten-second call timeouts of
  the tester. Nondeterminism covers them for safety.
- `Kill` and what an old instance still does after a crash: `crash1` disconnects it
  and copies the persister, so that it reaches nobody; its applier is cut off with the
  service's new instance. (`raft.go:660`, a return with the lock held when killed, is
  listed as a hazard.)
- labrpc's channels and the window inside `processReq`: the model has the guarantee it
  gives Raft.
- Whether a handler of the key/value service may poll for ever (`server.go:93` ignores
  what `Start` returns). A poll that finds nothing is a stutter of `KVServer`; to wait
  for ever a handler has to miss a whole change of leaders and back between two polls
  of 10 ms, which an untimed model cannot tell from what does happen.
- Snapshots of the key/value service: the code takes none, whatever `maxraftstate` is
  (the comment at `server.go:172` asks for them).
- labgob: values are encoded as themselves. porcupine: vendored. `shardctrler`,
  `shardkv`: empty skeletons.
- Search and Pacman: `euclideanHeuristic` (square roots), `ReflexAgent`,
  `betterEvaluationFunction` and `ExpectimaxAgent` (weights and averages in floating
  point), the autograder's timeouts and `catchExceptions`, and what is drawn. The
  questions of the search agents are checked in mazes of at most nine cells, and proved
  for all.
- Hack tools: splitting lines and comments; the Jack compiler's tokenizer and the
  XML text between engine and generator;
  the disassembler, and `VM(1)`, whose templates `VM(2)` contains.
- Coverage. Half of the Python of the repository are notebooks of the machine learning
  and language processing courses and their checkpoint copies; they train models over
  data, keep no state that a transition system would describe and compute in floating
  point. They are most of the lines that the map does not cover.
- The rest of the repository: see the components in `PROJECT.json`; the Wolvo order
  and friend requests are its most interesting concurrent part.

## 7. Plan

Order of modules, most important first: `MapReduce` over `MRJob`, `Raft` over
`ReplicatedLog`, `KVServer` over `ReplicatedLog` under `KVStore`, `Search` with the
agents and the game, the Hack tools under `VMStack`, the Jack compiler under `Jack` (all
done), then

1. Snapshots in depth: the compacted log of a voter, and the deadlock of `Snapshot`
   with `InstallSnapshot` as a liveness property.
2. Proofs: the steps of the computer in `VMOnHack`.
3. Liveness of the key/value handlers, with a model of polls and terms.
4. labrpc's `processReq` window; Wolvo's couriers and friend requests; the automata
   simulators as functions with a reference definition.
