------------------------------- MODULE Search -------------------------------
(***************************************************************************)
(* The graph searches of AI/Search/proj1-search-python3/search.py:          *)
(* depthFirstSearch, breadthFirstSearch, uniformCostSearch and aStarSearch. *)
(* The four share a loop (pop a state, stop at a goal, look at its          *)
(* successors one by one) and differ in the fringe they keep, in what they  *)
(* remember of a state and in when they take a successor.                   *)
(***************************************************************************)
EXTENDS Integers, Sequences, FiniteSets

CONSTANTS
  Problem,               \* the SearchProblem objects
  State(_),              \* the states of a problem
  Action(_),             \* and its actions
  GetStartState(_),
  IsGoalState(_, _),
  GetSuccessors(_, _),   \* the list of a state's (successor, action, stepCost)
  Heuristic(_, _)        \* the heuristic that aStarSearch is called with

Successor(p) == [state : State(p), action : Action(p), cost : Nat]

\* A cost function returns "a non-negative number" (searchAgents.py:154).
ASSUME ProblemAssumption ==
  \A p \in Problem :
    /\ GetStartState(p) \in State(p)
    /\ \A s \in State(p) :
         /\ IsGoalState(p, s) \in BOOLEAN
         /\ GetSuccessors(p, s) \in Seq(Successor(p))
         /\ Heuristic(p, s) \in Nat

VARIABLES
  problem, algorithm,
  fringe,      \* what is pushed and not popped yet: the count-th push
  count,
  visited,     \* dfs: the states expanded; bfs: the states pushed
  dis,         \* ucs, astar: the least cost known of a state
  parents,     \* where a state was last taken from, and by which action
  current,     \* the state popped
  next,        \* the successor of it that the for loop is at
  state,       \* where the walk back to the start has got to
  ans,         \* the actions of that walk, with the state each leaves
  pc

searchVars == <<problem, algorithm, fringe, count, visited, dis, parents, current, next,
                state, ans, pc>>

Algorithm == {"dfs", "bfs", "ucs", "astar"}

Weighted == algorithm \in {"ucs", "astar"}
Start == GetStartState(problem)
Successors(s) == GetSuccessors(problem, s)
H(s) == IF algorithm = "astar" THEN Heuristic(problem, s) ELSE 0

-----------------------------------------------------------------------------
Empty == [s \in {} |-> 0]
Entry(c, s, priority) == [count |-> c, state |-> s, priority |-> priority]

\* Mutant of First: a Queue pops the entry that was pushed last.
LastFirst(e) == \A f \in fringe : f.count <= e.count

\* Which entry pop returns: a Stack's last one, a Queue's first one, a PriorityQueue's
\* first one of the least priority.
First(e) ==
  \A f \in fringe :
    CASE algorithm = "dfs" -> f.count <= e.count
      [] algorithm = "bfs" -> e.count <= f.count
      [] Weighted -> \/ e.priority < f.priority
                     \/ e.priority = f.priority /\ e.count <= f.count

\* Mutant of Removed: pop leaves the entry in the fringe.
Kept(e) == fringe
Removed(e) == fringe \ {e}

Push(s, priority) ==
  /\ fringe' = fringe \cup {Entry(count, s, priority)}
  /\ count' = count + 1

\* Nothing has been called yet.
SearchInit ==
  /\ problem \in Problem
  /\ algorithm \in Algorithm
  /\ fringe = {} /\ count = 0
  /\ visited = {} /\ dis = Empty /\ parents = Empty
  /\ current = Start /\ next = 1
  /\ state = Start /\ ans = <<>>
  /\ pc = "idle"

\* The call.  The start is pushed with priority 0, its heuristic left out.
Call(p, f) ==
  /\ problem' = p /\ algorithm' = f
  /\ fringe' = {Entry(0, GetStartState(p), 0)} /\ count' = 1
  /\ visited' = IF f = "bfs" THEN {GetStartState(p)} ELSE {}
  /\ dis' = IF f \in {"ucs", "astar"} THEN [s \in {GetStartState(p)} |-> 0] ELSE Empty
  /\ parents' = Empty
  /\ current' = GetStartState(p) /\ next' = 1
  /\ state' = GetStartState(p) /\ ans' = <<>>
  /\ pc' = "pop"

Pop ==
  /\ pc = "pop"
  /\ \E e \in fringe :
       /\ First(e)
       /\ fringe' = Removed(e)
       /\ current' = e.state
       /\ IF IsGoalState(problem, e.state)
          THEN pc' = "trace" /\ state' = e.state /\ UNCHANGED <<visited, next>>
          ELSE /\ pc' = "expand" /\ next' = 1
               /\ visited' = IF algorithm = "dfs" THEN visited \cup {e.state} ELSE visited
               /\ UNCHANGED state
  /\ UNCHANGED <<problem, algorithm, count, dis, parents, ans>>

\* pop of an empty fringe raises IndexError: there is no way to a goal.
PopEmpty ==
  /\ pc = "pop" /\ fringe = {}
  /\ pc' = "raised"
  /\ UNCHANGED <<problem, algorithm, fringe, count, visited, dis, parents, current, next,
                 state, ans>>

Cheaper(s) ==
  \/ s.state \notin DOMAIN dis
  \/ dis[current] + s.cost < dis[s.state]

Takes(s) == IF Weighted THEN Cheaper(s) ELSE s.state \notin visited

\* Mutant of Priority: the cost so far is left out.
Greedy(s) == H(s.state)
Priority(s) == dis[current] + s.cost + H(s.state)

Assign(f, s, v) == [t \in DOMAIN f \cup {s} |-> IF t = s THEN v ELSE f[t]]

\* Mutant of Linked: a state that is taken again keeps the parent it had.
FirstParent(s) ==
  IF s.state \in DOMAIN parents THEN parents
  ELSE Assign(parents, s.state, [from |-> current, action |-> s.action])
Linked(s) == Assign(parents, s.state, [from |-> current, action |-> s.action])

Take(s) ==
  /\ parents' = Linked(s)
  /\ IF Weighted
     THEN /\ dis' = Assign(dis, s.state, dis[current] + s.cost)
          /\ Push(s.state, Priority(s))
     ELSE Push(s.state, 0) /\ UNCHANGED dis
  /\ visited' = IF algorithm = "bfs" THEN visited \cup {s.state} ELSE visited

\* Mutant of More: the last successor is not looked at.
ButLast == next < Len(Successors(current))
More == next <= Len(Successors(current))

\* One round of the for loop.
Examine ==
  /\ pc = "expand" /\ More
  /\ next' = next + 1
  /\ LET s == Successors(current)[next]
     IN  IF Takes(s) THEN Take(s) ELSE UNCHANGED <<fringe, count, visited, dis, parents>>
  /\ UNCHANGED <<problem, algorithm, current, state, ans, pc>>

EndExpand ==
  /\ pc = "expand" /\ ~More
  /\ pc' = "pop"
  /\ UNCHANGED <<problem, algorithm, fringe, count, visited, dis, parents, current, next,
                 state, ans>>

\* Mutant of LinkFirst: the path is not reversed.
LinkLast(link) == Append(ans, link)
LinkFirst(link) == <<link>> \o ans

\* The walk back from the goal.  A state without a parent is a KeyError.
Trace ==
  /\ pc = "trace" /\ state # Start
  /\ IF state \in DOMAIN parents
     THEN /\ ans' = LinkFirst(parents[state])
          /\ state' = parents[state].from
          /\ UNCHANGED pc
     ELSE pc' = "raised" /\ UNCHANGED <<ans, state>>
  /\ UNCHANGED <<problem, algorithm, fringe, count, visited, dis, parents, current, next>>

Return ==
  /\ pc = "trace" /\ state = Start
  /\ pc' = "done"
  /\ UNCHANGED <<problem, algorithm, fringe, count, visited, dis, parents, current, next,
                 state, ans>>

Round == Pop \/ PopEmpty \/ Examine \/ EndExpand \/ Trace \/ Return

SearchNext ==
  \/ pc = "idle" /\ Call(problem, algorithm)
  \/ Round

\* A search is a function call: it runs until it returns or raises.
SearchSpec == SearchInit /\ [][SearchNext]_searchVars /\ WF_searchVars(SearchNext)

-----------------------------------------------------------------------------
Link(p) == [from : State(p), action : Action(p)]

SearchTypeOK ==
  /\ problem \in Problem
  /\ algorithm \in Algorithm
  /\ fringe \subseteq [count : Nat, state : State(problem), priority : Nat]
  /\ count \in Nat
  /\ visited \subseteq State(problem)
  /\ DOMAIN dis \subseteq State(problem) /\ dis \in [DOMAIN dis -> Nat]
  /\ DOMAIN parents \subseteq State(problem)
  /\ parents \in [DOMAIN parents -> Link(problem)]
  /\ current \in State(problem) /\ state \in State(problem)
  /\ next \in Nat \ {0}
  /\ ans \in Seq(Link(problem))
  /\ pc \in {"idle", "pop", "expand", "trace", "done", "raised"}

\* The problem has the action of the link, and it leads to s.
Leads(link, s) ==
  \E i \in DOMAIN Successors(link.from) :
    /\ Successors(link.from)[i].state = s
    /\ Successors(link.from)[i].action = link.action

\* What a search returns is a sequence of legal actions that leads from the start to a
\* goal, although a state's parent is overwritten whenever the state is pushed again:
\* every state that the walk back gets to has a parent (else it raises KeyError), and
\* what the walk has collected leads from there to the goal.
PathLegal ==
  pc \in {"trace", "done"} =>
    /\ IsGoalState(problem, current)
    /\ state = Start \/ (pc = "trace" /\ state \in DOMAIN parents)
    /\ IF ans = <<>> THEN state = current
       ELSE /\ ans[1].from = state
            /\ \A i \in 1 .. Len(ans) - 1 : Leads(ans[i], ans[i + 1].from)
            /\ Leads(ans[Len(ans)], current)

Least(S) == CHOOSE n \in S : \A m \in S : n <= m

\* What the action of a link to s costs.
LinkCost(link, s) ==
  LET to == Successors(link.from)
      Lists(i) == to[i].state = s /\ to[i].action = link.action
  IN  Least({to[i].cost : i \in {j \in DOMAIN to : Lists(j)}})

\* What the actions of a path to a goal cost: those of its last k links, for every k.
CostOfActions(path, goal) ==
  LET To(i) == IF i = Len(path) THEN goal ELSE path[i + 1].from
      Cost(k) == LinkCost(path[Len(path) + 1 - k], To(Len(path) + 1 - k))
      last[k \in 0 .. Len(path)] == IF k = 0 THEN 0 ELSE Cost(k) + last[k - 1]
  IN  last[Len(path)]

\* The states a search knows of.
Known == IF Weighted THEN DOMAIN dis ELSE visited

\* A search that raises has seen all that the start leads to, and no goal among it.
RaisesOnlyWithoutGoal ==
  pc = "raised" =>
    /\ Start \in Known
    /\ \A s \in Known :
         /\ ~IsGoalState(problem, s)
         /\ \A i \in DOMAIN Successors(s) : Successors(s)[i].state \in Known

\* "This heuristic must be consistent to ensure correctness" (searchAgents.py:448).
Consistent ==
  \A s \in State(problem) :
    /\ IsGoalState(problem, s) => H(s) = 0
    /\ \A i \in DOMAIN Successors(s) :
         H(s) <= Successors(s)[i].cost + H(Successors(s)[i].state)

\* What a path from the start to s costs at least.
Bound(s) ==
  IF s \in DOMAIN dis /\ dis[s] + H(s) < dis[current] THEN dis[s] ELSE dis[current] - H(s)

\* The path that uniformCostSearch, and aStarSearch with a consistent heuristic, returns
\* is a cheapest one: Bound is at most 0 at the start and no step raises it by more than
\* the step costs, so that no way to a goal costs less than its Bound, and what the
\* returned actions cost, along the parents that were overwritten, is at most that.
Cheapest ==
  pc = "done" /\ Weighted /\ Consistent =>
    /\ Bound(Start) <= 0
    /\ \A s \in State(problem) :
         /\ IsGoalState(problem, s) => CostOfActions(ans, current) <= Bound(s)
         /\ \A i \in DOMAIN Successors(s) :
              Bound(Successors(s)[i].state) <= Bound(s) + Successors(s)[i].cost

-----------------------------------------------------------------------------
\* The states that at most k actions lead to.
Within[k \in Nat] ==
  IF k = 0 THEN {Start}
  ELSE Within[k - 1] \cup UNION {{Successors(s)[i].state : i \in DOMAIN Successors(s)} :
                                   s \in Within[k - 1]}

\* What breadthFirstSearch returns has as few actions as any way to any goal.
FewestActions ==
  pc = "done" /\ algorithm = "bfs" /\ ans # <<>> =>
    \A s \in Within[Len(ans) - 1] : ~IsGoalState(problem, s)

\* What getCostOfActions answers for a path that there is not (searchAgents.py:217).
NoWay == 999999

\* The least cost of a way of at most k actions from a state to a goal.
CostToGo[k \in Nat] ==
  IF k = 0 THEN [s \in State(problem) |-> IF IsGoalState(problem, s) THEN 0 ELSE NoWay]
  ELSE LET shorter == CostToGo[k - 1]
       IN  [s \in State(problem) |->
              Least({shorter[s]} \cup {Successors(s)[i].cost + shorter[Successors(s)[i].state] :
                                         i \in DOMAIN Successors(s)})]

\* With a heuristic that is not consistent but never overestimates, the path that
\* aStarSearch returns costs no more than any other too: it takes a state again, and
\* gives it another parent, when it gets there at a lower cost.
CheapestIfAdmissible ==
  pc = "done" /\ algorithm = "astar" /\ ~Consistent =>
    LET least == CostToGo[Cardinality(State(problem))]
    IN  (\A s \in State(problem) : H(s) <= least[s]) => CostOfActions(ans, current) <= least[Start]

\* A search that is called returns or raises, whatever cycles the graph has.
Terminates == pc = "pop" ~> pc \in {"done", "raised"}
=============================================================================
