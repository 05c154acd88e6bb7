---------------------------- MODULE SearchAgents ----------------------------
(***************************************************************************)
(* The search problems and agents of AI/Search/proj1-search-python3/        *)
(* searchAgents.py: an agent that is registered poses problems about the    *)
(* maze, lets a search solve them and then plays what it found, one action  *)
(* a turn, without looking at the game again.                               *)
(***************************************************************************)
EXTENDS Search, Pacman

CONSTANT Task      \* what is run: see Init

VARIABLES
  task,
  phase,       \* "register", "search", "walk" (ClosestDotSearchAgent), "play"
  actions,     \* the plan
  actionIndex, \* how much of it is played
  segment,     \* what is left of the last path, and
  planState    \* the state that the plan leads to so far (ClosestDotSearchAgent)

agentVars == <<task, phase, actions, actionIndex, segment, planState>>
vars == <<searchVars, gameVars, agentVars>>

-----------------------------------------------------------------------------
\* A problem about a maze: where Pacman is, which food is left and which corners count.
GridProblem(kind, g) ==
  [kind |-> kind, layout |-> g.layout, start |-> NearestPoint(g.conf[0].pos),
   food |-> g.food]

Greatest(S) == CHOOSE n \in S : \A m \in S : m <= n
Width(l) == Greatest({c[1] : c \in l.cells})
Height(l) == Greatest({c[2] : c \in l.cells})

Goal == <<1, 1>>
Corners(l) == {1, Width(l)} \X {1, Height(l)}

Kind == {"position", "east", "west", "any", "corners", "food"}

\* The orders in which corners can have been reached.
Reached(l) ==
  UNION {{s \in [1 .. n -> Corners(l)] : \A i, j \in 1 .. n : i # j => s[i] # s[j]} :
           n \in 0 .. Cardinality(Corners(l))}
RangeOf(s) == {s[i] : i \in DOMAIN s}

\* A problem with corners or food remembers what of it has been reached, or is left.
GridState(p) ==
  CASE p.kind = "corners" -> p.layout.cells \X Reached(p.layout)
    [] p.kind = "food" -> p.layout.cells \X SUBSET p.food
    [] OTHER -> p.layout.cells

Reach(p, cell, reached) ==
  IF cell \in Corners(p.layout) \ RangeOf(reached) THEN Append(reached, cell) ELSE reached

GridStart(p) ==
  CASE p.kind = "corners" -> <<p.start, Reach(p, p.start, <<>>)>>
    [] p.kind = "food" -> <<p.start, p.food>>
    [] OTHER -> p.start

GridGoal(p, s) ==
  CASE p.kind = "corners" -> Len(s[2]) > 3
    [] p.kind = "food" -> s[2] = {}
    [] p.kind = "any" -> s \in p.food
    [] OTHER -> s = Goal

\* What a step costs.  StayEastSearchAgent's costs, 1/2^x, are counted in units of the
\* least of them.
StepCost(p, cell) ==
  CASE p.kind = "east" -> 2 ^ (Width(p.layout) - cell[1])
    [] p.kind = "west" -> 2 ^ cell[1]
    [] OTHER -> 1

GridSuccessors(p, s) ==
  LET cell == IF p.kind \in {"corners", "food"} THEN s[1] ELSE s
      Led(action) ==
        LET to == Plus(cell, action, 1)
        IN  [state |-> CASE p.kind = "corners" -> <<to, Reach(p, to, s[2])>>
                         [] p.kind = "food" -> <<to, s[2] \ {to}>>
                         [] OTHER -> to,
             action |-> action, cost |-> StepCost(p, to)]
      IfOpen(action) == IF Plus(cell, action, 1) \in p.layout.cells THEN <<Led(action)>> ELSE <<>>
  IN  IfOpen("North") \o IfOpen("South") \o IfOpen("East") \o IfOpen("West")

-----------------------------------------------------------------------------
\* The least sum of distances over the orders to visit n of the cells in, from a place.
Tour[n \in Nat] ==
  [from \in Int \X Int |-> [cells \in SUBSET (Int \X Int) |->
     IF n = 0 \/ cells = {} THEN 0
     ELSE Least({Distance(from, c) + Tour[n - 1][c][cells \ {c}] : c \in cells})]]

\* Mutant of CornersHeuristic: the longest tour instead of the shortest one.
LongTour[n \in Nat] ==
  [from \in Int \X Int |-> [cells \in SUBSET (Int \X Int) |->
     IF n = 0 \/ cells = {} THEN 0
     ELSE Greatest({Distance(from, c) + LongTour[n - 1][c][cells \ {c}] : c \in cells})]]
LongestTour(p, s) ==
  LET left == Corners(p.layout) \ RangeOf(s[2]) IN LongTour[Cardinality(left)][s[1]][left]
CornersHeuristic(p, s) ==
  LET left == Corners(p.layout) \ RangeOf(s[2]) IN Tour[Cardinality(left)][s[1]][left]

\* The cells at most so many steps from a cell.
Near(l, from) ==
  LET Ball[k \in Nat] ==
        IF k = 0 THEN {from}
        ELSE LET ball == Ball[k - 1]
             IN  ball \cup {c \in l.cells : \E d \in ball : Distance(c, d) = 1}
  IN  Ball

\* mazeDistance: the length of what breadthFirstSearch finds from one cell to another.
MazeDistance(l, from, to) ==
  Least({k \in 0 .. Cardinality(l.cells) : to \in Near(l, from)[k]})

FoodHeuristic(p, s) ==
  LET far == {MazeDistance(p.layout, food, s[1]) : food \in s[2]} \cup {0}
  IN  Greatest(far)

GridHeuristic(p, s) ==
  CASE p.kind = "position" -> Distance(s, Goal)
    [] p.kind = "corners" -> CornersHeuristic(p, s)
    [] p.kind = "food" -> FoodHeuristic(p, s)
    [] OTHER -> 0

-----------------------------------------------------------------------------
\* What agents pose are search problems, and those are what searchAgents.py makes of them.
ASSUME GridAssumption ==
  /\ \A l \in {t.layout : t \in Task} : \A cell \in l.cells, food \in SUBSET l.food :
       [kind |-> "any", layout |-> l, start |-> cell, food |-> food] \in Problem
  /\ \A t \in Task : t.agent = "search" =>
       [kind |-> t.kind, layout |-> t.layout, start |-> t.layout.agents[1],
        food |-> t.layout.food] \in Problem
  /\ \A p \in Problem : p.kind \in Kind =>
       /\ State(p) = GridState(p) /\ Action(p) = Way /\ GetStartState(p) = GridStart(p)
       /\ \A s \in State(p) : /\ IsGoalState(p, s) = GridGoal(p, s)
                             /\ GetSuccessors(p, s) = GridSuccessors(p, s)
                             /\ Heuristic(p, s) = GridHeuristic(p, s)

\* Where an agent can plan: a maze without ghosts, which no search problem knows, with food
\* where its search ends, as PositionSearchProblem and CornersProblem ask for with a
\* warning (searchAgents.py:162, 288), and all of it in reach where distances count.
Plannable(kind, l) ==
  /\ Len(l.agents) = 1 /\ l.food # {} /\ IsFiniteSet(l.cells)
  /\ kind \in {"position", "east", "west"} => Goal \in l.food
  /\ kind = "corners" => Corners(l) \ {l.agents[1]} \subseteq l.food
  /\ kind = "food" => \A c, d \in l.cells : d \in Near(l, c)[Cardinality(l.cells)]

ASSUME TaskAssumption ==
  \A t \in Task :
    /\ t.layout \in Layout
    /\ t.agent \in {"graph", "search", "closest", "keyboard"}
    /\ t.agent \in {"graph", "search"} => t.fn \in Algorithm
    /\ t.agent = "graph" => t.problem \in Problem
    /\ t.agent = "search" => t.kind \in Kind \ {"any"} /\ Plannable(t.kind, t.layout)
    /\ t.agent = "closest" => Plannable("any", t.layout)

-----------------------------------------------------------------------------
\* A task is a problem for a search alone ("graph"), or a maze for an agent: "search"
\* poses one problem, "closest" one for the food that is nearest as long as there is
\* any, and "keyboard" has no plan.
Init ==
  /\ task \in Task
  /\ game = NewGame(task.layout) /\ agentIndex = 0 /\ moves = 0 /\ run = "playing"
  /\ problem = CASE task.agent = "graph" -> task.problem
                 [] task.agent = "search" -> GridProblem(task.kind, game)
                 [] OTHER -> GridProblem("any", game)
  /\ algorithm = IF task.agent \in {"graph", "search"} THEN task.fn ELSE "bfs"
  /\ SearchInit
  /\ phase = IF task.agent = "keyboard" THEN "play" ELSE "register"
  /\ actions = <<>> /\ actionIndex = 0 /\ segment = <<>> /\ planState = game

\* registerInitialState, up to the search it calls.
Register ==
  /\ phase = "register"
  /\ IF task.agent = "closest" /\ planState.food = {}
     THEN phase' = "play" /\ UNCHANGED searchVars
     ELSE /\ phase' = "search"
          /\ Call(IF task.agent = "closest" THEN GridProblem("any", planState) ELSE problem,
                  algorithm)
  /\ UNCHANGED <<gameVars, task, actions, actionIndex, segment, planState>>

Searching ==
  /\ phase = "search" /\ Round
  /\ UNCHANGED <<gameVars, agentVars>>

\* Mutant of Extended: the paths found before are forgotten.
Replaced(path) == path
Extended(path) == actions \o path

\* The search has returned a path.
Found ==
  /\ phase = "search" /\ pc = "done" /\ task.agent # "graph"
  /\ LET path == [i \in DOMAIN ans |-> ans[i].action]
     IN  /\ actions' = Extended(path)
         /\ IF task.agent = "closest"
            THEN phase' = "walk" /\ segment' = path
            ELSE phase' = "play" /\ UNCHANGED segment
  /\ UNCHANGED <<searchVars, gameVars, task, actionIndex, planState>>

\* ClosestDotSearchAgent follows the path in its own state, where it must be legal.
Walk ==
  /\ phase = "walk"
  /\ IF segment = <<>>
     THEN phase' = "register" /\ UNCHANGED <<run, segment, planState>>
     ELSE IF Legal(planState, 0, Head(segment))
     THEN /\ planState' = GenerateSuccessor(planState, 0, Head(segment))
          /\ segment' = Tail(segment)
          /\ UNCHANGED <<run, phase>>
     ELSE run' = "raised" /\ phase' = "play" /\ UNCHANGED <<segment, planState>>
  /\ UNCHANGED <<searchVars, game, agentIndex, moves, task, actions, actionIndex>>

NextAction == IF actionIndex < Len(actions) THEN actions[actionIndex + 1] ELSE "Stop"

\* SearchAgent.getAction, and the game's answer.  Bound: one turn after the plan.
PlannedTurn ==
  /\ phase = "play" /\ task.agent \in {"search", "closest"}
  /\ agentIndex = 0 /\ actionIndex <= Len(actions)
  /\ Play(NextAction)
  /\ actionIndex' = actionIndex + 1
  /\ UNCHANGED <<searchVars, task, phase, actions, segment, planState>>

FreeTurn ==
  /\ phase = "play"
  /\ GhostTurn \/ (task.agent = "keyboard" /\ KeyboardTurn)
  /\ UNCHANGED <<searchVars, agentVars>>

Planning == Register \/ Searching \/ Found \/ Walk

Next == Planning \/ PlannedTurn \/ FreeTurn

\* What an agent does in registerInitialState is one call, which runs to its end.
Spec == Init /\ [][Next]_vars /\ WF_vars(Planning)

-----------------------------------------------------------------------------
TypeOK ==
  /\ SearchTypeOK /\ GameTypeOK
  /\ phase \in {"register", "search", "walk", "play"}
  /\ actions \in Seq(Way) /\ segment \in Seq(Way)
  /\ actionIndex \in Nat

\* The heuristics that are handed to aStarSearch are consistent, as their docstrings
\* demand (searchAgents.py:367, 448): without it a search need not find a cheapest path.
HeuristicsConsistent == pc = "done" /\ algorithm = "astar" /\ task.agent = "search" => Consistent

\* A plan made before the game starts does what it was made for: each of its actions is
\* legal when its turn comes, the game goes on until it is played to the end, and by
\* then the food that it was to eat is eaten, and all of it means the game is won.
PlanWorks ==
  task.agent \in {"search", "closest"} /\ phase = "play" =>
    /\ run # "raised"
    /\ run = "over" => game.win /\ actionIndex = Len(actions)
    /\ actionIndex >= Len(actions) =>
         \/ task.agent = "search" /\ problem.kind \in {"position", "east", "west"}
              /\ game.conf[0].pos = Place(Goal)
         \/ task.agent = "search" /\ problem.kind = "corners"
              /\ game.food \cap Corners(game.layout) = {}
         \/ game.food = {} /\ run = "over"
=============================================================================
