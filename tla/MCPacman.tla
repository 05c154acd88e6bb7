------------------------------ MODULE MCPacman ------------------------------
(***************************************************************************)
(* The searches on small graphs, as in the autograder's graph tests, and    *)
(* the agents in small mazes.                                               *)
(***************************************************************************)
EXTENDS SearchAgents, MultiAgent, TLC

\* All graphs with some of these arcs, of two costs.  Node 4 is the goal, and a graph
\* that aStarSearch is given comes with a heuristic: none, one that may not be
\* consistent, and one that may overestimate.
Node == 1 .. 4
Arc == {<<1, 2>>, <<1, 3>>, <<2, 3>>, <<3, 2>>, <<2, 4>>, <<3, 4>>}
Guess == {<<0, 0, 0, 0>>, <<2, 2, 0, 0>>, <<0, 0, 3, 0>>}
Graph == [kind : {"graph"}, cost : [Arc -> {0, 1, 3}], guess : Guess]
Unguided == [kind : {"graph"}, cost : [Arc -> {0, 1, 3}], guess : {<<0, 0, 0, 0>>}]

GraphSuccessors(p, s) ==
  LET Arrow(t) == <<s, t>> \in Arc /\ p.cost[<<s, t>>] > 0
      to == SelectSeq(<<1, 2, 3, 4>>, Arrow)
  IN  [i \in DOMAIN to |-> [state |-> to[i], action |-> "Go", cost |-> p.cost[<<s, to[i]>>]]]

Maze(cells, food, capsules, agents) ==
  [cells |-> cells, food |-> food, capsules |-> capsules, agents |-> agents]

\* Mazes without ghosts: two rings with food in the corners that Pacman is not in, a
\* ring with one piece of food, and a corridor with a dead end off it.
Ring == ((1 .. 3) \X (1 .. 3)) \ {<<2, 2>>}
CornerMazes == {Maze(Ring, Corners([cells |-> Ring]), {}, <<<<2, 1>>>>),
                Maze(Ring, Corners([cells |-> Ring]) \ {<<3, 3>>}, {}, <<<<3, 3>>>>)}
SearchMazes == CornerMazes \cup
  {Maze(Ring, {<<1, 1>>}, {}, <<<<3, 2>>>>),
   Maze(((1 .. 3) \X {1}) \cup {<<2, 2>>}, {<<1, 1>>, <<3, 1>>, <<2, 2>>}, {}, <<<<2, 1>>>>)}

\* Mazes with ghosts: a ring with two capsules, so that a second one can be eaten while
\* a scared ghost is between two cells, and a square with a capsule and two ghosts.
GhostMazes ==
  {Maze(Ring, {<<2, 1>>}, {<<1, 2>>, <<1, 3>>}, <<<<1, 1>>, <<3, 2>>>>),
   Maze((1 .. 3) \X (1 .. 2), {<<1, 2>>}, {<<2, 1>>}, <<<<1, 1>>, <<2, 2>>, <<3, 1>>>>)}

MCLayout == SearchMazes \cup GhostMazes
NoMaze == CHOOSE l \in SearchMazes : TRUE

MCTask ==
  {[agent |-> "graph", layout |-> NoMaze, problem |-> p, fn |-> fn] :
     p \in Unguided, fn \in {"dfs", "bfs", "ucs"}}
  \cup {[agent |-> "graph", layout |-> NoMaze, problem |-> p, fn |-> "astar"] : p \in Graph}
  \cup {[agent |-> "search", layout |-> l, kind |-> kind, fn |-> fn] :
          l \in SearchMazes, kind \in {"position", "east", "west", "food"}, fn \in Algorithm}
  \cup {[agent |-> "search", layout |-> l, kind |-> "corners", fn |-> fn] :
          l \in CornerMazes, fn \in Algorithm}
  \cup {[agent |-> "closest", layout |-> l] : l \in SearchMazes}
  \cup {[agent |-> "keyboard", layout |-> l] : l \in GhostMazes}

\* A maze's problems: an agent's, and those of a ClosestDotSearchAgent on its way.
Posed(l) ==
  [kind : IF l \in CornerMazes THEN Kind ELSE Kind \ {"corners"}, layout : {l},
   start : {l.agents[1]}, food : {l.food}]
Nearest(l) == [kind : {"any"}, layout : {l}, start : l.cells, food : SUBSET l.food]

MCProblem == Graph \cup UNION {Posed(l) \cup Nearest(l) : l \in MCLayout}

OnGraph(p) == p.kind = "graph"
MCState(p) == IF OnGraph(p) THEN Node ELSE GridState(p)
MCAction(p) == IF OnGraph(p) THEN {"Go"} ELSE Way
MCStart(p) == IF OnGraph(p) THEN 1 ELSE GridStart(p)
MCGoal(p, s) == IF OnGraph(p) THEN s = 4 ELSE GridGoal(p, s)
MCSuccessors(p, s) == IF OnGraph(p) THEN GraphSuccessors(p, s) ELSE GridSuccessors(p, s)
MCHeuristic(p, s) == IF OnGraph(p) THEN p.guess[s] ELSE GridHeuristic(p, s)
=============================================================================
