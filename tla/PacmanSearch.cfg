\* Searches on graphs, agents that plan with them, and games against ghosts.
SPECIFICATION Spec
CONSTANTS
  Problem <- MCProblem
  State <- MCState
  Action <- MCAction
  GetStartState <- MCStart
  IsGoalState <- MCGoal
  GetSuccessors <- MCSuccessors
  Heuristic <- MCHeuristic
  Layout <- MCLayout
  Task <- MCTask
  ScaredTime = 4
  MaxMoves = 16
  Depth = {1, 2}
  Infinity = 1000000
INVARIANTS
  TypeOK
  PathLegal
  RaisesOnlyWithoutGoal
  Cheapest
  CheapestIfAdmissible
  FewestActions
  HeuristicsConsistent
  PlanWorks
  NobodyPasses
  EveryoneCanMove
  AlphaBetaAgrees
PROPERTIES
  Terminates
CHECK_DEADLOCK FALSE
