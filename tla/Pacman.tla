------------------------------- MODULE Pacman -------------------------------
(***************************************************************************)
(* The rules of the game in AI/Multi-Agent Search/multiagent: GameState and *)
(* its rules (pacman.py), Configuration, Actions and the loop of Game.run   *)
(* (game.py).  Ghosts flee at half speed while they are scared, so agents   *)
(* are in positions counted in halves of a cell.                            *)
(***************************************************************************)
EXTENDS Integers, Sequences, FiniteSets

CONSTANTS
  Layout,         \* mazes: open cells, food, capsules, where the agents start (Pacman first)
  ScaredTime,     \* SCARED_TIME
  MaxMoves        \* bound on the moves of a game that Pacman has no plan for

Distance(p, q) ==
  LET Abs(n) == IF n < 0 THEN -n ELSE n
  IN  Abs(p[1] - q[1]) + Abs(p[2] - q[2])

\* What the .lay files have: one thing in a cell at most, and nobody is shut in.
ASSUME LayoutAssumption ==
  /\ ScaredTime \in Nat \ {0} /\ MaxMoves \in Nat
  /\ \A l \in Layout :
       /\ l.cells \subseteq Int \X Int
       /\ l.food \subseteq l.cells /\ l.capsules \subseteq l.cells
       /\ l.agents \in Seq(l.cells) /\ Len(l.agents) >= 1
       /\ \A i \in DOMAIN l.agents : l.agents[i] \notin l.food \cup l.capsules
       /\ \A c \in l.cells : \E d \in l.cells : Distance(c, d) = 1

VARIABLES
  game,          \* the GameState
  agentIndex,    \* whose turn it is
  moves,         \* the length of moveHistory
  run            \* "playing"; "over"; "raised" when an agent's action was illegal

gameVars == <<game, agentIndex, moves, run>>

-----------------------------------------------------------------------------
Way == {"West", "Stop", "East", "North", "South"}
Vector == [West |-> <<-1, 0>>, Stop |-> <<0, 0>>, East |-> <<1, 0>>,
           North |-> <<0, 1>>, South |-> <<0, -1>>]
Reverse == [West |-> "East", Stop |-> "Stop", East |-> "West",
            North |-> "South", South |-> "North"]

Plus(p, action, n) == <<p[1] + n * Vector[action][1], p[2] + n * Vector[action][2]>>

\* A cell's place, counted in halves, and the cell that is nearest to a place.
Place(cell) == <<2 * cell[1], 2 * cell[2]>>
NearestPoint(pos) == <<(pos[1] + 1) \div 2, (pos[2] + 1) \div 2>>
OnGrid(pos) == pos = Place(NearestPoint(pos))

Configuration(pos, dir) == [pos |-> pos, dir |-> dir]
StartOf(l, i) == Configuration(Place(l.agents[i + 1]), "Stop")

\* A position of the game, without what is only drawn or recomputed from it.
NewGame(l) ==
  [layout |-> l, food |-> l.food, capsules |-> l.capsules,
   conf |-> [i \in 0 .. Len(l.agents) - 1 |-> StartOf(l, i)],
   scaredTimer |-> [i \in 0 .. Len(l.agents) - 1 |-> 0],
   score |-> 0, win |-> FALSE, lose |-> FALSE]

Agents(g) == DOMAIN g.conf
Ghosts(g) == Agents(g) \ {0}
Live(g) == ~g.win /\ ~g.lose

-----------------------------------------------------------------------------
\* Between two cells an agent goes straight on.
PossibleActions(g, i) ==
  IF OnGrid(g.conf[i].pos)
  THEN {d \in Way : Plus(NearestPoint(g.conf[i].pos), d, 1) \in g.layout.cells}
  ELSE {g.conf[i].dir}

\* A ghost does not stop, and turns back only where it cannot go on.
GhostActions(g, i) ==
  LET possible == PossibleActions(g, i) \ {"Stop"}
      back == {Reverse[g.conf[i].dir]}
  IN  IF possible = back THEN possible ELSE possible \ back

LegalActions(g, i) ==
  IF ~Live(g) THEN {} ELSE IF i = 0 THEN PossibleActions(g, 0) ELSE GhostActions(g, i)

Legal(g, i, action) == action \in LegalActions(g, i)

Moved(conf, action, halves) ==
  Configuration(Plus(conf.pos, action, halves), IF action = "Stop" THEN conf.dir ELSE action)

-----------------------------------------------------------------------------
Points(g, cell) ==
  IF cell \notin g.food THEN 0 ELSE IF g.food = {cell} THEN 510 ELSE 10

Consume(g, cell) ==
  [g EXCEPT !.food = @ \ {cell},
            !.capsules = @ \ {cell},
            !.score = @ + Points(g, cell),
            !.win = g.food = {cell},
            !.scaredTimer = [i \in Agents(g) |->
               IF i # 0 /\ cell \in g.capsules THEN ScaredTime ELSE g.scaredTimer[i]]]

\* COLLISION_TOLERANCE is 0.7 of a cell.
CanKill(g, i) == Distance(g.conf[i].pos, g.conf[0].pos) <= 1

\* What meeting the ghosts does: Pacman eats the scared ones, another one kills him.
CheckDeath(g, ghosts) ==
  LET met == {i \in ghosts : CanKill(g, i)}
      eaten == {i \in met : g.scaredTimer[i] > 0}
      killed == ~g.win /\ met # eaten
  IN  [g EXCEPT !.conf = [i \in Agents(g) |-> IF i \in eaten THEN StartOf(g.layout, i)
                                                             ELSE g.conf[i]],
                !.scaredTimer = [i \in Agents(g) |-> IF i \in eaten THEN 0
                                                                    ELSE g.scaredTimer[i]],
                !.score = @ + 200 * Cardinality(eaten)
                            - (IF killed THEN 500 * Cardinality(met \ eaten) ELSE 0),
                !.lose = killed]

\* Mutant of PacmanMoves: nobody is met on Pacman's own turn.
PacmanMovesUnseen(g, action) ==
  LET moved == [g EXCEPT !.conf[0] = Moved(@, action, 2), !.score = @ - 1]
  IN  Consume(moved, NearestPoint(moved.conf[0].pos))
PacmanMoves(g, action) ==
  LET moved == [g EXCEPT !.conf[0] = Moved(@, action, 2), !.score = @ - 1]
  IN  CheckDeath(Consume(moved, NearestPoint(moved.conf[0].pos)), Ghosts(g))

\* The end of a fright puts a ghost on the nearest cell.
\* Mutant of Land: a ghost stays between two cells when its fright ends.
LandAnywhere(timer, pos) == pos
Land(timer, pos) == IF timer = 1 THEN Place(NearestPoint(pos)) ELSE pos

\* Mutant of CountDown: the timer goes below zero.
CountOn(timer) == timer - 1
CountDown(timer) == IF timer > 0 THEN timer - 1 ELSE 0

GhostMoves(g, i, action) ==
  LET timer == g.scaredTimer[i]
      conf == Moved(g.conf[i], action, IF timer > 0 THEN 1 ELSE 2)
  IN  CheckDeath([g EXCEPT !.conf[i] = Configuration(Land(timer, conf.pos), conf.dir),
                           !.scaredTimer[i] = CountDown(timer)], {i})

GenerateSuccessor(g, i, action) ==
  IF i = 0 THEN PacmanMoves(g, action) ELSE GhostMoves(g, i, action)

-----------------------------------------------------------------------------
GameInit ==
  /\ \E l \in Layout : game = NewGame(l)
  /\ agentIndex = 0 /\ moves = 0
  /\ run = "playing"

\* One round of Game.run, in which the agent whose turn it is has chosen an action.
Play(action) ==
  /\ run = "playing"
  /\ moves' = moves + 1
  /\ IF Legal(game, agentIndex, action)
     THEN /\ game' = GenerateSuccessor(game, agentIndex, action)
          /\ run' = IF Live(game') THEN "playing" ELSE "over"
          /\ agentIndex' = (agentIndex + 1) % Cardinality(Agents(game))
     ELSE run' = "raised" /\ UNCHANGED <<game, agentIndex>>

\* Both kinds of ghost give every legal action a chance; with none a ghost answers Stop.
GhostTurn ==
  /\ agentIndex # 0
  /\ LET legal == GhostActions(game, agentIndex)
     IN  IF legal = {} THEN Play("Stop") ELSE \E action \in legal : Play(action)

\* Whatever Pacman is told to do, as by a player.
KeyboardTurn ==
  /\ agentIndex = 0 /\ moves < MaxMoves
  /\ \E action \in PossibleActions(game, 0) : Play(action)

GameNext == GhostTurn \/ KeyboardTurn

GameSpec == GameInit /\ [][GameNext]_gameVars

-----------------------------------------------------------------------------
GameTypeOK ==
  /\ game.layout \in Layout
  /\ game.food \subseteq game.layout.food /\ game.capsules \subseteq game.layout.capsules
  /\ Agents(game) = 0 .. Len(game.layout.agents) - 1
  /\ game.conf \in [Agents(game) -> [pos : Int \X Int, dir : Way]]
  /\ game.scaredTimer \in [Agents(game) -> 0 .. ScaredTime]
  /\ game.score \in Int /\ game.win \in BOOLEAN /\ game.lose \in BOOLEAN
  /\ agentIndex \in Agents(game) /\ moves \in Nat
  /\ run \in {"playing", "over", "raised"}

\* A ghost gets past Pacman only by being eaten: as long as the game goes on, a ghost
\* that touches him has just been put back where it started.
NobodyPasses ==
  Live(game) => \A i \in Ghosts(game) :
    CanKill(game, i) => game.conf[i] = StartOf(game.layout, i) /\ game.scaredTimer[i] = 0

\* Whether an agent stands on an open cell, or is half way from one to the next.
OnTrack(g, i) ==
  LET ahead == Plus(g.conf[i].pos, g.conf[i].dir, 1)
      behind == Plus(g.conf[i].pos, g.conf[i].dir, -1)
  IN  IF OnGrid(g.conf[i].pos) THEN NearestPoint(g.conf[i].pos) \in g.layout.cells
      ELSE /\ g.scaredTimer[i] > 0
           /\ \A p \in {ahead, behind} : OnGrid(p) /\ NearestPoint(p) \in g.layout.cells

\* Half steps, the end of a fright in the middle of one and ghosts put back never leave
\* an agent in a wall, or between two cells at full speed: it always has a legal action.
EveryoneCanMove ==
  /\ \A i \in Agents(game) : OnTrack(game, i)
  /\ Live(game) => \A i \in Agents(game) : LegalActions(game, i) # {}
  /\ run # "raised"
=============================================================================
