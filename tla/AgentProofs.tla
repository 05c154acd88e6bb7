---------------------------- MODULE AgentProofs ----------------------------
(***************************************************************************)
(* Proofs about SearchAgents, for every maze and every problem about it:    *)
(* what a search promises holds of each search that an agent makes, and     *)
(* what is planned from it works in the game.                               *)
(***************************************************************************)
EXTENDS SearchAgents, SearchProofs, PacmanProofs

-----------------------------------------------------------------------------
\* Only what is no goal is expanded, so that a path has its only goal at its end.
Onward ==
  /\ pc = "expand" => ~IsGoalState(problem, current)
  /\ \A s \in DOMAIN parents : ~IsGoalState(problem, parents[s].from)
  /\ \A i \in DOMAIN ans : ~IsGoalState(problem, ans[i].from)

\* All that is known of a search, at every moment of it.
SearchInv == PathInv /\ SweepInv /\ CostInv /\ WalkInv /\ BreadthInv /\ Onward

LEMMA InitSearch == SearchInit => SearchInv
<1> SUFFICES ASSUME SearchInit PROVE SearchInv
  OBVIOUS
<1>1. PathInv /\ SweepInv /\ CostInv
  BY InitPath, InitSweep, InitCost
<1>2. WalkInv
  BY InitWalk
<1>3. BreadthInv
  BY <1>1 DEF SearchInit, BreadthInv, Breadth
<1>4. Onward
  BY DEF SearchInit, Onward, Empty
<1> QED BY <1>1, <1>2, <1>3, <1>4 DEF SearchInv

LEMMA CallSearch ==
  ASSUME NEW p \in Problem, NEW f \in Algorithm, Call(p, f)
  PROVE  SearchInv'
<1>1. PathInv' /\ SweepInv' /\ CostInv' /\ WalkInv' /\ BreadthInv'
  BY CallPath, CallSweep, CallCost, CallWalk, CallBreadth
<1>2. Onward'
  BY DEF Call, Onward, Empty
<1> QED BY <1>1, <1>2 DEF SearchInv

LEMMA RoundOnward ==
  ASSUME PathInv, Onward, Round
  PROVE  Onward'
<1>1. CASE Pop
  BY <1>1 DEF Pop, Onward
<1>2. CASE PopEmpty \/ EndExpand \/ Return
  BY <1>2 DEF PopEmpty, EndExpand, Return, Onward
<1>3. CASE Examine
  <2> DEFINE t == Successors(current)[next]
             link == [from |-> current, action |-> t.action]
  <2>1. UNCHANGED <<problem, current, ans, pc>> /\ ~IsGoalState(problem, current)
    BY <1>3 DEF Examine, Onward
  <2>2. CASE Takes(t)
    <3>1. parents' = Assign(parents, t.state, link)
      BY <1>3, <2>2 DEF Linked, Examine, Take
    <3>2. link.from = current
      OBVIOUS
    <3> HIDE DEF t, link
    <3>3. \A s \in DOMAIN parents' : parents'[s] = link \/ (s \in DOMAIN parents /\ parents'[s] = parents[s])
      BY <3>1 DEF Assign
    <3> QED BY <2>1, <3>2, <3>3 DEF Onward
  <2>3. CASE ~Takes(t)
    BY <1>3, <2>1, <2>3 DEF Examine, Onward
  <2> QED BY <2>2, <2>3
<1>4. CASE Trace
  <2> DEFINE link == parents[state]
  <2>1. state \in DOMAIN parents
    BY <1>4 DEF Trace, PathInv, Walked, PathLegal
  <2>2. UNCHANGED <<problem, current, parents, pc>> /\ ans' = <<link>> \o ans
    BY <1>4, <2>1 DEF Trace, LinkFirst
  <2>3. ans \in Seq(Link(problem)) /\ link \in Link(problem) /\ ~IsGoalState(problem, link.from)
    BY <2>1 DEF PathInv, SearchTypeOK, Onward
  <2> HIDE DEF link
  <2>4. \A i \in DOMAIN ans' : ans'[i] = link \/ \E j \in DOMAIN ans : ans'[i] = ans[j]
    BY <2>2, <2>3
  <2> QED BY <2>2, <2>3, <2>4 DEF Onward
<1> QED BY <1>1, <1>2, <1>3, <1>4 DEF Round

LEMMA RoundSearch ==
  ASSUME SearchInv, Round
  PROVE  SearchInv'
<1>1. [SearchNext]_searchVars
  BY DEF SearchNext
<1>2. PathInv' /\ SweepInv' /\ CostInv' /\ WalkInv' /\ BreadthInv'
  BY <1>1, NextPath, NextSweep, NextCost, NextWalk, NextBreadth DEF SearchInv
<1>3. Onward'
  BY RoundOnward DEF SearchInv
<1> QED BY <1>2, <1>3 DEF SearchInv

LEMMA KeptSearch ==
  ASSUME SearchInv, UNCHANGED searchVars
  PROVE  SearchInv'
<1>1. PathInv' /\ SweepInv' /\ CostInv' /\ WalkInv' /\ BreadthInv'
  BY NextPath, NextSweep, NextCost, NextWalk, NextBreadth DEF SearchInv
<1>2. Onward'
  BY DEF SearchInv, Onward, searchVars
<1> QED BY <1>1, <1>2 DEF SearchInv

-----------------------------------------------------------------------------
\* The problems that are posed about mazes.
Posed == {p \in Problem : p.kind \in Kind}

\* Where Pacman is in a state, and what a step from it leads to.
Cell(p, s) == IF p.kind \in {"corners", "food"} THEN s[1] ELSE s
Onto(p, s, to) ==
  CASE p.kind = "corners" -> <<to, Reach(p, to, s[2])>>
    [] p.kind = "food" -> <<to, s[2] \ {to}>>
    [] OTHER -> to

\* A step is to an open cell.
Steppable(p, s, x) ==
  LET to == Plus(Cell(p, s), x.action, 1)
  IN  /\ x.action \in Way \ {"Stop"} /\ to \in p.layout.cells
      /\ x.state = Onto(p, s, to) /\ x.cost = StepCost(p, to)

LEMMA PosedIs ==
  ASSUME NEW p \in Posed
  PROVE  /\ p \in Problem /\ p.kind \in Kind
         /\ State(p) = GridState(p) /\ Action(p) = Way /\ GetStartState(p) = GridStart(p)
         /\ GridStart(p) \in State(p)
         /\ \A s \in State(p) : /\ IsGoalState(p, s) = GridGoal(p, s)
                               /\ GetSuccessors(p, s) = GridSuccessors(p, s)
                               /\ Heuristic(p, s) = GridHeuristic(p, s)
BY GridAssumption, ProblemAssumption DEF Posed

LEMMA Appended ==
  ASSUME NEW S, NEW a \in Seq(S), NEW b \in Seq(S)
  PROVE  a \o b \in Seq(S)
OBVIOUS

LEMMA AtMostOne ==
  ASSUME NEW S, NEW a, NEW x, a = <<>> \/ (a = <<x>> /\ x \in S)
  PROVE  a \in Seq(S)
<1>1. CASE a = <<>>
  BY <1>1
<1>2. CASE a = <<x>> /\ x \in S
  <2>1. <<x>> \in Seq(S)
    BY <1>2
  <2> QED BY <1>2, <2>1
<1> QED BY <1>1, <1>2

LEMMA GridStep ==
  ASSUME NEW p \in Posed, NEW s \in State(p), NEW i \in DOMAIN GetSuccessors(p, s)
  PROVE  Steppable(p, s, GetSuccessors(p, s)[i])
<1> DEFINE cell == Cell(p, s)
           Led(action) ==
             LET to == Plus(cell, action, 1)
             IN  [state |-> Onto(p, s, to), action |-> action, cost |-> StepCost(p, to)]
           IfOpen(action) ==
             IF Plus(cell, action, 1) \in p.layout.cells THEN <<Led(action)>> ELSE <<>>
           S == {x \in {Led(action) : action \in Way} : Steppable(p, s, x)}
<1>1. GetSuccessors(p, s) = IfOpen("North") \o IfOpen("South") \o IfOpen("East") \o IfOpen("West")
  BY PosedIs DEF GridSuccessors, Cell, Onto
<1>2. ASSUME NEW action \in Way \ {"Stop"} PROVE IfOpen(action) \in Seq(S)
  <2>1. Plus(cell, action, 1) \in p.layout.cells => Led(action) \in S
    BY DEF Steppable
  <2>2. IfOpen(action) = <<>> \/ (IfOpen(action) = <<Led(action)>> /\ Led(action) \in S)
    BY <2>1
  <2> HIDE DEF S, Led, IfOpen
  <2> QED BY <2>2, AtMostOne
<1> DEFINE n == IfOpen("North")
           u == IfOpen("South")
           e == IfOpen("East")
           w == IfOpen("West")
<1>3. n \in Seq(S) /\ u \in Seq(S) /\ e \in Seq(S) /\ w \in Seq(S)
  BY <1>2 DEF Way
<1>4. GetSuccessors(p, s) = n \o u \o e \o w
  BY <1>1
<1> HIDE DEF n, u, e, w, S
<1>5. GetSuccessors(p, s) \in Seq(S)
  BY <1>3, <1>4, Appended
<1>6. GetSuccessors(p, s)[i] \in S
  BY <1>5
<1> QED BY <1>6 DEF S

-----------------------------------------------------------------------------
\* A game without ghosts, in which Pacman can only win.
At(g) == NearestPoint(g.conf[0].pos)

Alone(l, g) ==
  /\ GameOK(g) /\ Brave(g) /\ Tracks(g) /\ g.layout = l /\ Len(l.agents) = 1
  /\ ~g.lose /\ (g.win <=> g.food = {}) /\ At(g) \notin g.food

LEMMA AloneIs ==
  ASSUME NEW l, NEW g, Alone(l, g)
  PROVE  /\ l \in Layout /\ Agents(g) = {0} /\ Ghosts(g) = {}
         /\ At(g) \in l.cells /\ At(g) \in Pair /\ g.conf[0].pos = Place(At(g))
         /\ OnGrid(g.conf[0].pos) /\ (Live(g) <=> g.food # {}) /\ g.food \subseteq l.food
<1>1. Agents(g) = 0 .. 0
  BY AgentsAre DEF Alone, Numbers
<1>2. OnTrack(g, 0) /\ g.conf[0].pos \in Pair
  BY <1>1, AgentsAre DEF Alone, Tracks
<1>3. OnGrid(g.conf[0].pos) /\ At(g) \in l.cells
  BY <1>2 DEF Alone, OnTrack, Brave, At
<1> QED BY <1>1, <1>2, <1>3, NearestType DEF Alone, GameOK, Live, Ghosts, OnGrid, At

LEMMA AloneAtFirst ==
  ASSUME NEW l \in Layout, Len(l.agents) = 1, l.food # {}
  PROVE  Alone(l, NewGame(l)) /\ At(NewGame(l)) = l.agents[1] /\ NewGame(l).food = l.food
<1> DEFINE g == NewGame(l)
<1>1. /\ GameOK(g) /\ Brave(g) /\ Tracks(g) /\ Live(g) /\ g.layout = l
      /\ g.food = l.food /\ g.conf[0].pos = Place(l.agents[1]) /\ l.agents[1] \in l.cells
  BY NewGameIs
<1>2. l.agents[1] \in Pair /\ l.agents[1] \notin l.food
  <2>1. /\ l.agents \in Seq(l.cells) /\ l.cells \subseteq Pair
        /\ \A i \in DOMAIN l.agents : l.agents[i] \notin l.food
    BY LayoutAssumption DEF Pair
  <2>2. 1 \in DOMAIN l.agents
    BY <2>1
  <2> QED BY <1>1, <2>1, <2>2
<1> HIDE DEF g
<1>3. At(g) = l.agents[1]
  BY <1>1, <1>2, PlaceIs DEF At
<1> QED BY <1>1, <1>2, <1>3 DEF Alone, Live, g

\* As long as there is food Pacman may go to every open cell that is next to him.
LEMMA AloneStep ==
  ASSUME NEW l, NEW g, Alone(l, g), g.food # {}, NEW action \in Way,
         Plus(At(g), action, 1) \in l.cells
  PROVE  LET to == Plus(At(g), action, 1)
             h == GenerateSuccessor(g, 0, action)
         IN  /\ Legal(g, 0, action) /\ Alone(l, h)
             /\ At(h) = to /\ h.food = g.food \ {to}
<1> DEFINE to == Plus(At(g), action, 1)
           h == GenerateSuccessor(g, 0, action)
<1>1. /\ GameOK(g) /\ Brave(g) /\ Tracks(g) /\ Live(g) /\ g.layout = l /\ Len(l.agents) = 1
      /\ OnGrid(g.conf[0].pos) /\ Ghosts(g) = {} /\ At(g) \in Pair /\ to \in Pair
  BY AloneIs, AgentsAre DEF Alone
<1>2. action \in PossibleActions(g, 0)
  BY <1>1 DEF PossibleActions, At
<1>3. Legal(g, 0, action)
  BY <1>1, <1>2 DEF Legal, LegalActions
<1>4. h = PacmanMoves(g, action)
  BY DEF GenerateSuccessor
<1>5. /\ GameOK(h) /\ Brave(h) /\ Tracks(h) /\ h.layout = l /\ ~h.lose
      /\ h.conf[0].pos = Place(to) /\ h.food = g.food \ {to} /\ h.win = (g.food = {to})
  <2> HIDE DEF h
  <2> QED BY <1>1, <1>2, <1>4, PacmanMovesIs DEF At
<1> HIDE DEF h, to
<1>6. At(h) = to
  BY <1>1, <1>5, PlaceIs DEF At
<1>7. Alone(l, h)
  BY <1>1, <1>5, <1>6 DEF Alone
<1> QED BY <1>3, <1>5, <1>6, <1>7 DEF h, to

-----------------------------------------------------------------------------
\* What a state of a problem says of the game: where Pacman is and what he has eaten.
Uneaten(p, s, food) ==
  CASE p.kind = "food" -> food = s[2]
    [] p.kind = "any" -> p.food # {} /\ food = p.food \ {s}
    [] p.kind = "corners" -> \A c \in Corners(p.layout) : c \in food <=> c \notin RangeOf(s[2])
    [] OTHER -> Goal \in food <=> s # Goal

Matches(p, s, g) == Alone(p.layout, g) /\ At(g) = Cell(p, s) /\ Uneaten(p, s, g.food)

\* There is something to look for: a goal that a state can be in.
Solvable(p) == \E s \in State(p) : IsGoalState(p, s)

LEMMA KindIs ==
  ASSUME NEW p \in Posed, NEW s \in State(p)
  PROVE  /\ p.kind \in Kind
         /\ p.kind = "corners" => s \in p.layout.cells \X Reached(p.layout)
         /\ p.kind = "food" => s \in p.layout.cells \X SUBSET p.food
         /\ Cell(p, s) \in p.layout.cells
<1>1. p.kind \in Kind /\ s \in GridState(p)
  BY PosedIs
<1> QED BY <1>1 DEF GridState, Cell, Kind

\* There are four corners at most, so that whoever has been to more than three of them
\* has been to all, and whoever has not is missing one, if there are four.
LEMMA ReachedIs ==
  ASSUME NEW l, NEW s \in Reached(l)
  PROVE  /\ Len(s) \in Nat /\ s \in Seq(Corners(l)) /\ DOMAIN s = 1 .. Len(s)
         /\ \A i \in 1 .. Len(s) : s[i] \in Corners(l)
         /\ \A i, j \in 1 .. Len(s) : i # j => s[i] # s[j]
<1>1. PICK n \in Nat : s \in [1 .. n -> Corners(l)] /\ \A i, j \in 1 .. n : i # j => s[i] # s[j]
  BY DEF Reached
<1>2. s \in Seq(Corners(l)) /\ Len(s) = n /\ DOMAIN s = 1 .. n
  BY <1>1
<1> QED BY <1>1, <1>2

LEMMA AllReached ==
  ASSUME NEW l, NEW s \in Reached(l), Len(s) > 3
  PROVE  \A c \in Corners(l) : c \in RangeOf(s)
<1>1. /\ Len(s) \in Nat /\ DOMAIN s = 1 .. Len(s)
      /\ \A i \in 1 .. Len(s) : s[i] \in Corners(l)
      /\ \A i, j \in 1 .. Len(s) : i # j => s[i] # s[j]
  BY ReachedIs
<1>2. /\ s[1] \in Corners(l) /\ s[2] \in Corners(l) /\ s[3] \in Corners(l) /\ s[4] \in Corners(l)
      /\ s[1] # s[2] /\ s[1] # s[3] /\ s[1] # s[4] /\ s[2] # s[3] /\ s[2] # s[4] /\ s[3] # s[4]
      /\ {1, 2, 3, 4} \subseteq DOMAIN s
  BY <1>1
<1> DEFINE W == Width(l)
           V == Height(l)
<1>3. \A c \in Corners(l) : c \in {<<1, 1>>, <<1, V>>, <<W, 1>>, <<W, V>>}
  BY DEF Corners
<1> HIDE DEF W, V
<1>4. \A c \in Corners(l) : c \in {s[1], s[2], s[3], s[4]}
  BY <1>2, <1>3
<1> QED BY <1>2, <1>4 DEF RangeOf

LEMMA OneMissing ==
  ASSUME NEW l, NEW s \in Reached(l), Len(s) > 3, NEW r \in Reached(l), ~(Len(r) > 3)
  PROVE  \E c \in Corners(l) : c \notin RangeOf(r)
<1>1. /\ Len(s) \in Nat /\ Len(r) \in Nat /\ DOMAIN r = 1 .. Len(r)
      /\ \A i \in 1 .. Len(s) : s[i] \in Corners(l)
      /\ \A i, j \in 1 .. Len(s) : i # j => s[i] # s[j]
  BY ReachedIs
<1>2. /\ s[1] \in Corners(l) /\ s[2] \in Corners(l) /\ s[3] \in Corners(l) /\ s[4] \in Corners(l)
      /\ s[1] # s[2] /\ s[1] # s[3] /\ s[1] # s[4] /\ s[2] # s[3] /\ s[2] # s[4] /\ s[3] # s[4]
  BY <1>1
<1>3. \A c \in RangeOf(r) : c \in {r[1], r[2], r[3]}
  BY <1>1 DEF RangeOf
<1> QED BY <1>2, <1>3

LEMMA ReachIs ==
  ASSUME NEW p, NEW to, NEW r \in Seq(Corners(p.layout)), NEW c \in Corners(p.layout)
  PROVE  c \in RangeOf(Reach(p, to, r)) <=> c \in RangeOf(r) \/ c = to
<1>1. r \in Seq(Corners(p.layout))
  OBVIOUS
<1>2. CASE to \in Corners(p.layout) \ RangeOf(r)
  <2>1. Reach(p, to, r) = Append(r, to)
    BY <1>2 DEF Reach
  <2>2. DOMAIN Append(r, to) = 1 .. Len(r) + 1 /\ DOMAIN r = 1 .. Len(r) /\ Len(r) \in Nat
    BY <1>1, <1>2
  <2>3. \A j \in 1 .. Len(r) + 1 : Append(r, to)[j] = IF j = Len(r) + 1 THEN to ELSE r[j]
    BY <1>1, <1>2
  <2>4. ASSUME c \in RangeOf(r) PROVE c \in RangeOf(Append(r, to))
    <3>1. PICK j \in 1 .. Len(r) : c = r[j]
      BY <2>2, <2>4 DEF RangeOf
    <3>2. j \in 1 .. Len(r) + 1 /\ Append(r, to)[j] = c
      BY <2>2, <2>3, <3>1
    <3> QED BY <2>2, <3>2 DEF RangeOf
  <2>5. to \in RangeOf(Append(r, to))
    <3>1. Len(r) + 1 \in 1 .. Len(r) + 1
      BY <2>2
    <3> QED BY <2>2, <2>3, <3>1 DEF RangeOf
  <2>6. ASSUME c \in RangeOf(Append(r, to)) PROVE c \in RangeOf(r) \/ c = to
    <3>1. PICK j \in 1 .. Len(r) + 1 : c = Append(r, to)[j]
      BY <2>2, <2>6 DEF RangeOf
    <3>2. CASE j = Len(r) + 1
      BY <2>3, <3>1, <3>2
    <3>3. CASE j # Len(r) + 1
      <4>1. j \in 1 .. Len(r) /\ c = r[j]
        BY <2>2, <2>3, <3>1, <3>3
      <4> QED BY <2>2, <4>1 DEF RangeOf
    <3> QED BY <3>2, <3>3
  <2> QED BY <2>1, <2>4, <2>5, <2>6
<1>3. CASE to \notin Corners(p.layout) \ RangeOf(r)
  BY <1>3 DEF Reach
<1> QED BY <1>2, <1>3

\* Where there is something to look for yet there is food.
LEMMA FoodIsLeft ==
  ASSUME NEW p \in Posed, Solvable(p), NEW s \in State(p), ~IsGoalState(p, s),
         NEW g, Matches(p, s, g)
  PROVE  g.food # {}
<1>1. ~GridGoal(p, s) /\ p.kind \in Kind /\ Uneaten(p, s, g.food)
  BY PosedIs DEF Matches
<1>2. CASE p.kind = "food"
  BY <1>1, <1>2 DEF GridGoal, Uneaten
<1>3. CASE p.kind = "any"
  BY <1>1, <1>3 DEF GridGoal, Uneaten
<1>4. CASE p.kind = "corners"
  <2>1. PICK t \in State(p) : GridGoal(p, t)
    BY PosedIs DEF Solvable
  <2>2. t[2] \in Reached(p.layout) /\ Len(t[2]) > 3 /\ s[2] \in Reached(p.layout) /\ ~(Len(s[2]) > 3)
    BY <1>1, <1>4, <2>1, KindIs DEF GridGoal
  <2>3. \E c \in Corners(p.layout) : c \notin RangeOf(s[2])
    BY <2>2, OneMissing
  <2> QED BY <1>1, <1>4, <2>3 DEF Uneaten
<1>5. CASE p.kind \notin {"food", "any", "corners"}
  BY <1>1, <1>5 DEF GridGoal, Uneaten
<1> QED BY <1>2, <1>3, <1>4, <1>5

\* What was found in the problem is right in the game, step by step.
LEMMA StepAlong ==
  ASSUME NEW p \in Posed, Solvable(p), NEW s \in State(p), ~IsGoalState(p, s),
         NEW i \in DOMAIN GetSuccessors(p, s), NEW g, Matches(p, s, g)
  PROVE  LET x == GetSuccessors(p, s)[i]
             h == GenerateSuccessor(g, 0, x.action)
         IN  /\ g.food # {} /\ x.action \in Way /\ Legal(g, 0, x.action)
             /\ Matches(p, x.state, h)
<1> DEFINE x == GetSuccessors(p, s)[i]
           action == x.action
           t == x.state
           h == GenerateSuccessor(g, 0, action)
           to == Plus(Cell(p, s), action, 1)
<1>1. action \in Way /\ to \in p.layout.cells /\ t = Onto(p, s, to)
  BY GridStep DEF Steppable
<1>2. Alone(p.layout, g) /\ At(g) = Cell(p, s) /\ Uneaten(p, s, g.food) /\ g.food # {}
  BY FoodIsLeft DEF Matches
<1> HIDE DEF x
<1>3. Legal(g, 0, action) /\ Alone(p.layout, h) /\ At(h) = to /\ h.food = g.food \ {to}
  <2> HIDE DEF action
  <2> QED BY <1>1, <1>2, AloneStep
<1>4. p.kind \in Kind /\ ~GridGoal(p, s)
  BY PosedIs
<1> HIDE DEF h, to, t, action
<1>5. Cell(p, t) = to
  BY <1>1, <1>4 DEF Cell, Onto, Kind
<1>6. Uneaten(p, t, h.food)
  <2>1. CASE p.kind = "food"
    BY <1>1, <1>2, <1>3, <2>1 DEF Onto, Uneaten
  <2>2. CASE p.kind = "any"
    <3>1. g.food = p.food /\ t = to
      BY <1>1, <1>2, <1>4, <2>2 DEF Onto, Uneaten, GridGoal
    <3> QED BY <1>2, <1>3, <2>2, <3>1 DEF Uneaten
  <2>3. CASE p.kind = "corners"
    <3>1. s[2] \in Reached(p.layout) /\ t[2] = Reach(p, to, s[2])
      BY <1>1, <2>3, KindIs DEF Onto
    <3>2. \A c \in Corners(p.layout) : c \in g.food <=> c \notin RangeOf(s[2])
      BY <1>2, <2>3 DEF Uneaten
    <3>3. \A c \in Corners(p.layout) : c \in h.food <=> c \notin RangeOf(t[2])
      BY <1>3, <3>1, <3>2, ReachedIs, ReachIs
    <3> QED BY <2>3, <3>3 DEF Uneaten
  <2>4. CASE p.kind \notin {"food", "any", "corners"}
    <3>1. t = to /\ Goal \in g.food
      BY <1>1, <1>2, <1>4, <2>4 DEF Onto, Uneaten, GridGoal
    <3> QED BY <1>3, <2>4, <3>1 DEF Uneaten
  <2> QED BY <2>1, <2>2, <2>3, <2>4
<1>7. Matches(p, t, h)
  BY <1>3, <1>5, <1>6 DEF Matches
<1> QED BY <1>1, <1>2, <1>3, <1>7 DEF h, t, action, x

-----------------------------------------------------------------------------
\* The problems that are posed: those of the agents are about mazes.
LEMMA PosedAtFirst ==
  ASSUME NEW t \in Task, t.agent # "graph"
  PROVE  /\ GridProblem("any", NewGame(t.layout)) \in Problem
         /\ t.agent = "search" => /\ GridProblem(t.kind, NewGame(t.layout)) \in Posed
                                  /\ t.kind \in Kind \ {"any"}
<1> DEFINE l == t.layout
           g == NewGame(l)
<1>1. l \in Layout
  BY TaskAssumption
<1>2. /\ g.layout = l /\ g.food = l.food /\ g.conf[0].pos = Place(l.agents[1])
      /\ l.agents[1] \in l.cells /\ l.agents[1] \in Pair /\ l.food \subseteq l.food
  <2>1. /\ g.layout = l /\ g.food = l.food /\ g.conf[0].pos = Place(l.agents[1])
        /\ l.agents[1] \in l.cells
    BY <1>1, NewGameIs
  <2>2. l.cells \subseteq Pair
    BY <1>1, LayoutAssumption DEF Pair
  <2> HIDE DEF g, l
  <2> QED BY <2>1, <2>2
<1> HIDE DEF g
<1>3. NearestPoint(g.conf[0].pos) = l.agents[1]
  BY <1>2, PlaceIs
<1>4. GridProblem("any", g) \in Problem
  BY <1>2, <1>3, GridAssumption DEF GridProblem
<1>5. ASSUME t.agent = "search"
      PROVE  GridProblem(t.kind, g) \in Posed /\ t.kind \in Kind \ {"any"}
  <2>1. t.kind \in Kind \ {"any"}
    BY <1>5, TaskAssumption
  <2>2. GridProblem(t.kind, g) \in Problem
    BY <1>2, <1>3, <1>5, GridAssumption DEF GridProblem
  <2> QED BY <2>1, <2>2 DEF Posed, GridProblem
<1> QED BY <1>4, <1>5 DEF g

LEMMA PosedOnTheWay ==
  ASSUME NEW t \in Task, NEW g, Alone(t.layout, g)
  PROVE  GridProblem("any", g) \in Posed
<1>1. At(g) \in t.layout.cells /\ g.food \subseteq t.layout.food /\ g.layout = t.layout
  BY AloneIs DEF Alone
<1>2. GridProblem("any", g) \in Problem
  BY <1>1, GridAssumption DEF GridProblem, At
<1> QED BY <1>2 DEF Posed, GridProblem, Kind

LEMMA MatchesFirst ==
  ASSUME NEW kind \in Kind, NEW l, NEW g, Alone(l, g), g.food # {},
         kind \in {"position", "east", "west"} => Goal \in g.food,
         kind = "corners" => Corners(l) \ {At(g)} \subseteq g.food
  PROVE  LET p == GridProblem(kind, g) IN Matches(p, GridStart(p), g)
<1> DEFINE p == GridProblem(kind, g)
           s == GridStart(p)
<1>1. p.kind = kind /\ p.layout = l /\ p.start = At(g) /\ p.food = g.food /\ At(g) \notin g.food
  BY DEF GridProblem, Alone, At
<1> HIDE DEF p
<1>2. Cell(p, s) = At(g)
  BY <1>1 DEF Cell, GridStart, Kind
<1>3. Uneaten(p, s, g.food)
  <2>1. CASE kind = "corners"
    <3> DEFINE none == <<>>
    <3>1. s[2] = Reach(p, At(g), none) /\ none \in Seq(Corners(p.layout))
      BY <1>1, <2>1 DEF GridStart
    <3>2. \A c \in Corners(l) : c \in RangeOf(s[2]) <=> c = At(g)
      <4>1. \A c \in Corners(p.layout) : c \notin RangeOf(none)
        BY DEF RangeOf
      <4> HIDE DEF none, s
      <4>2. \A c \in Corners(p.layout) :
              c \in RangeOf(Reach(p, At(g), none)) <=> c \in RangeOf(none) \/ c = At(g)
        BY <3>1, ReachIs
      <4> QED BY <1>1, <3>1, <4>1, <4>2
    <3>3. \A c \in Corners(l) : c \in g.food <=> c # At(g)
      BY <1>1, <2>1
    <3> HIDE DEF s
    <3> QED BY <1>1, <2>1, <3>2, <3>3 DEF Uneaten
  <2>2. CASE kind = "food"
    BY <1>1, <2>2 DEF Uneaten, GridStart
  <2>3. CASE kind = "any"
    BY <1>1, <2>3 DEF Uneaten, GridStart
  <2>4. CASE kind \in {"position", "east", "west"}
    BY <1>1, <2>4 DEF Uneaten, GridStart
  <2> QED BY <2>1, <2>2, <2>3, <2>4 DEF Kind
<1> QED BY <1>1, <1>2, <1>3 DEF Matches, p

-----------------------------------------------------------------------------
\* The state that what was found leads to with its first k actions.
WayPoint(k) == IF k < Len(ans) THEN ans[k + 1].from ELSE current

LEMMA PathIs ==
  ASSUME SearchInv, pc = "done", problem \in Posed
  PROVE  /\ Len(ans) \in Nat /\ WayPoint(0) = GridStart(problem) /\ WayPoint(Len(ans)) = current
         /\ current \in State(problem) /\ GridGoal(problem, current) /\ Solvable(problem)
         /\ \A k \in 0 .. Len(ans) - 1 :
              /\ WayPoint(k) \in State(problem) /\ ~IsGoalState(problem, WayPoint(k))
              /\ Leads(ans[k + 1], WayPoint(k + 1)) /\ ans[k + 1].from = WayPoint(k)
<1>1. /\ ans \in Seq(Link(problem)) /\ current \in State(problem) /\ IsGoalState(problem, current)
      /\ state = Start
      /\ \A i \in DOMAIN ans : ~IsGoalState(problem, ans[i].from)
      /\ IF ans = <<>> THEN state = current
         ELSE /\ ans[1].from = state
              /\ \A i \in 1 .. Len(ans) - 1 : Leads(ans[i], ans[i + 1].from)
              /\ Leads(ans[Len(ans)], current)
  BY DEF SearchInv, PathInv, SearchTypeOK, Walked, PathLegal, Onward
<1>2. Len(ans) \in Nat /\ DOMAIN ans = 1 .. Len(ans) /\ (ans = <<>> <=> Len(ans) = 0)
  BY <1>1
<1>3. Start = GridStart(problem) /\ GridGoal(problem, current) /\ Solvable(problem)
  BY <1>1, PosedIs DEF Start, Solvable
<1>4. WayPoint(0) = Start
  BY <1>1, <1>2 DEF WayPoint
<1>5. WayPoint(Len(ans)) = current
  BY <1>2 DEF WayPoint
<1>6. ASSUME NEW k \in 0 .. Len(ans) - 1
      PROVE  /\ WayPoint(k) \in State(problem) /\ ~IsGoalState(problem, WayPoint(k))
             /\ Leads(ans[k + 1], WayPoint(k + 1)) /\ ans[k + 1].from = WayPoint(k)
  <2>1. k + 1 \in 1 .. Len(ans) /\ WayPoint(k) = ans[k + 1].from
    BY <1>2 DEF WayPoint
  <2>2. ans[k + 1] \in Link(problem) /\ ~IsGoalState(problem, ans[k + 1].from)
    BY <1>1, <1>2, <2>1
  <2>3. Leads(ans[k + 1], WayPoint(k + 1))
    <3>1. CASE k + 1 < Len(ans)
      <4>1. k + 1 \in 1 .. Len(ans) - 1 /\ WayPoint(k + 1) = ans[(k + 1) + 1].from
        BY <1>2, <3>1 DEF WayPoint
      <4> QED BY <1>1, <1>2, <4>1
    <3>2. CASE ~(k + 1 < Len(ans))
      <4>1. k + 1 = Len(ans)
        <5> DEFINE n == Len(ans)
        <5>1. n \in Nat /\ k \in 0 .. n - 1 /\ ~(k + 1 < n)
          BY <1>2, <3>2
        <5> HIDE DEF n
        <5>2. k + 1 = n
          BY <5>1
        <5> QED BY <5>2 DEF n
      <4>2. WayPoint(k + 1) = current
        BY <3>2 DEF WayPoint
      <4>3. ans # <<>>
        BY <1>2, <4>1
      <4> QED BY <1>1, <4>1, <4>2, <4>3
    <3> QED BY <3>1, <3>2
  <2> QED BY <2>1, <2>2, <2>3 DEF Link
<1> QED BY <1>1, <1>2, <1>3, <1>4, <1>5, <1>6

\* Each action of it is right in every game that has got as far.
LEMMA PathWorks ==
  ASSUME SearchInv, pc = "done", problem \in Posed, NEW k \in 0 .. Len(ans) - 1,
         NEW g, Matches(problem, WayPoint(k), g)
  PROVE  LET action == ans[k + 1].action
         IN  /\ g.food # {} /\ action \in Way /\ Legal(g, 0, action)
             /\ Matches(problem, WayPoint(k + 1), GenerateSuccessor(g, 0, action))
<1> DEFINE s == WayPoint(k)
<1>1. /\ s \in State(problem) /\ ~IsGoalState(problem, s) /\ Solvable(problem)
      /\ Leads(ans[k + 1], WayPoint(k + 1)) /\ ans[k + 1].from = s
  BY PathIs
<1> DEFINE action == ans[k + 1].action
           t == WayPoint(k + 1)
<1>2. PICK i \in DOMAIN GetSuccessors(problem, s) :
        GetSuccessors(problem, s)[i].state = t /\ GetSuccessors(problem, s)[i].action = action
  BY <1>1 DEF Leads, Successors
<1> HIDE DEF s, t, action
<1>3. Matches(problem, s, g)
  BY DEF s
<1>4. /\ g.food # {} /\ action \in Way /\ Legal(g, 0, action)
      /\ Matches(problem, t, GenerateSuccessor(g, 0, action))
  BY <1>1, <1>2, <1>3, StepAlong
<1> QED BY <1>4 DEF t, action

\* The actions of what was found, as registerInitialState takes them.
Taken == [i \in DOMAIN ans |-> ans[i].action]

LEMMA TakenIs ==
  ASSUME SearchInv, problem \in Posed
  PROVE  /\ Taken \in Seq(Way) /\ Len(Taken) = Len(ans) /\ Len(ans) \in Nat
         /\ \A i \in 1 .. Len(ans) : Taken[i] = ans[i].action
<1>1. ans \in Seq(Link(problem)) /\ Action(problem) = Way
  BY PosedIs DEF SearchInv, PathInv, SearchTypeOK
<1>2. Len(ans) \in Nat /\ DOMAIN ans = 1 .. Len(ans)
  BY <1>1
<1>3. \A i \in 1 .. Len(ans) : ans[i].action \in Way
  <2>1. \A i \in 1 .. Len(ans) : ans[i] \in Link(problem)
    BY <1>1, <1>2
  <2> QED BY <1>1, <2>1 DEF Link
<1> QED BY <1>2, <1>3 DEF Taken

\* The game at the end of the path.
LEMMA AtTheEnd ==
  ASSUME NEW p \in Posed, NEW s \in State(p), GridGoal(p, s), NEW g, Matches(p, s, g)
  PROVE  /\ p.kind \in {"position", "east", "west"} => g.conf[0].pos = Place(Goal)
         /\ p.kind = "corners" => g.food \cap Corners(g.layout) = {}
         /\ p.kind = "food" => g.food = {}
<1>1. /\ g.layout = p.layout /\ g.conf[0].pos = Place(Cell(p, s)) /\ Uneaten(p, s, g.food)
  BY AloneIs DEF Matches, Alone
<1>2. ASSUME p.kind = "corners" PROVE g.food \cap Corners(g.layout) = {}
  <2>1. s[2] \in Reached(p.layout) /\ Len(s[2]) > 3
    BY <1>2, KindIs DEF GridGoal
  <2>2. \A c \in Corners(p.layout) : c \notin g.food
    BY <1>1, <1>2, <2>1, AllReached DEF Uneaten
  <2> QED BY <1>1, <2>2
<1>3. p.kind \in {"position", "east", "west"} => g.conf[0].pos = Place(Goal)
  BY <1>1 DEF GridGoal, Cell
<1>4. p.kind = "food" => g.food = {}
  BY <1>1 DEF GridGoal, Uneaten
<1> QED BY <1>2, <1>3, <1>4

-----------------------------------------------------------------------------
\* Pacman has his turn, and does something legal.
Played(g, action, h) == Live(g) /\ Legal(g, 0, action) /\ h = GenerateSuccessor(g, 0, action)

\* The game follows the plan: some history of n moves leads to the state that is planned
\* up to, and the game is somewhere on it.
Along(h, n) ==
  /\ h[0] = NewGame(task.layout) /\ h[n] = planState /\ h[actionIndex] = game
  /\ \A k \in 0 .. n - 1 : Played(h[k], actions[k + 1], h[k + 1])

\* An agent that has posed its problem plays what was found.
OnePlan ==
  /\ problem = GridProblem(task.kind, NewGame(task.layout))
  /\ phase \in {"register", "search", "play"}
  /\ phase # "play" => actions = <<>>
  /\ phase = "play" =>
       /\ pc = "done" /\ actions = Taken
       /\ actionIndex <= Len(actions) + 1
       /\ Matches(problem, WayPoint(actionIndex), game)
       /\ actionIndex > Len(actions) => game.food # {}

\* An agent that plans path after path follows each of them in a state of its own.
PathByPath ==
  LET left == Len(segment)
      planned == Len(actions) - left
  IN  /\ algorithm = "bfs" /\ Alone(task.layout, planState)
      /\ phase = "search" => problem = GridProblem("any", planState) /\ planState.food # {}
      /\ phase = "play" => planState.food = {} /\ Alone(task.layout, game)
      /\ phase = "walk" =>
           /\ pc = "done" /\ problem \in Posed /\ left <= Len(ans)
           /\ \A i \in 1 .. left : segment[i] = ans[Len(ans) - left + i].action
           /\ Matches(problem, WayPoint(Len(ans) - left), planState)
      /\ phase # "walk" => segment = <<>>
      /\ left <= Len(actions) /\ actionIndex <= planned
      /\ \A i \in 1 .. left : segment[i] = actions[planned + i]
      /\ \E h : Along(h, planned)

\* Until the plan is made the game waits.
Waiting ==
  /\ game = NewGame(task.layout) /\ agentIndex = 0 /\ moves = 0 /\ run = "playing"
  /\ actionIndex = 0

AgentInv ==
  /\ task \in Task /\ SearchInv /\ GameInv
  /\ phase \in {"register", "search", "walk", "play"}
  /\ actions \in Seq(Way) /\ segment \in Seq(Way) /\ actionIndex \in Nat
  /\ phase # "play" => Waiting
  /\ task.agent = "graph" => phase \in {"register", "search"}
  /\ task.agent = "keyboard" => phase = "play"
  /\ task.agent = "search" => OnePlan
  /\ task.agent = "closest" => PathByPath

LEMMA OneAgent ==
  ASSUME NEW t \in Task, t.agent \in {"search", "closest"}
  PROVE  /\ t.layout \in Layout /\ Len(t.layout.agents) = 1 /\ t.layout.food # {}
         /\ Alone(t.layout, NewGame(t.layout)) /\ NewGame(t.layout).food # {}
<1>1. t.layout \in Layout /\ Len(t.layout.agents) = 1 /\ t.layout.food # {}
  BY TaskAssumption DEF Plannable
<1> QED BY <1>1, AloneAtFirst

LEMMA InitAgent == Init => AgentInv
<1> SUFFICES ASSUME Init PROVE AgentInv
  OBVIOUS
<1> DEFINE g == NewGame(task.layout)
           first == CASE task.agent = "graph" -> task.problem
                      [] task.agent = "search" -> GridProblem(task.kind, g)
                      [] OTHER -> GridProblem("any", g)
<1>1. /\ task \in Task /\ game = g /\ SearchInit /\ problem = first /\ Waiting
      /\ algorithm = (IF task.agent \in {"graph", "search"} THEN task.fn ELSE "bfs")
      /\ phase = (IF task.agent = "keyboard" THEN "play" ELSE "register")
      /\ actions = <<>> /\ actionIndex = 0 /\ segment = <<>> /\ planState = game
  BY DEF Init, Waiting
<1> HIDE DEF g
<1>2. SearchInv
  BY <1>1, InitSearch
<1>3. GameInv
  <2>1. task.layout \in Layout
    BY <1>1, TaskAssumption
  <2> QED BY <1>1, <2>1, GameStarts DEF Waiting
<1>4. ASSUME task.agent = "search" PROVE OnePlan
  BY <1>1, <1>4 DEF OnePlan, g
<1>5. ASSUME task.agent = "closest" PROVE PathByPath
  <2>1. Len(segment) = 0 /\ Len(actions) = 0
    BY <1>1
  <2>2. Alone(task.layout, planState)
    BY <1>1, <1>5, OneAgent DEF g
  <2>3. Along([k \in {0} |-> g], 0)
    BY <1>1 DEF Along, Waiting, g
  <2>4. \E h : Along(h, 0)
    BY <2>3
  <2> QED BY <1>1, <1>5, <2>1, <2>2, <2>4 DEF PathByPath
<1>6. actions \in Seq(Way) /\ segment \in Seq(Way)
  BY <1>1
<1> QED BY <1>1, <1>2, <1>3, <1>4, <1>5, <1>6 DEF AgentInv

LEMMA AlongKept ==
  ASSUME NEW n, UNCHANGED <<task, planState, actionIndex, game, actions>>, \E h : Along(h, n)
  PROVE  (\E h : Along(h, n))'
BY DEF Along

LEMMA RegisterAgent == AgentInv /\ Register => AgentInv'
<1> SUFFICES ASSUME AgentInv, Register PROVE AgentInv'
  OBVIOUS
<1>1. /\ phase = "register" /\ Waiting /\ task \in Task /\ task' = task
      /\ UNCHANGED <<gameVars, task, actions, actionIndex, segment, planState>>
      /\ task.agent # "keyboard" /\ actions \in Seq(Way) /\ segment \in Seq(Way) /\ actionIndex \in Nat
  BY DEF Register, AgentInv
<1>2. task.agent \in {"graph", "search", "closest"}
  BY <1>1, TaskAssumption
<1>3. GameInv'
  BY <1>1, NextGame DEF AgentInv, gameVars
<1>4. Waiting'
  BY <1>1 DEF Waiting, gameVars
<1>5. CASE task.agent = "closest" /\ planState.food = {}
  <2>1. phase' = "play" /\ UNCHANGED searchVars
    BY <1>5 DEF Register
  <2>2. SearchInv'
    BY <2>1, KeptSearch DEF AgentInv
  <2>3. PathByPath'
    <3>1. algorithm' = algorithm
      BY <2>1 DEF searchVars
    <3>2. PathByPath /\ segment = <<>> /\ \E h : Along(h, Len(actions) - Len(segment))
      BY <1>1, <1>5 DEF AgentInv, PathByPath
    <3>3. (\E h : Along(h, Len(actions) - Len(segment)))'
      BY <1>1, <3>2, AlongKept DEF gameVars, Along
    <3>4. game' = game /\ Alone(task.layout, game)
      BY <1>1, <1>5, OneAgent DEF Waiting, gameVars
    <3> QED BY <1>1, <1>5, <2>1, <3>1, <3>2, <3>3, <3>4 DEF PathByPath
  <2> QED BY <1>1, <1>3, <1>5, <2>1, <2>2, <2>3 DEF AgentInv
<1>6. CASE ~(task.agent = "closest" /\ planState.food = {})
  <2> DEFINE p == IF task.agent = "closest" THEN GridProblem("any", planState) ELSE problem
  <2>1. phase' = "search" /\ Call(p, algorithm)
    BY <1>6 DEF Register
  <2>2. problem \in Problem /\ algorithm \in Algorithm
    BY DEF AgentInv, SearchInv, PathInv, SearchTypeOK
  <2>3. task.agent = "closest" => p \in Problem
    <3>1. task.agent = "closest" => Alone(task.layout, planState)
      BY DEF AgentInv, PathByPath
    <3> QED BY <1>1, <3>1, PosedOnTheWay DEF Posed
  <2>4. p \in Problem
    BY <2>2, <2>3
  <2> HIDE DEF p
  <2>5. SearchInv' /\ problem' = p /\ algorithm' = algorithm
    BY <2>1, <2>2, <2>4, CallSearch DEF Call
  <2>6. ASSUME task.agent = "search" PROVE OnePlan'
    BY <1>1, <2>1, <2>5, <2>6 DEF AgentInv, OnePlan, p
  <2>7. ASSUME task.agent = "closest" PROVE PathByPath'
    <3>1. PathByPath /\ segment = <<>> /\ \E h : Along(h, Len(actions) - Len(segment))
      BY <1>1, <2>7 DEF AgentInv, PathByPath
    <3>2. (\E h : Along(h, Len(actions) - Len(segment)))'
      BY <1>1, <3>1, AlongKept DEF gameVars, Along
    <3>3. problem' = GridProblem("any", planState)
      BY <2>5, <2>7 DEF p
    <3> QED BY <1>1, <1>6, <2>1, <2>5, <2>7, <3>1, <3>2, <3>3 DEF PathByPath
  <2> QED BY <1>1, <1>2, <1>3, <1>4, <2>1, <2>5, <2>6, <2>7 DEF AgentInv
<1> QED BY <1>5, <1>6

LEMMA SearchingAgent == AgentInv /\ Searching => AgentInv'
<1> SUFFICES ASSUME AgentInv, Searching PROVE AgentInv'
  OBVIOUS
<1>1. /\ phase = "search" /\ Round /\ Waiting /\ task \in Task
      /\ UNCHANGED <<gameVars, task, phase, actions, actionIndex, segment, planState>>
      /\ actions \in Seq(Way) /\ segment \in Seq(Way) /\ actionIndex \in Nat
      /\ task.agent # "keyboard"
  BY DEF Searching, AgentInv, agentVars
<1>2. SearchInv' /\ problem' = problem /\ algorithm' = algorithm
  BY <1>1, RoundSearch DEF AgentInv, Round, Pop, PopEmpty, Examine, EndExpand, Trace, Return
<1>3. GameInv'
  BY <1>1, NextGame DEF AgentInv, gameVars
<1>4. Waiting'
  BY <1>1 DEF Waiting, gameVars
<1>5. ASSUME task.agent = "search" PROVE OnePlan'
  BY <1>1, <1>2, <1>5 DEF AgentInv, OnePlan
<1>6. ASSUME task.agent = "closest" PROVE PathByPath'
  <2>1. PathByPath /\ \E h : Along(h, Len(actions) - Len(segment))
    BY <1>6 DEF AgentInv, PathByPath
  <2>2. (\E h : Along(h, Len(actions) - Len(segment)))'
    BY <1>1, <2>1, AlongKept DEF gameVars, Along
  <2> QED BY <1>1, <1>2, <1>6, <2>1, <2>2 DEF PathByPath
<1> QED BY <1>1, <1>2, <1>3, <1>4, <1>5, <1>6 DEF AgentInv

LEMMA Joined ==
  ASSUME NEW S, NEW a \in Seq(S), NEW b \in Seq(S)
  PROVE  /\ a \o b \in Seq(S) /\ Len(a \o b) = Len(a) + Len(b) /\ Len(a) \in Nat /\ Len(b) \in Nat
         /\ \A i \in 1 .. Len(a) : (a \o b)[i] = a[i]
         /\ \A i \in 1 .. Len(b) : (a \o b)[Len(a) + i] = b[i]
OBVIOUS

\* What was found begins where the agent is.
LEMMA FirstPlan ==
  ASSUME SearchInv, pc = "done", task \in Task, task.agent = "search",
         problem = GridProblem(task.kind, NewGame(task.layout))
  PROVE  problem \in Posed /\ Matches(problem, WayPoint(0), NewGame(task.layout))
<1> DEFINE g == NewGame(task.layout)
           l == task.layout
           kind == task.kind
<1>1. GridProblem(kind, g) \in Posed /\ kind \in Kind /\ Plannable(kind, l) /\ l \in Layout
  BY PosedAtFirst, TaskAssumption
<1>2. /\ Alone(l, g) /\ g.food # {} /\ At(g) = l.agents[1] /\ g.food = l.food
      /\ kind \in {"position", "east", "west"} => Goal \in l.food
      /\ kind = "corners" => Corners(l) \ {l.agents[1]} \subseteq l.food
  BY <1>1, AloneAtFirst DEF Plannable
<1>3. WayPoint(0) = GridStart(problem)
  BY <1>1, PathIs
<1> HIDE DEF g, l, kind
<1>4. Matches(GridProblem(kind, g), GridStart(GridProblem(kind, g)), g)
  BY <1>1, <1>2, MatchesFirst
<1> QED BY <1>1, <1>3, <1>4 DEF g, l, kind

LEMMA NextPlan ==
  ASSUME SearchInv, pc = "done", task \in Task, Alone(task.layout, planState),
         planState.food # {}, problem = GridProblem("any", planState)
  PROVE  problem \in Posed /\ Matches(problem, WayPoint(0), planState)
<1>1. problem \in Posed
  BY PosedOnTheWay
<1>2. WayPoint(0) = GridStart(problem)
  BY <1>1, PathIs
<1>3. "any" \in Kind
  BY DEF Kind
<1>4. Matches(GridProblem("any", planState), GridStart(GridProblem("any", planState)), planState)
  BY <1>3, MatchesFirst
<1> QED BY <1>1, <1>2, <1>4

LEMMA KeptPoints ==
  ASSUME UNCHANGED searchVars
  PROVE  /\ Taken' = Taken /\ Len(ans)' = Len(ans) /\ ans' = ans /\ pc' = pc /\ problem' = problem
         /\ algorithm' = algorithm /\ \A k : WayPoint(k)' = WayPoint(k)
BY DEF searchVars, Taken, WayPoint

LEMMA FoundAgent == AgentInv /\ Found => AgentInv'
<1> SUFFICES ASSUME AgentInv, Found PROVE AgentInv'
  OBVIOUS
<1>1. /\ phase = "search" /\ pc = "done" /\ task.agent # "graph" /\ Waiting /\ task \in Task
      /\ UNCHANGED <<searchVars, gameVars, task, actionIndex, planState>>
      /\ actions \in Seq(Way) /\ segment \in Seq(Way) /\ actionIndex \in Nat
      /\ task.agent # "keyboard" /\ actions' = actions \o Taken
      /\ IF task.agent = "closest" THEN phase' = "walk" /\ segment' = Taken
         ELSE phase' = "play" /\ UNCHANGED segment
  BY DEF Found, AgentInv, Taken, Extended
<1>2. SearchInv'
  BY <1>1, KeptSearch DEF AgentInv
<1>3. GameInv'
  BY <1>1, NextGame DEF AgentInv, gameVars
<1>4. Waiting'
  BY <1>1 DEF Waiting, gameVars
<1>5. /\ Taken' = Taken /\ ans' = ans /\ pc' = pc /\ problem' = problem /\ algorithm' = algorithm
      /\ \A k : WayPoint(k)' = WayPoint(k)
  BY <1>1, KeptPoints
<1>6. ASSUME task.agent = "search"
      PROVE  OnePlan' /\ actions' \in Seq(Way) /\ segment' \in Seq(Way) /\ phase' = "play"
  <2>1. actions = <<>> /\ problem = GridProblem(task.kind, NewGame(task.layout))
    BY <1>1, <1>6 DEF AgentInv, OnePlan
  <2>2. problem \in Posed /\ Matches(problem, WayPoint(0), game)
    BY <1>1, <1>6, <2>1, FirstPlan DEF AgentInv, Waiting
  <2>3. Taken \in Seq(Way) /\ Len(Taken) \in Nat
    BY <2>2, TakenIs DEF AgentInv
  <2>4. actions' = Taken
    BY <1>1, <2>1, <2>3
  <2>5. actionIndex = 0 /\ game' = game
    BY <1>1 DEF Waiting, gameVars
  <2>6. Matches(problem, WayPoint(actionIndex), game)'
    BY <1>1, <1>5, <2>2, <2>5 DEF WayPoint
  <2> QED BY <1>1, <1>5, <1>6, <2>1, <2>3, <2>4, <2>5, <2>6 DEF OnePlan
<1>7. ASSUME task.agent = "closest"
      PROVE  PathByPath' /\ actions' \in Seq(Way) /\ segment' \in Seq(Way) /\ phase' = "walk"
  <2>1. /\ PathByPath /\ segment = <<>> /\ Alone(task.layout, planState) /\ algorithm = "bfs"
        /\ problem = GridProblem("any", planState) /\ planState.food # {}
        /\ actionIndex <= Len(actions) - Len(segment)
        /\ \E h : Along(h, Len(actions) - Len(segment))
    BY <1>1, <1>7 DEF AgentInv, PathByPath
  <2>2. problem \in Posed /\ Matches(problem, WayPoint(0), planState)
    BY <1>1, <2>1, NextPlan DEF AgentInv
  <2>3. /\ Taken \in Seq(Way) /\ Len(Taken) = Len(ans) /\ Len(ans) \in Nat
        /\ \A i \in 1 .. Len(ans) : Taken[i] = ans[i].action
    BY <2>2, TakenIs DEF AgentInv
  <2>0. PICK n \in Nat : n = Len(actions)
    BY <1>1
  <2> DEFINE m == Len(ans)
             b == Taken
  <2>4. /\ actions' \in Seq(Way) /\ Len(actions') = n + m /\ n \in Nat /\ m \in Nat
        /\ \A i \in 1 .. n : actions'[i] = actions[i]
        /\ \A i \in 1 .. m : actions'[n + i] = Taken[i]
    <3>1. actions \in Seq(Way) /\ b \in Seq(Way) /\ Len(b) = m /\ actions' = actions \o b
      BY <1>1, <2>3
    <3> DEFINE a == actions
    <3> HIDE DEF a, m, b
    <3>2. a \in Seq(Way) /\ b \in Seq(Way)
      BY <3>1 DEF a
    <3>3. /\ a \o b \in Seq(Way) /\ Len(a \o b) = Len(a) + Len(b) /\ Len(a) \in Nat /\ Len(b) \in Nat
          /\ \A i \in 1 .. Len(a) : (a \o b)[i] = a[i]
          /\ \A i \in 1 .. Len(b) : (a \o b)[Len(a) + i] = b[i]
      BY <3>2, Joined
    <3>4. Len(a) = n /\ Len(b) = m /\ a = actions
      BY <2>0, <3>1 DEF a
    <3>5. /\ actions \o b \in Seq(Way) /\ Len(actions \o b) = n + m /\ n \in Nat /\ m \in Nat
          /\ \A i \in 1 .. n : (actions \o b)[i] = actions[i]
          /\ \A i \in 1 .. m : (actions \o b)[n + i] = b[i]
      BY <3>3, <3>4
    <3> QED BY <3>1, <3>5 DEF b
  <2>5. segment' = Taken /\ Len(segment') = m /\ phase' = "walk" /\ Len(segment) = 0
    BY <1>1, <1>7, <2>1, <2>3
  <2>6. game' = game /\ actionIndex' = actionIndex /\ planState' = planState /\ task' = task
    BY <1>1 DEF gameVars
  <2>7. PICK h : Along(h, n)
    BY <2>0, <2>1, <2>5
  <2> DEFINE left == Len(segment)
             planned == Len(actions) - left
  <2>8. left' = m /\ planned' = n /\ Len(ans)' - left' = 0
    BY <1>5, <2>4, <2>5
  <2>9. actionIndex <= n
    BY <2>0, <2>1, <2>5
  <2>10. Along(h, n)'
    <3> HIDE DEF m
    <3>1. \A k \in 0 .. n - 1 : actions'[k + 1] = actions[k + 1]
      BY <2>4
    <3> QED BY <2>6, <2>7, <3>1 DEF Along
  <2>11. Along(h, planned)'
    BY <2>8, <2>10 DEF Along
  <2>12. Matches(problem, WayPoint(Len(ans) - left), planState)'
    BY <1>5, <2>2, <2>6, <2>8 DEF WayPoint
  <2>13. \A i \in 1 .. left' : /\ segment'[i] = ans'[(Len(ans) - left)' + i].action
                              /\ segment'[i] = actions'[planned' + i]
    <3>1. \A i \in 1 .. m : 0 + i = i
      BY <2>4
    <3> HIDE DEF left, planned
    <3> QED BY <1>5, <2>3, <2>4, <2>5, <2>8, <3>1
  <2>14. left' <= Len(ans') /\ left' <= Len(actions') /\ actionIndex' <= planned'
    BY <1>5, <2>4, <2>6, <2>8, <2>9
  <2>15. Len(segment)' = left' /\ (Len(actions) - Len(segment))' = planned'
    OBVIOUS
  <2> HIDE DEF m
  <2> QED BY <1>1, <1>5, <2>1, <2>2, <2>3, <2>4, <2>5, <2>6, <2>11, <2>12, <2>13, <2>14 DEF PathByPath
<1> QED BY <1>1, <1>2, <1>3, <1>4, <1>6, <1>7, TaskAssumption DEF AgentInv

LEMMA Behead ==
  ASSUME NEW S, NEW s \in Seq(S), s # <<>>
  PROVE  /\ Tail(s) \in Seq(S) /\ Len(s) \in Nat \ {0} /\ Len(Tail(s)) = Len(s) - 1
         /\ Head(s) = s[1] /\ \A i \in 1 .. Len(s) - 1 : Tail(s)[i] = s[i + 1]
OBVIOUS

\* One more move makes a history longer.
LEMMA AlongFurther ==
  ASSUME NEW n \in Nat, actionIndex \in 0 .. n, NEW h, Along(h, n),
         Played(planState, actions[n + 1], planState'),
         UNCHANGED <<task, game, actions, actionIndex>>
  PROVE  (\E f : Along(f, n + 1))'
<1> DEFINE f == [k \in 0 .. n + 1 |-> IF k = n + 1 THEN planState' ELSE h[k]]
<1>1. /\ f[n + 1] = planState' /\ \A k \in 0 .. n : f[k] = h[k]
  OBVIOUS
<1> HIDE DEF f
<1>2. f[0] = NewGame(task.layout) /\ f[n] = planState /\ f[actionIndex] = game
  BY <1>1 DEF Along
<1>3. ASSUME NEW k \in 0 .. (n + 1) - 1 PROVE Played(f[k], actions[k + 1], f[k + 1])
  <2>1. CASE k = n
    BY <1>1, <1>2, <2>1
  <2>2. CASE k # n
    <3>1. k \in 0 .. n - 1 /\ k \in 0 .. n /\ k + 1 \in 0 .. n
      BY <2>2
    <3> QED BY <1>1, <3>1 DEF Along
  <2> QED BY <2>1, <2>2
<1> QED BY <1>1, <1>2, <1>3 DEF Along

LEMMA WalkAgent == AgentInv /\ Walk => AgentInv'
<1> SUFFICES ASSUME AgentInv, Walk PROVE AgentInv'
  OBVIOUS
<1>1. /\ phase = "walk" /\ Waiting /\ task \in Task
      /\ UNCHANGED <<searchVars, game, agentIndex, moves, task, actions, actionIndex>>
      /\ actions \in Seq(Way) /\ segment \in Seq(Way) /\ actionIndex \in Nat
      /\ actionIndex = 0 /\ run = "playing"
  BY DEF Walk, AgentInv, Waiting
<1>2. task.agent = "closest"
  BY <1>1, TaskAssumption DEF AgentInv, OnePlan
<1>3. /\ Taken' = Taken /\ ans' = ans /\ pc' = pc /\ problem' = problem /\ algorithm' = algorithm
      /\ \A k : WayPoint(k)' = WayPoint(k)
  BY <1>1, KeptPoints
<1>4. SearchInv'
  BY <1>1, KeptSearch DEF AgentInv
<1> DEFINE left == Len(segment)
           planned == Len(actions) - left
<1>5. /\ algorithm = "bfs" /\ Alone(task.layout, planState)
      /\ pc = "done" /\ problem \in Posed /\ left <= Len(ans)
      /\ \A i \in 1 .. left : segment[i] = ans[Len(ans) - left + i].action
      /\ Matches(problem, WayPoint(Len(ans) - left), planState)
      /\ left <= Len(actions) /\ actionIndex <= planned
      /\ \A i \in 1 .. left : segment[i] = actions[planned + i]
      /\ \E h : Along(h, planned)
  BY <1>1, <1>2 DEF AgentInv, PathByPath
<1>6. left \in Nat /\ Len(actions) \in Nat /\ Len(ans) \in Nat /\ planned \in Nat
  BY <1>1, <1>5, TakenIs DEF AgentInv
<1>7. CASE segment = <<>>
  <2>1. phase' = "register" /\ UNCHANGED <<run, segment, planState>>
    BY <1>7 DEF Walk
  <2>2. GameInv' /\ Waiting'
    BY <1>1, <2>1, NextGame DEF AgentInv, Waiting, gameVars
  <2>3. PathByPath'
    <3>1. (\E h : Along(h, planned))'
      BY <1>1, <1>5, <2>1, AlongKept DEF Along
    <3> QED BY <1>1, <1>3, <1>5, <1>7, <2>1, <3>1 DEF PathByPath
  <2> QED BY <1>1, <1>2, <1>4, <2>1, <2>2, <2>3 DEF AgentInv
<1>8. CASE segment # <<>>
  <2> DEFINE action == Head(segment)
             at == Len(ans) - left
             h == GenerateSuccessor(planState, 0, action)
  <2>1. /\ Tail(segment) \in Seq(Way) /\ left \in Nat \ {0} /\ Len(Tail(segment)) = left - 1
        /\ action = segment[1] /\ \A i \in 1 .. left - 1 : Tail(segment)[i] = segment[i + 1]
    BY <1>1, <1>8, Behead
  <2>2. PICK k \in 0 .. Len(ans) - 1 : k = at
    <3> HIDE DEF left
    <3>1. at \in 0 .. Len(ans) - 1
      BY <1>5, <1>6, <2>1
    <3> QED BY <3>1
  <2>3. action = ans[k + 1].action /\ action = actions[planned + 1]
    <3> HIDE DEF planned, left
    <3>1. 1 \in 1 .. left
      BY <2>1
    <3> QED BY <1>5, <2>1, <2>2, <3>1
  <2> HIDE DEF h
  <2>4. /\ planState.food # {} /\ Legal(planState, 0, action)
        /\ Matches(problem, WayPoint(k + 1), h)
    <3>1. SearchInv /\ pc = "done" /\ problem \in Posed /\ Matches(problem, WayPoint(k), planState)
      BY <1>5, <2>2 DEF AgentInv
    <3> HIDE DEF action
    <3> QED BY <2>3, <3>1, PathWorks DEF h
  <2>5. /\ planState' = h /\ segment' = Tail(segment) /\ UNCHANGED <<run, phase>>
    BY <1>8, <2>4 DEF Walk, h
  <2>6. GameInv' /\ Waiting'
    BY <1>1, <2>5, NextGame DEF AgentInv, Waiting, gameVars
  <2>7. Alone(task.layout, h)
    <3>1. Alone(problem.layout, h) /\ Alone(problem.layout, planState)
      BY <1>5, <2>4 DEF Matches
    <3> QED BY <1>5, <3>1 DEF Alone
  <2>8. Live(planState)
    BY <1>5, <2>4, AloneIs
  <2>9. PICK n \in Nat : n = planned
    BY <1>6
  <2>10. Played(planState, actions[n + 1], planState')
    BY <2>3, <2>4, <2>5, <2>8, <2>9 DEF Played, h
  <2>11. (\E f : Along(f, n + 1))'
    <3>1. PICK f : Along(f, n)
      BY <1>5, <2>9
    <3>2. actionIndex \in 0 .. n
      BY <1>1, <2>9
    <3> QED BY <1>1, <2>10, <3>1, <3>2, AlongFurther
  <2>12. Len(segment') = left - 1 /\ Len(ans') - Len(segment') = k + 1
         /\ Len(actions') - Len(segment') = n + 1 /\ actions' = actions
    <3> DEFINE a == Len(actions)
               c == Len(ans)
    <3>1. /\ Len(segment') = left - 1 /\ Len(ans') = c /\ Len(actions') = a /\ actions' = actions
          /\ k = c - left /\ n = a - left
      BY <1>1, <1>3, <2>1, <2>2, <2>5, <2>9
    <3>2. left \in Nat /\ a \in Nat /\ c \in Nat
      BY <1>6
    <3> HIDE DEF left, a, c
    <3> QED BY <3>1, <3>2
  <2>13. \A i \in 1 .. left - 1 : /\ segment'[i] = ans[(k + 1) + i].action
                                 /\ segment'[i] = actions[(n + 1) + i]
    <3> SUFFICES ASSUME NEW i \in 1 .. left - 1
                 PROVE  segment'[i] = ans[(k + 1) + i].action /\ segment'[i] = actions[(n + 1) + i]
      OBVIOUS
    <3>1. segment'[i] = segment[i + 1]
      BY <2>1, <2>5
    <3> HIDE DEF left, planned
    <3>2. i + 1 \in 1 .. left /\ (k + 1) + i = k + (i + 1) /\ (n + 1) + i = n + (i + 1)
      BY <2>1
    <3> QED BY <1>5, <2>2, <2>9, <3>1, <3>2
  <2>14. Matches(problem, WayPoint(Len(ans) - Len(segment)), planState)'
    BY <1>3, <2>4, <2>5, <2>12 DEF WayPoint
  <2>15. (\E f : Along(f, Len(actions) - Len(segment)))'
    BY <2>11, <2>12 DEF Along
  <2>16. Len(segment') <= Len(ans') /\ Len(segment') <= Len(actions') /\ actionIndex' <= n + 1
    <3> DEFINE a == Len(actions)
               c == Len(ans)
    <3>1. /\ Len(segment') = left - 1 /\ Len(ans') = c /\ Len(actions') = a
          /\ left <= c /\ left <= a /\ actionIndex' = 0
      BY <1>1, <1>3, <1>5, <2>12
    <3>2. left \in Nat /\ a \in Nat /\ c \in Nat
      BY <1>6
    <3> HIDE DEF left, planned, a, c
    <3> QED BY <3>1, <3>2
  <2>17. PathByPath'
    <3>1. \A i \in 1 .. Len(segment') :
            /\ segment'[i] = ans'[(Len(ans') - Len(segment')) + i].action
            /\ segment'[i] = actions'[(Len(actions') - Len(segment')) + i]
      BY <1>3, <2>12, <2>13
    <3> HIDE DEF left, planned, at
    <3> QED BY <1>1, <1>3, <1>5, <2>5, <2>7, <2>12, <2>14, <2>15, <2>16, <3>1 DEF PathByPath
  <2> QED BY <1>1, <1>2, <1>4, <2>1, <2>5, <2>6, <2>17 DEF AgentInv
<1> QED BY <1>7, <1>8

LEMMA AloneMoves ==
  ASSUME NEW l, NEW g, Alone(l, g), NEW action, Legal(g, 0, action)
  PROVE  Alone(l, GenerateSuccessor(g, 0, action))
<1>1. Live(g) /\ action \in PossibleActions(g, 0)
  BY DEF Legal, LegalActions
<1>2. g.food # {} /\ OnGrid(g.conf[0].pos) /\ g.layout = l
  BY <1>1, AloneIs DEF Alone
<1>3. action \in Way /\ Plus(At(g), action, 1) \in l.cells
  BY <1>1, <1>2 DEF PossibleActions, At
<1> QED BY <1>2, <1>3, AloneStep

\* To stop changes nothing but the score.
LEMMA AloneStops ==
  ASSUME NEW l, NEW g, Alone(l, g), g.food # {}
  PROVE  LET h == GenerateSuccessor(g, 0, "Stop")
         IN  Legal(g, 0, "Stop") /\ Alone(l, h) /\ At(h) = At(g) /\ h.food = g.food
<1>1. At(g) \in l.cells /\ At(g) \in Pair /\ At(g) \notin g.food
  BY AloneIs DEF Alone
<1>2. Plus(At(g), "Stop", 1) = At(g)
  <2> DEFINE c == At(g)
  <2>1. c = <<c[1], c[2]>> /\ c[1] \in Int /\ c[2] \in Int
    BY <1>1 DEF Pair
  <2> HIDE DEF c
  <2>2. Plus(c, "Stop", 1) = c
    BY <2>1 DEF Plus, Vector
  <2> QED BY <2>2 DEF c
<1>3. "Stop" \in Way /\ Plus(At(g), "Stop", 1) \in l.cells
  BY <1>1, <1>2 DEF Way
<1>4. /\ Legal(g, 0, "Stop") /\ Alone(l, GenerateSuccessor(g, 0, "Stop"))
      /\ At(GenerateSuccessor(g, 0, "Stop")) = At(g)
      /\ GenerateSuccessor(g, 0, "Stop").food = g.food \ {At(g)}
  BY <1>2, <1>3, AloneStep
<1> QED BY <1>1, <1>4

LEMMA PlannedTurnAgent == AgentInv /\ PlannedTurn => AgentInv'
<1> SUFFICES ASSUME AgentInv, PlannedTurn PROVE AgentInv'
  OBVIOUS
<1> DEFINE action == NextAction
           h == GenerateSuccessor(game, 0, action)
<1>1. /\ phase = "play" /\ task.agent \in {"search", "closest"} /\ task \in Task
      /\ agentIndex = 0 /\ actionIndex <= Len(actions) /\ Play(action)
      /\ actionIndex' = actionIndex + 1
      /\ UNCHANGED <<searchVars, task, phase, actions, segment, planState>>
      /\ actions \in Seq(Way) /\ segment \in Seq(Way) /\ actionIndex \in Nat
  BY DEF PlannedTurn, AgentInv
<1>2. /\ Taken' = Taken /\ ans' = ans /\ pc' = pc /\ problem' = problem /\ algorithm' = algorithm
      /\ \A k : WayPoint(k)' = WayPoint(k)
  BY <1>1, KeptPoints
<1>3. SearchInv'
  BY <1>1, KeptSearch DEF AgentInv
<1>4. Live(game) /\ GameInv
  BY <1>1 DEF AgentInv, GameInv, Play
<1>5. Legal(game, 0, action) => game' = h /\ GameInv'
  BY <1>1, <1>4, LegalPlay DEF Play
<1>6. Len(actions) \in Nat
  BY <1>1
<1> HIDE DEF action, h
<1>7. ASSUME task.agent = "search" PROVE Legal(game, 0, action) /\ OnePlan'
  <2>1. /\ problem = GridProblem(task.kind, NewGame(task.layout)) /\ pc = "done"
        /\ actions = Taken /\ Matches(problem, WayPoint(actionIndex), game)
    BY <1>1, <1>7 DEF AgentInv, OnePlan
  <2>2. problem \in Posed /\ SearchInv
    BY <1>1, <1>7, <2>1, PosedAtFirst DEF AgentInv
  <2>3. Len(actions) = Len(ans) /\ \A i \in 1 .. Len(ans) : actions[i] = ans[i].action
    BY <2>1, <2>2, TakenIs
  <2>4. /\ Legal(game, 0, action) /\ Matches(problem, WayPoint(actionIndex + 1), h)
        /\ actionIndex + 1 <= Len(actions) + 1
        /\ actionIndex + 1 > Len(actions) => h.food # {}
    <3> DEFINE n == Len(ans)
    <3>0. n \in Nat /\ Len(actions) = n
      BY <1>6, <2>3
    <3>1. CASE actionIndex < n
      <4>1. PICK k \in 0 .. n - 1 : k = actionIndex
        BY <1>1, <3>0, <3>1
      <4>2. k + 1 \in 1 .. n
        BY <3>0, <4>1
      <4>3. action = ans[k + 1].action
        BY <2>3, <3>0, <3>1, <4>1, <4>2 DEF NextAction, action
      <4>4. Legal(game, 0, action) /\ Matches(problem, WayPoint(k + 1), h)
        BY <2>1, <2>2, <4>1, <4>3, PathWorks DEF h
      <4> HIDE DEF n
      <4> QED BY <3>0, <4>1, <4>4
    <3>2. CASE ~(actionIndex < n)
      <4>1. actionIndex = n
        <5> HIDE DEF n
        <5> QED BY <1>1, <3>0, <3>2
      <4>2. action = "Stop"
        BY <3>0, <4>1 DEF NextAction, action
      <4>3. WayPoint(actionIndex) = current /\ WayPoint(actionIndex + 1) = current
        <5> HIDE DEF n
        <5>1. ~(actionIndex < n) /\ ~(actionIndex + 1 < n)
          BY <3>0, <4>1
        <5> QED BY <5>1 DEF WayPoint, n
      <4>4. Alone(problem.layout, game) /\ game.food # {}
        BY <1>4, <2>1, AloneIs DEF Matches
      <4>5. /\ Legal(game, 0, action) /\ Alone(problem.layout, h) /\ At(h) = At(game)
            /\ h.food = game.food
        BY <4>2, <4>4, AloneStops DEF h
      <4>6. Matches(problem, current, h)
        BY <2>1, <4>3, <4>5 DEF Matches
      <4> HIDE DEF n
      <4> QED BY <3>0, <4>1, <4>3, <4>4, <4>5, <4>6
    <3> QED BY <3>1, <3>2
  <2>5. game' = h
    BY <1>5, <2>4
  <2>6. Matches(problem, WayPoint(actionIndex), game)'
    BY <1>1, <1>2, <2>4, <2>5 DEF WayPoint
  <2> QED BY <1>1, <1>2, <2>1, <2>4, <2>5, <2>6 DEF OnePlan
<1>8. ASSUME task.agent = "closest" PROVE Legal(game, 0, action) /\ PathByPath'
  <2>1. /\ PathByPath /\ segment = <<>> /\ Len(segment) = 0 /\ planState.food = {}
        /\ Alone(task.layout, planState) /\ Alone(task.layout, game) /\ algorithm = "bfs"
    BY <1>1, <1>8 DEF AgentInv, PathByPath
  <2>2. PICK n \in Nat : n = Len(actions) /\ n = Len(actions) - Len(segment)
    BY <1>6, <2>1
  <2>3. PICK f : Along(f, n)
    BY <2>1, <2>2 DEF PathByPath
  <2>4. actionIndex < n
    <3>1. planState # game
      BY <1>4, <2>1, AloneIs
    <3> QED BY <1>1, <2>2, <2>3, <3>1 DEF Along
  <2>5. action = actions[actionIndex + 1]
    BY <2>2, <2>4 DEF NextAction, action
  <2>6. Played(game, action, f[actionIndex + 1])
    BY <1>1, <2>3, <2>4, <2>5 DEF Along
  <2>7. Legal(game, 0, action) /\ game' = f[actionIndex'] /\ game' = h
    BY <1>1, <1>5, <2>6 DEF Played, h
  <2>8. Alone(task.layout, game)'
    <3>1. Alone(task.layout, h)
      BY <2>1, <2>7, AloneMoves DEF h
    <3>2. game' = h /\ task' = task
      BY <1>1, <2>7
    <3> QED BY <3>1, <3>2
  <2>9. (\E e : Along(e, n))'
    BY <1>1, <2>3, <2>7 DEF Along
  <2>10. actionIndex' <= n /\ Len(actions') - Len(segment') = n /\ Len(segment') = 0
    BY <1>1, <2>1, <2>2, <2>4
  <2>11. (\E e : Along(e, Len(actions) - Len(segment)))'
    BY <2>9, <2>10 DEF Along
  <2> QED BY <1>1, <1>2, <2>1, <2>2, <2>7, <2>8, <2>10, <2>11 DEF PathByPath
<1> QED BY <1>1, <1>3, <1>5, <1>7, <1>8 DEF AgentInv

LEMMA FreeTurnAgent == AgentInv /\ FreeTurn => AgentInv'
<1> SUFFICES ASSUME AgentInv, FreeTurn PROVE AgentInv'
  OBVIOUS
<1>1. /\ phase = "play" /\ (GhostTurn \/ (task.agent = "keyboard" /\ KeyboardTurn))
      /\ UNCHANGED <<searchVars, agentVars>> /\ task \in Task
  BY DEF FreeTurn, AgentInv
<1>2. GameInv' /\ SearchInv'
  BY <1>1, NextGame, KeptSearch DEF AgentInv, GameNext
<1>3. task.agent \notin {"search", "closest"}
  <2>1. ASSUME task.agent \in {"search", "closest"} PROVE FALSE
    <3>1. \E l : Alone(l, game)
      BY <1>1, <2>1 DEF AgentInv, OnePlan, PathByPath, Matches
    <3>2. agentIndex = 0
      BY <3>1, AloneIs DEF AgentInv, GameInv
    <3> QED BY <1>1, <2>1, <3>2 DEF GhostTurn
  <2> QED BY <2>1
<1> QED BY <1>1, <1>2, <1>3 DEF AgentInv, agentVars

LEMMA KeptAgent == AgentInv /\ UNCHANGED vars => AgentInv'
<1> SUFFICES ASSUME AgentInv, UNCHANGED vars PROVE AgentInv'
  OBVIOUS
<1>1. UNCHANGED <<searchVars, gameVars, agentVars>>
  BY DEF vars
<1>2. GameInv' /\ SearchInv'
  BY <1>1, NextGame, KeptSearch DEF AgentInv
<1>3. /\ Taken' = Taken /\ ans' = ans /\ pc' = pc /\ problem' = problem /\ algorithm' = algorithm
      /\ \A k : WayPoint(k)' = WayPoint(k)
  BY <1>1, KeptPoints
<1>4. /\ UNCHANGED <<task, phase, actions, actionIndex, segment, planState>>
      /\ UNCHANGED <<game, agentIndex, moves, run>>
  BY <1>1 DEF agentVars, gameVars
<1>5. Waiting' <=> Waiting
  BY <1>4 DEF Waiting
<1>6. OnePlan' <=> OnePlan
  BY <1>3, <1>4 DEF OnePlan, WayPoint
<1>7. PathByPath' <=> PathByPath
  BY <1>3, <1>4 DEF PathByPath, WayPoint, Along
<1> QED BY <1>2, <1>4, <1>5, <1>6, <1>7 DEF AgentInv

LEMMA AgentsWork == Spec => []AgentInv
<1>1. AgentInv /\ [Next]_vars => AgentInv'
  BY RegisterAgent, SearchingAgent, FoundAgent, WalkAgent, PlannedTurnAgent, FreeTurnAgent,
     KeptAgent DEF Next, Planning
<1> QED BY <1>1, InitAgent, PTL DEF Spec

-----------------------------------------------------------------------------
LEMMA PlanWorksIs == AgentInv => PlanWorks
<1> SUFFICES ASSUME AgentInv, task.agent \in {"search", "closest"}, phase = "play"
             PROVE  /\ run # "raised"
                    /\ run = "over" => game.win /\ actionIndex = Len(actions)
                    /\ actionIndex >= Len(actions) =>
                         \/ task.agent = "search" /\ problem.kind \in {"position", "east", "west"}
                              /\ game.conf[0].pos = Place(Goal)
                         \/ task.agent = "search" /\ problem.kind = "corners"
                              /\ game.food \cap Corners(game.layout) = {}
                         \/ game.food = {} /\ run = "over"
  BY DEF PlanWorks
<1>1. /\ run \in {"playing", "over"} /\ (run = "playing" <=> Live(game))
      /\ task \in Task /\ actions \in Seq(Way) /\ Len(actions) \in Nat /\ actionIndex \in Nat
  BY DEF AgentInv, GameInv
<1>2. CASE task.agent = "search"
  <2>1. /\ problem = GridProblem(task.kind, NewGame(task.layout)) /\ pc = "done"
        /\ actions = Taken /\ actionIndex <= Len(actions) + 1
        /\ Matches(problem, WayPoint(actionIndex), game)
        /\ actionIndex > Len(actions) => game.food # {}
    BY <1>2 DEF AgentInv, OnePlan
  <2>2. /\ problem \in Posed /\ SearchInv /\ problem.kind = task.kind
        /\ task.kind \in Kind \ {"any"}
    BY <1>1, <1>2, <2>1, PosedAtFirst DEF AgentInv, GridProblem
  <2>3. Len(actions) = Len(ans) /\ Len(ans) \in Nat
    BY <2>1, <2>2, TakenIs
  <2>4. Alone(problem.layout, game)
    BY <2>1 DEF Matches
  <2>5. (Live(game) <=> game.food # {}) /\ (game.win <=> game.food = {})
    BY <2>4, AloneIs DEF Alone
  <2>6. actionIndex < Len(ans) => game.food # {}
    <3>1. SUFFICES ASSUME actionIndex \in 0 .. Len(ans) - 1 PROVE game.food # {}
      BY <1>1, <2>3
    <3> QED BY <2>1, <2>2, <3>1, PathWorks
  <2>7. run = "over" => game.win /\ actionIndex = Len(actions)
    <3> DEFINE n == Len(ans)
    <3> HIDE DEF n
    <3>1. n \in Nat /\ Len(actions) = n /\ (actionIndex < n => game.food # {})
          /\ (actionIndex > n => game.food # {})
      BY <2>1, <2>3, <2>6 DEF n
    <3> QED BY <1>1, <2>5, <3>1
  <2>8. ASSUME actionIndex >= Len(actions)
        PROVE  /\ problem.kind \in {"position", "east", "west"} => game.conf[0].pos = Place(Goal)
               /\ problem.kind = "corners" => game.food \cap Corners(game.layout) = {}
               /\ problem.kind = "food" => game.food = {} /\ run = "over"
    <3>1. WayPoint(actionIndex) = current
      <4> DEFINE n == Len(ans)
      <4> HIDE DEF n
      <4>1. n \in Nat /\ actionIndex >= n
        BY <2>3, <2>8 DEF n
      <4>2. ~(actionIndex < n)
        BY <1>1, <4>1
      <4> QED BY <4>2 DEF WayPoint, n
    <3>2. Matches(problem, current, game) /\ current \in State(problem) /\ GridGoal(problem, current)
      BY <2>1, <2>2, <3>1, PathIs
    <3> QED BY <1>1, <2>2, <2>5, <3>2, AtTheEnd
  <2>9. problem.kind \in {"position", "east", "west", "corners", "food"}
    BY <2>2 DEF Kind
  <2> QED BY <1>1, <1>2, <2>7, <2>8, <2>9
<1>3. CASE task.agent = "closest"
  <2>1. /\ PathByPath /\ segment = <<>> /\ Len(segment) = 0 /\ planState.food = {}
        /\ Alone(task.layout, planState) /\ Alone(task.layout, game)
    BY <1>3 DEF AgentInv, PathByPath
  <2>2. PICK n \in Nat : n = Len(actions) /\ n = Len(actions) - Len(segment)
    BY <1>1, <2>1
  <2>3. PICK f : Along(f, n)
    BY <2>1, <2>2 DEF PathByPath
  <2>4. actionIndex <= n
    BY <2>1, <2>2 DEF PathByPath
  <2>5. actionIndex < n => Live(game)
    BY <1>1, <2>3 DEF Along, Played
  <2>6. ~(actionIndex < n) => game = planState /\ actionIndex = n
    BY <1>1, <2>3, <2>4 DEF Along
  <2>7. (Live(game) <=> game.food # {}) /\ (game.win <=> game.food = {})
    BY <2>1, AloneIs DEF Alone
  <2> QED BY <1>1, <2>1, <2>2, <2>4, <2>5, <2>6, <2>7
<1> QED BY <1>2, <1>3

-----------------------------------------------------------------------------
\* Every variable has its type, whatever is run, in every maze.
THEOREM AgentTypeCorrect == Spec => []TypeOK
<1>1. AgentInv => TypeOK
  BY GameTypeIs DEF AgentInv, TypeOK, SearchInv, PathInv
<1> QED BY <1>1, AgentsWork, PTL

\* What an agent has planned before the game starts works in the game: every action is
\* legal when its turn comes, nothing ends the game before the plan does, and at its end
\* what was to be reached is reached.
THEOREM PlansAlwaysWork == Spec => []PlanWorks
BY PlanWorksIs, AgentsWork, PTL

\* A path that one of an agent's searches returns leads from its start to a goal.
THEOREM AgentsPathsLegal == Spec => []PathLegal
<1>1. AgentInv => PathLegal
  BY DEF AgentInv, SearchInv, PathInv, Walked
<1> QED BY <1>1, AgentsWork, PTL

\* None of them gives up as long as there is a goal that can be reached.
THEOREM AgentsRaiseRightly == Spec => []RaisesOnlyWithoutGoal
<1>1. AgentInv => RaisesOnlyWithoutGoal
  BY SweptAll DEF AgentInv, SearchInv
<1> QED BY <1>1, AgentsWork, PTL

\* The bound that a finished search leaves proves that no way to a goal costs less than
\* the actions an agent is given.
THEOREM AgentsFindCheapest == Spec => []Cheapest
<1>1. AgentInv => Cheapest
  BY CheapestIs DEF AgentInv, SearchInv
<1> QED BY <1>1, AgentsWork, PTL

\* With a heuristic that is only admissible the actions that aStarSearch returns to an agent
\* cost no more than any way too: where there are finitely many states and the actions cost
\* no more than NoWay.
THEOREM AgentsFindCheapestIfAdmissible ==
  ASSUME \A p \in Problem : IsFiniteSet(State(p))
  PROVE  Spec => [](CostOfActions(ans, current) <= NoWay => CheapestIfAdmissible)
<1>1. AgentInv => (CostOfActions(ans, current) <= NoWay => CheapestIfAdmissible)
  BY AdmissibleIs DEF AgentInv, SearchInv
<1> QED BY <1>1, AgentsWork, PTL

\* What breadth first search finds, as for the nearest food, has the fewest actions.
THEOREM AgentsFindFewest == Spec => []FewestActions
<1>1. AgentInv => FewestActions
  BY FewestIs DEF AgentInv, SearchInv
<1> QED BY <1>1, AgentsWork, PTL

\* In the games that are played by a plan, or by hand, no ghost gets past Pacman.
THEOREM NobodyPassesAgents == Spec => []NobodyPasses
<1>1. AgentInv => NobodyPasses
  BY PassesIs DEF AgentInv
<1> QED BY <1>1, AgentsWork, PTL

\* Nor is anybody ever left without a legal action.
THEOREM AgentsCanMove == Spec => []EveryoneCanMove
<1>1. AgentInv => EveryoneCanMove
  BY MovesIs DEF AgentInv
<1> QED BY <1>1, AgentsWork, PTL

-----------------------------------------------------------------------------
\* Distances in a maze.
LEMMA DistanceIs ==
  ASSUME NEW p \in Pair, NEW q \in Pair
  PROVE  /\ Distance(p, q) \in Nat /\ Distance(p, p) = 0
         /\ \A r \in Pair : Distance(p, r) <= Distance(p, q) + Distance(q, r)
<1>1. PICK a \in Int, b \in Int, x \in Int, y \in Int : p = <<a, b>> /\ q = <<x, y>>
  BY DEF Pair
<1> DEFINE Abs(n) == IF n < 0 THEN -n ELSE n
<1>2. Distance(p, q) = Abs(a - x) + Abs(b - y) /\ Distance(p, p) = Abs(a - a) + Abs(b - b)
  BY <1>1 DEF Distance
<1>3. ASSUME NEW r \in Pair PROVE Distance(p, r) <= Distance(p, q) + Distance(q, r)
  <2>1. PICK u \in Int, v \in Int : r = <<u, v>>
    BY DEF Pair
  <2>2. Distance(p, r) = Abs(a - u) + Abs(b - v) /\ Distance(q, r) = Abs(x - u) + Abs(y - v)
    BY <1>1, <2>1 DEF Distance
  <2>3. Abs(a - u) <= Abs(a - x) + Abs(x - u) /\ Abs(b - v) <= Abs(b - y) + Abs(y - v)
    OBVIOUS
  <2>4. /\ Abs(a - u) \in Int /\ Abs(a - x) \in Int /\ Abs(x - u) \in Int
        /\ Abs(b - v) \in Int /\ Abs(b - y) \in Int /\ Abs(y - v) \in Int
    OBVIOUS
  <2> HIDE DEF Abs
  <2> QED BY <1>2, <2>2, <2>3, <2>4
<1> QED BY <1>2, <1>3

LEMMA StepDistance ==
  ASSUME NEW p \in Pair, NEW action \in Way \ {"Stop"}
  PROVE  LET to == Plus(p, action, 1)
         IN  to \in Pair /\ Distance(p, to) = 1 /\ Distance(to, p) = 1
<1>1. PICK a \in Int, b \in Int : p = <<a, b>>
  BY DEF Pair
<1>2. Plus(p, action, 1) \in {<<a, b + 1>>, <<a, b - 1>>, <<a + 1, b>>, <<a - 1, b>>}
  <2>1. /\ Plus(p, "North", 1) = <<a, b + 1>> /\ Plus(p, "South", 1) = <<a, b - 1>>
        /\ Plus(p, "East", 1) = <<a + 1, b>> /\ Plus(p, "West", 1) = <<a - 1, b>>
    BY <1>1 DEF Plus, Vector
  <2> QED BY <2>1 DEF Way
<1> DEFINE to == Plus(p, action, 1)
<1>3. PICK x \in Int, y \in Int :
        /\ to = <<x, y>>
        /\ \/ x = a /\ y = b + 1
           \/ x = a /\ y = b - 1
           \/ x = a + 1 /\ y = b
           \/ x = a - 1 /\ y = b
  BY <1>2
<1> HIDE DEF to
<1> DEFINE Abs(n) == IF n < 0 THEN -n ELSE n
<1>4. Distance(p, to) = Abs(a - x) + Abs(b - y) /\ Distance(to, p) = Abs(x - a) + Abs(y - b)
  BY <1>1, <1>3 DEF Distance
<1>5. to \in Pair
  BY <1>3 DEF Pair
<1> QED BY <1>3, <1>4, <1>5 DEF to

-----------------------------------------------------------------------------
\* What Tour is, although it is defined by recursion.
Tours == [Pair -> [SUBSET Pair -> Nat]]
Ways(g, from, cells) == {Distance(from, c) + g[c][cells \ {c}] : c \in cells}
OneStop(g) ==
  [from \in Pair |-> [cells \in SUBSET Pair |-> IF cells = {} THEN 0 ELSE Least(Ways(g, from, cells))]]
NoStop == [from \in Pair |-> [cells \in SUBSET Pair |-> 0]]

LEMMA WaysType ==
  ASSUME NEW g \in Tours, NEW from \in Pair, NEW cells \in SUBSET Pair, cells # {}
  PROVE  Ways(g, from, cells) \in SUBSET Nat /\ Ways(g, from, cells) # {}
<1>1. ASSUME NEW c \in cells PROVE Distance(from, c) + g[c][cells \ {c}] \in Nat
  <2>1. Distance(from, c) \in Nat
    BY DistanceIs
  <2>2. g[c][cells \ {c}] \in Nat
    BY DEF Tours
  <2> QED BY <2>1, <2>2
<1> QED BY <1>1 DEF Ways

LEMMA OneStopType ==
  ASSUME NEW g \in Tours
  PROVE  OneStop(g) \in Tours
<1>1. ASSUME NEW from \in Pair, NEW cells \in SUBSET Pair
      PROVE  (IF cells = {} THEN 0 ELSE Least(Ways(g, from, cells))) \in Nat
  BY WaysType, LeastOne
<1> QED BY <1>1 DEF OneStop, Tours

LEMMA TourRecursion ==
  /\ \A n \in Nat : Tour[n] \in Tours
  /\ Tour[0] = NoStop
  /\ \A n \in Nat : Tour[n + 1] = OneStop(Tour[n])
<1>1. NoStop \in Tours
  BY DEF NoStop, Tours
<1> DEFINE step == [n \in Nat |-> [g \in Tours |-> OneStop(g)]]
<1>2. step \in Steps(Tours)
  BY OneStopType DEF Steps
<1>3. PICK f \in [Nat -> Tours] : f[0] = NoStop /\ \A n \in Nat : f[n + 1] = step[n][f[n]]
  <2> HIDE DEF step
  <2> QED BY <1>1, <1>2, PrimitiveRecursion
<1>4. \A n \in Nat : f[n] \in Tours /\ f[n + 1] = OneStop(f[n])
  BY <1>3
<1> HIDE DEF step
<1> DEFINE body(g) ==
             [n \in Nat |->
               [from \in Int \X Int |-> [cells \in SUBSET (Int \X Int) |->
                 IF n = 0 \/ cells = {} THEN 0
                 ELSE Least({Distance(from, c) + g[n - 1][c][cells \ {c}] : c \in cells})]]]
<1>5. ASSUME NEW g, NEW n \in Nat
      PROVE  body(g)[n] = IF n = 0 THEN NoStop ELSE OneStop(g[n - 1])
  BY DEF NoStop, OneStop, Ways, Pair
<1>6. f = body(f)
  <2>1. ASSUME NEW n \in Nat PROVE f[n] = body(f)[n]
    <3> HIDE DEF body
    <3>1. f[n] = IF n = 0 THEN NoStop ELSE OneStop(f[n - 1])
      <4>1. n # 0 => n - 1 \in Nat /\ n - 1 + 1 = n
        OBVIOUS
      <4> QED BY <1>3, <1>4, <4>1
    <3> QED BY <1>5, <3>1
  <2> QED BY <2>1
<1>7. Tour = body(Tour)
  <2>1. Tour = CHOOSE g : g = body(g)
    BY DEF Tour
  <2> HIDE DEF body
  <2> QED BY <2>1, <1>6
<1>8. \A n \in Nat : Tour[n] = IF n = 0 THEN NoStop ELSE OneStop(Tour[n - 1])
  <2> HIDE DEF body
  <2> QED BY <1>5, <1>7
<1>9. Tour[0] = NoStop
  BY <1>8
<1>10. \A n \in Nat : Tour[n + 1] = OneStop(Tour[n])
  <2> TAKE n \in Nat
  <2>1. n + 1 \in Nat /\ n + 1 # 0 /\ n + 1 - 1 = n
    OBVIOUS
  <2> QED BY <1>8, <2>1
<1>11. \A n \in Nat : Tour[n] \in Tours
  <2> DEFINE S == {n \in Nat : Tour[n] \in Tours}
  <2>1. 0 \in S
    BY <1>1, <1>9
  <2>2. \A n \in Nat : n \in S => n + 1 \in S
    BY <1>10, OneStopType
  <2> HIDE DEF S
  <2>3. \A n \in Nat : n \in S
    BY <2>1, <2>2, NatIn
  <2> QED BY <2>3 DEF S
<1> QED BY <1>9, <1>10, <1>11

\* A tour of no cells costs nothing, and a tour of some goes to one of them first.
LEMMA TourIs ==
  ASSUME NEW n \in Nat, NEW from \in Pair, NEW cells \in SUBSET Pair
  PROVE  /\ Tour[n][from][cells] \in Nat
         /\ Tour[n][from][{}] = 0 /\ Tour[0][from][cells] = 0
         /\ \A c \in cells : Tour[n + 1][from][cells] <= Distance(from, c) + Tour[n][c][cells \ {c}]
         /\ cells # {} => \E c \in cells :
              Tour[n + 1][from][cells] = Distance(from, c) + Tour[n][c][cells \ {c}]
<1>1. Tour[n] \in Tours /\ Tour[0] = NoStop /\ Tour[n + 1] = OneStop(Tour[n])
  BY TourRecursion
<1>2. Tour[n][from][cells] \in Nat
  BY <1>1 DEF Tours
<1>3. Tour[0][from][cells] = 0
  BY <1>1 DEF NoStop
<1>4. Tour[n][from][{}] = 0
  <2>1. CASE n = 0
    BY <1>1, <2>1 DEF NoStop
  <2>2. CASE n # 0
    <3>1. n - 1 \in Nat /\ n = (n - 1) + 1
      BY <2>2
    <3>2. Tour[n] = OneStop(Tour[n - 1])
      BY <3>1, TourRecursion
    <3> QED BY <3>2 DEF OneStop
  <2> QED BY <2>1, <2>2
<1>5. ASSUME cells # {}
      PROVE  /\ \A c \in cells :
                  Tour[n + 1][from][cells] <= Distance(from, c) + Tour[n][c][cells \ {c}]
             /\ \E c \in cells :
                  Tour[n + 1][from][cells] = Distance(from, c) + Tour[n][c][cells \ {c}]
  <2> DEFINE W == Ways(Tour[n], from, cells)
  <2>1. W \in SUBSET Nat /\ W # {}
    BY <1>1, <1>5, WaysType
  <2>2. Tour[n + 1][from][cells] = Least(W)
    BY <1>1, <1>5 DEF OneStop
  <2> HIDE DEF W
  <2>3. Least(W) \in W /\ \A m \in W : Least(W) <= m
    BY <2>1, LeastOne
  <2> QED BY <2>2, <2>3 DEF W, Ways
<1> QED BY <1>2, <1>3, <1>4, <1>5

\* To begin a tour somewhere else costs what it costs to get there.
LEMMA TourMoves ==
  ASSUME NEW n \in Nat, NEW from \in Pair, NEW to \in Pair, NEW cells \in SUBSET Pair
  PROVE  Tour[n][from][cells] <= Distance(from, to) + Tour[n][to][cells]
<1>0. Distance(from, to) \in Nat /\ Tour[n][to][cells] \in Nat /\ Tour[n][from][cells] \in Nat
  BY DistanceIs, TourIs
<1>1. CASE n = 0 \/ cells = {}
  <2>1. n = 0 => Tour[n][from][cells] = 0
    BY TourIs
  <2>2. cells = {} => Tour[n][from][cells] = 0
    BY TourIs
  <2> QED BY <1>0, <1>1, <2>1, <2>2
<1>2. CASE ~(n = 0 \/ cells = {})
  <2>1. PICK m \in Nat : n = m + 1
    <3>1. n - 1 \in Nat /\ n = (n - 1) + 1
      BY <1>2
    <3> QED BY <3>1
  <2>2. PICK c \in cells : Tour[m + 1][to][cells] = Distance(to, c) + Tour[m][c][cells \ {c}]
    BY <1>2, TourIs
  <2>3. Tour[m + 1][from][cells] <= Distance(from, c) + Tour[m][c][cells \ {c}]
    BY TourIs
  <2>4. c \in Pair /\ cells \ {c} \in SUBSET Pair
    OBVIOUS
  <2> DEFINE x == Distance(from, c)
             y == Distance(to, c)
             z == Distance(from, to)
             r == Tour[m][c][cells \ {c}]
             v == Tour[m + 1][from][cells]
             w == Tour[m + 1][to][cells]
  <2>5. x \in Nat /\ y \in Nat /\ z \in Nat /\ x <= z + y
    BY <2>4, DistanceIs
  <2>6. r \in Nat /\ v \in Nat /\ w \in Nat
    <3>1. m + 1 \in Nat
      OBVIOUS
    <3> QED BY <2>4, <3>1, TourIs
  <2>7. w = y + r /\ v <= x + r
    BY <2>2, <2>3
  <2>8. v <= z + w
    <3> HIDE DEF x, y, z, r, v, w
    <3> QED BY <2>5, <2>6, <2>7
  <2> QED BY <2>1, <2>8
<1> QED BY <1>1, <1>2

-----------------------------------------------------------------------------
\* The balls around a cell grow by the cells next to them.
Wider(l, ball) == ball \cup {c \in l.cells : \E d \in ball : Distance(c, d) = 1}

LEMMA NearIs ==
  ASSUME NEW l, NEW from
  PROVE  /\ Near(l, from)[0] = {from}
         /\ \A k \in Nat : Near(l, from)[k + 1] = Wider(l, Near(l, from)[k])
<1> DEFINE V == SUBSET (l.cells \cup {from})
           first == {from}
           step == [k \in Nat |-> [ball \in V |-> Wider(l, ball)]]
<1>1. first \in V
  OBVIOUS
<1>2. step \in Steps(V)
  BY DEF Steps, Wider
<1>3. PICK f \in [Nat -> V] : f[0] = first /\ \A k \in Nat : f[k + 1] = step[k][f[k]]
  <2> HIDE DEF step, V, first
  <2> QED BY <1>1, <1>2, PrimitiveRecursion
<1>4. \A k \in Nat : f[k + 1] = Wider(l, f[k])
  BY <1>3
<1> HIDE DEF step, V
<1> DEFINE body(g) == [k \in Nat |-> IF k = 0 THEN first ELSE Wider(l, g[k - 1])]
<1>5. f = body(f)
  <2>1. ASSUME NEW k \in Nat PROVE f[k] = body(f)[k]
    <3>1. k # 0 => k - 1 \in Nat /\ k - 1 + 1 = k
      OBVIOUS
    <3> QED BY <1>3, <1>4, <3>1
  <2> QED BY <2>1
<1> DEFINE N == Near(l, from)
<1>6. N = CHOOSE g : g = body(g)
  BY DEF Near, Wider
<1> HIDE DEF N
<1>7. N = body(N)
  <2> HIDE DEF body
  <2> QED BY <1>5, <1>6
<1>8. N[0] = {from}
  BY <1>7
<1>9. ASSUME NEW k \in Nat PROVE N[k + 1] = Wider(l, N[k])
  <2>1. k + 1 \in Nat /\ k + 1 # 0 /\ k + 1 - 1 = k
    OBVIOUS
  <2> QED BY <1>7, <2>1
<1> QED BY <1>8, <1>9 DEF N

\* Where every cell can be reached from every other one.
Connected(l) ==
  /\ l.cells \in SUBSET Pair /\ IsFiniteSet(l.cells)
  /\ \A c, d \in l.cells : d \in Near(l, c)[Cardinality(l.cells)]

LEMMA MazeDistanceIs ==
  ASSUME NEW l, Connected(l), NEW from \in l.cells, NEW to \in l.cells
  PROVE  LET n == Cardinality(l.cells)
             k == MazeDistance(l, from, to)
         IN  /\ n \in Nat \ {0} /\ k \in 0 .. n /\ to \in Near(l, from)[k]
             /\ \A j \in 0 .. n : to \in Near(l, from)[j] => k <= j
<1> DEFINE n == Cardinality(l.cells)
           S == {k \in 0 .. n : to \in Near(l, from)[k]}
<1>1. n \in Nat \ {0}
  BY FS_CardinalityType, FS_EmptySet DEF Connected
<1>2. n \in S /\ S \in SUBSET Nat
  BY <1>1 DEF Connected
<1>3. MazeDistance(l, from, to) = Least(S)
  BY DEF MazeDistance
<1>4. Least(S) \in S /\ \A j \in S : Least(S) <= j
  <2> HIDE DEF S
  <2> QED BY <1>2, LeastOne
<1> HIDE DEF n
<1> QED BY <1>1, <1>3, <1>4 DEF n

\* A step away from a cell the distance to it is one more at most.
LEMMA MazeStep ==
  ASSUME NEW l, Connected(l), NEW from \in l.cells, NEW c \in l.cells, NEW to \in l.cells,
         Distance(c, to) = 1
  PROVE  /\ MazeDistance(l, from, c) <= 1 + MazeDistance(l, from, to)
         /\ MazeDistance(l, to, c) <= 1
<1> DEFINE n == Cardinality(l.cells)
           j == MazeDistance(l, from, c)
           k == MazeDistance(l, from, to)
<1>1. /\ n \in Nat \ {0} /\ k \in 0 .. n /\ to \in Near(l, from)[k] /\ j \in 0 .. n
      /\ \A i \in 0 .. n : c \in Near(l, from)[i] => j <= i
  BY MazeDistanceIs
<1>2. c \in Near(l, from)[k + 1]
  BY <1>1, NearIs DEF Wider
<1>3. j <= 1 + k
  <2> HIDE DEF n, j, k
  <2> QED BY <1>1, <1>2
<1>4. c \in Near(l, to)[1]
  <2>1. to \in Near(l, to)[0] /\ Near(l, to)[0 + 1] = Wider(l, Near(l, to)[0])
    BY NearIs
  <2> QED BY <2>1 DEF Wider
<1>5. MazeDistance(l, to, c) <= 1
  <2>1. 1 \in 0 .. n
    BY <1>1
  <2> QED BY <1>4, <2>1, MazeDistanceIs
<1> QED BY <1>3, <1>5

\* The greatest of some numbers that have a bound.
LEMMA GreatestOne ==
  ASSUME NEW n \in Nat, NEW S \in SUBSET (0 .. n), S # {}
  PROVE  Greatest(S) \in S /\ \A m \in S : m <= Greatest(S)
<1> DEFINE U == {u \in Nat : \A m \in S : m <= u}
<1>1. n \in U
  OBVIOUS
<1>2. PICK u \in U : \A v \in U : u <= v
  <2>1. U \in SUBSET Nat /\ U # {}
    BY <1>1
  <2> HIDE DEF U
  <2> QED BY <2>1, NatMin
<1>3. u \in S
  <2>1. SUFFICES ASSUME u \notin S PROVE FALSE
    OBVIOUS
  <2>2. \A m \in S : m <= u - 1 /\ m \in Nat
    BY <1>2, <2>1
  <2>3. u - 1 \in U
    <3>1. PICK m \in S : m <= u - 1 /\ m \in Nat
      BY <2>2
    <3>2. u - 1 \in Nat
      BY <3>1
    <3> QED BY <2>2, <3>2
  <2> QED BY <1>2, <2>3
<1>4. \E m \in S : \A k \in S : k <= m
  BY <1>2, <1>3
<1> QED BY <1>4 DEF Greatest

LEMMA FoodIs ==
  ASSUME NEW p, Connected(p.layout), NEW c \in p.layout.cells, NEW food \in SUBSET p.layout.cells
  PROVE  LET h == FoodHeuristic(p, <<c, food>>)
         IN  /\ h \in Nat /\ \A f \in food : MazeDistance(p.layout, f, c) <= h
             /\ h = 0 \/ \E f \in food : h = MazeDistance(p.layout, f, c)
<1> DEFINE l == p.layout
           n == Cardinality(l.cells)
           far == {MazeDistance(l, f, c) : f \in food} \cup {0}
<1>1. FoodHeuristic(p, <<c, food>>) = Greatest(far)
  BY DEF FoodHeuristic
<1>2. n \in Nat /\ \A f \in food : MazeDistance(l, f, c) \in 0 .. n
  BY MazeDistanceIs
<1>3. far \in SUBSET (0 .. n) /\ far # {}
  BY <1>2
<1>4. Greatest(far) \in far /\ \A m \in far : m <= Greatest(far)
  <2> HIDE DEF far, n
  <2> QED BY <1>2, <1>3, GreatestOne
<1> HIDE DEF n
<1> QED BY <1>1, <1>2, <1>3, <1>4

\* One step brings the farthest food one nearer at most.
LEMMA FoodConsistent ==
  ASSUME NEW p, Connected(p.layout), NEW c \in p.layout.cells, NEW to \in p.layout.cells,
         Distance(c, to) = 1, NEW food \in SUBSET p.layout.cells
  PROVE  /\ FoodHeuristic(p, <<c, {}>>) = 0
         /\ FoodHeuristic(p, <<c, food>>) <= 1 + FoodHeuristic(p, <<to, food \ {to}>>)
<1> DEFINE l == p.layout
           h == FoodHeuristic(p, <<c, food>>)
           rest == food \ {to}
           r == FoodHeuristic(p, <<to, rest>>)
<1>1. FoodHeuristic(p, <<c, {}>>) = 0
  <2> DEFINE none == {}
  <2>1. none \in SUBSET l.cells /\ \A f : f \notin none
    OBVIOUS
  <2> HIDE DEF none
  <2>2. FoodHeuristic(p, <<c, none>>) = 0
    BY <2>1, FoodIs
  <2> QED BY <2>2 DEF none
<1>2. h \in Nat /\ (h = 0 \/ \E f \in food : h = MazeDistance(l, f, c))
  BY FoodIs
<1>3. r \in Nat /\ \A f \in rest : MazeDistance(l, f, to) <= r
  <2>1. rest \in SUBSET l.cells
    OBVIOUS
  <2> HIDE DEF rest
  <2> QED BY <2>1, FoodIs
<1>4. h <= 1 + r
  <2>1. CASE h = 0
    BY <1>3, <2>1
  <2>2. CASE h # 0
    <3>1. PICK f \in food : h = MazeDistance(l, f, c)
      BY <1>2, <2>2
    <3>2. CASE f = to
      <4>1. h <= 1
        BY <3>1, <3>2, MazeStep
      <4> HIDE DEF h, r
      <4> QED BY <1>2, <1>3, <4>1
    <3>3. CASE f # to
      <4> DEFINE k == MazeDistance(l, f, to)
      <4>1. h <= 1 + k
        BY <3>1, MazeStep
      <4>2. k <= r
        BY <1>3, <3>3
      <4>3. k \in Int
        BY MazeDistanceIs
      <4> HIDE DEF h, r, k
      <4> QED BY <1>2, <1>3, <4>1, <4>2, <4>3
    <3> QED BY <3>2, <3>3
  <2> QED BY <2>1, <2>2
<1> HIDE DEF h, r
<1> QED BY <1>1, <1>4 DEF h, r

-----------------------------------------------------------------------------
\* The corners that are left, of which there are finitely many.
Left(p, s) == Corners(p.layout) \ RangeOf(s[2])

LEMMA CornersFinite ==
  ASSUME NEW l
  PROVE  IsFiniteSet(Corners(l))
<1> DEFINE W == Width(l)
           V == Height(l)
           four == ((({} \cup {<<1, 1>>}) \cup {<<1, V>>}) \cup {<<W, 1>>}) \cup {<<W, V>>}
<1>1. Corners(l) \in SUBSET four
  BY DEF Corners
<1>2. IsFiniteSet(four)
  <2> HIDE DEF W, V
  <2>1. IsFiniteSet({} \cup {<<1, 1>>})
    BY FS_EmptySet, FS_AddElement
  <2>2. IsFiniteSet(({} \cup {<<1, 1>>}) \cup {<<1, V>>})
    BY <2>1, FS_AddElement
  <2>3. IsFiniteSet((({} \cup {<<1, 1>>}) \cup {<<1, V>>}) \cup {<<W, 1>>})
    BY <2>2, FS_AddElement
  <2> QED BY <2>3, FS_AddElement
<1> HIDE DEF four
<1> QED BY <1>1, <1>2, FS_Subset

\* One step brings the end of the shortest tour one nearer at most.
LEMMA CornersConsistent ==
  ASSUME NEW p \in Posed, p.kind = "corners", Corners(p.layout) \subseteq Pair,
         NEW s \in State(p), Cell(p, s) \in Pair
  PROVE  /\ GridGoal(p, s) => CornersHeuristic(p, s) = 0
         /\ \A to \in Pair : Distance(Cell(p, s), to) = 1 =>
              CornersHeuristic(p, s) <= 1 + CornersHeuristic(p, Onto(p, s, to))
<1>1. /\ s[2] \in Reached(p.layout) /\ Cell(p, s) = s[1] /\ s[1] \in Pair
      /\ Left(p, s) \in SUBSET Pair /\ IsFiniteSet(Left(p, s))
  <2>1. s[2] \in Reached(p.layout) /\ Cell(p, s) = s[1]
    BY KindIs DEF Cell
  <2>2. Left(p, s) \in SUBSET Corners(p.layout)
    BY DEF Left
  <2>3. IsFiniteSet(Left(p, s))
    BY <2>2, CornersFinite, FS_Subset
  <2> QED BY <2>1, <2>2, <2>3
<1>2. ASSUME GridGoal(p, s) PROVE CornersHeuristic(p, s) = 0
  <2>1. Len(s[2]) > 3
    BY <1>2 DEF GridGoal
  <2>2. Left(p, s) = {}
    BY <1>1, <2>1, AllReached DEF Left
  <2>3. Cardinality(Left(p, s)) \in Nat
    BY <1>1, FS_CardinalityType
  <2>4. Tour[Cardinality(Left(p, s))][s[1]][{}] = 0
    BY <1>1, <2>3, TourIs
  <2> QED BY <2>2, <2>4 DEF CornersHeuristic, Left
<1>3. ASSUME NEW to \in Pair, Distance(Cell(p, s), to) = 1
      PROVE  CornersHeuristic(p, s) <= 1 + CornersHeuristic(p, Onto(p, s, to))
  <2> DEFINE t == Onto(p, s, to)
             before == Left(p, s)
             after == Left(p, t)
             n == Cardinality(before)
             from == s[1]
  <2>1. t[1] = to /\ t[2] = Reach(p, to, s[2])
    BY DEF Onto
  <2>2. after = before \ {to}
    <3>1. \A c \in Corners(p.layout) : c \in RangeOf(t[2]) <=> c \in RangeOf(s[2]) \/ c = to
      BY <1>1, <2>1, ReachedIs, ReachIs
    <3> QED BY <3>1 DEF Left
  <2>3. n \in Nat /\ before \in SUBSET Pair /\ from \in Pair /\ Distance(from, to) = 1
    BY <1>1, <1>3, FS_CardinalityType
  <2>4. /\ CornersHeuristic(p, s) = Tour[n][from][before]
        /\ CornersHeuristic(p, t) = Tour[Cardinality(after)][to][after]
    BY <2>1 DEF CornersHeuristic, Left
  <2>5. CASE to \notin before
    <3>1. after = before
      BY <2>2, <2>5
    <3> HIDE DEF before, after, t, from
    <3>2. Tour[n][from][before] <= Distance(from, to) + Tour[n][to][before]
      BY <2>3, TourMoves DEF n
    <3> QED BY <2>3, <2>4, <3>1, <3>2 DEF t
  <2>6. CASE to \in before
    <3> HIDE DEF before, after, t, from
    <3>1. IsFiniteSet(before) /\ before # {}
      BY <1>1, <2>6 DEF before
    <3>2. Cardinality(after) = n - 1 /\ n # 0
      BY <2>2, <2>6, <3>1, FS_RemoveElement, FS_EmptySet
    <3>3. PICK m \in Nat : n = m + 1 /\ Cardinality(after) = m
      <4> HIDE DEF n
      <4>1. n - 1 \in Nat /\ n = (n - 1) + 1
        BY <2>3, <3>2
      <4> QED BY <3>2, <4>1
    <3> HIDE DEF n
    <3>4. Tour[m + 1][from][before] <= Distance(from, to) + Tour[m][to][before \ {to}]
      BY <2>3, <2>6, TourIs
    <3> QED BY <2>2, <2>3, <2>4, <3>3, <3>4 DEF t
  <2> QED BY <2>5, <2>6
<1> QED BY <1>2, <1>3

\* What an agent's heuristic is consistent with is the cost of every step.
LEMMA GridConsistent ==
  ASSUME NEW t \in Task, t.agent = "search",
         problem = GridProblem(t.kind, NewGame(t.layout)), algorithm = "astar"
  PROVE  Consistent
<1> DEFINE l == t.layout
<1>1. problem \in Posed /\ problem.kind = t.kind /\ t.kind \in Kind \ {"any"}
  BY PosedAtFirst DEF GridProblem
<1>2. /\ l \in Layout /\ Plannable(t.kind, l) /\ Alone(l, NewGame(l))
      /\ l.cells \in SUBSET Pair /\ l.agents[1] \in l.cells /\ l.food \in SUBSET l.cells
  <2>1. l \in Layout /\ Plannable(t.kind, l) /\ Alone(l, NewGame(l))
    BY OneAgent, TaskAssumption
  <2>2. l.cells \in SUBSET Pair /\ l.food \in SUBSET l.cells
    BY <2>1, LayoutAssumption DEF Pair
  <2>3. l.agents[1] \in l.cells
    BY <2>1, NewGameIs
  <2> QED BY <2>1, <2>2, <2>3
<1>3. problem.layout = l /\ problem.food = l.food
  BY <1>2, NewGameIs DEF GridProblem
<1> HIDE DEF l
<1>4. SUFFICES ASSUME NEW s \in State(problem)
               PROVE  /\ IsGoalState(problem, s) => H(s) = 0
                      /\ \A i \in DOMAIN Successors(s) :
                           H(s) <= Successors(s)[i].cost + H(Successors(s)[i].state)
  BY DEF Consistent
<1>5. H(s) = GridHeuristic(problem, s) /\ IsGoalState(problem, s) = GridGoal(problem, s)
  BY <1>1, PosedIs DEF H
<1>6. Cell(problem, s) \in l.cells /\ Cell(problem, s) \in Pair
  BY <1>1, <1>2, <1>3, KindIs
<1>7. ASSUME GridGoal(problem, s) PROVE GridHeuristic(problem, s) = 0
  <2>1. CASE t.kind = "position"
    <3>1. s = Goal /\ Goal \in Pair /\ GridHeuristic(problem, s) = Distance(s, Goal)
      BY <1>1, <1>7, <2>1 DEF GridGoal, GridHeuristic, Goal, Pair
    <3> QED BY <3>1, DistanceIs
  <2>2. CASE t.kind = "corners"
    <3>1. Corners(l) \subseteq Pair
      BY <1>2, <2>2 DEF Plannable
    <3> QED BY <1>1, <1>3, <1>6, <1>7, <2>2, <3>1, CornersConsistent DEF GridHeuristic
  <2>3. CASE t.kind = "food"
    <3>1. Connected(l)
      BY <1>2, <2>3 DEF Plannable, Connected
    <3>2. s = <<s[1], s[2]>> /\ s[1] \in l.cells /\ s[2] = {}
      BY <1>1, <1>3, <1>7, <2>3, KindIs DEF GridGoal
    <3> DEFINE none == {}
               c == s[1]
    <3>3. none \in SUBSET problem.layout.cells /\ (\A f : f \notin none) /\ c \in problem.layout.cells
          /\ s = <<c, none>> /\ Connected(problem.layout)
      BY <1>3, <3>1, <3>2
    <3> HIDE DEF none, c
    <3>4. FoodHeuristic(problem, <<c, none>>) = 0
      BY <3>3, FoodIs
    <3> QED BY <1>1, <2>3, <3>3, <3>4 DEF GridHeuristic
  <2>4. CASE t.kind \in {"east", "west"}
    BY <1>1, <2>4 DEF GridHeuristic
  <2> QED BY <1>1, <2>1, <2>2, <2>3, <2>4 DEF Kind
<1>8. ASSUME NEW i \in DOMAIN Successors(s)
      PROVE  H(s) <= Successors(s)[i].cost + H(Successors(s)[i].state)
  <2> DEFINE x == Successors(s)[i]
             to == Plus(Cell(problem, s), x.action, 1)
  <2>1. x.action \in Way \ {"Stop"} /\ to \in l.cells
        /\ x.state = Onto(problem, s, to) /\ x.cost = StepCost(problem, to)
    BY <1>1, <1>3, <1>8, GridStep DEF Steppable, Successors
  <2>2. x.state \in State(problem) /\ x.cost \in Nat
    <3>1. problem \in Problem
      BY <1>1 DEF Posed
    <3> QED BY <1>8, <3>1, SuccessorType
  <2>3. H(x.state) = GridHeuristic(problem, x.state)
    BY <1>1, <2>2, PosedIs DEF H
  <2>4. Distance(Cell(problem, s), to) = 1 /\ to \in Pair
    <3> DEFINE a == x.action
    <3>1. a \in Way \ {"Stop"}
      BY <2>1
    <3> HIDE DEF a
    <3>2. Distance(Cell(problem, s), Plus(Cell(problem, s), a, 1)) = 1 /\ Plus(Cell(problem, s), a, 1) \in Pair
      BY <1>6, <3>1, StepDistance
    <3> QED BY <3>2 DEF a
  <2> HIDE DEF x, to
  <2>5. GridHeuristic(problem, s) <= x.cost + GridHeuristic(problem, x.state)
    <3>1. CASE t.kind = "position"
      <4>1. /\ GridHeuristic(problem, s) = Distance(s, Goal) /\ x.state = to /\ x.cost = 1
            /\ GridHeuristic(problem, x.state) = Distance(to, Goal)
            /\ Cell(problem, s) = s /\ Goal \in Pair
        BY <1>1, <2>1, <3>1 DEF GridHeuristic, Onto, StepCost, Cell, Goal, Pair
      <4>2. Distance(s, Goal) <= Distance(s, to) + Distance(to, Goal)
        BY <1>6, <2>4, <4>1, DistanceIs
      <4> QED BY <2>4, <4>1, <4>2
    <3>2. CASE t.kind = "corners"
      <4>1. Corners(l) \subseteq Pair
        BY <1>2, <3>2 DEF Plannable
      <4>2. CornersHeuristic(problem, s) <= 1 + CornersHeuristic(problem, x.state)
        BY <1>1, <1>3, <1>6, <2>1, <2>4, <3>2, <4>1, CornersConsistent
      <4>3. x.cost = 1
        BY <1>1, <2>1, <3>2 DEF StepCost
      <4> QED BY <1>1, <3>2, <4>2, <4>3 DEF GridHeuristic
    <3>3. CASE t.kind = "food"
      <4> DEFINE c == s[1]
                 food == s[2]
      <4>1. Connected(l)
        BY <1>2, <3>3 DEF Plannable, Connected
      <4>2. s = <<c, food>> /\ c \in l.cells /\ food \in SUBSET l.cells /\ Cell(problem, s) = c
        BY <1>1, <1>2, <1>3, <3>3, KindIs DEF Cell
      <4>3. x.state = <<to, food \ {to}>> /\ x.cost = 1
        BY <1>1, <2>1, <3>3 DEF Onto, StepCost
      <4> HIDE DEF c, food
      <4>4. FoodHeuristic(problem, <<c, food>>) <= 1 + FoodHeuristic(problem, <<to, food \ {to}>>)
        BY <1>3, <2>1, <2>4, <4>1, <4>2, FoodConsistent
      <4> QED BY <1>1, <3>3, <4>2, <4>3, <4>4 DEF GridHeuristic
    <3>4. CASE t.kind \in {"east", "west"}
      BY <1>1, <2>2, <3>4 DEF GridHeuristic
    <3> QED BY <1>1, <3>1, <3>2, <3>3, <3>4 DEF Kind
  <2> QED BY <1>5, <2>3, <2>5 DEF x
<1> QED BY <1>5, <1>7, <1>8

\* The heuristics that are handed to aStarSearch are consistent, in every maze where the
\* agents can plan.
THEOREM HeuristicsAlwaysConsistent == Spec => []HeuristicsConsistent
<1>1. AgentInv => HeuristicsConsistent
  BY GridConsistent DEF AgentInv, OnePlan, HeuristicsConsistent
<1> QED BY <1>1, AgentsWork, PTL

-----------------------------------------------------------------------------
\* Games against ghosts are paced: only a player without a plan meets any.
GamesPaced == task.agent \in {"graph", "keyboard"} => Paced

LEMMA InitPaced == Init => GamesPaced
<1> SUFFICES ASSUME Init PROVE Paced
  BY DEF GamesPaced
<1>1. task.layout \in Layout
  BY TaskAssumption DEF Init
<1> QED BY <1>1, PacedAtFirst DEF Init

LEMMA PacedNext == AgentInv /\ GamesPaced /\ [Next]_vars => GamesPaced'
<1> SUFFICES ASSUME AgentInv, GamesPaced, [Next]_vars, task'.agent \in {"graph", "keyboard"}
             PROVE  Paced'
  BY DEF GamesPaced
<1>1. task' = task /\ Paced
  BY DEF GamesPaced, Next, Planning, Register, Searching, Found, Walk, PlannedTurn, FreeTurn,
         vars, agentVars
<1>2. ASSUME UNCHANGED <<game, agentIndex, moves>> PROVE Paced'
  BY <1>1, <1>2 DEF Paced, MaxChange
<1>3. CASE Planning \/ UNCHANGED vars
  <2>1. UNCHANGED <<game, agentIndex, moves>>
    BY <1>3 DEF Planning, Register, Searching, Found, Walk, vars, gameVars
  <2> QED BY <1>2, <2>1
<1>4. CASE PlannedTurn
  BY <1>1, <1>4 DEF PlannedTurn
<1>5. CASE FreeTurn
  BY <1>1, <1>5, PacedKept DEF FreeTurn, AgentInv
<1> QED BY <1>3, <1>4, <1>5 DEF Next

\* Where somebody has a plan there are no ghosts to look ahead for.
LEMMA NoGhosts == AgentInv /\ task.agent \in {"search", "closest"} => Ghosts(game) = {}
<1> SUFFICES ASSUME AgentInv, task.agent \in {"search", "closest"} PROVE \E l : Alone(l, game)
  BY AloneIs
<1>1. CASE phase = "play"
  BY <1>1 DEF AgentInv, OnePlan, PathByPath, Matches
<1>2. CASE phase # "play"
  BY <1>2, OneAgent DEF AgentInv, Waiting
<1> QED BY <1>1, <1>2

\* AlphaBetaAgent and MinimaxAgent choose the same action in every position of the games
\* that the agents play, in every maze and at every depth.
THEOREM PruningNeverMattersToAgents == Spec => []AlphaBetaAgrees
<1>1. AgentInv /\ GamesPaced => AlphaBetaAgrees
  <2> SUFFICES ASSUME AgentInv, GamesPaced, Ghosts(game) # {} PROVE AlphaBetaAgrees
    BY DEF AlphaBetaAgrees
  <2>1. task.agent \in {"graph", "keyboard"}
    BY NoGhosts, TaskAssumption DEF AgentInv
  <2> QED BY <2>1, AgreesIs DEF AgentInv, GamesPaced
<1> QED BY <1>1, InitPaced, PacedNext, AgentsWork, PTL DEF Spec
=============================================================================
