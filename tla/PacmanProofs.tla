---------------------------- MODULE PacmanProofs ----------------------------
(***************************************************************************)
(* Proofs about Pacman and MultiAgent: what the rules of the game guarantee *)
(* in every maze, for any number of ghosts, however the players choose and  *)
(* however long the game is, and that pruning a look-ahead changes nothing. *)
(***************************************************************************)
EXTENDS MultiAgent, NatRecursion, FiniteSetTheorems

Pair == Int \X Int

\* What the agents of a game that started in l are numbered with.
Numbers(l) == 0 .. Len(l.agents) - 1

\* The type of a position of the game.
GameOK(g) ==
  /\ g = [layout |-> g.layout, food |-> g.food, capsules |-> g.capsules, conf |-> g.conf,
          scaredTimer |-> g.scaredTimer, score |-> g.score, win |-> g.win, lose |-> g.lose]
  /\ g.layout \in Layout
  /\ g.food \subseteq g.layout.food /\ g.capsules \subseteq g.layout.capsules
  /\ g.conf \in [Numbers(g.layout) -> [pos : Pair, dir : Way]]
  /\ g.scaredTimer \in [Numbers(g.layout) -> 0 .. ScaredTime]
  /\ g.score \in Int /\ g.win \in BOOLEAN /\ g.lose \in BOOLEAN

\* What happens to the score between two positions.
Changes(g, h, loss, gain) == g.score - loss <= h.score /\ h.score <= g.score + gain

\* Pacman is never scared.
Brave(g) == g.scaredTimer[0] = 0

\* As NobodyPasses says, of ghost i.
Apart(g, i) == CanKill(g, i) => g.conf[i] = StartOf(g.layout, i) /\ g.scaredTimer[i] = 0

LEMMA AgentsAre ==
  ASSUME NEW g, GameOK(g)
  PROVE  /\ Agents(g) = Numbers(g.layout) /\ 0 \in Agents(g)
         /\ Len(g.layout.agents) \in Nat \ {0}
         /\ \A i \in Agents(g) : i \in Nat /\ g.layout.agents[i + 1] \in g.layout.cells
         /\ \A i \in Agents(g) : g.conf[i].pos \in Pair /\ g.conf[i].dir \in Way
         /\ \A c \in g.layout.cells : c \in Pair
<1> DEFINE l == g.layout
<1>1. /\ l.cells \subseteq Int \X Int /\ l.agents \in Seq(l.cells) /\ Len(l.agents) >= 1
  BY LayoutAssumption DEF GameOK
<1>2. Agents(g) = Numbers(l) /\ \A i \in Agents(g) : g.conf[i] \in [pos : Pair, dir : Way]
  BY DEF GameOK, Agents
<1> HIDE DEF l
<1>3. Len(l.agents) \in Nat \ {0}
  BY <1>1
<1>4. \A i \in Numbers(l) : i \in Nat /\ l.agents[i + 1] \in l.cells
  BY <1>1, <1>3 DEF Numbers
<1>5. \A i \in Agents(g) : g.conf[i].pos \in Pair /\ g.conf[i].dir \in Way
  BY <1>2
<1>6. 0 \in Agents(g) /\ \A c \in l.cells : c \in Pair
  BY <1>1, <1>2, <1>3 DEF Pair, Numbers
<1> QED BY <1>2, <1>3, <1>4, <1>5, <1>6 DEF l

LEMMA AgentsCount ==
  ASSUME NEW g, GameOK(g)
  PROVE  /\ IsFiniteSet(Agents(g)) /\ Len(g.layout.agents) \in Nat \ {0}
         /\ Cardinality(Agents(g)) = Len(g.layout.agents)
<1> DEFINE n == Len(g.layout.agents)
<1>1. n \in Nat \ {0} /\ Agents(g) = 0 .. n - 1
  BY AgentsAre DEF Numbers
<1> HIDE DEF n
<1>2. IsFiniteSet(0 .. n - 1) /\ Cardinality(0 .. n - 1) = n
  BY <1>1, FS_Interval
<1> QED BY <1>1, <1>2 DEF n

-----------------------------------------------------------------------------
\* Where a step leads.
LEMMA VectorIs ==
  ASSUME NEW d \in Way
  PROVE  /\ Vector[d][1] \in {-1, 0, 1} /\ Vector[d][2] \in {-1, 0, 1}
         /\ d = "Stop" => Vector[d][1] = 0 /\ Vector[d][2] = 0
         /\ d # "Stop" => \/ Vector[d][1] = 0 /\ Vector[d][2] \in {-1, 1}
                          \/ Vector[d][2] = 0 /\ Vector[d][1] \in {-1, 1}
BY DEF Way, Vector

LEMMA PlusIs ==
  ASSUME NEW p \in Pair, NEW d \in Way, NEW n \in Int
  PROVE  /\ Plus(p, d, n) \in Pair
         /\ Plus(p, d, n)[1] = p[1] + n * Vector[d][1]
         /\ Plus(p, d, n)[2] = p[2] + n * Vector[d][2]
<1>1. Vector[d][1] \in Int /\ Vector[d][2] \in Int
  BY VectorIs
<1>2. n * Vector[d][1] \in Int /\ n * Vector[d][2] \in Int
  BY <1>1
<1> QED BY <1>2 DEF Plus, Pair

LEMMA PlaceIs ==
  ASSUME NEW c \in Pair
  PROVE  Place(c) \in Pair /\ OnGrid(Place(c)) /\ NearestPoint(Place(c)) = c
BY DEF Place, OnGrid, NearestPoint, Pair

LEMMA NearestType ==
  ASSUME NEW p \in Pair
  PROVE  NearestPoint(p) \in Pair
BY DEF NearestPoint, Pair

\* A step of a whole cell.
LEMMA FullStep ==
  ASSUME NEW p \in Pair, NEW d \in Way, OnGrid(p)
  PROVE  LET q == Plus(p, d, 2)
         IN  q = Place(Plus(NearestPoint(p), d, 1))
<1> DEFINE c == NearestPoint(p)
<1>1. c \in Pair /\ p = Place(c)
  BY NearestType DEF OnGrid
<1> HIDE DEF c
<1>2. /\ Plus(p, d, 2)[1] = p[1] + 2 * Vector[d][1] /\ Plus(p, d, 2)[2] = p[2] + 2 * Vector[d][2]
      /\ Plus(p, d, 2) \in Pair
  BY PlusIs
<1>3. /\ Plus(c, d, 1)[1] = c[1] + 1 * Vector[d][1] /\ Plus(c, d, 1)[2] = c[2] + 1 * Vector[d][2]
      /\ Plus(c, d, 1) \in Pair
  BY <1>1, PlusIs
<1>4. Vector[d][1] \in Int /\ Vector[d][2] \in Int /\ c[1] \in Int /\ c[2] \in Int
  BY <1>1, VectorIs DEF Pair
<1>5. p[1] = 2 * c[1] /\ p[2] = 2 * c[2]
  BY <1>1 DEF Place
<1>6. Place(Plus(c, d, 1)) \in Pair
  BY <1>3, PlaceIs
<1>7. /\ Place(Plus(c, d, 1))[1] = 2 * Plus(c, d, 1)[1]
      /\ Place(Plus(c, d, 1))[2] = 2 * Plus(c, d, 1)[2]
  BY DEF Place
<1>8. /\ Place(Plus(c, d, 1))[1] = Plus(p, d, 2)[1]
      /\ Place(Plus(c, d, 1))[2] = Plus(p, d, 2)[2]
  BY <1>2, <1>3, <1>4, <1>5, <1>7
<1>9. Plus(p, d, 2) = Place(Plus(c, d, 1))
  BY <1>2, <1>6, <1>8 DEF Pair
<1> QED BY <1>9 DEF c

\* Half a step off a cell.
LEMMA HalfStep ==
  ASSUME NEW c \in Pair, NEW d \in Way, d # "Stop"
  PROVE  LET q == Plus(Place(c), d, 1)
         IN  /\ q \in Pair /\ ~OnGrid(q)
             /\ Plus(q, d, 1) = Place(Plus(c, d, 1)) /\ Plus(q, d, -1) = Place(c)
             /\ NearestPoint(q) \in {c, Plus(c, d, 1)}
<1> DEFINE x == Vector[d][1]
           y == Vector[d][2]
<1>1. /\ x \in Int /\ y \in Int
      /\ (x = 0 /\ y \in {-1, 1}) \/ (y = 0 /\ x \in {-1, 1})
  BY VectorIs
<1>2. \A p \in Pair : \A n \in {-1, 1} : Plus(p, d, n) = <<p[1] + n * x, p[2] + n * y>>
  BY DEF Plus
<1> HIDE DEF x, y
<1>3. PICK a \in Int, b \in Int : c = <<a, b>>
  BY DEF Pair
<1>4. Place(c) = <<2 * a, 2 * b>> /\ Place(c) \in Pair
  BY <1>3 DEF Place, Pair
<1>5. Plus(Place(c), d, 1) = <<2 * a + x, 2 * b + y>>
  BY <1>1, <1>2, <1>4
<1>6. Plus(c, d, 1) = <<a + x, b + y>>
  BY <1>1, <1>2, <1>3
<1> DEFINE q == <<2 * a + x, 2 * b + y>>
<1>7. q \in Pair
  BY <1>1 DEF Pair
<1>8. /\ Plus(q, d, 1) = <<2 * a + x + x, 2 * b + y + y>>
      /\ Plus(q, d, -1) = <<2 * a, 2 * b>>
  BY <1>1, <1>2, <1>7
<1>9. Plus(q, d, 1) = Place(Plus(c, d, 1)) /\ Plus(q, d, -1) = Place(c)
  BY <1>1, <1>4, <1>6, <1>8 DEF Place
<1>10. NearestPoint(q) = <<(2 * a + x + 1) \div 2, (2 * b + y + 1) \div 2>>
  BY DEF NearestPoint
<1>11. NearestPoint(q) \in {c, Plus(c, d, 1)}
  <2>1. CASE x = 0 /\ y = 1
    BY <1>3, <1>6, <1>10, <2>1
  <2>2. CASE x = 0 /\ y = -1
    BY <1>3, <1>6, <1>10, <2>2
  <2>3. CASE x = 1 /\ y = 0
    BY <1>3, <1>6, <1>10, <2>3
  <2>4. CASE x = -1 /\ y = 0
    BY <1>3, <1>6, <1>10, <2>4
  <2> QED BY <1>1, <2>1, <2>2, <2>3, <2>4
<1>12. ~OnGrid(q)
  <2>1. /\ Place(c) # q
    BY <1>1, <1>4
  <2>2. Place(Plus(c, d, 1)) # q
    BY <1>1, <1>6 DEF Place
  <2> QED BY <1>11, <2>1, <2>2 DEF OnGrid
<1> QED BY <1>5, <1>7, <1>9, <1>11, <1>12

\* Nobody is shut in: in some direction an open cell is next to an open cell.
LEMMA SomeWay ==
  ASSUME NEW l \in Layout, NEW c \in l.cells
  PROVE  \E d \in Way \ {"Stop"} : Plus(c, d, 1) \in l.cells
<1>1. PICK e \in l.cells : Distance(c, e) = 1
  BY LayoutAssumption
<1>2. c \in Pair /\ e \in Pair
  BY LayoutAssumption DEF Pair
<1>3. PICK a \in Int, b \in Int, x \in Int, y \in Int : c = <<a, b>> /\ e = <<x, y>>
  BY <1>2 DEF Pair
<1>4. Distance(c, e) = (IF a - x < 0 THEN -(a - x) ELSE a - x) + (IF b - y < 0 THEN -(b - y) ELSE b - y)
  BY <1>3 DEF Distance
<1>5. \/ x = a /\ y = b + 1
      \/ x = a /\ y = b - 1
      \/ x = a + 1 /\ y = b
      \/ x = a - 1 /\ y = b
  BY <1>1, <1>4
<1>6. /\ Plus(c, "North", 1) = <<a, b + 1>> /\ Plus(c, "South", 1) = <<a, b - 1>>
      /\ Plus(c, "East", 1) = <<a + 1, b>> /\ Plus(c, "West", 1) = <<a - 1, b>>
  BY <1>3 DEF Plus, Vector
<1> QED BY <1>3, <1>5, <1>6 DEF Way
-----------------------------------------------------------------------------
\* What the rules change of a position.
LEMMA StartOfType ==
  ASSUME NEW g, GameOK(g), NEW i \in Agents(g)
  PROVE  /\ StartOf(g.layout, i) \in [pos : Pair, dir : Way]
         /\ OnGrid(StartOf(g.layout, i).pos)
         /\ NearestPoint(StartOf(g.layout, i).pos) \in g.layout.cells
<1>1. g.layout.agents[i + 1] \in g.layout.cells /\ g.layout.agents[i + 1] \in Pair
  BY AgentsAre
<1> QED BY <1>1, PlaceIs DEF StartOf, Configuration, Way

LEMMA ConsumeIs ==
  ASSUME NEW g, GameOK(g), NEW cell, Brave(g)
  PROVE  LET h == Consume(g, cell)
         IN  /\ GameOK(h) /\ Brave(h)
             /\ h.layout = g.layout /\ h.conf = g.conf /\ h.lose = g.lose
             /\ \A i \in Agents(g) : g.scaredTimer[i] > 0 => h.scaredTimer[i] > 0
             /\ h.food = g.food \ {cell} /\ h.win = (g.food = {cell})
             /\ Changes(g, h, 0, 510)
<1> DEFINE timer == [i \in Agents(g) |->
                       IF i # 0 /\ cell \in g.capsules THEN ScaredTime ELSE g.scaredTimer[i]]
           n == g.score + Points(g, cell)
           h == Consume(g, cell)
<1>1. h = [g EXCEPT !.food = @ \ {cell}, !.capsules = @ \ {cell}, !.score = n,
                    !.win = g.food = {cell}, !.scaredTimer = timer]
  BY DEF Consume
<1>2. /\ ScaredTime \in Nat \ {0} /\ Agents(g) = Numbers(g.layout) /\ 0 \in Agents(g)
  BY AgentsAre, LayoutAssumption
<1>3. /\ timer \in [Numbers(g.layout) -> 0 .. ScaredTime] /\ timer[0] = 0
      /\ \A i \in Agents(g) : g.scaredTimer[i] > 0 => timer[i] > 0
  BY <1>2 DEF GameOK, Brave
<1>4. n \in Int /\ g.score <= n /\ n <= g.score + 510
  BY DEF Points, GameOK
<1>5. g = [layout |-> g.layout, food |-> g.food, capsules |-> g.capsules, conf |-> g.conf,
           scaredTimer |-> g.scaredTimer, score |-> g.score, win |-> g.win, lose |-> g.lose]
  BY DEF GameOK
<1> HIDE DEF timer, n, h
<1>6. h = [layout |-> g.layout, food |-> g.food \ {cell}, capsules |-> g.capsules \ {cell},
           conf |-> g.conf, scaredTimer |-> timer, score |-> n, win |-> (g.food = {cell}),
           lose |-> g.lose]
  BY <1>1, <1>5
<1>7. /\ h.layout = g.layout /\ h.conf = g.conf /\ h.lose = g.lose /\ h.scaredTimer = timer
      /\ h.food = g.food \ {cell} /\ h.capsules = g.capsules \ {cell}
      /\ h.score = n /\ h.win = (g.food = {cell})
  BY <1>6
<1>8. GameOK(h)
  BY <1>3, <1>4, <1>6, <1>7 DEF GameOK
<1> QED BY <1>3, <1>4, <1>7, <1>8 DEF h, Brave, Changes, GameOK

LEMMA CheckDeathIs ==
  ASSUME NEW g, GameOK(g), Brave(g), NEW S \in SUBSET Ghosts(g), ~g.lose
  PROVE  LET h == CheckDeath(g, S)
         IN  /\ GameOK(h) /\ Brave(h) /\ h.layout = g.layout
             /\ Live(h) => Live(g)
             /\ \A i \in Agents(g) :
                  \/ h.conf[i] = g.conf[i] /\ h.scaredTimer[i] = g.scaredTimer[i]
                  \/ i # 0 /\ h.conf[i] = StartOf(g.layout, i) /\ h.scaredTimer[i] = 0
             /\ Live(h) => \A i \in S : Apart(h, i)
             /\ h.food = g.food /\ h.win = g.win /\ (S = {} => ~h.lose)
             /\ Changes(g, h, 500 * Len(g.layout.agents), 200 * Len(g.layout.agents))
<1> DEFINE met == {i \in S : CanKill(g, i)}
           eaten == {i \in met : g.scaredTimer[i] > 0}
           killed == ~g.win /\ met # eaten
           conf == [i \in Agents(g) |-> IF i \in eaten THEN StartOf(g.layout, i) ELSE g.conf[i]]
           timer == [i \in Agents(g) |-> IF i \in eaten THEN 0 ELSE g.scaredTimer[i]]
           n == g.score + 200 * Cardinality(eaten)
                  - (IF killed THEN 500 * Cardinality(met \ eaten) ELSE 0)
           h == CheckDeath(g, S)
<1>1. h = [g EXCEPT !.conf = conf, !.scaredTimer = timer, !.score = n, !.lose = killed]
  BY DEF CheckDeath
<1>2. /\ Agents(g) = Numbers(g.layout) /\ 0 \in Agents(g) /\ S \subseteq Agents(g) /\ 0 \notin S
      /\ ScaredTime \in Nat
  BY AgentsAre, LayoutAssumption DEF Ghosts
<1>3. conf \in [Numbers(g.layout) -> [pos : Pair, dir : Way]]
  BY <1>2, StartOfType DEF GameOK
<1>4. timer \in [Numbers(g.layout) -> 0 .. ScaredTime] /\ timer[0] = 0
  BY <1>2 DEF GameOK, Brave
<1>5. n \in Int /\ g.score - 500 * Len(g.layout.agents) <= n
      /\ n <= g.score + 200 * Len(g.layout.agents)
  <2> DEFINE all == Len(g.layout.agents)
             a == Cardinality(eaten)
             b == Cardinality(met \ eaten)
  <2>1. all \in Nat /\ IsFiniteSet(Agents(g)) /\ Cardinality(Agents(g)) = all
    BY AgentsCount
  <2>2. eaten \in SUBSET Agents(g) /\ met \ eaten \in SUBSET Agents(g)
    BY <1>2
  <2> HIDE DEF all
  <2>3. a \in 0 .. all /\ b \in 0 .. all
    <3> HIDE DEF eaten, met
    <3>1. a \in Nat /\ b \in Nat /\ a <= all /\ b <= all
      BY <2>1, <2>2, FS_Subset, FS_CardinalityType
    <3> QED BY <2>1, <3>1
  <2>4. n = g.score + 200 * a - (IF killed THEN 500 * b ELSE 0) /\ g.score \in Int
    BY DEF GameOK
  <2> HIDE DEF killed, a, b, n
  <2>5. n \in Int /\ g.score - 500 * all <= n /\ n <= g.score + 200 * all
    BY <2>1, <2>3, <2>4
  <2> QED BY <2>5 DEF all
<1>6. killed \in BOOLEAN
  OBVIOUS
<1>7. g = [layout |-> g.layout, food |-> g.food, capsules |-> g.capsules, conf |-> g.conf,
           scaredTimer |-> g.scaredTimer, score |-> g.score, win |-> g.win, lose |-> g.lose]
  BY DEF GameOK
<1> HIDE DEF conf, timer, n, h, killed
<1>8. h = [layout |-> g.layout, food |-> g.food, capsules |-> g.capsules, conf |-> conf,
           scaredTimer |-> timer, score |-> n, win |-> g.win, lose |-> killed]
  BY <1>1, <1>7
<1>9. /\ h.layout = g.layout /\ h.conf = conf /\ h.lose = killed /\ h.scaredTimer = timer
      /\ h.food = g.food /\ h.capsules = g.capsules /\ h.score = n /\ h.win = g.win
  BY <1>8
<1>10. GameOK(h)
  BY <1>3, <1>4, <1>5, <1>6, <1>8, <1>9 DEF GameOK
<1>11. \A i \in Agents(g) :
         \/ conf[i] = g.conf[i] /\ timer[i] = g.scaredTimer[i]
         \/ i # 0 /\ conf[i] = StartOf(g.layout, i) /\ timer[i] = 0
  BY <1>2 DEF conf, timer
<1>12. ASSUME Live(h), NEW i \in S PROVE Apart(h, i)
  <2>1. ~g.win /\ ~killed
    BY <1>9, <1>12 DEF Live
  <2>2. met = eaten
    BY <2>1 DEF killed
  <2>3. conf[0] = g.conf[0]
    BY <1>2 DEF conf
  <2>4. CASE i \in eaten
    BY <1>2, <1>9, <2>4 DEF Apart, conf, timer
  <2>5. CASE i \notin eaten
    <3>1. ~CanKill(g, i)
      BY <2>2, <2>5
    <3>2. conf[i] = g.conf[i]
      BY <1>2, <2>5 DEF conf
    <3> QED BY <1>9, <2>3, <3>1, <3>2 DEF Apart, CanKill
  <2> QED BY <2>4, <2>5
<1>13. Live(h) => Live(g)
  BY <1>9 DEF Live
<1>14. Brave(h)
  BY <1>4, <1>9 DEF Brave
<1>15. S = {} => ~killed
  BY DEF killed
<1>16. Changes(g, h, 500 * Len(g.layout.agents), 200 * Len(g.layout.agents))
  BY <1>5, <1>9 DEF Changes
<1> HIDE DEF eaten, met
<1> QED BY <1>9, <1>10, <1>11, <1>12, <1>13, <1>14, <1>15, <1>16 DEF h
-----------------------------------------------------------------------------
\* Every agent is on track, as OnTrack says.
Tracks(g) == \A i \in Agents(g) : OnTrack(g, i)

LEMMA OnTrackKept ==
  ASSUME NEW g, NEW h, NEW i, OnTrack(g, i), h.layout = g.layout, h.conf[i] = g.conf[i],
         g.scaredTimer[i] > 0 => h.scaredTimer[i] > 0
  PROVE  OnTrack(h, i)
BY DEF OnTrack

LEMMA OnTrackPlaced ==
  ASSUME NEW h, NEW i, OnGrid(h.conf[i].pos), NearestPoint(h.conf[i].pos) \in h.layout.cells
  PROVE  OnTrack(h, i)
BY DEF OnTrack

LEMMA DeathKeepsTracks ==
  ASSUME NEW g, GameOK(g), Brave(g), Tracks(g), NEW S \in SUBSET Ghosts(g), ~g.lose
  PROVE  Tracks(CheckDeath(g, S))
<1> DEFINE h == CheckDeath(g, S)
<1>1. /\ GameOK(h) /\ h.layout = g.layout
      /\ \A i \in Agents(g) :
           \/ h.conf[i] = g.conf[i] /\ h.scaredTimer[i] = g.scaredTimer[i]
           \/ h.conf[i] = StartOf(g.layout, i)
  BY CheckDeathIs
<1> HIDE DEF h
<1>2. Agents(h) = Agents(g)
  BY <1>1, AgentsAre
<1>3. ASSUME NEW i \in Agents(g) PROVE OnTrack(h, i)
  <2>1. CASE h.conf[i] = g.conf[i] /\ h.scaredTimer[i] = g.scaredTimer[i]
    BY <1>1, <2>1, OnTrackKept DEF Tracks
  <2>2. CASE h.conf[i] = StartOf(g.layout, i)
    <3>1. OnGrid(h.conf[i].pos) /\ NearestPoint(h.conf[i].pos) \in h.layout.cells
      BY <1>1, <2>2, StartOfType
    <3> QED BY <3>1, OnTrackPlaced
  <2> QED BY <1>1, <2>1, <2>2
<1> QED BY <1>2, <1>3 DEF Tracks, h

LEMMA MovedType ==
  ASSUME NEW g, GameOK(g), NEW i \in Agents(g), NEW action \in Way, NEW n \in Int
  PROVE  /\ Moved(g.conf[i], action, n) \in [pos : Pair, dir : Way]
         /\ Moved(g.conf[i], action, n).pos = Plus(g.conf[i].pos, action, n)
         /\ action # "Stop" => Moved(g.conf[i], action, n).dir = action
BY AgentsAre, PlusIs DEF Moved, Configuration

LEMMA PacmanMovesIs ==
  ASSUME NEW g, GameOK(g), Brave(g), Tracks(g), Live(g), NEW action \in PossibleActions(g, 0)
  PROVE  LET h == PacmanMoves(g, action)
         IN  /\ GameOK(h) /\ Brave(h) /\ Tracks(h) /\ h.layout = g.layout
             /\ Live(h) => \A i \in Ghosts(h) : Apart(h, i)
             /\ LET cell == Plus(NearestPoint(g.conf[0].pos), action, 1)
                IN  /\ h.conf[0].pos = Place(cell) /\ h.food = g.food \ {cell}
                    /\ h.win = (g.food = {cell})
             /\ Ghosts(g) = {} => ~h.lose
             /\ Changes(g, h, MaxChange(g.layout), MaxChange(g.layout))
<1> DEFINE to == Moved(g.conf[0], action, 2)
           n == g.score - 1
           cell == Plus(NearestPoint(g.conf[0].pos), action, 1)
           moved == [g EXCEPT !.conf[0] = Moved(@, action, 2), !.score = @ - 1]
           fed == Consume(moved, NearestPoint(moved.conf[0].pos))
           h == PacmanMoves(g, action)
<1>1. /\ Agents(g) = Numbers(g.layout) /\ 0 \in Agents(g)
      /\ g.conf[0].pos \in Pair
  BY AgentsAre
<1>2. OnGrid(g.conf[0].pos) /\ NearestPoint(g.conf[0].pos) \in g.layout.cells
  BY <1>1 DEF Tracks, Brave, OnTrack
<1>3. action \in Way /\ Plus(NearestPoint(g.conf[0].pos), action, 1) \in g.layout.cells
  BY <1>2 DEF PossibleActions
<1>4. to \in [pos : Pair, dir : Way] /\ to.pos = Plus(g.conf[0].pos, action, 2)
  BY <1>1, <1>3, MovedType
<1>5. to.pos = Place(Plus(NearestPoint(g.conf[0].pos), action, 1))
  BY <1>1, <1>2, <1>3, <1>4, FullStep
<1>6. /\ OnGrid(to.pos) /\ NearestPoint(to.pos) \in g.layout.cells
      /\ NearestPoint(to.pos) = cell
  BY <1>3, <1>5, PlaceIs, AgentsAre
<1>7. g = [layout |-> g.layout, food |-> g.food, capsules |-> g.capsules, conf |-> g.conf,
           scaredTimer |-> g.scaredTimer, score |-> g.score, win |-> g.win, lose |-> g.lose]
  BY DEF GameOK
<1>8. n \in Int
  BY DEF GameOK
<1>9. moved = [g EXCEPT !.conf = [@ EXCEPT ![0] = to], !.score = n]
  BY <1>7
<1>10. h = CheckDeath(fed, Ghosts(g))
  BY DEF PacmanMoves
<1> HIDE DEF to, moved, n, h
<1>11. moved = [layout |-> g.layout, food |-> g.food, capsules |-> g.capsules,
                conf |-> [g.conf EXCEPT ![0] = to], scaredTimer |-> g.scaredTimer, score |-> n,
                win |-> g.win, lose |-> g.lose]
  BY <1>7, <1>9
<1>12. /\ moved.layout = g.layout /\ moved.conf = [g.conf EXCEPT ![0] = to]
       /\ moved.scaredTimer = g.scaredTimer /\ moved.lose = g.lose
       /\ moved.food = g.food /\ moved.capsules = g.capsules
       /\ moved.score = n /\ moved.win = g.win
  BY <1>11
<1>13. moved.conf \in [Numbers(g.layout) -> [pos : Pair, dir : Way]]
  BY <1>4, <1>12 DEF GameOK
<1>14. GameOK(moved) /\ Brave(moved)
  BY <1>8, <1>11, <1>12, <1>13 DEF GameOK, Brave
<1>15. Agents(moved) = Agents(g)
  BY <1>1, <1>12, <1>14, AgentsAre
<1>16. /\ moved.conf[0] = to
       /\ \A i \in Agents(g) : i # 0 => moved.conf[i] = g.conf[i]
  BY <1>1, <1>12 DEF GameOK
<1>17. ASSUME NEW i \in Agents(g) PROVE OnTrack(moved, i)
  <2>1. CASE i = 0
    BY <1>6, <1>12, <1>16, <2>1, OnTrackPlaced
  <2>2. CASE i # 0
    BY <1>12, <1>16, <2>2, OnTrackKept DEF Tracks
  <2> QED BY <2>1, <2>2
<1>18. /\ GameOK(fed) /\ Brave(fed) /\ fed.layout = g.layout /\ fed.conf = moved.conf
       /\ ~fed.lose
       /\ \A i \in Agents(g) : moved.scaredTimer[i] > 0 => fed.scaredTimer[i] > 0
       /\ fed.food = g.food \ {cell} /\ fed.win = (g.food = {cell})
       /\ Changes(moved, fed, 0, 510)
  BY <1>6, <1>12, <1>14, <1>15, <1>16, ConsumeIs DEF Live
<1> HIDE DEF fed
<1>19. Agents(fed) = Agents(g) /\ Ghosts(g) \in SUBSET Ghosts(fed)
  BY <1>1, <1>18, AgentsAre DEF Ghosts
<1>20. Tracks(fed)
  BY <1>12, <1>17, <1>18, <1>19, OnTrackKept DEF Tracks
<1>21. /\ GameOK(h) /\ Brave(h) /\ h.layout = g.layout
       /\ Live(h) => \A i \in Ghosts(g) : Apart(h, i)
       /\ h.conf[0] = fed.conf[0] /\ h.food = fed.food /\ h.win = fed.win
       /\ Ghosts(g) = {} => ~h.lose
  BY <1>1, <1>10, <1>18, <1>19, CheckDeathIs
<1>22. Tracks(h)
  BY <1>10, <1>18, <1>19, <1>20, DeathKeepsTracks
<1>23. Ghosts(h) = Ghosts(g)
  BY <1>1, <1>21, AgentsAre DEF Ghosts
<1>24. /\ h.conf[0].pos = Place(cell) /\ h.food = g.food \ {cell} /\ h.win = (g.food = {cell})
  BY <1>5, <1>16, <1>18, <1>21
<1>25. Changes(g, h, MaxChange(g.layout), MaxChange(g.layout))
  <2> DEFINE all == Len(g.layout.agents)
  <2>1. all \in Nat /\ MaxChange(g.layout) = 511 + 500 * all
    BY AgentsAre DEF MaxChange
  <2>2. g.score \in Int /\ fed.score \in Int /\ h.score \in Int /\ moved.score = g.score - 1
    BY <1>12, <1>18, <1>21 DEF GameOK, n
  <2>3. /\ moved.score <= fed.score /\ fed.score <= moved.score + 510
        /\ fed.score - 500 * all <= h.score /\ h.score <= fed.score + 200 * all
    <3>1. moved.score \in Int /\ fed.score \in Int
      BY <2>2
    <3>2. Changes(fed, h, 500 * Len(fed.layout.agents), 200 * Len(fed.layout.agents))
      BY <1>10, <1>18, <1>19, CheckDeathIs
    <3>3. Len(fed.layout.agents) = all
      BY <1>18
    <3> QED BY <1>18, <3>1, <3>2, <3>3 DEF Changes
  <2> HIDE DEF all
  <2> QED BY <2>1, <2>2, <2>3 DEF Changes
<1> HIDE DEF cell
<1> QED BY <1>21, <1>22, <1>23, <1>24, <1>25 DEF h, cell

-----------------------------------------------------------------------------
\* Where a ghost gets to.
GhostTo(g, i, action) ==
  LET timer == g.scaredTimer[i]
      conf == Moved(g.conf[i], action, IF timer > 0 THEN 1 ELSE 2)
  IN  Configuration(Land(timer, conf.pos), conf.dir)

\* On an open cell, or half way between two of them with a fright that goes on.
Rides(cells, c, timer) ==
  IF OnGrid(c.pos) THEN NearestPoint(c.pos) \in cells
  ELSE /\ timer > 0
       /\ \A p \in {Plus(c.pos, c.dir, 1), Plus(c.pos, c.dir, -1)} :
            OnGrid(p) /\ NearestPoint(p) \in cells

LEMMA GhostToIs ==
  ASSUME NEW g, GameOK(g), Tracks(g), NEW i \in Ghosts(g), NEW action \in GhostActions(g, i)
  PROVE  /\ GhostTo(g, i, action) \in [pos : Pair, dir : Way]
         /\ CountDown(g.scaredTimer[i]) \in 0 .. ScaredTime
         /\ Rides(g.layout.cells, GhostTo(g, i, action), CountDown(g.scaredTimer[i]))
<1> DEFINE pos == g.conf[i].pos
           cell == NearestPoint(pos)
           timer == g.scaredTimer[i]
           t == CountDown(timer)
           cells == g.layout.cells
           half == Plus(pos, action, 1)
           c == GhostTo(g, i, action)
<1>1. /\ i \in Agents(g) /\ pos \in Pair /\ g.conf[i].dir \in Way /\ timer \in 0 .. ScaredTime
      /\ ScaredTime \in Nat /\ cell \in Pair /\ \A p \in cells : p \in Pair
  BY AgentsAre, NearestType, LayoutAssumption DEF Ghosts, GameOK
<1>2. IF OnGrid(pos) THEN cell \in cells
      ELSE /\ timer > 0
           /\ LET ahead == Plus(pos, g.conf[i].dir, 1)
              IN  OnGrid(ahead) /\ NearestPoint(ahead) \in cells
  BY <1>1 DEF Tracks, OnTrack
<1>3. /\ action # "Stop" /\ action \in Way
      /\ IF OnGrid(pos) THEN Plus(cell, action, 1) \in cells ELSE action = g.conf[i].dir
  BY <1>1 DEF GhostActions, PossibleActions
<1>4. t \in 0 .. ScaredTime /\ (timer > 1 => t > 0)
  BY <1>1 DEF CountDown
<1>5. /\ c.pos = IF timer > 0 THEN Land(timer, half) ELSE Plus(pos, action, 2)
      /\ c.dir = action /\ c = [pos |-> c.pos, dir |-> c.dir]
  <2> DEFINE n == IF timer > 0 THEN 1 ELSE 2
  <2>1. n \in Int
    OBVIOUS
  <2>2. /\ Moved(g.conf[i], action, n).pos = Plus(pos, action, n)
        /\ Moved(g.conf[i], action, n).dir = action
    <3> HIDE DEF n
    <3> QED BY <1>1, <1>3, <2>1, MovedType
  <2>3. c = Configuration(Land(timer, Plus(pos, action, n)), action)
    BY <2>2 DEF GhostTo
  <2>4. timer > 0 \/ timer = 0
    BY <1>1
  <2> QED BY <2>3, <2>4 DEF Configuration, Land
<1>6. OnGrid(pos) <=> pos = Place(cell)
  BY DEF OnGrid
<1>7. half = Plus(pos, action, 1)
  OBVIOUS
<1> HIDE DEF pos, cell, timer, t, cells, half, c
<1>8. half \in Pair /\ NearestPoint(half) \in Pair
  BY <1>1, <1>3, <1>7, PlusIs, NearestType
<1>9. CASE timer = 0
  <2>1. OnGrid(pos) /\ c.pos = Plus(pos, action, 2)
    BY <1>2, <1>5, <1>9
  <2>2. Plus(pos, action, 2) = Place(Plus(cell, action, 1))
    BY <1>1, <1>3, <2>1, FullStep DEF cell
  <2>3. OnGrid(c.pos) /\ NearestPoint(c.pos) \in cells /\ c.pos \in Pair
    BY <1>1, <1>3, <2>1, <2>2, PlaceIs
  <2>4. c \in [pos : Pair, dir : Way] /\ Rides(cells, c, t)
    BY <1>3, <1>5, <2>3 DEF Rides
  <2> QED BY <1>4, <2>4 DEF c, cells, t, timer
<1>10. CASE timer > 0
  <2>1. c.pos = Land(timer, half)
    BY <1>5, <1>10
  <2>2. c.pos = (IF timer = 1 THEN Place(NearestPoint(half)) ELSE half)
    BY <2>1 DEF Land
  <2>3. ASSUME OnGrid(pos)
        PROVE  c \in [pos : Pair, dir : Way] /\ Rides(cells, c, t)
    <3>1. pos = Place(cell) /\ cell \in cells
      BY <1>2, <1>6, <2>3
    <3>2. /\ ~OnGrid(half) /\ Plus(half, action, 1) = Place(Plus(cell, action, 1))
          /\ Plus(half, action, -1) = Place(cell)
          /\ NearestPoint(half) \in {cell, Plus(cell, action, 1)}
      BY <1>1, <1>3, <1>7, <3>1, HalfStep
    <3>3. Plus(cell, action, 1) \in cells /\ NearestPoint(half) \in cells
      BY <1>3, <2>3, <3>1, <3>2
    <3>4. CASE timer = 1
      <4>1. c.pos = Place(NearestPoint(half))
        BY <2>2, <3>4
      <4>2. OnGrid(c.pos) /\ NearestPoint(c.pos) \in cells /\ c.pos \in Pair
        BY <1>8, <3>3, <4>1, PlaceIs
      <4> QED BY <1>3, <1>5, <4>2 DEF Rides
    <3>5. CASE timer # 1
      <4>1. t > 0 /\ c.pos = half
        BY <1>1, <1>4, <1>10, <2>2, <3>5
      <4>2. \A p \in {Plus(half, action, 1), Plus(half, action, -1)} :
              OnGrid(p) /\ NearestPoint(p) \in cells
        BY <1>1, <3>1, <3>2, <3>3, PlaceIs
      <4>3. Rides(cells, c, t)
        BY <1>5, <3>2, <4>1, <4>2 DEF Rides
      <4>4. c \in [pos : Pair, dir : Way]
        BY <1>3, <1>5, <1>8, <4>1
      <4> QED BY <4>3, <4>4
    <3> QED BY <3>4, <3>5
  <2>4. ASSUME ~OnGrid(pos)
        PROVE  c \in [pos : Pair, dir : Way] /\ Rides(cells, c, t)
    <3>1. OnGrid(half) /\ NearestPoint(half) \in cells
      BY <1>2, <1>3, <1>7, <2>4
    <3>2. Place(NearestPoint(half)) = half
      BY <3>1 DEF OnGrid
    <3>3. c.pos = half
      BY <2>2, <3>2
    <3> QED BY <1>3, <1>5, <1>8, <3>1, <3>3 DEF Rides
  <2> QED BY <1>4, <2>3, <2>4 DEF c, cells, t, timer
<1> QED BY <1>1, <1>9, <1>10

LEMMA GhostMovesIs ==
  ASSUME NEW g, GameOK(g), Brave(g), Tracks(g), Live(g),
         \A j \in Ghosts(g) : Apart(g, j),
         NEW i \in Ghosts(g), NEW action \in GhostActions(g, i)
  PROVE  LET h == GhostMoves(g, i, action)
         IN  /\ GameOK(h) /\ Brave(h) /\ Tracks(h) /\ h.layout = g.layout
             /\ Live(h) => \A j \in Ghosts(h) : Apart(h, j)
             /\ Changes(g, h, MaxChange(g.layout), MaxChange(g.layout))
<1> DEFINE c == GhostTo(g, i, action)
           t == CountDown(g.scaredTimer[i])
           moved == [g EXCEPT !.conf[i] = c, !.scaredTimer[i] = t]
           h == GhostMoves(g, i, action)
<1>1. /\ Agents(g) = Numbers(g.layout) /\ 0 \in Agents(g) /\ i \in Agents(g) /\ i # 0
  BY AgentsAre DEF Ghosts
<1>2. /\ c \in [pos : Pair, dir : Way] /\ t \in 0 .. ScaredTime
      /\ Rides(g.layout.cells, c, t)
  BY GhostToIs
<1>3. g = [layout |-> g.layout, food |-> g.food, capsules |-> g.capsules, conf |-> g.conf,
           scaredTimer |-> g.scaredTimer, score |-> g.score, win |-> g.win, lose |-> g.lose]
  BY DEF GameOK
<1>4. h = CheckDeath(moved, {i})
  BY DEF GhostMoves, GhostTo
<1>5. moved = [g EXCEPT !.conf = [@ EXCEPT ![i] = c], !.scaredTimer = [@ EXCEPT ![i] = t]]
  BY <1>3
<1> HIDE DEF c, t, moved, h
<1>6. moved = [layout |-> g.layout, food |-> g.food, capsules |-> g.capsules,
               conf |-> [g.conf EXCEPT ![i] = c],
               scaredTimer |-> [g.scaredTimer EXCEPT ![i] = t], score |-> g.score,
               win |-> g.win, lose |-> g.lose]
  BY <1>3, <1>5
<1>7. /\ moved.layout = g.layout /\ moved.conf = [g.conf EXCEPT ![i] = c]
      /\ moved.scaredTimer = [g.scaredTimer EXCEPT ![i] = t] /\ moved.lose = g.lose
      /\ moved.food = g.food /\ moved.capsules = g.capsules
      /\ moved.score = g.score /\ moved.win = g.win
  BY <1>6
<1>8. /\ moved.conf \in [Numbers(g.layout) -> [pos : Pair, dir : Way]]
      /\ moved.scaredTimer \in [Numbers(g.layout) -> 0 .. ScaredTime]
  <2> DEFINE C == [pos : Pair, dir : Way]
             I == 0 .. ScaredTime
             n == Numbers(g.layout)
  <2>1. g.conf \in [n -> C] /\ g.scaredTimer \in [n -> I] /\ c \in C /\ t \in I
    BY <1>2 DEF GameOK
  <2> HIDE DEF C, I, n
  <2>2. [g.conf EXCEPT ![i] = c] \in [n -> C] /\ [g.scaredTimer EXCEPT ![i] = t] \in [n -> I]
    BY <2>1
  <2> QED BY <1>7, <2>2 DEF C, I, n
<1>9. /\ moved.conf[i] = c /\ moved.scaredTimer[i] = t
      /\ \A j \in Agents(g) : j # i => /\ moved.conf[j] = g.conf[j]
                                       /\ moved.scaredTimer[j] = g.scaredTimer[j]
  BY <1>1, <1>7 DEF GameOK
<1>10. GameOK(moved) /\ Brave(moved) /\ ~moved.lose
  BY <1>1, <1>6, <1>7, <1>8, <1>9 DEF GameOK, Brave, Live
<1>11. Agents(moved) = Agents(g) /\ Ghosts(moved) = Ghosts(g)
  BY <1>1, <1>7, <1>10, AgentsAre DEF Ghosts
<1>12. ASSUME NEW j \in Agents(g) PROVE OnTrack(moved, j)
  <2>1. CASE j = i
    BY <1>2, <1>7, <1>9, <2>1 DEF OnTrack, Rides
  <2>2. CASE j # i
    BY <1>7, <1>9, <2>2, OnTrackKept DEF Tracks
  <2> QED BY <2>1, <2>2
<1>13. Tracks(h)
  BY <1>4, <1>10, <1>11, <1>12, DeathKeepsTracks DEF Tracks
<1>14. /\ GameOK(h) /\ Brave(h) /\ h.layout = g.layout
       /\ \A j \in Agents(g) :
            \/ h.conf[j] = moved.conf[j] /\ h.scaredTimer[j] = moved.scaredTimer[j]
            \/ j # 0 /\ h.conf[j] = StartOf(g.layout, j) /\ h.scaredTimer[j] = 0
       /\ Live(h) => Apart(h, i)
       /\ Changes(moved, h, 500 * Len(g.layout.agents), 200 * Len(g.layout.agents))
  <2> DEFINE S == {i}
  <2>1. S \in SUBSET Ghosts(moved) /\ i \in S /\ h = CheckDeath(moved, S)
    BY <1>4, <1>11
  <2> HIDE DEF S
  <2>2. /\ GameOK(h) /\ Brave(h) /\ h.layout = moved.layout
        /\ \A j \in Agents(moved) :
             \/ h.conf[j] = moved.conf[j] /\ h.scaredTimer[j] = moved.scaredTimer[j]
             \/ j # 0 /\ h.conf[j] = StartOf(moved.layout, j) /\ h.scaredTimer[j] = 0
        /\ Live(h) => \A j \in S : Apart(h, j)
        /\ Changes(moved, h, 500 * Len(moved.layout.agents), 200 * Len(moved.layout.agents))
    BY <1>10, <2>1, CheckDeathIs
  <2> QED BY <1>7, <1>11, <2>1, <2>2
<1>15. Ghosts(h) = Ghosts(g)
  BY <1>1, <1>14, AgentsAre DEF Ghosts
<1>16. ASSUME Live(h), NEW j \in Ghosts(g) PROVE Apart(h, j)
  <2>1. CASE j = i
    BY <1>14, <1>16, <2>1
  <2>2. CASE j # i
    <3>1. h.conf[0] = g.conf[0]
      BY <1>1, <1>9, <1>14
    <3>2. CASE h.conf[j] = moved.conf[j] /\ h.scaredTimer[j] = moved.scaredTimer[j]
      <4>1. h.conf[j] = g.conf[j] /\ h.scaredTimer[j] = g.scaredTimer[j]
        BY <1>9, <2>2, <3>2 DEF Ghosts
      <4> QED BY <1>14, <3>1, <4>1 DEF Apart, CanKill
    <3>3. CASE h.conf[j] = StartOf(g.layout, j) /\ h.scaredTimer[j] = 0
      BY <1>14, <3>3 DEF Apart
    <3> QED BY <1>14, <3>2, <3>3 DEF Ghosts
  <2> QED BY <2>1, <2>2
<1>17. Changes(g, h, MaxChange(g.layout), MaxChange(g.layout))
  <2> DEFINE all == Len(g.layout.agents)
  <2>1. all \in Nat /\ MaxChange(g.layout) = 511 + 500 * all
    BY AgentsAre DEF MaxChange
  <2>2. g.score \in Int /\ h.score \in Int /\ moved.score = g.score
    BY <1>7, <1>14 DEF GameOK
  <2>3. g.score - 500 * all <= h.score /\ h.score <= g.score + 200 * all
    BY <1>14, <2>2 DEF Changes
  <2> HIDE DEF all
  <2> QED BY <2>1, <2>2, <2>3 DEF Changes
<1> QED BY <1>13, <1>14, <1>15, <1>16, <1>17 DEF h

-----------------------------------------------------------------------------
\* The positions that a game comes to.
Sound(g) ==
  /\ GameOK(g) /\ Brave(g) /\ Tracks(g)
  /\ Live(g) => \A i \in Ghosts(g) : Apart(g, i)

LEMMA SuccessorIs ==
  ASSUME NEW g, Sound(g), Live(g), NEW i \in Agents(g), NEW action \in LegalActions(g, i)
  PROVE  LET h == GenerateSuccessor(g, i, action)
         IN  /\ Sound(h) /\ h.layout = g.layout
             /\ Changes(g, h, MaxChange(g.layout), MaxChange(g.layout))
<1> DEFINE h == GenerateSuccessor(g, i, action)
<1>1. GameOK(g) /\ Brave(g) /\ Tracks(g) /\ \A j \in Ghosts(g) : Apart(g, j)
  BY DEF Sound
<1>2. CASE i = 0
  <2>1. action \in PossibleActions(g, 0) /\ h = PacmanMoves(g, action)
    BY <1>2 DEF LegalActions, GenerateSuccessor
  <2> HIDE DEF h
  <2>2. /\ GameOK(h) /\ Brave(h) /\ Tracks(h) /\ h.layout = g.layout
        /\ Live(h) => \A j \in Ghosts(h) : Apart(h, j)
        /\ Changes(g, h, MaxChange(g.layout), MaxChange(g.layout))
    BY <1>1, <2>1, PacmanMovesIs
  <2> QED BY <2>2 DEF Sound, h
<1>3. CASE i # 0
  <2>1. action \in GhostActions(g, i) /\ h = GhostMoves(g, i, action) /\ i \in Ghosts(g)
    BY <1>3 DEF LegalActions, GenerateSuccessor, Ghosts
  <2> HIDE DEF h
  <2>2. /\ GameOK(h) /\ Brave(h) /\ Tracks(h) /\ h.layout = g.layout
        /\ Live(h) => \A j \in Ghosts(h) : Apart(h, j)
        /\ Changes(g, h, MaxChange(g.layout), MaxChange(g.layout))
    BY <1>1, <2>1, GhostMovesIs
  <2> QED BY <2>2 DEF Sound, h
<1> QED BY <1>2, <1>3

-----------------------------------------------------------------------------
\* The inductive invariant: a game that goes on is not over, and nobody is stuck.
GameInv ==
  /\ GameOK(game) /\ Brave(game) /\ Tracks(game)
  /\ Live(game) => \A i \in Ghosts(game) : Apart(game, i)
  /\ agentIndex \in Agents(game) /\ moves \in Nat
  /\ run \in {"playing", "over"}
  /\ run = "playing" <=> Live(game)

\* Who is on track has somewhere to go.
LEMMA CanMove ==
  ASSUME NEW g, GameOK(g), Tracks(g), NEW i \in Agents(g)
  PROVE  PossibleActions(g, i) # {} /\ GhostActions(g, i) # {}
<1>1. OnTrack(g, i) /\ g.layout \in Layout /\ g.conf[i].dir \in Way /\ g.conf[i].pos \in Pair
  BY AgentsAre DEF Tracks, GameOK
<1>2. CASE OnGrid(g.conf[i].pos)
  <2>1. NearestPoint(g.conf[i].pos) \in g.layout.cells
    BY <1>1, <1>2 DEF OnTrack
  <2>2. \E d \in Way \ {"Stop"} : Plus(NearestPoint(g.conf[i].pos), d, 1) \in g.layout.cells
    BY <1>1, <2>1, SomeWay
  <2>3. \E d \in PossibleActions(g, i) : d # "Stop"
    BY <1>2, <2>2 DEF PossibleActions
  <2> QED BY <2>3 DEF GhostActions
<1>3. CASE ~OnGrid(g.conf[i].pos)
  <2>1. PossibleActions(g, i) = {g.conf[i].dir}
    BY <1>3 DEF PossibleActions
  <2>2. g.conf[i].dir # "Stop"
    <3>1. ASSUME g.conf[i].dir = "Stop" PROVE FALSE
      <4>1. Plus(g.conf[i].pos, "Stop", 1) = g.conf[i].pos
        BY <1>1, <3>1 DEF Plus, Vector, Pair
      <4> QED BY <1>1, <1>3, <3>1, <4>1 DEF OnTrack
    <3> QED BY <3>1
  <2> QED BY <2>1, <2>2 DEF GhostActions
<1> QED BY <1>2, <1>3

\* A new game: nobody has moved, and nobody is where somebody else is allowed to kill.
LEMMA NewGameIs ==
  ASSUME NEW l \in Layout
  PROVE  LET g == NewGame(l)
         IN  /\ GameOK(g) /\ Brave(g) /\ Tracks(g) /\ Live(g) /\ g.layout = l
             /\ \A i \in Ghosts(g) : Apart(g, i)
             /\ g.food = l.food /\ g.conf[0].pos = Place(l.agents[1]) /\ l.agents[1] \in l.cells
<1> DEFINE conf == [i \in 0 .. Len(l.agents) - 1 |-> StartOf(l, i)]
           timer == [i \in 0 .. Len(l.agents) - 1 |-> 0]
           g == NewGame(l)
<1>1. g = [layout |-> l, food |-> l.food, capsules |-> l.capsules, conf |-> conf,
           scaredTimer |-> timer, score |-> 0, win |-> FALSE, lose |-> FALSE]
  BY DEF NewGame
<1>2. /\ l.agents \in Seq(l.cells) /\ Len(l.agents) >= 1 /\ l.cells \subseteq Pair
      /\ ScaredTime \in Nat
  BY LayoutAssumption DEF Pair
<1>3. Len(l.agents) \in Nat /\ \A i \in Numbers(l) : l.agents[i + 1] \in l.cells
  BY <1>2 DEF Numbers
<1>4. \A i \in Numbers(l) : /\ StartOf(l, i) \in [pos : Pair, dir : Way]
                            /\ OnGrid(StartOf(l, i).pos)
                            /\ NearestPoint(StartOf(l, i).pos) \in l.cells
  BY <1>2, <1>3, PlaceIs DEF StartOf, Configuration, Way
<1>5. /\ conf \in [Numbers(l) -> [pos : Pair, dir : Way]] /\ timer \in [Numbers(l) -> 0 .. ScaredTime]
      /\ timer[0] = 0 /\ 0 \in Numbers(l)
      /\ \A i \in Numbers(l) : conf[i] = StartOf(l, i) /\ timer[i] = 0
  BY <1>2, <1>3, <1>4 DEF Numbers
<1> HIDE DEF conf, timer, g
<1>6. /\ g.layout = l /\ g.conf = conf /\ g.lose = FALSE /\ g.scaredTimer = timer
      /\ g.food = l.food /\ g.capsules = l.capsules /\ g.score = 0 /\ g.win = FALSE
  BY <1>1
<1>7. GameOK(g) /\ Brave(g)
  BY <1>1, <1>5, <1>6 DEF GameOK, Brave
<1>8. Agents(g) = Numbers(l) /\ Live(g)
  BY <1>6, <1>7, AgentsAre DEF Live
<1>9. Tracks(g)
  BY <1>4, <1>5, <1>6, <1>8, OnTrackPlaced DEF Tracks
<1>10. \A i \in Ghosts(g) : Apart(g, i)
  BY <1>5, <1>6, <1>8 DEF Ghosts, Apart
<1>11. g.conf[0].pos = Place(l.agents[1]) /\ l.agents[1] \in l.cells
  BY <1>3, <1>5, <1>6 DEF StartOf, Configuration
<1> QED BY <1>6, <1>7, <1>8, <1>9, <1>10, <1>11 DEF g

LEMMA GameStarts ==
  ASSUME NEW l \in Layout, game = NewGame(l), agentIndex = 0, moves = 0, run = "playing"
  PROVE  GameInv
BY NewGameIs, AgentsAre DEF GameInv

LEMMA InitGame == GameInit => GameInv
BY GameStarts DEF GameInit

\* What a round does when the action is one that the rules allow.
LEMMA LegalPlay ==
  ASSUME GameInv, NEW action, Play(action), Legal(game, agentIndex, action)
  PROVE  GameInv'
<1> DEFINE h == GenerateSuccessor(game, agentIndex, action)
<1>1. /\ run = "playing" /\ moves' = moves + 1 /\ game' = h
      /\ run' = (IF Live(h) THEN "playing" ELSE "over")
      /\ agentIndex' = (agentIndex + 1) % Cardinality(Agents(game))
  BY DEF Play
<1>2. Live(game) /\ GameOK(game) /\ Brave(game) /\ Tracks(game)
  BY <1>1 DEF GameInv
<1>3. /\ GameOK(h) /\ Brave(h) /\ Tracks(h) /\ h.layout = game.layout
      /\ Live(h) => \A i \in Ghosts(h) : Apart(h, i)
  <2>1. Sound(game) /\ agentIndex \in Agents(game) /\ action \in LegalActions(game, agentIndex)
    BY <1>2 DEF GameInv, Sound, Legal
  <2>2. Sound(h) /\ h.layout = game.layout
    BY <1>2, <2>1, SuccessorIs
  <2> HIDE DEF h
  <2> QED BY <2>2 DEF Sound
<1> HIDE DEF h
<1>4. Agents(h) = Agents(game) /\ Agents(game) = Numbers(game.layout)
  BY <1>2, <1>3, AgentsAre
<1>5. agentIndex' \in Agents(game)
  <2> DEFINE n == Len(game.layout.agents)
  <2>1. n \in Nat \ {0} /\ Agents(game) = 0 .. n - 1
    BY <1>2, <1>4, AgentsAre DEF Numbers
  <2> HIDE DEF n
  <2>2. Cardinality(Agents(game)) = n
    <3>1. Cardinality(0 .. n - 1) = n
      BY <2>1, FS_Interval
    <3> QED BY <2>1, <3>1
  <2>3. agentIndex \in 0 .. n - 1
    BY <2>1 DEF GameInv
  <2>4. (agentIndex + 1) % n \in 0 .. n - 1
    BY <2>1, <2>3
  <2> QED BY <1>1, <2>1, <2>2, <2>4
<1>6. moves' \in Nat
  BY <1>1 DEF GameInv
<1>7. GameOK(game)' /\ Brave(game)' /\ Tracks(game)'
  BY <1>1, <1>3 DEF GameOK, Brave, Tracks, OnTrack, Agents
<1>8. Agents(game)' = Agents(h) /\ Ghosts(game)' = Ghosts(h) /\ (Live(game)' <=> Live(h))
  BY <1>1 DEF Agents, Ghosts, Live
<1>9. Live(game)' => \A i \in Ghosts(game)' : Apart(game, i)'
  BY <1>1, <1>3, <1>8 DEF Apart, CanKill
<1> QED BY <1>1, <1>4, <1>5, <1>6, <1>7, <1>8, <1>9 DEF GameInv

\* Whose turn it is has a legal action.
LEMMA LegalTurn ==
  ASSUME GameInv, GhostTurn \/ KeyboardTurn
  PROVE  \E action : /\ Play(action) /\ Legal(game, agentIndex, action)
                     /\ agentIndex = 0 => moves < MaxMoves
<1>1. Live(game) /\ agentIndex \in Agents(game)
  BY DEF GhostTurn, KeyboardTurn, Play, GameInv
<1>2. CASE GhostTurn
  <2>1. agentIndex # 0 /\ GhostActions(game, agentIndex) # {}
    BY <1>2, CanMove DEF GhostTurn, GameInv
  <2>2. PICK action \in GhostActions(game, agentIndex) : Play(action)
    BY <1>2, <2>1 DEF GhostTurn
  <2> QED BY <1>1, <2>1, <2>2 DEF Legal, LegalActions
<1>3. CASE KeyboardTurn
  <2>1. agentIndex = 0 /\ moves < MaxMoves
    BY <1>3 DEF KeyboardTurn
  <2>2. PICK action \in PossibleActions(game, 0) : Play(action)
    BY <1>3 DEF KeyboardTurn
  <2> QED BY <1>1, <2>1, <2>2 DEF Legal, LegalActions
<1> QED BY <1>2, <1>3

LEMMA NextGame == GameInv /\ [GameNext]_gameVars => GameInv'
<1>1. ASSUME GameInv, UNCHANGED gameVars PROVE GameInv'
  BY <1>1 DEF GameInv, gameVars, GameOK, Brave, Tracks, Live, Ghosts, Agents, Apart, OnTrack, CanKill
<1>2. ASSUME GameInv, GameNext PROVE GameInv'
  BY <1>2, LegalTurn, LegalPlay DEF GameNext
<1> QED BY <1>1, <1>2

LEMMA Inductive == GameSpec => []GameInv
BY InitGame, NextGame, PTL DEF GameSpec

\* What the invariant says of a position.
LEMMA GameTypeIs == GameInv => GameTypeOK
<1> SUFFICES ASSUME GameInv PROVE GameTypeOK
  OBVIOUS
<1>1. Agents(game) = 0 .. Len(game.layout.agents) - 1
  BY AgentsAre DEF GameInv, Numbers
<1> QED BY <1>1 DEF GameInv, GameTypeOK, GameOK, Numbers, Pair

LEMMA PassesIs == GameInv => NobodyPasses
BY DEF GameInv, NobodyPasses, Apart

LEMMA MovesIs == GameInv => EveryoneCanMove
<1> SUFFICES ASSUME GameInv PROVE EveryoneCanMove
  OBVIOUS
<1>1. \A i \in Agents(game) : PossibleActions(game, i) # {} /\ GhostActions(game, i) # {}
  BY CanMove DEF GameInv
<1>2. 0 \in Agents(game)
  BY AgentsAre DEF GameInv
<1>3. ASSUME Live(game), NEW i \in Agents(game) PROVE LegalActions(game, i) # {}
  BY <1>1, <1>2, <1>3 DEF LegalActions
<1> QED BY <1>3 DEF GameInv, EveryoneCanMove, Tracks

\* The positions of a game have their types, in every maze.
THEOREM GameTypeCorrect == GameSpec => []GameTypeOK
BY GameTypeIs, Inductive, PTL

\* Whoever is met is eaten or ends the game: no ghost gets past Pacman.
THEOREM NobodyEverPasses == GameSpec => []NobodyPasses
BY PassesIs, Inductive, PTL

\* No agent gets into a wall or is left between two cells, so that no agent is ever asked
\* to choose from nothing.
THEOREM EveryoneCanAlwaysMove == GameSpec => []EveryoneCanMove
BY MovesIs, Inductive, PTL

-----------------------------------------------------------------------------
\* What the three recursions of the look-ahead compute from what they computed before.
MinimaxLevel(h, n) ==
  [l \in Layout |-> [v \in View(l) |->
     IF Leaf(v.position, n) THEN v.position.score
     ELSE LET values == {h[l][Advance(v, action)] :
                           action \in LegalActions(v.position, v.agent)}
          IN  IF v.agent = 0 THEN Best(values) ELSE Worst(values)]]

AlphaBetaLevel(h, n) ==
  [l \in Layout |-> [v \in Bounded(l) |->
     IF Leaf(v.position, n) THEN v.position.score ELSE Loop(h[l], v).ans]]

Passed(v, action, s) == [Advance(v, action) EXCEPT !.alpha = s.alpha, !.beta = s.beta]

LoopRound(Score, v, s, k) ==
  LET legal == ActionList(v.position, v.agent)
  IN  IF s.returned THEN s ELSE Continue(v.agent, legal[k], Score[Passed(v, legal[k], s)], s)

LoopRounds(Score, v, s, k) == IF k = 0 THEN Enter(v) ELSE LoopRound(Score, v, s, k)

LoopAfter(Score, v) == CHOOSE g : g = [k \in Nat |-> LoopRounds(Score, v, g[k - 1], k)]

Stage(kind, p, h, n) ==
  IF kind = "minimax" THEN MinimaxLevel(h, n)
  ELSE IF kind = "alphabeta" THEN AlphaBetaLevel(h, n) ELSE LoopRounds(p[1], p[2], h, n)

\* Functions that are defined by recursion on such stages exist.
LEMMA StageRecursion ==
  ASSUME NEW kind, NEW p, NEW f,
         \A h : Stage(kind, p, h, 0) = Stage(kind, p, {}, 0),
         f = CHOOSE g : g = [n \in Nat |-> Stage(kind, p, g[n - 1], n)]
  PROVE  \A n \in Nat : f[n] = Stage(kind, p, f[n - 1], n)
<1> DEFINE St(h, n) == Stage(kind, p, h, n)
           Upto(g, n) == g[0] = St({}, 0) /\ \A m \in 0 .. n - 1 : g[m + 1] = St(g[m], m + 1)
<1>1. \A h : St(h, 0) = St({}, 0)
  OBVIOUS
<1>2. f = CHOOSE g : g = [n \in Nat |-> St(g[n - 1], n)]
  OBVIOUS
<1> HIDE DEF St
<1>3. ASSUME NEW n \in Nat, NEW g, NEW h, Upto(g, n), Upto(h, n)
      PROVE  \A m \in 0 .. n : g[m] = h[m]
  <2> DEFINE S == {m \in Nat : m <= n => g[m] = h[m]}
  <2>1. 0 \in S
    BY <1>3
  <2>2. ASSUME NEW m \in Nat, m \in S PROVE m + 1 \in S
    <3>1. CASE m + 1 <= n
      <4>1. m \in 0 .. n - 1 /\ g[m] = h[m]
        BY <2>2, <3>1
      <4>2. g[m + 1] = St(g[m], m + 1) /\ h[m + 1] = St(h[m], m + 1)
        BY <1>3, <4>1
      <4> QED BY <4>1, <4>2
    <3>2. CASE ~(m + 1 <= n)
      BY <3>2
    <3> QED BY <3>1, <3>2
  <2>3. \A m \in Nat : m \in S
    <3> HIDE DEF S
    <3> QED BY <2>1, <2>2, NatIn
  <2> QED BY <2>3
<1>4. \A n \in Nat : \E g : Upto(g, n)
  <2> DEFINE S == {n \in Nat : \E g : DOMAIN g = Nat /\ g = [m \in Nat |-> g[m]] /\ Upto(g, n)}
  <2>1. 0 \in S
    <3>1. Upto([m \in Nat |-> St({}, 0)], 0)
      OBVIOUS
    <3> QED BY <3>1
  <2>2. ASSUME NEW n \in Nat, n \in S PROVE n + 1 \in S
    <3>1. PICK g : DOMAIN g = Nat /\ g = [m \in Nat |-> g[m]] /\ Upto(g, n)
      BY <2>2
    <3> DEFINE c == St(g[n], n + 1)
               h == [m \in Nat |-> IF m = n + 1 THEN c ELSE g[m]]
    <3>2. h[n + 1] = c /\ \A m \in 0 .. n : h[m] = g[m]
      OBVIOUS
    <3>3. DOMAIN h = Nat /\ h = [m \in Nat |-> h[m]]
      OBVIOUS
    <3> HIDE DEF h
    <3>4. Upto(h, n + 1)
      <4>1. h[0] = St({}, 0)
        BY <3>1, <3>2
      <4>2. ASSUME NEW m \in 0 .. n PROVE h[m + 1] = St(h[m], m + 1)
        <5>1. CASE m = n
          BY <3>2, <5>1
        <5>2. CASE m # n
          <6>1. m \in 0 .. n - 1 /\ m + 1 \in 0 .. n
            BY <5>2
          <6> QED BY <3>1, <3>2, <6>1
        <5> QED BY <5>1, <5>2
      <4> QED BY <4>1, <4>2
    <3> QED BY <3>3, <3>4
  <2>3. \A n \in Nat : n \in S
    <3> HIDE DEF S
    <3> QED BY <2>1, <2>2, NatIn
  <2> QED BY <2>3
<1> DEFINE P(n) == CHOOSE g : Upto(g, n)
           F == [n \in Nat |-> P(n)[n]]
<1>5. \A n \in Nat : Upto(P(n), n)
  BY <1>4
<1> HIDE DEF P
<1>6. F[0] = St({}, 0)
  BY <1>5
<1>7. ASSUME NEW n \in Nat PROVE F[n + 1] = St(F[n], n + 1)
  <2>1. Upto(P(n), n) /\ Upto(P(n + 1), n + 1)
    BY <1>5
  <2>2. Upto(P(n + 1), n) /\ P(n + 1)[n + 1] = St(P(n + 1)[n], n + 1)
    BY <2>1
  <2>3. P(n + 1)[n] = P(n)[n]
    <3> HIDE DEF Upto
    <3> QED BY <1>3, <2>1, <2>2
  <2>4. F[n + 1] = P(n + 1)[n + 1] /\ F[n] = P(n)[n]
    OBVIOUS
  <2> QED BY <2>2, <2>3, <2>4
<1>8. DOMAIN F = Nat /\ F = [n \in Nat |-> F[n]]
  OBVIOUS
<1> HIDE DEF F, Upto
<1>9. ASSUME NEW n \in Nat PROVE F[n] = St(F[n - 1], n)
  <2>1. CASE n = 0
    BY <1>1, <1>6, <2>1
  <2>2. CASE n # 0
    <3>1. n - 1 \in Nat /\ n - 1 + 1 = n
      BY <2>2
    <3> QED BY <1>7, <3>1
  <2> QED BY <2>1, <2>2
<1>10. F = [n \in Nat |-> St(F[n - 1], n)]
  BY <1>8, <1>9
<1>11. f = [n \in Nat |-> St(f[n - 1], n)]
  BY <1>2, <1>10
<1>12. \A n \in Nat : f[n] = St(f[n - 1], n)
  BY <1>11
<1> QED BY <1>12 DEF St

LEMMA MinimaxIs == \A n \in Nat : Minimax[n] = MinimaxLevel(Minimax[n - 1], n)
<1> DEFINE body(g) == [n \in Nat |-> MinimaxLevel(g[n - 1], n)]
<1>1. Minimax = CHOOSE g : g = body(g)
  BY DEF Minimax, MinimaxLevel
<1>2. \A h, n : Stage("minimax", {}, h, n) = MinimaxLevel(h, n)
  BY DEF Stage
<1>3. \A h : MinimaxLevel(h, 0) = MinimaxLevel({}, 0)
  BY DEF MinimaxLevel, Leaf
<1>4. Minimax = CHOOSE g : g = [n \in Nat |-> Stage("minimax", {}, g[n - 1], n)]
  BY <1>1, <1>2
<1>5. \A n \in Nat : Minimax[n] = Stage("minimax", {}, Minimax[n - 1], n)
  BY <1>2, <1>3, <1>4, StageRecursion
<1> QED BY <1>2, <1>5

LEMMA AlphaBetaIs == \A n \in Nat : AlphaBeta[n] = AlphaBetaLevel(AlphaBeta[n - 1], n)
<1> DEFINE body(g) == [n \in Nat |-> AlphaBetaLevel(g[n - 1], n)]
<1>1. AlphaBeta = CHOOSE g : g = body(g)
  BY DEF AlphaBeta, AlphaBetaLevel
<1>2. \A h, n : Stage("alphabeta", {}, h, n) = AlphaBetaLevel(h, n)
  BY DEF Stage
<1>3. \A h : AlphaBetaLevel(h, 0) = AlphaBetaLevel({}, 0)
  BY DEF AlphaBetaLevel, Leaf
<1>4. AlphaBeta = CHOOSE g : g = [n \in Nat |-> Stage("alphabeta", {}, g[n - 1], n)]
  BY <1>1, <1>2
<1>5. \A n \in Nat : AlphaBeta[n] = Stage("alphabeta", {}, AlphaBeta[n - 1], n)
  BY <1>2, <1>3, <1>4, StageRecursion
<1> QED BY <1>2, <1>5

LEMMA LoopIs ==
  ASSUME NEW Score, NEW v
  PROVE  /\ Loop(Score, v) = LoopAfter(Score, v)[Len(ActionList(v.position, v.agent))]
         /\ LoopAfter(Score, v)[0] = Enter(v)
         /\ \A k \in Nat \ {0} :
              LoopAfter(Score, v)[k] = LoopRound(Score, v, LoopAfter(Score, v)[k - 1], k)
<1>1. Loop(Score, v) = LoopAfter(Score, v)[Len(ActionList(v.position, v.agent))]
  BY DEF Loop, LoopAfter, LoopRounds, LoopRound, Passed
<1>2. \A h, n : Stage("loop", <<Score, v>>, h, n) = LoopRounds(Score, v, h, n)
  BY DEF Stage
<1>3. \A h : LoopRounds(Score, v, h, 0) = LoopRounds(Score, v, {}, 0)
  BY DEF LoopRounds
<1>4. LoopAfter(Score, v) = CHOOSE g : g = [n \in Nat |-> Stage("loop", <<Score, v>>, g[n - 1], n)]
  BY <1>2 DEF LoopAfter
<1>5. \A n \in Nat : LoopAfter(Score, v)[n] = LoopRounds(Score, v, LoopAfter(Score, v)[n - 1], n)
  BY <1>2, <1>3, <1>4, StageRecursion
<1> QED BY <1>1, <1>5 DEF LoopRounds

-----------------------------------------------------------------------------
\* What is listed in a sequence.
Listed(s) == {s[k] : k \in DOMAIN s}

LEMMA ListedTogether ==
  ASSUME NEW S, NEW s \in Seq(S), NEW t \in Seq(S)
  PROVE  s \o t \in Seq(S) /\ Listed(s \o t) = Listed(s) \cup Listed(t)
<1>1. /\ Len(s) \in Nat /\ Len(t) \in Nat /\ Len(s \o t) = Len(s) + Len(t)
      /\ DOMAIN s = 1 .. Len(s) /\ DOMAIN t = 1 .. Len(t)
      /\ DOMAIN (s \o t) = 1 .. Len(s) + Len(t) /\ s \o t \in Seq(S)
  OBVIOUS
<1>2. \A k \in 1 .. Len(s) : (s \o t)[k] = s[k]
  OBVIOUS
<1>3. \A k \in 1 .. Len(t) : (s \o t)[Len(s) + k] = t[k]
  OBVIOUS
<1> DEFINE u == s \o t
           m == Len(s)
           n == Len(t)
<1>4. /\ m \in Nat /\ n \in Nat /\ DOMAIN s = 1 .. m /\ DOMAIN t = 1 .. n /\ DOMAIN u = 1 .. m + n
      /\ \A k \in 1 .. m : u[k] = s[k]
      /\ \A k \in 1 .. n : u[m + k] = t[k]
  BY <1>1, <1>2, <1>3
<1> HIDE DEF u, m, n
<1>5. ASSUME NEW k \in 1 .. m + n PROVE u[k] \in Listed(s) \cup Listed(t)
  <2>1. CASE k <= m
    BY <1>4, <2>1 DEF Listed
  <2>2. CASE k > m
    <3>1. k - m \in 1 .. n /\ m + (k - m) = k
      BY <1>4, <2>2
    <3>2. u[k] = t[k - m]
      BY <1>4, <3>1
    <3> QED BY <1>4, <3>1, <3>2 DEF Listed
  <2> QED BY <1>4, <2>1, <2>2
<1>6. ASSUME NEW k \in 1 .. m PROVE s[k] \in Listed(u)
  <2>1. k \in 1 .. m + n
    BY <1>4
  <2> QED BY <1>4, <2>1 DEF Listed
<1>7. ASSUME NEW k \in 1 .. n PROVE t[k] \in Listed(u)
  <2>1. m + k \in 1 .. m + n
    BY <1>4
  <2> QED BY <1>4, <2>1 DEF Listed
<1>8. /\ Listed(u) = {u[k] : k \in 1 .. m + n}
      /\ Listed(s) = {s[k] : k \in 1 .. m} /\ Listed(t) = {t[k] : k \in 1 .. n}
  BY <1>4 DEF Listed
<1>9. \A x \in Listed(u) : x \in Listed(s) \cup Listed(t)
  BY <1>5, <1>8
<1>10. \A x \in Listed(s) \cup Listed(t) : x \in Listed(u)
  BY <1>6, <1>7, <1>8
<1>11. Listed(u) = Listed(s) \cup Listed(t)
  BY <1>9, <1>10
<1> QED BY <1>1, <1>11 DEF u

\* All legal actions are tried, and there is one.
LEMMA ActionListIs ==
  ASSUME NEW g, Sound(g), Live(g), NEW i \in Agents(g)
  PROVE  LET legal == ActionList(g, i)
         IN  /\ legal \in Seq(Way) /\ Len(legal) \in Nat \ {0} /\ DOMAIN legal = 1 .. Len(legal)
             /\ Listed(legal) = LegalActions(g, i) /\ Head(legal) = legal[1]
<1> DEFINE One(d) == IF Legal(g, i, d) THEN <<d>> ELSE <<>>
           legal == ActionList(g, i)
<1>1. \A d \in Way : One(d) \in Seq(Way) /\ Listed(One(d)) = {d} \cap LegalActions(g, i)
  BY DEF Legal, Listed
<1>2. legal = One("West") \o One("Stop") \o One("East") \o One("North") \o One("South")
  BY DEF ActionList
<1> HIDE DEF One, legal
<1>3. /\ One("West") \in Seq(Way) /\ One("Stop") \in Seq(Way) /\ One("East") \in Seq(Way)
      /\ One("North") \in Seq(Way) /\ One("South") \in Seq(Way)
  BY <1>1 DEF Way
<1>4. /\ One("West") \o One("Stop") \in Seq(Way)
      /\ Listed(One("West") \o One("Stop")) = Listed(One("West")) \cup Listed(One("Stop"))
  BY <1>3, ListedTogether
<1> DEFINE two == One("West") \o One("Stop")
           three == two \o One("East")
           four == three \o One("North")
<1>5. two \in Seq(Way) /\ Listed(two) = Listed(One("West")) \cup Listed(One("Stop"))
  BY <1>4
<1>6. legal = four \o One("South")
  BY <1>2
<1> HIDE DEF two
<1>7. three \in Seq(Way) /\ Listed(three) = Listed(two) \cup Listed(One("East"))
  BY <1>3, <1>5, ListedTogether
<1> HIDE DEF three
<1>8. four \in Seq(Way) /\ Listed(four) = Listed(three) \cup Listed(One("North"))
  BY <1>3, <1>7, ListedTogether
<1> HIDE DEF four
<1>9. legal \in Seq(Way) /\ Listed(legal) = Listed(four) \cup Listed(One("South"))
  BY <1>3, <1>6, <1>8, ListedTogether
<1>10. LegalActions(g, i) \subseteq Way /\ LegalActions(g, i) # {}
  <2>1. GameOK(g) /\ Tracks(g) /\ g.conf[i].dir \in Way /\ 0 \in Agents(g) /\ g.conf[0].dir \in Way
    BY AgentsAre DEF Sound
  <2>2. LegalActions(g, i) # {}
    BY <2>1, CanMove DEF LegalActions
  <2>3. PossibleActions(g, i) \subseteq Way /\ PossibleActions(g, 0) \subseteq Way
    BY <2>1 DEF PossibleActions
  <2> QED BY <2>2, <2>3 DEF LegalActions, GhostActions
<1>11. Listed(legal) = LegalActions(g, i)
  <2>1. /\ Listed(One("West")) = {"West"} \cap LegalActions(g, i)
        /\ Listed(One("Stop")) = {"Stop"} \cap LegalActions(g, i)
        /\ Listed(One("East")) = {"East"} \cap LegalActions(g, i)
        /\ Listed(One("North")) = {"North"} \cap LegalActions(g, i)
        /\ Listed(One("South")) = {"South"} \cap LegalActions(g, i)
    BY <1>1 DEF Way
  <2>2. Listed(legal) = {"West", "Stop", "East", "North", "South"} \cap LegalActions(g, i)
    BY <1>5, <1>7, <1>8, <1>9, <2>1
  <2> QED BY <1>10, <2>2 DEF Way
<1>12. Len(legal) \in Nat \ {0} /\ DOMAIN legal = 1 .. Len(legal) /\ Head(legal) = legal[1]
  BY <1>9, <1>10, <1>11 DEF Listed
<1> QED BY <1>9, <1>11, <1>12 DEF legal

-----------------------------------------------------------------------------
\* The two looks ahead, as functions of what changes on the way.
Value(n, g, i) == Minimax[n][g.layout][[position |-> g, agent |-> i]]
Pruned(n, g, i, a, b) ==
  AlphaBeta[n][g.layout][[position |-> g, agent |-> i, alpha |-> a, beta |-> b]]
NextAgent(g, i) == (i + 1) % NumAgents(g)
Values(n, g, i) ==
  {Value(n, GenerateSuccessor(g, i, action), NextAgent(g, i)) : action \in LegalActions(g, i)}

LEMMA PositionIs ==
  ASSUME NEW g, GameOK(g)
  PROVE  /\ g.layout \in Layout /\ g \in Position(g.layout)
         /\ Agents(g) = 0 .. Len(g.layout.agents) - 1
         /\ \A i \in Agents(g) : NextAgent(g, i) \in Agents(g)
<1> DEFINE n == Len(g.layout.agents)
<1>1. g.layout \in Layout /\ g \in Position(g.layout)
  BY DEF GameOK, Position, Numbers, Pair
<1>2. n \in Nat \ {0} /\ Agents(g) = 0 .. n - 1 /\ NumAgents(g) = n
  BY AgentsAre, AgentsCount DEF Numbers, NumAgents
<1> HIDE DEF n
<1>3. \A i \in 0 .. n - 1 : (i + 1) % n \in 0 .. n - 1
  BY <1>2
<1>4. \A i \in Agents(g) : NextAgent(g, i) \in Agents(g)
  BY <1>2, <1>3 DEF NextAgent
<1> QED BY <1>1, <1>2, <1>4 DEF n

LEMMA AtLeaf ==
  ASSUME NEW n \in Nat, NEW g, GameOK(g), NEW i \in Agents(g), Leaf(g, n),
         NEW a \in SUBSET Int, NEW b \in SUBSET Int
  PROVE  Value(n, g, i) = g.score /\ Pruned(n, g, i, a, b) = g.score
<1> DEFINE l == g.layout
           v == [position |-> g, agent |-> i]
           w == [position |-> g, agent |-> i, alpha |-> a, beta |-> b]
<1>1. l \in Layout /\ v \in View(l) /\ w \in Bounded(l)
  BY PositionIs DEF View, Bounded
<1>2. v.position = g /\ w.position = g
  OBVIOUS
<1>3. Value(n, g, i) = MinimaxLevel(Minimax[n - 1], n)[l][v]
  BY MinimaxIs DEF Value
<1>4. Pruned(n, g, i, a, b) = AlphaBetaLevel(AlphaBeta[n - 1], n)[l][w]
  BY AlphaBetaIs DEF Pruned
<1> HIDE DEF l, v, w
<1>5. MinimaxLevel(Minimax[n - 1], n)[l][v] = g.score
  BY <1>1, <1>2 DEF MinimaxLevel
<1>6. AlphaBetaLevel(AlphaBeta[n - 1], n)[l][w] = g.score
  BY <1>1, <1>2 DEF AlphaBetaLevel
<1> QED BY <1>3, <1>4, <1>5, <1>6

\* What is called with an action and other bounds.
Called(w, action, x, y) == [Advance(w, action) EXCEPT !.alpha = x, !.beta = y]

LEMMA AdvanceIs ==
  ASSUME NEW g, NEW i, NEW action
  PROVE  Advance([position |-> g, agent |-> i], action) =
           [position |-> GenerateSuccessor(g, i, action), agent |-> NextAgent(g, i)]
<1> DEFINE h == GenerateSuccessor(g, i, action)
           j == NextAgent(g, i)
           v == [position |-> g, agent |-> i]
<1>1. v.position = g /\ v.agent = i
  OBVIOUS
<1>2. Advance(v, action) = [v EXCEPT !.position = h, !.agent = j]
  <2> HIDE DEF v
  <2>1. GenerateSuccessor(v.position, v.agent, action) = h /\ (v.agent + 1) % NumAgents(v.position) = j
    BY <1>1 DEF NextAgent
  <2> HIDE DEF h, j
  <2> QED BY <2>1 DEF Advance
<1>3. Advance(v, action) = [position |-> h, agent |-> j]
  <2> HIDE DEF h, j
  <2> QED BY <1>2
<1> QED BY <1>3

LEMMA CalledIs ==
  ASSUME NEW g, NEW i, NEW a, NEW b, NEW w,
         w = [position |-> g, agent |-> i, alpha |-> a, beta |-> b], NEW action, NEW x, NEW y
  PROVE  Called(w, action, x, y) =
           [position |-> GenerateSuccessor(g, i, action), agent |-> NextAgent(g, i),
            alpha |-> x, beta |-> y]
<1> DEFINE h == GenerateSuccessor(g, i, action)
           j == NextAgent(g, i)
           t == [position |-> h, agent |-> j, alpha |-> a, beta |-> b]
<1>1. w.position = g /\ w.agent = i
  OBVIOUS
<1>2. GenerateSuccessor(w.position, w.agent, action) = h /\ (w.agent + 1) % NumAgents(w.position) = j
  BY <1>1 DEF NextAgent
<1> HIDE DEF h, j
<1>3. Advance(w, action) = [w EXCEPT !.position = h, !.agent = j]
  BY <1>2 DEF Advance
<1>4. Advance(w, action) = t
  BY <1>3
<1>5. [t EXCEPT !.alpha = x] = [position |-> h, agent |-> j, alpha |-> x, beta |-> b]
  OBVIOUS
<1>6. [[position |-> h, agent |-> j, alpha |-> x, beta |-> b] EXCEPT !.beta = y]
        = [position |-> h, agent |-> j, alpha |-> x, beta |-> y]
  OBVIOUS
<1> HIDE DEF t
<1>7. [t EXCEPT !.alpha = x, !.beta = y] = [position |-> h, agent |-> j, alpha |-> x, beta |-> y]
  BY <1>5, <1>6
<1> QED BY <1>4, <1>7 DEF Called, h, j

LEMMA AtNode ==
  ASSUME NEW n \in Nat, NEW g, Sound(g), NEW i \in Agents(g), ~Leaf(g, n),
         NEW a \in SUBSET Int, NEW b \in SUBSET Int
  PROVE  /\ n - 1 \in Nat
         /\ Value(n, g, i) = IF i = 0 THEN Best(Values(n - 1, g, i)) ELSE Worst(Values(n - 1, g, i))
         /\ Pruned(n, g, i, a, b) =
              Loop(AlphaBeta[n - 1][g.layout],
                   [position |-> g, agent |-> i, alpha |-> a, beta |-> b]).ans
<1> DEFINE l == g.layout
           v == [position |-> g, agent |-> i]
           w == [position |-> g, agent |-> i, alpha |-> a, beta |-> b]
           values == {Minimax[n - 1][l][Advance(v, action)] : action \in LegalActions(g, i)}
<1>1. l \in Layout /\ v \in View(l) /\ w \in Bounded(l) /\ Live(g) /\ n - 1 \in Nat
  BY PositionIs DEF View, Bounded, Sound, Leaf
<1>2. v.position = g /\ v.agent = i /\ w.position = g
  OBVIOUS
<1>3. Value(n, g, i) = MinimaxLevel(Minimax[n - 1], n)[l][v]
  BY MinimaxIs DEF Value
<1>4. Pruned(n, g, i, a, b) = AlphaBetaLevel(AlphaBeta[n - 1], n)[l][w]
  BY AlphaBetaIs DEF Pruned
<1>5. values = Values(n - 1, g, i)
  <2>1. ASSUME NEW action \in LegalActions(g, i)
        PROVE  Minimax[n - 1][l][Advance(v, action)]
                 = Value(n - 1, GenerateSuccessor(g, i, action), NextAgent(g, i))
    <3>1. Advance(v, action) = [position |-> GenerateSuccessor(g, i, action),
                                agent |-> NextAgent(g, i)]
      BY AdvanceIs
    <3>2. GenerateSuccessor(g, i, action).layout = l
      BY <1>1, SuccessorIs
    <3> HIDE DEF v, l
    <3> QED BY <3>1, <3>2 DEF Value
  <2> QED BY <2>1 DEF Values
<1> HIDE DEF l, v, w
<1>6. MinimaxLevel(Minimax[n - 1], n)[l][v] = IF i = 0 THEN Best(values) ELSE Worst(values)
  BY <1>1, <1>2 DEF MinimaxLevel
<1>7. AlphaBetaLevel(AlphaBeta[n - 1], n)[l][w] = Loop(AlphaBeta[n - 1][l], w).ans
  BY <1>1, <1>2 DEF AlphaBetaLevel
<1> HIDE DEF values
<1> QED BY <1>1, <1>3, <1>4, <1>5, <1>6, <1>7 DEF l, w

-----------------------------------------------------------------------------
\* Bounds as numbers: None is a bound beyond every score.
Low(S, a) == S = {a} \/ (S = {} /\ a = -Infinity)
High(S, b) == S = {b} \/ (S = {} /\ b = Infinity)
Above(x, y) == IF x <= y THEN y ELSE x
Below(x, y) == IF x <= y THEN x ELSE y

LEMMA BestIs ==
  ASSUME NEW S \in SUBSET Int, NEW m \in S, \A w \in S : w <= m
  PROVE  Best(S) = m
<1> DEFINE IsBest(v) == v \in S /\ \A w \in S : w <= v
<1>1. \A v : IsBest(v) => v = m
  <2> TAKE v
  <2>1. HAVE IsBest(v)
  <2>2. v \in Int /\ m \in Int /\ v <= m /\ m <= v
    BY <2>1
  <2> QED BY <2>2
<1>2. IsBest(m)
  OBVIOUS
<1> HIDE DEF IsBest
<1>3. (CHOOSE v : IsBest(v)) = m
  BY <1>1, <1>2
<1>4. Best(S) = CHOOSE v : IsBest(v)
  BY DEF Best, IsBest
<1> QED BY <1>3, <1>4

LEMMA WorstIs ==
  ASSUME NEW S \in SUBSET Int, NEW m \in S, \A w \in S : m <= w
  PROVE  Worst(S) = m
<1> DEFINE IsWorst(v) == v \in S /\ \A w \in S : v <= w
<1>1. \A v : IsWorst(v) => v = m
  <2> TAKE v
  <2>1. HAVE IsWorst(v)
  <2>2. v \in Int /\ m \in Int /\ v <= m /\ m <= v
    BY <2>1
  <2> QED BY <2>2
<1>2. IsWorst(m)
  OBVIOUS
<1> HIDE DEF IsWorst
<1>3. (CHOOSE v : IsWorst(v)) = m
  BY <1>1, <1>2
<1>4. Worst(S) = CHOOSE v : IsWorst(v)
  BY DEF Worst, IsWorst
<1> QED BY <1>3, <1>4

LEMMA BestOfTwo ==
  ASSUME NEW x \in Int, NEW y \in Int
  PROVE  Best({x, y}) = Above(x, y) /\ Worst({x, y}) = Below(x, y)
<1>1. Best({x, y}) = Above(x, y)
  <2> DEFINE S == {x, y}
             m == Above(x, y)
  <2>1. S \in SUBSET Int /\ m \in S /\ \A w \in S : w <= m
    BY DEF Above
  <2> HIDE DEF S, m
  <2>2. Best(S) = m
    BY <2>1, BestIs
  <2> QED BY <2>2 DEF S, m
<1>2. Worst({x, y}) = Below(x, y)
  <2> DEFINE S == {x, y}
             m == Below(x, y)
  <2>1. S \in SUBSET Int /\ m \in S /\ \A w \in S : m <= w
    BY DEF Below
  <2> HIDE DEF S, m
  <2>2. Worst(S) = m
    BY <2>1, WorstIs
  <2> QED BY <2>2 DEF S, m
<1> QED BY <1>1, <1>2

LEMMA BoundAfter ==
  ASSUME NEW S, NEW c \in Int, NEW x \in Int
  PROVE  /\ Low(S, c) /\ -Infinity <= x => Best(S \cup {x}) = Above(c, x)
         /\ High(S, c) /\ x <= Infinity => Worst(S \cup {x}) = Below(c, x)
<1>1. Infinity \in Nat
  BY LookAheadAssumption
<1>2. CASE S = {c}
  <2>1. S \cup {x} = {c, x}
    BY <1>2
  <2> QED BY <2>1, BestOfTwo
<1>3. CASE S = {}
  <2>1. S \cup {x} = {x, x}
    BY <1>3
  <2>2. Best(S \cup {x}) = Above(x, x) /\ Worst(S \cup {x}) = Below(x, x)
    BY <2>1, BestOfTwo
  <2>3. S # {c}
    BY <1>3
  <2> QED BY <1>1, <2>2, <2>3 DEF Above, Below, Low, High
<1> QED BY <1>2, <1>3 DEF Low, High

\* What a pruned value r says of the value m, between bounds a and b: the same value, or
\* on which side of them it is.
Exact(m, r, a, b) ==
  /\ m < a => m <= r /\ r < a
  /\ m > b => b < r /\ r <= m
  /\ a <= m /\ m <= b => r = m

LEMMA ContinueIs ==
  ASSUME NEW s, NEW score \in Int, NEW action, s.ans \in Int, NEW c \in Int, NEW d \in Int,
         Low(s.alpha, c), High(s.beta, d), -Infinity <= s.ans, s.ans <= Infinity,
         -Infinity <= score, score <= Infinity
  PROVE  /\ LET t == Continue(0, action, score, s)
            IN  /\ t.ans = Above(s.ans, score) /\ t.beta = s.beta
                /\ Low(t.alpha, Above(c, t.ans))
                /\ t.best = IF score > s.ans THEN action ELSE s.best
                /\ t.returned \in BOOLEAN /\ (t.returned <=> t.ans > d)
         /\ \A i : i # 0 =>
              LET t == Continue(i, action, score, s)
              IN  /\ t.ans = Below(s.ans, score) /\ t.alpha = s.alpha
                  /\ High(t.beta, Below(d, t.ans))
                  /\ t.returned \in BOOLEAN /\ (t.returned <=> t.ans < c)
<1>1. Infinity \in Nat /\ Above(s.ans, score) \in Int /\ Below(s.ans, score) \in Int
  BY LookAheadAssumption DEF Above, Below
<1>2. /\ -Infinity <= Above(s.ans, score) /\ Above(s.ans, score) <= Infinity
      /\ -Infinity <= Below(s.ans, score) /\ Below(s.ans, score) <= Infinity
  BY <1>1 DEF Above, Below
<1>3. /\ Best({s.ans, score}) = Above(s.ans, score)
      /\ Worst({s.ans, score}) = Below(s.ans, score)
  BY BestOfTwo
<1>4. /\ Best(s.alpha \cup {Above(s.ans, score)}) = Above(c, Above(s.ans, score))
      /\ Worst(s.beta \cup {Below(s.ans, score)}) = Below(d, Below(s.ans, score))
  BY <1>1, <1>2, BoundAfter
<1>5. ASSUME NEW x \in Int, x <= Infinity PROVE (\E y \in s.beta : x > y) <=> x > d
  BY <1>1, <1>5 DEF High
<1>6. ASSUME NEW x \in Int, -Infinity <= x PROVE (\E y \in s.alpha : x < y) <=> x < c
  BY <1>1, <1>6 DEF Low
<1> DEFINE t == Continue(0, action, score, s)
           x == Above(s.ans, score)
           z == Below(s.ans, score)
<1>7. /\ t.ans = x /\ t.beta = s.beta /\ t.alpha = {Above(c, x)}
      /\ t.best = IF score > s.ans THEN action ELSE s.best
      /\ t.returned = Prunes(0, x, s.alpha, s.beta)
  BY <1>3, <1>4 DEF Continue
<1>8. Prunes(0, x, s.alpha, s.beta) \in BOOLEAN /\ (Prunes(0, x, s.alpha, s.beta) <=> x > d)
  <2> HIDE DEF x
  <2> QED BY <1>1, <1>2, <1>5 DEF Prunes, x
<1>9. ASSUME NEW i, i # 0
      PROVE  LET u == Continue(i, action, score, s)
             IN  /\ u.ans = z /\ u.alpha = s.alpha /\ u.beta = {Below(d, z)}
                 /\ u.returned = Prunes(i, z, s.alpha, s.beta)
  BY <1>3, <1>4, <1>9 DEF Continue
<1>10. ASSUME NEW i, i # 0
       PROVE  /\ Prunes(i, z, s.alpha, s.beta) \in BOOLEAN
              /\ Prunes(i, z, s.alpha, s.beta) <=> z < c
  BY <1>1, <1>2, <1>6, <1>10 DEF Prunes
<1> HIDE DEF x, z, t
<1>11. /\ t.ans = x /\ t.beta = s.beta /\ Low(t.alpha, Above(c, t.ans))
       /\ t.best = IF score > s.ans THEN action ELSE s.best
       /\ t.returned \in BOOLEAN /\ (t.returned <=> t.ans > d)
  BY <1>7, <1>8 DEF Low
<1>12. ASSUME NEW i, i # 0
       PROVE  LET u == Continue(i, action, score, s)
              IN  /\ u.ans = z /\ u.alpha = s.alpha /\ High(u.beta, Below(d, u.ans))
                  /\ u.returned \in BOOLEAN /\ (u.returned <=> u.ans < c)
  BY <1>9, <1>10, <1>12 DEF High
<1> QED BY <1>11, <1>12 DEF t, x, z

-----------------------------------------------------------------------------
\* That Score has, for each legal action of w, whatever the bounds are, what is exact
\* between them about the action's value.
Faithful(Score, w, legal, val) ==
  \A k \in 1 .. Len(legal) :
    /\ val[k] \in Int /\ -Infinity < val[k] /\ val[k] < Infinity
    /\ \A x, y : \A c, d \in Int :
         Low(x, c) /\ High(y, d) /\ -Infinity <= c /\ c <= d /\ d <= Infinity =>
           LET r == Score[Called(w, legal[k], x, y)] IN r \in Int /\ Exact(val[k], r, c, d)

\* The greatest and the least of the first k values.
TopOf(val, k, top) ==
  /\ \A j \in 1 .. k : val[j] <= top
  /\ IF k = 0 THEN top = -Infinity ELSE \E j \in 1 .. k : val[j] = top
BottomOf(val, k, bottom) ==
  /\ \A j \in 1 .. k : bottom <= val[j]
  /\ IF k = 0 THEN bottom = Infinity ELSE \E j \in 1 .. k : val[j] = bottom

\* Who reached the top first.
FirstOf(val, legal, k, top, best) ==
  IF k = 0 THEN best = legal[1]
  ELSE \E j \in 1 .. k : /\ best = legal[j] /\ val[j] = top
                         /\ \A i \in 1 .. j - 1 : val[i] < top

LEMMA TopNext ==
  ASSUME NEW val, NEW k \in Nat, NEW top \in Int, TopOf(val, k, top),
         \A j \in 1 .. k + 1 : val[j] \in Int /\ -Infinity < val[j] /\ val[j] < Infinity
  PROVE  /\ TopOf(val, k + 1, Above(top, val[k + 1])) /\ Above(top, val[k + 1]) \in Int
         /\ -Infinity <= top /\ top < Infinity /\ -Infinity < Above(top, val[k + 1])
<1>1. /\ Infinity \in Nat /\ k + 1 \in 1 .. k + 1 /\ k + 1 # 0 /\ val[k + 1] \in Int
      /\ \A j \in 1 .. k : j \in 1 .. k + 1 /\ val[j] \in Int
      /\ \A j \in 1 .. k + 1 : j \in 1 .. k \/ j = k + 1
  BY LookAheadAssumption
<1>2. -Infinity <= top /\ top < Infinity
  <2>1. CASE k = 0
    BY <1>1, <2>1 DEF TopOf
  <2>2. CASE k # 0
    <3>1. PICK j \in 1 .. k : val[j] = top
      BY <2>2 DEF TopOf
    <3> QED BY <1>1, <3>1
  <2> QED BY <2>1, <2>2
<1> DEFINE m == val[k + 1]
           n == k + 1
<1>3. m \in Int /\ -Infinity < m /\ m < Infinity /\ n # 0 /\ n \in 1 .. n
  BY <1>1
<1>4. \A j \in 1 .. n : val[j] <= Above(top, m)
  <2> TAKE j \in 1 .. n
  <2>1. val[j] \in Int /\ (val[j] <= top \/ val[j] = m)
    BY <1>1 DEF TopOf
  <2> HIDE DEF m
  <2> QED BY <1>3, <2>1 DEF Above
<1>5. \E j \in 1 .. n : val[j] = Above(top, m)
  <2>1. CASE top <= m
    BY <1>3, <2>1 DEF Above
  <2>2. CASE ~(top <= m)
    <3>1. k # 0
      BY <1>3, <2>2 DEF TopOf
    <3>2. PICK j \in 1 .. k : val[j] = top
      BY <3>1 DEF TopOf
    <3> QED BY <1>1, <2>2, <3>2 DEF Above
  <2> QED BY <2>1, <2>2
<1>6. Above(top, m) \in Int /\ -Infinity < Above(top, m)
  <2> HIDE DEF m
  <2> QED BY <1>1, <1>2, <1>3 DEF Above
<1> QED BY <1>2, <1>3, <1>4, <1>5, <1>6 DEF TopOf

LEMMA BottomNext ==
  ASSUME NEW val, NEW k \in Nat, NEW bottom \in Int, BottomOf(val, k, bottom),
         \A j \in 1 .. k + 1 : val[j] \in Int /\ -Infinity < val[j] /\ val[j] < Infinity
  PROVE  /\ BottomOf(val, k + 1, Below(bottom, val[k + 1])) /\ Below(bottom, val[k + 1]) \in Int
         /\ -Infinity < bottom /\ bottom <= Infinity /\ Below(bottom, val[k + 1]) < Infinity
<1>1. /\ Infinity \in Nat /\ k + 1 \in 1 .. k + 1 /\ k + 1 # 0 /\ val[k + 1] \in Int
      /\ \A j \in 1 .. k : j \in 1 .. k + 1 /\ val[j] \in Int
      /\ \A j \in 1 .. k + 1 : j \in 1 .. k \/ j = k + 1
  BY LookAheadAssumption
<1>2. -Infinity < bottom /\ bottom <= Infinity
  <2>1. CASE k = 0
    <3>1. Infinity # 0
      BY <1>1
    <3> QED BY <1>1, <2>1, <3>1 DEF BottomOf
  <2>2. CASE k # 0
    <3>1. PICK j \in 1 .. k : val[j] = bottom
      BY <2>2 DEF BottomOf
    <3> QED BY <1>1, <3>1
  <2> QED BY <2>1, <2>2
<1> DEFINE m == val[k + 1]
           n == k + 1
<1>3. m \in Int /\ -Infinity < m /\ m < Infinity /\ n # 0 /\ n \in 1 .. n
  BY <1>1
<1>4. \A j \in 1 .. n : Below(bottom, m) <= val[j]
  <2> TAKE j \in 1 .. n
  <2>1. val[j] \in Int /\ (bottom <= val[j] \/ val[j] = m)
    BY <1>1 DEF BottomOf
  <2> HIDE DEF m
  <2> QED BY <1>3, <2>1 DEF Below
<1>5. \E j \in 1 .. n : val[j] = Below(bottom, m)
  <2>1. CASE ~(bottom <= m)
    BY <1>3, <2>1 DEF Below
  <2>2. CASE bottom <= m
    <3>1. k # 0
      BY <1>3, <2>2 DEF BottomOf
    <3>2. PICK j \in 1 .. k : val[j] = bottom
      BY <3>1 DEF BottomOf
    <3> QED BY <1>1, <2>2, <3>2 DEF Below
  <2> QED BY <2>1, <2>2
<1>6. Below(bottom, m) \in Int /\ Below(bottom, m) < Infinity
  <2> HIDE DEF m
  <2> QED BY <1>1, <1>2, <1>3 DEF Below
<1> QED BY <1>2, <1>3, <1>4, <1>5, <1>6 DEF BottomOf

LEMMA FirstNext ==
  ASSUME NEW val, NEW legal, NEW k \in Nat, NEW top \in Int, TopOf(val, k, top),
         \A j \in 1 .. k + 1 : val[j] \in Int /\ -Infinity < val[j] /\ val[j] < Infinity,
         NEW best, FirstOf(val, legal, k, top, best)
  PROVE  FirstOf(val, legal, k + 1, Above(top, val[k + 1]),
                 IF val[k + 1] > top THEN legal[k + 1] ELSE best)
<1> DEFINE m == val[k + 1]
           n == k + 1
<1>1. /\ m \in Int /\ n # 0 /\ n \in 1 .. n /\ k = n - 1 /\ n \in Nat /\ -Infinity < m
      /\ \A j \in 1 .. k : j \in 1 .. n /\ val[j] \in Int /\ val[j] <= top
  BY DEF TopOf
<1>2. CASE m > top
  <2>1. Above(top, m) = m
    BY <1>1, <1>2 DEF Above
  <2>2. \A i \in 1 .. n - 1 : val[i] < m
    <3> HIDE DEF m
    <3> QED BY <1>1, <1>2
  <2>3. FirstOf(val, legal, n, m, legal[n])
    BY <1>1, <2>2 DEF FirstOf
  <2> QED BY <1>2, <2>1, <2>3
<1>3. CASE ~(m > top)
  <2>1. Above(top, m) = top
    <3> HIDE DEF m
    <3> QED BY <1>1, <1>3 DEF Above
  <2>2. k # 0
    <3>1. ASSUME k = 0 PROVE FALSE
      <4>1. top = -Infinity
        BY <3>1 DEF TopOf
      <4> HIDE DEF m
      <4> QED BY <1>1, <1>3, <4>1
    <3> QED BY <3>1
  <2>3. PICK j \in 1 .. k : best = legal[j] /\ val[j] = top /\ \A i \in 1 .. j - 1 : val[i] < top
    BY <2>2 DEF FirstOf
  <2>4. FirstOf(val, legal, n, top, best)
    BY <1>1, <2>3 DEF FirstOf
  <2> QED BY <1>3, <2>1, <2>4
<1> QED BY <1>2, <1>3

-----------------------------------------------------------------------------
\* What Pacman's loop has found out after k rounds, of which the greatest value is top.
Raised(s, top, a, b) ==
  /\ s.ans \in Int /\ -Infinity <= s.ans /\ s.ans <= Infinity /\ Exact(top, s.ans, a, b)
  /\ s.returned \in BOOLEAN
  /\ s.returned => b < top
  /\ ~s.returned => top <= b /\ Low(s.alpha, Above(a, s.ans)) /\ High(s.beta, b)

\* And a ghost's loop.
Lowered(s, bottom, a, b) ==
  /\ s.ans \in Int /\ -Infinity <= s.ans /\ s.ans <= Infinity /\ Exact(bottom, s.ans, a, b)
  /\ s.returned \in BOOLEAN
  /\ s.returned => bottom < a
  /\ ~s.returned => a <= bottom /\ Low(s.alpha, a) /\ High(s.beta, Below(b, s.ans))

Window(c, d) == c \in Int /\ d \in Int /\ -Infinity <= c /\ c <= d /\ d <= Infinity

\* A round, in which the call's score is as exact as its bounds are.
Goes(Score, w, legal, val, k, s, c, d) ==
  \E r \in Int :
    /\ -Infinity <= r /\ r <= Infinity /\ Exact(val[k], r, c, d)
    /\ LoopAfter(Score, w)[k] = Continue(w.agent, legal[k], r, s)

LEMMA RoundIs ==
  ASSUME NEW Score, NEW w, NEW legal, legal = ActionList(w.position, w.agent), NEW val,
         Faithful(Score, w, legal, val), NEW k \in 1 .. Len(legal), Len(legal) \in Nat,
         NEW s, s = LoopAfter(Score, w)[k - 1],
         NEW c, NEW d, Window(c, d), ~s.returned, Low(s.alpha, c), High(s.beta, d)
  PROVE  Goes(Score, w, legal, val, k, s, c, d)
<1> DEFINE t == LoopAfter(Score, w)[k]
           r == Score[Called(w, legal[k], s.alpha, s.beta)]
           m == val[k]
<1>1. k \in Nat \ {0} /\ Infinity \in Nat
  BY LookAheadAssumption
<1>2. m \in Int /\ -Infinity < m /\ m < Infinity /\ r \in Int /\ Exact(m, r, c, d)
  BY <1>1 DEF Faithful, Window
<1>3. t = LoopRound(Score, w, s, k)
  BY <1>1, LoopIs
<1>4. Called(w, legal[k], s.alpha, s.beta) = Passed(w, legal[k], s)
  BY DEF Called, Passed
<1>5. t = Continue(w.agent, legal[k], r, s)
  BY <1>3, <1>4 DEF LoopRound
<1> HIDE DEF t, r, m
<1>6. -Infinity <= r /\ r <= Infinity
  BY <1>1, <1>2 DEF Exact, Window
<1> QED BY <1>2, <1>5, <1>6 DEF Goes, t, m

LEMMA LoopUp ==
  ASSUME NEW Score, NEW w, w.agent = 0, NEW legal, legal = ActionList(w.position, w.agent),
         NEW val, Faithful(Score, w, legal, val),
         Len(legal) \in Nat \ {0}, Head(legal) = legal[1],
         NEW a \in Int, NEW b \in Int, -Infinity <= a, a <= b, b <= Infinity,
         Low(w.alpha, a), High(w.beta, b)
  PROVE  \A k \in 0 .. Len(legal) : \E top \in Int :
           /\ TopOf(val, k, top) /\ Raised(LoopAfter(Score, w)[k], top, a, b)
           /\ a = -Infinity /\ b = Infinity =>
                FirstOf(val, legal, k, top, LoopAfter(Score, w)[k].best)
<1> DEFINE F(k) == LoopAfter(Score, w)[k]
           Found(k, top) ==
             /\ TopOf(val, k, top) /\ Raised(F(k), top, a, b)
             /\ a = -Infinity /\ b = Infinity => FirstOf(val, legal, k, top, F(k).best)
           len == Len(legal)
           S == {k \in Nat : k <= len => \E top \in Int : Found(k, top)}
<1>1. Infinity \in Nat /\ -Infinity \in Int
  BY LookAheadAssumption
<1>2. 0 \in S
  <2>1. F(0) = Enter(w)
    BY LoopIs
  <2>2. /\ F(0).ans = -Infinity /\ F(0).alpha = w.alpha /\ F(0).beta = w.beta
        /\ F(0).best = legal[1] /\ F(0).returned = FALSE
    BY <2>1 DEF Enter
  <2>3. TopOf(val, 0, -Infinity) /\ FirstOf(val, legal, 0, -Infinity, legal[1])
    BY DEF TopOf, FirstOf
  <2>4. Exact(-Infinity, -Infinity, a, b) /\ Above(a, -Infinity) = a
    BY <1>1 DEF Exact, Above
  <2> HIDE DEF F
  <2>5. Raised(F(0), -Infinity, a, b)
    <3>1. Low(F(0).alpha, Above(a, F(0).ans)) /\ High(F(0).beta, b)
      BY <2>2, <2>4
    <3>2. -Infinity <= -Infinity /\ -Infinity <= Infinity /\ -Infinity <= b
      BY <1>1
    <3> QED BY <1>1, <2>2, <2>4, <3>1, <3>2 DEF Raised
  <2>6. Found(0, -Infinity)
    BY <2>2, <2>3, <2>5
  <2> HIDE DEF Found
  <2> QED BY <1>1, <2>6
<1>3. ASSUME NEW k \in Nat, k \in S PROVE k + 1 \in S
  <2> SUFFICES ASSUME k + 1 <= len PROVE \E top \in Int : Found(k + 1, top)
    OBVIOUS
  <2>1. len \in Nat /\ k <= len /\ k + 1 \in Nat \ {0} /\ k + 1 - 1 = k
    OBVIOUS
  <2>2. PICK top \in Int : Found(k, top)
    BY <1>3, <2>1
  <2>3. \A j \in 1 .. k + 1 : val[j] \in Int /\ -Infinity < val[j] /\ val[j] < Infinity
    <3>1. \A j \in 1 .. k + 1 : j \in 1 .. len
      BY <2>1
    <3> QED BY <3>1 DEF Faithful
  <2> DEFINE m == val[k + 1]
  <2>4. /\ TopOf(val, k + 1, Above(top, m)) /\ Above(top, m) \in Int /\ top < Infinity
        /\ -Infinity <= top /\ m \in Int
    <3>1. k + 1 \in 1 .. k + 1
      OBVIOUS
    <3> QED BY <2>2, <2>3, <3>1, TopNext
  <2> DEFINE s == F(k)
             t == F(k + 1)
  <2>5. /\ s.ans \in Int /\ -Infinity <= s.ans /\ s.ans <= Infinity /\ Exact(top, s.ans, a, b)
        /\ s.returned \in BOOLEAN
        /\ s.returned => b < top
        /\ ~s.returned => top <= b /\ Low(s.alpha, Above(a, s.ans)) /\ High(s.beta, b)
    BY <2>2 DEF Raised
  <2>6. CASE s.returned
    <3>1. t = s
      <4>1. t = LoopRound(Score, w, s, k + 1)
        BY <2>1, LoopIs
      <4> QED BY <2>6, <4>1 DEF LoopRound
    <3> HIDE DEF s, t, m, F
    <3>2. b < Above(top, m) /\ Exact(Above(top, m), s.ans, a, b)
      BY <2>4, <2>5, <2>6 DEF Above, Exact
    <3>3. Raised(t, Above(top, m), a, b)
      BY <2>5, <2>6, <3>1, <3>2 DEF Raised
    <3>4. ~(b = Infinity)
      BY <1>1, <2>4, <2>5, <2>6
    <3> QED BY <2>4, <3>3, <3>4 DEF t, m
  <2>7. CASE ~s.returned
    <3> DEFINE c == Above(a, s.ans)
    <3>1. c \in Int /\ -Infinity <= c /\ c <= b /\ top <= b /\ Low(s.alpha, c) /\ High(s.beta, b)
      <4>1. top <= b /\ Low(s.alpha, c) /\ High(s.beta, b)
        BY <2>5, <2>7
      <4>2. c \in Int /\ -Infinity <= c /\ c <= b
        <5> HIDE DEF s
        <5> QED BY <1>1, <2>5, <4>1 DEF Above, Exact
      <4> QED BY <4>1, <4>2
    <3>2. PICK r \in Int :
            /\ -Infinity <= r /\ r <= Infinity /\ Exact(m, r, c, b)
            /\ t = Continue(0, legal[k + 1], r, s)
      <4> HIDE DEF c
      <4>1. Window(c, b)
        BY <3>1 DEF Window
      <4>2. k + 1 \in 1 .. len
        BY <2>1
      <4> DEFINE n == k + 1
      <4>3. s = LoopAfter(Score, w)[n - 1] /\ n \in 1 .. Len(legal) /\ Len(legal) \in Nat
        BY <2>1, <4>2
      <4> HIDE DEF n, s
      <4>4. Goes(Score, w, legal, val, n, s, c, b)
        BY <2>7, <3>1, <4>1, <4>3, RoundIs
      <4> QED BY <4>4 DEF Goes, n
    <3> HIDE DEF s, t, m, F
    <3>3. /\ t.ans = Above(s.ans, r) /\ t.beta = s.beta
          /\ Low(t.alpha, Above(c, t.ans))
          /\ t.best = IF r > s.ans THEN legal[k + 1] ELSE s.best
          /\ t.returned \in BOOLEAN /\ (t.returned <=> t.ans > b)
      <4> HIDE DEF c
      <4> QED BY <2>5, <3>1, <3>2, ContinueIs
    <3>4. /\ Exact(Above(top, m), Above(s.ans, r), a, b)
          /\ Above(s.ans, r) > b <=> Above(top, m) > b
          /\ Above(c, Above(s.ans, r)) = Above(a, Above(s.ans, r))
      <4> DEFINE x == s.ans
      <4>1. /\ x \in Int /\ Exact(top, x, a, b) /\ top <= b /\ m \in Int
            /\ Exact(m, r, Above(a, x), b) /\ c = Above(a, x)
        BY <2>4, <2>5, <3>1, <3>2
      <4> HIDE DEF x, c
      <4>2. /\ Exact(Above(top, m), Above(x, r), a, b)
            /\ Above(x, r) > b <=> Above(top, m) > b
            /\ Above(Above(a, x), Above(x, r)) = Above(a, Above(x, r))
        BY <4>1 DEF Exact, Above
      <4> QED BY <4>1, <4>2 DEF x
    <3>5. t.ans \in Int /\ -Infinity <= t.ans /\ t.ans <= Infinity
      BY <1>1, <2>5, <3>2, <3>3 DEF Above
    <3>6. Raised(t, Above(top, m), a, b)
      <4>1. Exact(Above(top, m), t.ans, a, b) /\ (t.returned <=> Above(top, m) > b)
        BY <3>3, <3>4
      <4>2. Low(t.alpha, Above(a, t.ans)) /\ High(t.beta, b)
        BY <3>1, <3>3, <3>4
      <4> QED BY <2>4, <3>3, <3>5, <4>1, <4>2 DEF Raised
    <3>7. ASSUME a = -Infinity, b = Infinity
          PROVE  FirstOf(val, legal, k + 1, Above(top, m), t.best)
      <4>1. FirstOf(val, legal, k, top, s.best)
        BY <2>2, <3>7 DEF s
      <4>2. s.ans = top /\ c = top
        BY <1>1, <2>4, <2>5, <3>7 DEF Exact, Above
      <4>3. r > s.ans <=> m > top
        <5> HIDE DEF c
        <5> QED BY <1>1, <2>4, <3>2, <4>2, <3>7 DEF Exact
      <4>4. t.best = IF m > top THEN legal[k + 1] ELSE s.best
        BY <3>3, <4>3
      <4> QED BY <2>2, <2>3, <4>1, <4>4, FirstNext DEF m
    <3> QED BY <2>4, <3>6, <3>7 DEF t, m
  <2> QED BY <2>5, <2>6, <2>7
<1>4. \A k \in Nat : k \in S
  <2> HIDE DEF S
  <2> QED BY <1>2, <1>3, NatIn
<1> QED BY <1>4

LEMMA LoopDown ==
  ASSUME NEW Score, NEW w, w.agent # 0, NEW legal, legal = ActionList(w.position, w.agent),
         NEW val, Faithful(Score, w, legal, val),
         Len(legal) \in Nat \ {0}, Head(legal) = legal[1],
         NEW a \in Int, NEW b \in Int, -Infinity <= a, a <= b, b <= Infinity,
         Low(w.alpha, a), High(w.beta, b)
  PROVE  \A k \in 0 .. Len(legal) : \E bottom \in Int :
           BottomOf(val, k, bottom) /\ Lowered(LoopAfter(Score, w)[k], bottom, a, b)
<1> DEFINE F(k) == LoopAfter(Score, w)[k]
           Found(k, bottom) == BottomOf(val, k, bottom) /\ Lowered(F(k), bottom, a, b)
           len == Len(legal)
           S == {k \in Nat : k <= len => \E bottom \in Int : Found(k, bottom)}
<1>1. Infinity \in Nat /\ -Infinity \in Int
  BY LookAheadAssumption
<1>2. 0 \in S
  <2>1. F(0) = Enter(w)
    BY LoopIs
  <2>2. /\ F(0).ans = Infinity /\ F(0).alpha = w.alpha /\ F(0).beta = w.beta
        /\ F(0).returned = FALSE
    BY <2>1 DEF Enter
  <2>3. BottomOf(val, 0, Infinity)
    BY DEF BottomOf
  <2>4. Exact(Infinity, Infinity, a, b) /\ Below(b, Infinity) = b
    BY <1>1 DEF Exact, Below
  <2> HIDE DEF F
  <2>5. Lowered(F(0), Infinity, a, b)
    <3>1. Low(F(0).alpha, a) /\ High(F(0).beta, Below(b, F(0).ans))
      BY <2>2, <2>4
    <3>2. /\ Infinity \in Int /\ -Infinity <= Infinity /\ Infinity <= Infinity
          /\ a <= Infinity
      BY <1>1
    <3>3. F(0).returned \in BOOLEAN /\ ~F(0).returned
      BY <2>2
    <3> QED BY <2>2, <2>4, <3>1, <3>2, <3>3 DEF Lowered
  <2>6. Found(0, Infinity)
    BY <2>2, <2>3, <2>5
  <2> HIDE DEF Found
  <2> QED BY <1>1, <2>6
<1>3. ASSUME NEW k \in Nat, k \in S PROVE k + 1 \in S
  <2> SUFFICES ASSUME k + 1 <= len PROVE \E bottom \in Int : Found(k + 1, bottom)
    OBVIOUS
  <2>1. len \in Nat /\ k <= len /\ k + 1 \in Nat \ {0} /\ k + 1 - 1 = k
    OBVIOUS
  <2>2. PICK bottom \in Int : Found(k, bottom)
    BY <1>3, <2>1
  <2>3. \A j \in 1 .. k + 1 : val[j] \in Int /\ -Infinity < val[j] /\ val[j] < Infinity
    <3>1. \A j \in 1 .. k + 1 : j \in 1 .. len
      BY <2>1
    <3> QED BY <3>1 DEF Faithful
  <2> DEFINE m == val[k + 1]
  <2>4. /\ BottomOf(val, k + 1, Below(bottom, m)) /\ Below(bottom, m) \in Int /\ -Infinity < bottom
        /\ bottom <= Infinity /\ m \in Int
    <3>1. k + 1 \in 1 .. k + 1
      OBVIOUS
    <3> QED BY <2>2, <2>3, <3>1, BottomNext
  <2> DEFINE s == F(k)
             t == F(k + 1)
  <2>5. /\ s.ans \in Int /\ -Infinity <= s.ans /\ s.ans <= Infinity /\ Exact(bottom, s.ans, a, b)
        /\ s.returned \in BOOLEAN
        /\ s.returned => bottom < a
        /\ ~s.returned => a <= bottom /\ Low(s.alpha, a) /\ High(s.beta, Below(b, s.ans))
    BY <2>2 DEF Lowered
  <2>6. CASE s.returned
    <3>1. t = s
      <4>1. t = LoopRound(Score, w, s, k + 1)
        BY <2>1, LoopIs
      <4> QED BY <2>6, <4>1 DEF LoopRound
    <3> HIDE DEF s, t, m, F
    <3>2. Below(bottom, m) < a /\ Exact(Below(bottom, m), s.ans, a, b)
      BY <2>4, <2>5, <2>6 DEF Below, Exact
    <3>3. Lowered(t, Below(bottom, m), a, b)
      BY <2>5, <2>6, <3>1, <3>2 DEF Lowered
    <3> QED BY <2>4, <3>3 DEF t, m
  <2>7. CASE ~s.returned
    <3> DEFINE c == Below(b, s.ans)
    <3>1. c \in Int /\ a <= c /\ c <= Infinity /\ a <= bottom /\ Low(s.alpha, a) /\ High(s.beta, c)
      <4>1. a <= bottom /\ Low(s.alpha, a) /\ High(s.beta, c)
        BY <2>5, <2>7
      <4>2. c \in Int /\ a <= c /\ c <= Infinity
        <5> HIDE DEF s
        <5> QED BY <1>1, <2>5, <4>1 DEF Below, Exact
      <4> QED BY <4>1, <4>2
    <3>2. PICK r \in Int :
            /\ -Infinity <= r /\ r <= Infinity /\ Exact(m, r, a, c)
            /\ t = Continue(w.agent, legal[k + 1], r, s)
      <4> HIDE DEF c
      <4>1. Window(a, c)
        BY <3>1 DEF Window
      <4>2. k + 1 \in 1 .. len
        BY <2>1
      <4> DEFINE n == k + 1
      <4>3. s = LoopAfter(Score, w)[n - 1] /\ n \in 1 .. Len(legal) /\ Len(legal) \in Nat
        BY <2>1, <4>2
      <4> HIDE DEF n, s
      <4>4. Goes(Score, w, legal, val, n, s, a, c)
        BY <2>7, <3>1, <4>1, <4>3, RoundIs
      <4> QED BY <4>4 DEF Goes, n
    <3> HIDE DEF s, t, m, F
    <3>3. /\ t.ans = Below(s.ans, r) /\ t.alpha = s.alpha
          /\ High(t.beta, Below(c, t.ans))
          /\ t.returned \in BOOLEAN /\ (t.returned <=> t.ans < a)
      <4> DEFINE u == Continue(w.agent, legal[k + 1], r, s)
      <4> HIDE DEF c
      <4>1. \A i : i # 0 =>
              LET v == Continue(i, legal[k + 1], r, s)
              IN  /\ v.ans = Below(s.ans, r) /\ v.alpha = s.alpha
                  /\ High(v.beta, Below(c, v.ans))
                  /\ v.returned \in BOOLEAN /\ (v.returned <=> v.ans < a)
        BY <2>5, <3>1, <3>2, ContinueIs
      <4>2. /\ u.ans = Below(s.ans, r) /\ u.alpha = s.alpha
            /\ High(u.beta, Below(c, u.ans))
            /\ u.returned \in BOOLEAN /\ (u.returned <=> u.ans < a)
        BY <4>1
      <4>3. u = t
        BY <3>2
      <4> HIDE DEF u
      <4> QED BY <4>2, <4>3
    <3>4. /\ Exact(Below(bottom, m), Below(s.ans, r), a, b)
          /\ Below(s.ans, r) < a <=> Below(bottom, m) < a
          /\ Below(c, Below(s.ans, r)) = Below(b, Below(s.ans, r))
      <4> DEFINE x == s.ans
      <4>1. /\ x \in Int /\ Exact(bottom, x, a, b) /\ a <= bottom /\ m \in Int
            /\ Exact(m, r, a, Below(b, x)) /\ c = Below(b, x)
        BY <2>4, <2>5, <3>1, <3>2
      <4> HIDE DEF x, c
      <4>2. /\ Exact(Below(bottom, m), Below(x, r), a, b)
            /\ Below(x, r) < a <=> Below(bottom, m) < a
            /\ Below(Below(b, x), Below(x, r)) = Below(b, Below(x, r))
        BY <4>1 DEF Exact, Below
      <4> QED BY <4>1, <4>2 DEF x
    <3>5. t.ans \in Int /\ -Infinity <= t.ans /\ t.ans <= Infinity
      BY <1>1, <2>5, <3>2, <3>3 DEF Below
    <3>6. Lowered(t, Below(bottom, m), a, b)
      <4>1. Exact(Below(bottom, m), t.ans, a, b) /\ (t.returned <=> Below(bottom, m) < a)
        BY <3>3, <3>4
      <4>2. Low(t.alpha, a) /\ High(t.beta, Below(b, t.ans))
        BY <3>1, <3>3, <3>4
      <4> QED BY <2>4, <3>3, <3>5, <4>1, <4>2 DEF Lowered
    <3> QED BY <2>4, <3>6 DEF t, m
  <2> QED BY <2>5, <2>6, <2>7
<1>4. \A k \in Nat : k \in S
  <2> HIDE DEF S
  <2> QED BY <1>2, <1>3, NatIn
<1> QED BY <1>4

-----------------------------------------------------------------------------
\* No score within n turns is beyond Infinity.
Room(g, n) ==
  /\ -Infinity < g.score - n * MaxChange(g.layout)
  /\ g.score + n * MaxChange(g.layout) < Infinity

\* The pruned look-ahead over n turns is exact between any bounds.
Precise(n, g, i, x, y, a, b) ==
  /\ Value(n, g, i) \in Int /\ -Infinity < Value(n, g, i) /\ Value(n, g, i) < Infinity
  /\ Pruned(n, g, i, x, y) \in Int
  /\ Exact(Value(n, g, i), Pruned(n, g, i, x, y), a, b)

Correct(n) ==
  \A g, i, x, y : \A a, b \in Int :
    Sound(g) /\ Room(g, n) /\ i \in Agents(g) /\ Low(x, a) /\ High(y, b) /\ Window(a, b) =>
      Precise(n, g, i, x, y, a, b)

LEMMA RoomShrinks ==
  ASSUME NEW g, GameOK(g), NEW n \in Nat, Room(g, n)
  PROVE  /\ -Infinity < g.score /\ g.score < Infinity
         /\ \A h : h.score \in Int /\ h.layout = g.layout /\ n # 0
                   /\ Changes(g, h, MaxChange(g.layout), MaxChange(g.layout)) => Room(h, n - 1)
<1> DEFINE c == MaxChange(g.layout)
           all == Len(g.layout.agents)
<1>1. c = 511 + 500 * all /\ all \in Nat /\ g.score \in Int /\ Infinity \in Nat
  BY AgentsAre, LookAheadAssumption DEF MaxChange, GameOK
<1>2. c \in Nat
  <2> HIDE DEF c, all
  <2> QED BY <1>1
<1>3. -Infinity < g.score - n * c /\ g.score + n * c < Infinity
  BY DEF Room
<1> HIDE DEF c
<1>4. n * c \in Nat /\ (n - 1) * c = n * c - c
  BY <1>2
<1> DEFINE p == n * c
           q == (n - 1) * c
<1>5. p \in Nat /\ q = p - c /\ -Infinity < g.score - p /\ g.score + p < Infinity
  BY <1>3, <1>4
<1> HIDE DEF p, q
<1>6. -Infinity < g.score /\ g.score < Infinity
  BY <1>1, <1>5
<1>7. ASSUME NEW h, h.score \in Int, h.layout = g.layout, n # 0, Changes(g, h, c, c)
      PROVE  Room(h, n - 1)
  <2>1. g.score - c <= h.score /\ h.score <= g.score + c /\ h.score \in Int
    BY <1>7 DEF Changes
  <2> DEFINE z == h.score
             o == g.score
  <2>2. /\ o - c <= z /\ z <= o + c /\ z \in Int /\ o \in Int /\ c \in Nat /\ p \in Nat
        /\ q = p - c /\ -Infinity < o - p /\ o + p < Infinity /\ Infinity \in Nat
    BY <1>1, <1>2, <1>5, <2>1
  <2> HIDE DEF z, o
  <2>3. -Infinity < z - q /\ z + q < Infinity
    BY <2>2
  <2>4. -Infinity < h.score - q /\ h.score + q < Infinity
    BY <2>3 DEF z
  <2> QED BY <1>7, <2>4 DEF Room, c, q
<1> QED BY <1>6, <1>7 DEF c

\* The values of the legal actions, in their order.
Scores(n, g, i) ==
  LET legal == ActionList(g, i)
  IN  [k \in 1 .. Len(legal) |->
         Value(n, GenerateSuccessor(g, i, legal[k]), NextAgent(g, i))]

LEMMA NodeFaithful ==
  ASSUME NEW n \in Nat, NEW g, Sound(g), Live(g), NEW i \in Agents(g), Correct(n),
         Room(g, n + 1), NEW x, NEW y
  PROVE  /\ Faithful(AlphaBeta[n][g.layout],
                     [position |-> g, agent |-> i, alpha |-> x, beta |-> y],
                     ActionList(g, i), Scores(n, g, i))
         /\ Values(n, g, i) = {Scores(n, g, i)[k] : k \in 1 .. Len(ActionList(g, i))}
<1> DEFINE l == g.layout
           legal == ActionList(g, i)
           w == [position |-> g, agent |-> i, alpha |-> x, beta |-> y]
           j == NextAgent(g, i)
           H(k) == GenerateSuccessor(g, i, legal[k])
<1>1. /\ Len(legal) \in Nat \ {0} /\ DOMAIN legal = 1 .. Len(legal)
      /\ Listed(legal) = LegalActions(g, i)
  BY ActionListIs
<1>2. GameOK(g) /\ n + 1 \in Nat /\ n + 1 # 0 /\ n + 1 - 1 = n
  BY DEF Sound
<1> HIDE DEF legal
<1>3. ASSUME NEW k \in 1 .. Len(legal)
      PROVE  /\ Sound(H(k)) /\ H(k).layout = l /\ Room(H(k), n) /\ j \in Agents(H(k))
  <2> DEFINE h == H(k)
  <2>1. legal[k] \in LegalActions(g, i)
    BY <1>1 DEF Listed
  <2>2. Sound(h) /\ h.layout = l /\ Changes(g, h, MaxChange(l), MaxChange(l))
    BY <2>1, SuccessorIs
  <2> HIDE DEF h
  <2>3. GameOK(h) /\ h.score \in Int
    BY <2>2 DEF Sound, GameOK
  <2>4. Room(h, n)
    <3>1. Room(h, n + 1 - 1)
      BY <1>2, <2>2, <2>3, RoomShrinks
    <3> QED BY <1>2, <3>1
  <2>5. Agents(h) = Agents(g) /\ j \in Agents(g)
    BY <1>2, <2>2, <2>3, PositionIs
  <2> QED BY <2>2, <2>4, <2>5 DEF h
<1>4. ASSUME NEW k \in 1 .. Len(legal), NEW u, NEW v
      PROVE  AlphaBeta[n][l][Called(w, legal[k], u, v)] = Pruned(n, H(k), j, u, v)
  <2> DEFINE h == H(k)
  <2>1. h.layout = l
    BY <1>3
  <2>2. Called(w, legal[k], u, v) = [position |-> h, agent |-> j, alpha |-> u, beta |-> v]
    BY CalledIs
  <2> HIDE DEF h, j, w, l
  <2>3. AlphaBeta[n][l][Called(w, legal[k], u, v)] = Pruned(n, h, j, u, v)
    BY <2>1, <2>2 DEF Pruned
  <2> QED BY <2>3 DEF h
<1>5. \A k \in 1 .. Len(legal) : Scores(n, g, i)[k] = Value(n, H(k), j)
  BY DEF Scores, legal
<1>6. ASSUME NEW k \in 1 .. Len(legal)
      PROVE  /\ Scores(n, g, i)[k] \in Int /\ -Infinity < Scores(n, g, i)[k]
             /\ Scores(n, g, i)[k] < Infinity
             /\ \A u, v : \A c, d \in Int :
                  Low(u, c) /\ High(v, d) /\ -Infinity <= c /\ c <= d /\ d <= Infinity =>
                    LET r == AlphaBeta[n][l][Called(w, legal[k], u, v)]
                    IN  r \in Int /\ Exact(Scores(n, g, i)[k], r, c, d)
  <2> DEFINE h == H(k)
             m == Scores(n, g, i)[k]
  <2>1. Sound(h) /\ Room(h, n) /\ j \in Agents(h) /\ m = Value(n, h, j)
    BY <1>3, <1>5
  <2>2. \A u, v : AlphaBeta[n][l][Called(w, legal[k], u, v)] = Pruned(n, h, j, u, v)
    BY <1>4
  <2> HIDE DEF h, j, w, l, m
  <2>3. ASSUME NEW u, NEW v, NEW c \in Int, NEW d \in Int, Low(u, c), High(v, d), Window(c, d)
        PROVE  /\ m \in Int /\ -Infinity < m /\ m < Infinity
               /\ Pruned(n, h, j, u, v) \in Int /\ Exact(m, Pruned(n, h, j, u, v), c, d)
    <3>1. Precise(n, h, j, u, v, c, d)
      BY <2>1, <2>3 DEF Correct
    <3> QED BY <2>1, <3>1 DEF Precise
  <2>4. m \in Int /\ -Infinity < m /\ m < Infinity
    <3>1. /\ -Infinity \in Int /\ Infinity \in Int /\ Low({}, -Infinity) /\ High({}, Infinity)
          /\ Window(-Infinity, Infinity)
      BY LookAheadAssumption DEF Low, High, Window
    <3> QED BY <2>3, <3>1
  <2>5. \A u, v : \A c, d \in Int :
          Low(u, c) /\ High(v, d) /\ -Infinity <= c /\ c <= d /\ d <= Infinity =>
            Pruned(n, h, j, u, v) \in Int /\ Exact(m, Pruned(n, h, j, u, v), c, d)
    BY <2>3 DEF Window
  <2> QED BY <2>2, <2>4, <2>5 DEF m
<1>7. Values(n, g, i) = {Scores(n, g, i)[k] : k \in 1 .. Len(legal)}
  <2>1. \A action \in LegalActions(g, i) : \E k \in 1 .. Len(legal) : action = legal[k]
    BY <1>1 DEF Listed
  <2>2. \A k \in 1 .. Len(legal) : legal[k] \in LegalActions(g, i)
    BY <1>1 DEF Listed
  <2> QED BY <1>5, <2>1, <2>2 DEF Values
<1> QED BY <1>6, <1>7 DEF Faithful, legal

\* The greatest value that is listed is the best of them, and the least the worst.
LEMMA ExtremesAre ==
  ASSUME NEW val, NEW len \in Nat \ {0}, \A k \in 1 .. len : val[k] \in Int,
         NEW S, S = {val[k] : k \in 1 .. len}
  PROVE  /\ \A top : TopOf(val, len, top) => Best(S) = top
         /\ \A bottom : BottomOf(val, len, bottom) => Worst(S) = bottom
<1>1. S \in SUBSET Int
  OBVIOUS
<1>2. ASSUME NEW top, TopOf(val, len, top) PROVE Best(S) = top
  <2>1. top \in S /\ \A v \in S : v <= top
    BY <1>2 DEF TopOf
  <2> QED BY <1>1, <2>1, BestIs
<1>3. ASSUME NEW bottom, BottomOf(val, len, bottom) PROVE Worst(S) = bottom
  <2>1. bottom \in S /\ \A v \in S : bottom <= v
    BY <1>3 DEF BottomOf
  <2> QED BY <1>1, <2>1, WorstIs
<1> QED BY <1>2, <1>3

LEMMA LeafCorrect ==
  ASSUME NEW n \in Nat, NEW g, NEW i \in Agents(g), GameOK(g), Leaf(g, n), Room(g, n),
         NEW x, NEW y, NEW a \in Int, NEW b \in Int, Low(x, a), High(y, b)
  PROVE  Precise(n, g, i, x, y, a, b)
<1> DEFINE m == g.score
<1>1. x \in SUBSET Int /\ y \in SUBSET Int
  BY DEF Low, High
<1>2. Value(n, g, i) = m /\ Pruned(n, g, i, x, y) = m
  BY <1>1, AtLeaf
<1>3. -Infinity < m /\ m < Infinity
  BY RoomShrinks
<1>4. m \in Int
  BY DEF GameOK
<1> HIDE DEF m
<1>5. Exact(m, m, a, b)
  BY <1>4 DEF Exact
<1> QED BY <1>2, <1>3, <1>4, <1>5 DEF Precise

LEMMA NodeCorrect == \A n \in Nat : Correct(n)
<1> DEFINE S == {n \in Nat : Correct(n)}
<1>2. Correct(0)
  <2>1. SUFFICES ASSUME NEW g, NEW i \in Agents(g), NEW x, NEW y, NEW a \in Int, NEW b \in Int,
                        Sound(g), Room(g, 0), Low(x, a), High(y, b), Window(a, b)
                 PROVE  Precise(0, g, i, x, y, a, b)
    BY DEF Correct
  <2>2. GameOK(g) /\ Leaf(g, 0)
    BY <2>1 DEF Sound, Leaf
  <2> QED BY <2>1, <2>2, LeafCorrect
<1>3. ASSUME NEW n \in Nat, Correct(n) PROVE Correct(n + 1)
  <2> DEFINE N == n + 1
  <2>1. N \in Nat /\ N - 1 = n
    OBVIOUS
  <2> HIDE DEF N
  <2>2. SUFFICES ASSUME NEW g, NEW i \in Agents(g), NEW x, NEW y, NEW a \in Int, NEW b \in Int,
                        Sound(g), Room(g, N), Low(x, a), High(y, b), Window(a, b)
                 PROVE  Precise(N, g, i, x, y, a, b)
    BY DEF Correct, N
  <2>3. CASE Leaf(g, N)
    <3>1. GameOK(g)
      BY <2>2 DEF Sound
    <3> QED BY <2>1, <2>2, <2>3, <3>1, LeafCorrect
  <2>4. CASE ~Leaf(g, N)
    <3> DEFINE legal == ActionList(g, i)
               w == [position |-> g, agent |-> i, alpha |-> x, beta |-> y]
               Score == AlphaBeta[n][g.layout]
               val == Scores(n, g, i)
               len == Len(legal)
               s == LoopAfter(Score, w)[len]
    <3>1. Live(g) /\ x \in SUBSET Int /\ y \in SUBSET Int /\ -Infinity <= a /\ a <= b /\ b <= Infinity
      BY <2>2, <2>4 DEF Leaf, Low, High, Window
    <3>2. /\ Value(N, g, i) = IF i = 0 THEN Best(Values(n, g, i)) ELSE Worst(Values(n, g, i))
          /\ Pruned(N, g, i, x, y) = Loop(Score, w).ans
      <4>1. /\ Value(N, g, i) = IF i = 0 THEN Best(Values(N - 1, g, i)) ELSE Worst(Values(N - 1, g, i))
            /\ Pruned(N, g, i, x, y) = Loop(AlphaBeta[N - 1][g.layout], w).ans
        BY <2>1, <2>2, <2>4, <3>1, AtNode
      <4> QED BY <2>1, <4>1
    <3>3. /\ Faithful(Score, w, legal, val)
          /\ Values(n, g, i) = {val[k] : k \in 1 .. len}
      <4>1. Room(g, n + 1)
        BY <2>2 DEF N
      <4> QED BY <1>3, <2>2, <3>1, <4>1, NodeFaithful
    <3>4. len \in Nat \ {0} /\ Head(legal) = legal[1] /\ len \in 0 .. len
      BY <2>2, <3>1, ActionListIs
    <3>5. \A k \in 1 .. len : val[k] \in Int /\ -Infinity < val[k] /\ val[k] < Infinity
      BY <3>3 DEF Faithful
    <3>6. w.position = g /\ w.agent = i /\ w.alpha = x /\ w.beta = y
      OBVIOUS
    <3>7. Loop(Score, w) = s
      <4>1. Loop(Score, w) = LoopAfter(Score, w)[Len(ActionList(w.position, w.agent))]
        BY LoopIs
      <4> QED BY <3>6, <4>1
    <3> HIDE DEF w, Score, val, legal
    <3>8. legal = ActionList(w.position, w.agent)
      BY <3>6 DEF legal
    <3>9. CASE i = 0
      <4>1. \A k \in 0 .. Len(legal) : \E top \in Int :
              TopOf(val, k, top) /\ Raised(LoopAfter(Score, w)[k], top, a, b)
        BY <2>2, <3>1, <3>3, <3>4, <3>6, <3>8, <3>9, LoopUp
      <4>2. PICK top \in Int : TopOf(val, len, top) /\ Raised(s, top, a, b)
        BY <3>4, <4>1
      <4> HIDE DEF s, len
      <4>3. Value(N, g, i) = top
        BY <3>2, <3>3, <3>4, <3>5, <3>9, <4>2, ExtremesAre
      <4>4. -Infinity < top /\ top < Infinity
        BY <3>4, <3>5, <4>2 DEF TopOf
      <4> QED BY <3>2, <3>7, <4>2, <4>3, <4>4 DEF Raised, Precise
    <3>10. CASE i # 0
      <4>1. \A k \in 0 .. Len(legal) : \E bottom \in Int :
              BottomOf(val, k, bottom) /\ Lowered(LoopAfter(Score, w)[k], bottom, a, b)
        BY <2>2, <3>1, <3>3, <3>4, <3>6, <3>8, <3>10, LoopDown
      <4>2. PICK bottom \in Int : BottomOf(val, len, bottom) /\ Lowered(s, bottom, a, b)
        BY <3>4, <4>1
      <4> HIDE DEF s, len
      <4>3. Value(N, g, i) = bottom
        BY <3>2, <3>3, <3>4, <3>5, <3>10, <4>2, ExtremesAre
      <4>4. -Infinity < bottom /\ bottom < Infinity
        BY <3>4, <3>5, <4>2 DEF BottomOf
      <4> QED BY <3>2, <3>7, <4>2, <4>3, <4>4 DEF Lowered, Precise
    <3> QED BY <3>9, <3>10
  <2> QED BY <2>3, <2>4
<1>4. \A n \in Nat : n \in S
  <2>1. 0 \in S /\ \A n \in Nat : n \in S => n + 1 \in S
    BY <1>2, <1>3
  <2> HIDE DEF S
  <2> QED BY <2>1, NatIn
<1> QED BY <1>4

\* At the root both look-aheads choose the first action of the greatest value.
LEMMA SameAction ==
  ASSUME NEW g, Sound(g), Live(g), NEW depth \in Nat \ {0}, Room(g, depth * NumAgents(g))
  PROVE  AlphaBetaAction(g, depth) = MinimaxAction(g, depth)
<1> DEFINE n == Turns(g, depth)
           l == g.layout
           legal == ActionList(g, 0)
           len == Len(legal)
           w == [position |-> g, agent |-> 0, alpha |-> {}, beta |-> {}]
           root == [position |-> g, agent |-> 0]
           Score == AlphaBeta[n][l]
           val == Scores(n, g, 0)
           value == [k \in DOMAIN legal |-> Minimax[n][l][Advance(root, legal[k])]]
           Earliest(k) == k \in DOMAIN legal /\ \A j \in DOMAIN legal :
                            value[j] < value[k] \/ (value[j] = value[k] /\ k <= j)
<1>1. n \in Nat /\ n + 1 = depth * NumAgents(g) /\ 0 \in Agents(g)
  <2> DEFINE m == NumAgents(g)
  <2>1. m \in Nat \ {0} /\ 0 \in Agents(g)
    BY AgentsAre, AgentsCount DEF Sound, NumAgents, Numbers
  <2>2. n = depth * m - 1
    BY DEF Turns
  <2> HIDE DEF m
  <2>3. depth * m \in Nat \ {0}
    BY <2>1
  <2> DEFINE p == depth * m
  <2>4. n = p - 1 /\ p \in Nat \ {0}
    BY <2>2, <2>3
  <2> HIDE DEF p, n
  <2>5. n \in Nat /\ n + 1 = p
    BY <2>4
  <2> QED BY <2>1, <2>5 DEF p, m
<1>2. AlphaBetaAction(g, depth) = Loop(Score, w).best
  BY DEF AlphaBetaAction
<1>3. MinimaxAction(g, depth) = legal[CHOOSE k : Earliest(k)]
  BY DEF MinimaxAction
<1> HIDE DEF n
<1>4. Room(g, n + 1)
  BY <1>1
<1>5. Faithful(Score, w, legal, val)
  BY <1>1, <1>4, NodeCorrect, NodeFaithful
<1>6. /\ len \in Nat \ {0} /\ DOMAIN legal = 1 .. len /\ len \in 0 .. len
      /\ Listed(legal) = LegalActions(g, 0) /\ Head(legal) = legal[1]
  BY <1>1, ActionListIs
<1>7. \A k \in 1 .. len : value[k] = val[k]
  <2> SUFFICES ASSUME NEW k \in 1 .. len PROVE value[k] = val[k]
    OBVIOUS
  <2> DEFINE h == GenerateSuccessor(g, 0, legal[k])
             j == NextAgent(g, 0)
  <2>1. legal[k] \in LegalActions(g, 0)
    BY <1>6 DEF Listed
  <2>2. h.layout = l
    BY <1>1, <2>1, SuccessorIs
  <2>3. \A action : Advance(root, action) =
                      [position |-> GenerateSuccessor(g, 0, action), agent |-> NextAgent(g, 0)]
    <3> TAKE action
    <3> QED BY AdvanceIs
  <2>4. Advance(root, legal[k]) = [position |-> h, agent |-> j]
    BY <2>3
  <2>5. value[k] = Minimax[n][l][Advance(root, legal[k])]
    BY <1>6
  <2>6. val[k] = Value(n, h, j)
    BY DEF Scores
  <2> HIDE DEF h, j, l, root, value, val
  <2>7. value[k] = Minimax[n][l][[position |-> h, agent |-> j]]
    BY <2>4, <2>5
  <2> QED BY <2>2, <2>6, <2>7 DEF Value
<1>8. w.position = g /\ w.agent = 0 /\ w.alpha = {} /\ w.beta = {}
  OBVIOUS
<1> DEFINE s == LoopAfter(Score, w)[len]
<1>9. Loop(Score, w) = s
  <2>1. Loop(Score, w) = LoopAfter(Score, w)[Len(ActionList(w.position, w.agent))]
    BY LoopIs
  <2> QED BY <1>8, <2>1
<1> HIDE DEF w, Score, val, value, legal
<1>10. PICK top \in Int : TopOf(val, len, top) /\ FirstOf(val, legal, len, top, s.best)
  <2> DEFINE a == -Infinity
             b == Infinity
  <2>1. a \in Int /\ b \in Int /\ -Infinity <= a /\ a <= b /\ b <= Infinity
    BY LookAheadAssumption
  <2>2. Low(w.alpha, a) /\ High(w.beta, b)
    BY <1>8 DEF Low, High
  <2>3. legal = ActionList(w.position, w.agent)
    BY <1>8 DEF legal
  <2>4. a = -Infinity /\ b = Infinity
    OBVIOUS
  <2> HIDE DEF a, b
  <2>5. \A k \in 0 .. Len(legal) : \E top \in Int :
          /\ TopOf(val, k, top) /\ Raised(LoopAfter(Score, w)[k], top, a, b)
          /\ a = -Infinity /\ b = Infinity =>
               FirstOf(val, legal, k, top, LoopAfter(Score, w)[k].best)
    BY <1>5, <1>6, <1>8, <2>1, <2>2, <2>3, LoopUp
  <2> QED BY <1>6, <2>4, <2>5
<1>11. \A k \in 1 .. len : val[k] \in Int
  BY <1>5 DEF Faithful
<1> HIDE DEF s
<1>12. PICK j \in 1 .. len : /\ s.best = legal[j] /\ val[j] = top
                             /\ \A i \in 1 .. j - 1 : val[i] < top
  <2> HIDE DEF len
  <2> QED BY <1>6, <1>10 DEF FirstOf
<1>13. \A i \in 1 .. len : val[i] <= top
  BY <1>10 DEF TopOf
<1> HIDE DEF len
<1>14. Earliest(j)
  <2>1. ASSUME NEW i \in 1 .. len PROVE val[i] < val[j] \/ (val[i] = val[j] /\ j <= i)
    <3>1. CASE i < j
      <4>1. i \in 1 .. j - 1
        BY <1>6, <3>1
      <4> QED BY <1>12, <4>1
    <3>2. CASE ~ (i < j)
      <4>1. j <= i
        BY <1>6, <3>2
      <4>2. val[i] \in Int /\ val[j] = top /\ val[i] <= top
        BY <1>11, <1>12, <1>13
      <4> QED BY <4>1, <4>2
    <3> QED BY <3>1, <3>2
  <2> QED BY <1>6, <1>7, <2>1
<1>15. \A k : Earliest(k) => k = j
  <2> TAKE k
  <2>1. HAVE Earliest(k)
  <2>2. k \in 1 .. len /\ j \in 1 .. len /\ val[k] \in Int /\ val[j] \in Int
    BY <1>6, <1>11, <2>1
  <2>3. val[j] < val[k] \/ (val[j] = val[k] /\ k <= j)
    BY <1>6, <1>7, <2>1, <2>2
  <2>4. val[k] < val[j] \/ (val[k] = val[j] /\ j <= k)
    BY <1>6, <1>7, <1>14, <2>2
  <2> DEFINE p == val[k]
             q == val[j]
  <2>5. p \in Int /\ q \in Int /\ (q < p \/ (q = p /\ k <= j)) /\ (p < q \/ (p = q /\ j <= k))
    BY <2>2, <2>3, <2>4
  <2> HIDE DEF p, q
  <2> QED BY <1>6, <2>2, <2>5
<1> HIDE DEF Earliest
<1>16. (CHOOSE k : Earliest(k)) = j
  BY <1>14, <1>15
<1> QED BY <1>2, <1>3, <1>9, <1>12, <1>16

-----------------------------------------------------------------------------
\* The score cannot have changed by more than so much a move, and Pacman, who has no
\* plan, is not given more than MaxMoves of them.
Paced ==
  /\ game.score - moves * MaxChange(game.layout) <= 0
  /\ 0 <= game.score + moves * MaxChange(game.layout)
  /\ moves < MaxMoves + (IF agentIndex = 0 THEN Len(game.layout.agents) ELSE agentIndex)

LEMMA MaxChangeIs ==
  ASSUME NEW g, GameOK(g)
  PROVE  MaxChange(g.layout) \in Nat /\ Len(g.layout.agents) \in Nat \ {0}
<1> DEFINE n == Len(g.layout.agents)
<1>1. n \in Nat \ {0}
  BY AgentsAre DEF Numbers
<1> HIDE DEF n
<1>2. 511 + 500 * n \in Nat
  BY <1>1
<1> QED BY <1>1, <1>2 DEF MaxChange, n

LEMMA PacedAtFirst ==
  ASSUME NEW l \in Layout, game = NewGame(l), agentIndex = 0, moves = 0
  PROVE  Paced
<1>1. GameOK(game) /\ game.score = 0 /\ game.layout = l
  BY NewGameIs DEF NewGame
<1>2. MaxChange(l) \in Nat /\ Len(l.agents) \in Nat \ {0} /\ MaxMoves \in Nat
  BY <1>1, MaxChangeIs, LayoutAssumption
<1> QED BY <1>1, <1>2 DEF Paced

LEMMA PacedPlay ==
  ASSUME GameInv, Paced, NEW action, Play(action), Legal(game, agentIndex, action),
         agentIndex = 0 => moves < MaxMoves
  PROVE  Paced'
<1> DEFINE h == GenerateSuccessor(game, agentIndex, action)
           c == MaxChange(game.layout)
           n == Len(game.layout.agents)
<1>1. /\ moves' = moves + 1 /\ game' = h
      /\ agentIndex' = (agentIndex + 1) % Cardinality(Agents(game))
  BY DEF Play
<1>2. Sound(game) /\ Live(game) /\ GameOK(game) /\ agentIndex \in Agents(game) /\ moves \in Nat
  BY DEF GameInv, Sound, Play
<1>3. h.layout = game.layout /\ Changes(game, h, c, c) /\ Sound(h)
  BY <1>2, SuccessorIs DEF Legal
<1> HIDE DEF h
<1>4. /\ c \in Nat /\ n \in Nat \ {0} /\ MaxMoves \in Nat /\ game.score \in Int /\ h.score \in Int
      /\ Cardinality(Agents(game)) = n /\ agentIndex \in 0 .. n - 1
  <2>1. Cardinality(Agents(game)) = n /\ agentIndex \in 0 .. n - 1
    BY <1>2, AgentsAre, AgentsCount DEF Numbers
  <2> HIDE DEF c, n
  <2> QED BY <1>2, <1>3, <2>1, MaxChangeIs, LayoutAssumption DEF GameOK, Sound, c, n
<1>5. game.layout' = game.layout /\ game.score' = h.score
  BY <1>1, <1>3
<1>6. MaxChange(game.layout)' = c /\ Len(game.layout.agents)' = n
  BY <1>5 DEF MaxChange
<1> HIDE DEF c, n
<1>7. h.score - (moves + 1) * c <= 0 /\ 0 <= h.score + (moves + 1) * c
  <2> DEFINE p == moves * c
             x == game.score
             y == h.score
  <2>1. (moves + 1) * c = moves * c + c /\ moves * c \in Nat
    BY <1>2, <1>4
  <2>2. /\ x - p <= 0 /\ 0 <= x + p /\ x - c <= y /\ y <= x + c
        /\ p \in Nat /\ c \in Nat /\ x \in Int /\ y \in Int
    BY <1>3, <1>4, <2>1 DEF Paced, Changes, c
  <2>3. (moves + 1) * c = p + c
    BY <2>1
  <2> HIDE DEF p, x, y
  <2>4. y - (p + c) <= 0 /\ 0 <= y + (p + c)
    BY <2>2
  <2> QED BY <2>3, <2>4 DEF y
<1>8. moves + 1 < MaxMoves + (IF agentIndex' = 0 THEN n ELSE agentIndex')
  <2> DEFINE i == agentIndex
             j == (agentIndex + 1) % n
  <2>1. agentIndex' = j
    BY <1>1, <1>4
  <2>2. IF i = n - 1 THEN j = 0 ELSE j = i + 1
    BY <1>4
  <2>3. IF i = 0 THEN moves < MaxMoves ELSE moves < MaxMoves + i
    BY DEF Paced
  <2> HIDE DEF j
  <2>4. moves + 1 < MaxMoves + (IF j = 0 THEN n ELSE j)
    BY <1>2, <1>4, <2>2, <2>3
  <2> QED BY <2>1, <2>4
<1> QED BY <1>1, <1>5, <1>6, <1>7, <1>8 DEF Paced

LEMMA PacedKept ==
  ASSUME GameInv, Paced, GhostTurn \/ KeyboardTurn
  PROVE  Paced'
BY LegalTurn, PacedPlay

\* No look-ahead from a position of the game meets a score beyond Infinity.
LEMMA RoomEnough ==
  ASSUME GameInv, Paced, NEW depth \in Depth
  PROVE  Room(game, depth * NumAgents(game)) /\ depth \in Nat \ {0}
<1> DEFINE c == MaxChange(game.layout)
           n == Len(game.layout.agents)
           x == game.score
           bound == MaxMoves + (depth + 1) * n
<1>1. /\ c \in Nat /\ n \in Nat \ {0} /\ x \in Int /\ moves \in Nat /\ MaxMoves \in Nat
      /\ NumAgents(game) = n /\ agentIndex \in 0 .. n - 1 /\ game.layout \in Layout
  <2>1. NumAgents(game) = n /\ agentIndex \in 0 .. n - 1
    BY AgentsAre, AgentsCount DEF Numbers, NumAgents, GameInv
  <2> HIDE DEF c, n
  <2> QED BY <2>1, MaxChangeIs, LayoutAssumption DEF GameInv, GameOK, c, n
<1>2. depth \in Nat \ {0} /\ Infinity \in Nat /\ bound * c < Infinity
  BY <1>1, LookAheadAssumption
<1>3. moves < MaxMoves + (IF agentIndex = 0 THEN n ELSE agentIndex)
  BY DEF Paced
<1>4. x - moves * c <= 0 /\ 0 <= x + moves * c
  BY DEF Paced
<1> HIDE DEF c, n, x, bound
<1> DEFINE turns == depth * n
<1>5. turns \in Nat /\ bound = MaxMoves + turns + n
  <2>1. (depth + 1) * n = depth * n + n /\ depth * n \in Nat
    BY <1>1, <1>2
  <2> QED BY <1>1, <2>1 DEF bound
<1> HIDE DEF turns
<1>6. moves + turns <= bound /\ bound \in Nat /\ bound - (moves + turns) \in Nat
  BY <1>1, <1>3, <1>5
<1>7. moves * c + turns * c <= bound * c /\ moves * c \in Nat /\ turns * c \in Nat
  <2> DEFINE d == bound - (moves + turns)
  <2>1. d \in Nat /\ bound = moves + turns + d
    BY <1>1, <1>5, <1>6
  <2> HIDE DEF d
  <2>2. bound * c = moves * c + turns * c + d * c /\ d * c \in Nat
        /\ moves * c \in Nat /\ turns * c \in Nat
    BY <1>1, <1>5, <2>1
  <2> DEFINE p == moves * c
             q == turns * c
             r == d * c
             b == bound * c
  <2>3. b = p + q + r /\ r \in Nat /\ p \in Nat /\ q \in Nat
    BY <2>2
  <2> HIDE DEF p, q, r, b
  <2>4. p + q <= b
    BY <2>3
  <2> QED BY <2>3, <2>4 DEF p, q, b
<1> DEFINE p == moves * c
           q == turns * c
           b == bound * c
<1>8. /\ x - p <= 0 /\ 0 <= x + p /\ p + q <= b /\ b < Infinity /\ p \in Nat /\ q \in Nat
      /\ Infinity \in Nat /\ x \in Int /\ b \in Int
  <2>1. b \in Int
    BY <1>1, <1>6
  <2> QED BY <1>1, <1>2, <1>4, <1>7, <2>1
<1> HIDE DEF p, q, b
<1>9. -Infinity < x - q /\ x + q < Infinity
  BY <1>8
<1>10. Room(game, turns)
  BY <1>9 DEF Room, q, x, c
<1> QED BY <1>1, <1>2, <1>10 DEF turns

LEMMA AgreesIs == GameInv /\ Paced => AlphaBetaAgrees
<1> SUFFICES ASSUME GameInv, Paced, run = "playing", NEW depth \in Depth
             PROVE  AlphaBetaAction(game, depth) = MinimaxAction(game, depth)
  BY DEF AlphaBetaAgrees
<1>1. Sound(game) /\ Live(game)
  BY DEF GameInv, Sound
<1>2. Room(game, depth * NumAgents(game)) /\ depth \in Nat \ {0}
  BY RoomEnough
<1> QED BY <1>1, <1>2, SameAction

LEMMA NextPaced == GameInv /\ Paced /\ [GameNext]_gameVars => Paced'
<1>1. ASSUME Paced, UNCHANGED gameVars PROVE Paced'
  BY <1>1 DEF Paced, gameVars, MaxChange
<1> QED BY <1>1, PacedKept DEF GameNext

\* AlphaBetaAgent chooses the action that MinimaxAgent chooses, in every maze, at every
\* depth, as long as no score gets beyond what it starts from.
THEOREM PruningNeverMatters == GameSpec => []AlphaBetaAgrees
<1>1. GameInit => Paced
  BY PacedAtFirst DEF GameInit
<1> QED BY <1>1, NextPaced, AgreesIs, Inductive, PTL DEF GameSpec
=============================================================================
