----------------------------- MODULE MultiAgent -----------------------------
(***************************************************************************)
(* The look-ahead of multiAgents.py: MinimaxAgent and AlphaBetaAgent, with  *)
(* scoreEvaluationFunction.                                                 *)
(***************************************************************************)
EXTENDS Pacman

CONSTANTS
  Depth,      \* the depths that agents are made with
  Infinity    \* what AlphaBetaAgent takes for more than any score

\* More than the score can change by in one turn, and by how much it can have changed
\* where the deepest look-ahead from the longest game ends.
MaxChange(l) == 511 + 500 * Len(l.agents)

ASSUME LookAheadAssumption ==
  /\ Depth \subseteq Nat \ {0} /\ Infinity \in Nat
  /\ \A l \in Layout, depth \in Depth :
       (MaxMoves + (depth + 1) * Len(l.agents)) * MaxChange(l) < Infinity

-----------------------------------------------------------------------------
\* The legal actions in the order that Actions lists the directions in.
ActionList(g, i) ==
  LET IfLegal(d) == IF Legal(g, i, d) THEN <<d>> ELSE <<>>
  IN  IfLegal("West") \o IfLegal("Stop") \o IfLegal("East") \o IfLegal("North") \o IfLegal("South")

NumAgents(g) == Cardinality(Agents(g))

\* The positions of a game, and who may have to look ahead from them.
Position(l) ==
  [layout : {l}, food : SUBSET l.food, capsules : SUBSET l.capsules,
   conf : [0 .. Len(l.agents) - 1 -> [pos : Int \X Int, dir : Way]],
   scaredTimer : [0 .. Len(l.agents) - 1 -> 0 .. ScaredTime],
   score : Int, win : BOOLEAN, lose : BOOLEAN]
View(l) == [position : Position(l), agent : 0 .. Len(l.agents) - 1]

Advance(v, action) ==
  [v EXCEPT !.position = GenerateSuccessor(v.position, v.agent, action),
            !.agent = (v.agent + 1) % NumAgents(v.position)]

\* Pacman counts his turns in currentDepth.  When his next one comes for the depth-th
\* time, so many turns have been taken since the root's; a position is evaluated then,
\* or where the game is over.
Turns(g, depth) == depth * NumAgents(g) - 1
Leaf(g, turns) == turns = 0 \/ ~Live(g)

Best(S) == CHOOSE v \in S : \A w \in S : w <= v
Worst(S) == CHOOSE v \in S : \A w \in S : v <= w

\* recursiveGetAction, by the number of turns to look ahead.
Minimax[turns \in Nat] ==
  [l \in Layout |-> [v \in View(l) |->
     IF Leaf(v.position, turns) THEN v.position.score
     ELSE LET values == {Minimax[turns - 1][l][Advance(v, action)] :
                           action \in LegalActions(v.position, v.agent)}
          IN  IF v.agent = 0 THEN Best(values) ELSE Worst(values)]]

\* The first action of the greatest value.
MinimaxAction(g, depth) ==
  LET legal == ActionList(g, 0)
      root == [position |-> g, agent |-> 0]
      Value(k) == Minimax[Turns(g, depth)][g.layout][Advance(root, legal[k])]
      value == [k \in DOMAIN legal |-> Value(k)]
  IN  legal[CHOOSE k \in DOMAIN legal : \A j \in DOMAIN legal :
              value[j] < value[k] \/ (value[j] = value[k] /\ k <= j)]

-----------------------------------------------------------------------------
\* A view and its bounds, alpha and beta: sets of one value, or empty for None.
Bounded(l) ==
  [position : Position(l), agent : 0 .. Len(l.agents) - 1,
   alpha : SUBSET Int, beta : SUBSET Int]

\* Mutant of Prunes: both bounds cut every agent's loop.
PrunesEither(i, ans, alpha, beta) == (\E b \in beta : ans > b) \/ (\E a \in alpha : ans < a)

\* A value that cannot change what was decided above: Pacman's above beta, a ghost's
\* below alpha.
Prunes(i, ans, alpha, beta) ==
  IF i = 0 THEN \E b \in beta : ans > b ELSE \E a \in alpha : ans < a

\* The loop over the actions of a view, before its first round and after the next one
\* with the successor's score.  The action that raised the value last counts at the root.
Enter(v) ==
  [ans |-> IF v.agent = 0 THEN -Infinity ELSE Infinity, alpha |-> v.alpha, beta |-> v.beta,
   best |-> Head(ActionList(v.position, v.agent)), returned |-> FALSE]

Continue(i, action, score, s) ==
  LET ans == IF i = 0 THEN Best({s.ans, score}) ELSE Worst({s.ans, score})
  IN  [ans |-> ans,
       alpha |-> IF i = 0 THEN {Best(s.alpha \cup {ans})} ELSE s.alpha,
       beta |-> IF i = 0 THEN s.beta ELSE {Worst(s.beta \cup {ans})},
       best |-> IF score > s.ans THEN action ELSE s.best,
       returned |-> Prunes(i, ans, s.alpha, s.beta)]

\* Where it ends: after the last action or at a return; Score has the successors' scores.
Loop(Score, v) ==
  LET legal == ActionList(v.position, v.agent)
      after[k \in Nat] ==
        IF k = 0 THEN Enter(v)
        ELSE LET s == after[k - 1]
                 next == [Advance(v, legal[k]) EXCEPT !.alpha = s.alpha, !.beta = s.beta]
             IN  IF s.returned THEN s ELSE Continue(v.agent, legal[k], Score[next], s)
  IN  after[Len(legal)]

\* recursiveGetAction of AlphaBetaAgent, and the same loop at the root.
AlphaBeta[turns \in Nat] ==
  [l \in Layout |-> [v \in Bounded(l) |->
     IF Leaf(v.position, turns) THEN v.position.score
     ELSE Loop(AlphaBeta[turns - 1][l], v).ans]]

AlphaBetaAction(g, depth) ==
  LET root == [position |-> g, agent |-> 0, alpha |-> {}, beta |-> {}]
  IN  Loop(AlphaBeta[Turns(g, depth)][g.layout], root).best

\* Pruning changes nothing: where both agents are asked they choose the same action.
AlphaBetaAgrees ==
  run = "playing" /\ agentIndex = 0 /\ Ghosts(game) # {} =>
    \A depth \in Depth : AlphaBetaAction(game, depth) = MinimaxAction(game, depth)
=============================================================================
