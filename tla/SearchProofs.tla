---------------------------- MODULE SearchProofs ----------------------------
(***************************************************************************)
(* Proofs about Search, for every problem.                                  *)
(***************************************************************************)
EXTENDS Search, NatRecursion, FiniteSetTheorems

USE DEF Algorithm, Removed, More, Priority, Linked, LinkFirst

\* The successors of a state are what the problem says they are.
LEMMA SuccessorType ==
  ASSUME problem \in Problem, NEW s \in State(problem)
  PROVE  /\ Successors(s) \in Seq(Successor(problem))
         /\ \A i \in DOMAIN Successors(s) :
              /\ Successors(s)[i] \in Successor(problem)
              /\ Successors(s)[i].state \in State(problem)
              /\ Successors(s)[i].action \in Action(problem)
              /\ Successors(s)[i].cost \in Nat
<1>1. Successors(s) \in Seq(Successor(problem))
  BY ProblemAssumption DEF Successors
<1>2. \A i \in DOMAIN Successors(s) : Successors(s)[i] \in Successor(problem)
  BY <1>1
<1> QED BY <1>1, <1>2 DEF Successor

LEMMA StartType ==
  ASSUME problem \in Problem
  PROVE  Start \in State(problem)
BY ProblemAssumption DEF Start

LEMMA HType ==
  ASSUME problem \in Problem, NEW s \in State(problem)
  PROVE  H(s) \in Nat
BY ProblemAssumption DEF H

\* What Assign does to a function.
LEMMA AssignValue ==
  ASSUME NEW f, NEW s, NEW v
  PROVE  /\ DOMAIN Assign(f, s, v) = DOMAIN f \cup {s}
         /\ Assign(f, s, v)[s] = v
         /\ \A t \in DOMAIN f : t # s => Assign(f, s, v)[t] = f[t]
BY DEF Assign

LEMMA AssignType ==
  ASSUME NEW f, NEW s, NEW v, NEW S, NEW T, DOMAIN f \subseteq S, f \in [DOMAIN f -> T],
         s \in S, v \in T
  PROVE  /\ DOMAIN Assign(f, s, v) \subseteq S
         /\ Assign(f, s, v) \in [DOMAIN Assign(f, s, v) -> T]
BY DEF Assign

-----------------------------------------------------------------------------
\* What is pushed or popped has a cost.
Costed ==
  Weighted /\ pc # "idle" =>
    /\ current \in DOMAIN dis
    /\ \A e \in fringe : e.state \in DOMAIN dis

LEMMA InitType == SearchInit => SearchTypeOK /\ Costed
BY StartType DEF SearchInit, SearchTypeOK, Empty, Costed

LEMMA CallType ==
  ASSUME NEW p \in Problem, NEW f \in Algorithm, Call(p, f)
  PROVE  SearchTypeOK' /\ Costed'
<1> USE DEF SearchTypeOK, Call
<1>1. GetStartState(p) \in State(p) /\ problem' = p /\ algorithm' = f
  BY ProblemAssumption
<1>2. fringe' \subseteq [count : Nat, state : State(p), priority : Nat]
  BY <1>1 DEF Entry
<1>3. DOMAIN dis' \subseteq State(p) /\ dis' \in [DOMAIN dis' -> Nat]
  BY <1>1 DEF Empty
<1>4. DOMAIN parents' \subseteq State(p) /\ parents' \in [DOMAIN parents' -> Link(p)]
  BY DEF Empty
<1>5. visited' \subseteq State(p)
  BY <1>1
<1>6. Costed'
  BY <1>1 DEF Costed, Weighted, Entry
<1> QED BY <1>1, <1>2, <1>3, <1>4, <1>5, <1>6

LEMMA PopType ==
  ASSUME SearchTypeOK, Costed, Pop
  PROVE  SearchTypeOK' /\ Costed'
<1> USE DEF SearchTypeOK, Pop
<1>1. PICK e \in fringe : /\ fringe' = fringe \ {e}
                          /\ current' = e.state
                          /\ state' \in {e.state, state}
                          /\ visited' \in {visited, visited \cup {e.state}}
                          /\ next' \in {1, next}
                          /\ pc' \in {"trace", "expand"}
  OBVIOUS
<1>2. e.state \in State(problem)
  OBVIOUS
<1>3. SearchTypeOK'
  BY <1>1, <1>2
<1>4. Costed'
  BY <1>1 DEF Costed, Weighted
<1> QED BY <1>3, <1>4

\* What a round of the for loop takes.
LEMMA ExamineType ==
  ASSUME SearchTypeOK, Costed, Examine
  PROVE  SearchTypeOK' /\ Costed'
<1> DEFINE s == Successors(current)[next]
<1> USE DEF SearchTypeOK
<1>1. next \in DOMAIN Successors(current)
  BY SuccessorType DEF Examine
<1>2. s.state \in State(problem) /\ s.action \in Action(problem) /\ s.cost \in Nat
  BY <1>1, SuccessorType
<1>3. UNCHANGED <<problem, algorithm, current, state, ans, pc>> /\ next' \in Nat \ {0}
  BY DEF Examine
<1>4. CASE Takes(s)
  <2>0. Take(s)
    BY <1>4 DEF Examine
  <2>1. [from |-> current, action |-> s.action] \in Link(problem)
    BY <1>2 DEF Link
  <2>2. DOMAIN parents' \subseteq State(problem) /\ parents' \in [DOMAIN parents' -> Link(problem)]
    <3>1. parents' = Assign(parents, s.state, [from |-> current, action |-> s.action])
      BY <2>0 DEF Take
    <3> HIDE DEF s
    <3> QED BY <3>1, <2>1, <1>2, AssignType
  <2>3. visited' \subseteq State(problem)
    BY <2>0, <1>2 DEF Take
  <2>4. CASE Weighted
    <3> DEFINE d == dis[current] + s.cost
    <3>1. d \in Nat
      BY <2>4, <1>2 DEF Costed, Examine
    <3>2. H(s.state) \in Nat
      BY <1>2, HType
    <3>3. dis' = Assign(dis, s.state, d) /\ Push(s.state, d + H(s.state))
      BY <2>0, <2>4 DEF Take
    <3> HIDE DEF s, d
    <3>4. /\ DOMAIN dis' = DOMAIN dis \cup {s.state} 
          /\ DOMAIN dis' \subseteq State(problem) /\ dis' \in [DOMAIN dis' -> Nat]
      BY <3>1, <3>3, <1>2, AssignType, AssignValue
    <3>5. /\ fringe' \subseteq [count : Nat, state : State(problem), priority : Nat]
          /\ count' \in Nat
          /\ \A e \in fringe' : e \in fringe \/ e.state = s.state
      BY <3>1, <3>2, <3>3, <1>2 DEF Push, Entry
    <3>6. Costed'
      BY <3>4, <3>5, <1>3 DEF Costed, Weighted
    <3> QED BY <3>4, <3>5, <3>6, <2>2, <2>3, <1>3
  <2>5. CASE ~Weighted
    <3>1. fringe' \subseteq [count : Nat, state : State(problem), priority : Nat] /\ count' \in Nat
      BY <2>0, <2>5, <1>2 DEF Take, Push, Entry
    <3>2. UNCHANGED dis
      BY <2>0, <2>5 DEF Take
    <3> QED BY <3>1, <3>2, <2>2, <2>3, <2>5, <1>3 DEF Costed, Weighted
  <2> QED BY <2>4, <2>5
<1>5. CASE ~Takes(s)
  BY <1>3, <1>5 DEF Examine, Costed, Weighted
<1> QED BY <1>4, <1>5

LEMMA TraceType ==
  ASSUME SearchTypeOK, Costed, Trace
  PROVE  SearchTypeOK' /\ Costed'
<1> USE DEF SearchTypeOK, Trace
<1>1. CASE state \in DOMAIN parents
  <2> DEFINE link == parents[state]
  <2>1. /\ link \in Link(problem) /\ link.from \in State(problem)
        /\ ans' = <<link>> \o ans /\ state' = link.from
    BY <1>1 DEF Link
  <2> HIDE DEF link
  <2>2. state' \in State(problem) /\ ans' \in Seq(Link(problem))
    BY <2>1
  <2> QED BY <1>1, <2>2 DEF Costed, Weighted
<1>2. CASE state \notin DOMAIN parents
  BY <1>2 DEF Costed, Weighted
<1> QED BY <1>1, <1>2

\* The type invariant is inductive together with Costed.
LEMMA NextType ==
  ASSUME SearchTypeOK, Costed, [SearchNext]_searchVars
  PROVE  SearchTypeOK' /\ Costed'
<1>1. CASE pc = "idle" /\ Call(problem, algorithm)
  BY <1>1, CallType DEF SearchTypeOK
<1>2. CASE Pop
  BY <1>2, PopType
<1>3. CASE Examine
  BY <1>3, ExamineType
<1>4. CASE Trace
  BY <1>4, TraceType
<1>5. CASE PopEmpty \/ EndExpand \/ Return
  BY <1>5 DEF PopEmpty, EndExpand, Return, SearchTypeOK, Costed, Weighted
<1>6. CASE UNCHANGED searchVars
  BY <1>6 DEF searchVars, SearchTypeOK, Costed, Weighted
<1> QED BY <1>1, <1>2, <1>3, <1>4, <1>5, <1>6 DEF SearchNext, Round

\* The variables of a search keep their types, and nothing is popped without a cost.
THEOREM SearchTypeCorrect == SearchSpec => []SearchTypeOK
<1>1. SearchSpec => [](SearchTypeOK /\ Costed)
  BY InitType, NextType, PTL DEF SearchSpec
<1> QED BY <1>1, PTL

-----------------------------------------------------------------------------
\* A state that the walk back can get to the start from, as far as parents says.
Rooted(s) == s = Start \/ s \in DOMAIN parents

Parented ==
  /\ \A s \in DOMAIN parents : Leads(parents[s], s) /\ Rooted(parents[s].from)
  /\ \A e \in fringe : Rooted(e.state)
  /\ Rooted(current)

\* ans is a way from state to the goal that was popped.
Walked ==
  /\ pc \in {"idle", "pop", "expand", "raised"} => ans = <<>>
  /\ PathLegal

PathInv == SearchTypeOK /\ Costed /\ Parented /\ Walked

LEMMA Prepended ==
  ASSUME NEW S, NEW s \in Seq(S), NEW x \in S
  PROVE  LET t == <<x>> \o s
         IN  /\ t # <<>> /\ Len(t) = Len(s) + 1 /\ t[1] = x
             /\ \A i \in 1 .. Len(s) : t[i + 1] = s[i]
OBVIOUS

LEMMA InitPath == SearchInit => PathInv
BY InitType DEF SearchInit, PathInv, Parented, Rooted, Walked, PathLegal, Empty

LEMMA CallPath ==
  ASSUME NEW p \in Problem, NEW f \in Algorithm, Call(p, f)
  PROVE  PathInv'
<1>1. SearchTypeOK' /\ Costed'
  BY CallType
<1>2. Parented'
  BY DEF Call, Parented, Rooted, Start, Entry, Empty
<1>3. Walked'
  BY DEF Call, Walked, PathLegal
<1> QED BY <1>1, <1>2, <1>3 DEF PathInv

LEMMA PopPath ==
  ASSUME PathInv, Pop
  PROVE  PathInv'
<1> USE DEF Pop
<1>1. SearchTypeOK' /\ Costed'
  BY PopType DEF PathInv
<1>2. PICK e \in fringe : /\ fringe' = fringe \ {e} /\ current' = e.state
                          /\ IF IsGoalState(problem, e.state)
                             THEN pc' = "trace" /\ state' = e.state
                             ELSE pc' = "expand" /\ state' = state
  OBVIOUS
<1>3. UNCHANGED <<problem, parents, ans>> /\ ans = <<>>
  BY DEF PathInv, Walked
<1>4. Rooted(e.state) 
  BY DEF PathInv, Parented
<1>5. Parented'
  BY <1>2, <1>3, <1>4 DEF PathInv, Parented, Rooted, Start, Leads, Successors
<1>6. Walked'
  BY <1>2, <1>3, <1>4 DEF Walked, PathLegal, Rooted, Start
<1> QED BY <1>1, <1>5, <1>6 DEF PathInv

LEMMA ExaminePath ==
  ASSUME PathInv, Examine
  PROVE  PathInv'
<1> DEFINE s == Successors(current)[next]
           link == [from |-> current, action |-> s.action]
<1>1. SearchTypeOK' /\ Costed'
  BY ExamineType DEF PathInv
<1>2. UNCHANGED <<problem, current, state, ans, pc>> /\ pc = "expand"
  BY DEF Examine
<1>3. Walked'
  BY <1>2 DEF PathInv, Walked, PathLegal
<1>4. CASE Takes(s)
  <2>1. parents' = Assign(parents, s.state, link)
    BY <1>4 DEF Examine, Take
  <2>2. \A e \in fringe' : e \in fringe \/ e.state = s.state
    BY <1>4 DEF Examine, Take, Push, Entry
  <2>3. next \in DOMAIN Successors(current)
    BY SuccessorType DEF Examine, PathInv, SearchTypeOK
  <2>4. Leads(link, s.state) /\ link.from = current
    BY <2>3 DEF Leads
  <2>5. /\ DOMAIN parents' = DOMAIN parents \cup {s.state} /\ parents'[s.state] = link
        /\ \A t \in DOMAIN parents : t # s.state => parents'[t] = parents[t]
    <3> HIDE DEF s, link
    <3> DEFINE x == s.state
    <3>1. parents' = Assign(parents, x, link)
      BY <2>1
    <3> HIDE DEF x
    <3>2. /\ DOMAIN parents' = DOMAIN parents \cup {x} /\ parents'[x] = link
          /\ \A t \in DOMAIN parents : t # x => parents'[t] = parents[t]
      BY <3>1 DEF Assign
    <3> QED BY <3>2 DEF x
  <2> HIDE DEF s, link
  <2>6. \A t \in DOMAIN parents' :
          Leads(parents'[t], t) /\ (parents'[t].from = Start \/ parents'[t].from \in DOMAIN parents')
    <3> TAKE t \in DOMAIN parents'
    <3>1. CASE t = s.state
      BY <3>1, <2>4, <2>5 DEF PathInv, Parented, Rooted
    <3>2. CASE t # s.state
      BY <3>2, <2>5 DEF PathInv, Parented, Rooted
    <3> QED BY <3>1, <3>2
  <2>7. \A e \in fringe' : e.state = Start \/ e.state \in DOMAIN parents'
    BY <2>2, <2>5 DEF PathInv, Parented, Rooted
  <2>8. current = Start \/ current \in DOMAIN parents'
    BY <2>5 DEF PathInv, Parented, Rooted
  <2>9. Parented'
    BY <2>6, <2>7, <2>8, <1>2 DEF Parented, Rooted, Start, Leads, Successors
  <2> QED BY <1>1, <1>3, <2>9 DEF PathInv
<1>5. CASE ~Takes(s)
  <2>1. UNCHANGED <<fringe, parents>>
    BY <1>5 DEF Examine
  <2>2. Parented'
    BY <2>1, <1>2 DEF PathInv, Parented, Rooted, Start, Leads, Successors
  <2> QED BY <1>1, <1>3, <2>2 DEF PathInv
<1> QED BY <1>4, <1>5

LEMMA TracePath ==
  ASSUME PathInv, Trace
  PROVE  PathInv'
<1> DEFINE link == parents[state]
<1>1. SearchTypeOK' /\ Costed'
  BY TraceType DEF PathInv
<1>0. state \in DOMAIN parents
  BY DEF Trace, PathInv, Walked, PathLegal
<1>2. UNCHANGED <<problem, fringe, parents, current, pc>> /\ pc = "trace"
  BY <1>0 DEF Trace
<1>3. Parented'
  BY <1>2 DEF PathInv, Parented, Rooted, Start, Leads, Successors
<1>4. Leads(link, state) /\ Rooted(link.from) /\ link \in Link(problem)
  BY <1>0, <1>2 DEF PathInv, Parented, SearchTypeOK
<1>5. ans \in Seq(Link(problem)) /\ ans' = <<link>> \o ans /\ state' = link.from
  BY <1>0 DEF Trace, PathInv, SearchTypeOK
<1> HIDE DEF link
<1>6. /\ ans' # <<>> /\ Len(ans') = Len(ans) + 1 /\ ans'[1] = link
      /\ \A i \in 1 .. Len(ans) : ans'[i + 1] = ans[i]
      /\ Len(ans) \in Nat
  BY <1>4, <1>5, Prepended
<1>7. ans = <<>> <=> Len(ans) = 0
  BY <1>5
<1>8. CASE ans = <<>>
  <2>1. state = current /\ Len(ans') = 1
    BY <1>2, <1>6, <1>7, <1>8 DEF PathInv, Walked, PathLegal
  <2>2. Leads(ans'[1], current) /\ ans'[1].from = state'
    BY <2>1, <1>4, <1>5, <1>6
  <2>3. \A i \in 1 .. Len(ans') - 1 : Leads(ans'[i], ans'[i + 1].from)
    BY <2>1
  <2> QED BY <2>1, <2>2, <2>3, <1>1, <1>2, <1>3, <1>4, <1>5, <1>6
          DEF PathInv, Walked, PathLegal, Rooted, Start, Leads, Successors
<1>9. CASE ans # <<>>
  <2>1. /\ ans[1].from = state
        /\ \A i \in 1 .. Len(ans) - 1 : Leads(ans[i], ans[i + 1].from)
        /\ Leads(ans[Len(ans)], current)
    BY <1>2, <1>9 DEF PathInv, Walked, PathLegal
  <2>2. Len(ans) >= 1
    BY <1>6, <1>7, <1>9
  <2>3. \A i \in 1 .. Len(ans') - 1 : Leads(ans'[i], ans'[i + 1].from)
    <3>1. TAKE i \in 1 .. Len(ans') - 1
    <3>2. i \in 1 .. Len(ans) /\ ans'[i + 1] = ans[i]
      BY <1>6
    <3>3. CASE i = 1
      BY <3>2, <3>3, <2>1, <1>4, <1>6
    <3>4. CASE i # 1
      <4>1. i - 1 \in 1 .. Len(ans) - 1 /\ ans'[(i - 1) + 1] = ans[i - 1] /\ (i - 1) + 1 = i
        BY <3>2, <3>4, <1>6
      <4>2. Leads(ans[i - 1], ans[i].from)
        BY <4>1, <2>1
      <4> QED BY <4>1, <4>2, <3>2
    <3> QED BY <3>3, <3>4
  <2>4. Leads(ans'[Len(ans')], current) /\ ans'[1].from = state'
    BY <2>1, <2>2, <1>5, <1>6
  <2> QED BY <2>3, <2>4, <1>1, <1>2, <1>3, <1>4, <1>5, <1>6
          DEF PathInv, Walked, PathLegal, Rooted, Start, Leads, Successors
<1> QED BY <1>8, <1>9

LEMMA NextPath ==
  ASSUME PathInv, [SearchNext]_searchVars
  PROVE  PathInv'
<1>0. SearchTypeOK' /\ Costed'
  BY NextType DEF PathInv
<1>1. CASE pc = "idle" /\ Call(problem, algorithm)
  BY <1>1, CallPath DEF PathInv, SearchTypeOK
<1>2. CASE Pop
  BY <1>2, PopPath
<1>3. CASE Examine
  BY <1>3, ExaminePath
<1>4. CASE Trace
  BY <1>4, TracePath
<1>5. CASE PopEmpty \/ EndExpand \/ Return \/ UNCHANGED searchVars
  <2>1. UNCHANGED <<problem, fringe, parents, current, state, ans>>
    BY <1>5 DEF PopEmpty, EndExpand, Return, searchVars
  <2>2. Parented'
    BY <2>1 DEF PathInv, Parented, Rooted, Start, Leads, Successors
  <2>3. PathLegal'
    BY <1>5, <2>1 DEF PathInv, Walked, PathLegal, PopEmpty, EndExpand, Return, searchVars,
                      Start, Leads, Successors
  <2>4. Walked'
    BY <1>5, <2>1, <2>3 DEF PathInv, Walked, PopEmpty, EndExpand, Return, searchVars, Start
  <2> QED BY <1>0, <2>2, <2>4 DEF PathInv
<1> QED BY <1>1, <1>2, <1>3, <1>4, <1>5 DEF SearchNext, Round

\* Whatever the problem and the search, what is returned leads from the start to a goal,
\* and the walk back always finds a parent.
THEOREM PathsLegal == SearchSpec => []PathLegal
<1>1. SearchSpec => []PathInv
  BY InitPath, NextPath, PTL DEF SearchSpec
<1>2. PathInv => PathLegal
  BY DEF PathInv, Walked
<1> QED BY <1>1, <1>2, PTL

-----------------------------------------------------------------------------
Queued == {e.state : e \in fringe}
Seen == Known \cup Queued

\* A state that has been seen is queued, or is being expanded, or was expanded.
SeenHandled ==
  pc \in {"pop", "expand", "raised"} =>
    /\ Start \in Seen
    /\ \A s \in Seen \ Queued :
         /\ ~IsGoalState(problem, s)
         /\ \A i \in DOMAIN Successors(s) :
              (pc = "expand" /\ s = current => i < next) => Successors(s)[i].state \in Seen

SweepInv ==
  /\ SearchTypeOK /\ Costed /\ SeenHandled
  /\ algorithm = "bfs" => Queued \subseteq visited
  /\ pc = "raised" => fringe = {}

LEMMA SeenType ==
  ASSUME SearchTypeOK
  PROVE  Seen \subseteq State(problem) /\ Queued \subseteq State(problem)
BY DEF SearchTypeOK, Seen, Queued, Known

LEMMA InitSweep == SearchInit => SweepInv
BY InitType DEF SearchInit, SweepInv, SeenHandled, Queued

LEMMA CallSweep ==
  ASSUME NEW p \in Problem, NEW f \in Algorithm, Call(p, f)
  PROVE  SweepInv'
<1>1. SearchTypeOK' /\ Costed'
  BY CallType
<1>2. Queued' = {Start}' /\ Seen' = {Start}'
  BY DEF Call, Seen, Queued, Known, Weighted, Entry, Empty, Start
<1>3. SeenHandled'
  BY <1>2 DEF SeenHandled
<1> QED BY <1>1, <1>2, <1>3 DEF SweepInv, Call, Start

LEMMA PopSweep ==
  ASSUME SweepInv, Pop
  PROVE  SweepInv'
<1>1. SearchTypeOK' /\ Costed'
  BY PopType DEF SweepInv
<1>2. PICK e \in fringe : /\ fringe' = fringe \ {e} /\ current' = e.state
                          /\ IF IsGoalState(problem, e.state)
                             THEN pc' = "trace" /\ visited' = visited
                             ELSE /\ pc' = "expand" /\ next' = 1
                                  /\ visited' = IF algorithm = "dfs" THEN visited \cup {e.state}
                                                ELSE visited
  BY DEF Pop
<1>3. UNCHANGED <<problem, algorithm, dis>> /\ pc = "pop"
  BY DEF Pop
<1>4. e.state \in State(problem)
  BY DEF SweepInv, SearchTypeOK
<1>5. Queued' \subseteq Queued /\ Queued \subseteq Queued' \cup {e.state} /\ e.state \in Queued
  BY <1>2 DEF Queued
<1>6. CASE IsGoalState(problem, e.state)
  BY <1>1, <1>2, <1>3, <1>5, <1>6 DEF SweepInv, SeenHandled
<1>7. CASE ~IsGoalState(problem, e.state)
  <2>1. e.state \in Known'
    BY <1>2, <1>3, <1>5, <1>7 DEF SweepInv, Costed, Known, Weighted, SearchTypeOK, Queued
  <2>2. Known \subseteq Known' /\ Known' \subseteq Known \cup {e.state}
    BY <1>2, <1>3, <1>7 DEF Known, Weighted
  <2>3. Seen' = Seen
    BY <2>1, <2>2, <1>5 DEF Seen
  <2>4. ASSUME NEW s \in Seen \ Queued'
        PROVE  /\ ~IsGoalState(problem, s)
               /\ \A i \in DOMAIN Successors(s) :
                    (s = e.state => i < 1) => Successors(s)[i].state \in Seen
    <3>1. CASE s = e.state
      <4>1. \A i \in DOMAIN Successors(s) : ~(i < 1)
        BY <1>4, <3>1, SuccessorType DEF SweepInv, SearchTypeOK
      <4> QED BY <4>1, <3>1, <1>7
    <3>2. CASE s # e.state
      BY <3>2, <1>3, <1>5 DEF SweepInv, SeenHandled
    <3> QED BY <3>1, <3>2
  <2>5. SeenHandled'
    BY <2>3, <2>4, <1>2, <1>3, <1>7 DEF SweepInv, SeenHandled, Successors, Start
  <2> QED BY <2>5, <1>1, <1>2, <1>3, <1>5, <1>7 DEF SweepInv
<1> QED BY <1>6, <1>7

LEMMA ExamineSweep ==
  ASSUME SweepInv, Examine
  PROVE  SweepInv'
<1> DEFINE s == Successors(current)[next].state
<1>1. SearchTypeOK' /\ Costed'
  BY ExamineType DEF SweepInv
<1>2. /\ UNCHANGED <<problem, algorithm, current, pc>> /\ pc = "expand"
      /\ next' = next + 1 /\ next \in Nat
  BY DEF Examine, SweepInv, SearchTypeOK
<1>3. /\ Queued \subseteq Queued' /\ Known \subseteq Known'
      /\ Queued' \subseteq Queued \cup {s}
      /\ Known' \subseteq Known \cup {s}
      /\ s \in Known' \/ s \in Queued'
      /\ Seen' \ Queued' \subseteq Seen \ Queued
      /\ algorithm = "bfs" /\ Queued' # Queued => s \in visited'
      /\ visited \subseteq visited'
  <2>1. CASE Takes(Successors(current)[next])
    <3>1. Queued' = Queued \cup {s}
      <4>1. PICK priority : fringe' = fringe \cup {Entry(count, s, priority)}
        BY <2>1 DEF Examine, Take, Push
      <4>2. Entry(count, s, priority).state = s
        BY DEF Entry
      <4> HIDE DEF s
      <4> QED BY <4>1, <4>2 DEF Queued
    <3>2. CASE Weighted
      <4>1. DOMAIN dis' = DOMAIN dis \cup {s} /\ visited' = visited
        BY <2>1, <3>2 DEF Examine, Take, Assign, Weighted
      <4> QED BY <3>1, <3>2, <4>1, <1>2 DEF Known, Weighted, Seen
    <3>3. CASE ~Weighted
      <4>1. visited' = IF algorithm = "bfs" THEN visited \cup {s} ELSE visited
        BY <2>1, <3>3 DEF Examine, Take
      <4> QED BY <3>1, <3>3, <4>1, <1>2 DEF Known, Weighted, Seen
    <3> QED BY <3>2, <3>3
  <2>2. CASE ~Takes(Successors(current)[next])
    <3>1. UNCHANGED <<fringe, visited, dis>>
      BY <2>2 DEF Examine
    <3>2. s \in Known
      BY <2>2 DEF Takes, Cheaper, Known
    <3> QED BY <3>1, <3>2, <1>2 DEF Known, Weighted, Seen, Queued
  <2> QED BY <2>1, <2>2
<1> HIDE DEF s
<1>4. Seen \subseteq Seen' /\ s \in Seen'
  BY <1>3 DEF Seen
<1>5. ASSUME NEW t \in Seen' \ Queued'
      PROVE  /\ ~IsGoalState(problem, t)
             /\ \A i \in DOMAIN Successors(t) :
                  (t = current => i < next + 1) => Successors(t)[i].state \in Seen'
  <2>1. t \in Seen \ Queued /\ t \in State(problem)
    BY <1>3, SeenType DEF SweepInv
  <2>2. /\ ~IsGoalState(problem, t)
        /\ \A i \in DOMAIN Successors(t) :
             (t = current => i < next) => Successors(t)[i].state \in Seen
    BY <2>1, <1>2 DEF SweepInv, SeenHandled
  <2>3. ASSUME NEW i \in DOMAIN Successors(t), t = current => i < next + 1
        PROVE  Successors(t)[i].state \in Seen'
    <3>1. i \in Nat
      BY <2>1, SuccessorType DEF SweepInv, SearchTypeOK
    <3>2. CASE t = current /\ i = next
      BY <3>2, <1>4 DEF s
    <3>3. CASE ~(t = current /\ i = next)
      <4>1. t = current => i < next
        BY <3>1, <3>3, <2>3, <1>2
      <4> QED BY <4>1, <2>2, <1>4
    <3> QED BY <3>2, <3>3
  <2> QED BY <2>2, <2>3
<1>6. SeenHandled'
  BY <1>4, <1>5, <1>2 DEF SweepInv, SeenHandled, Successors, Start
<1> QED BY <1>1, <1>2, <1>3, <1>6 DEF SweepInv

LEMMA NextSweep ==
  ASSUME PathInv, SweepInv, [SearchNext]_searchVars
  PROVE  SweepInv'
<1>0. SearchTypeOK' /\ Costed'
  BY NextType DEF SweepInv
<1>1. CASE pc = "idle" /\ Call(problem, algorithm)
  BY <1>1, CallSweep DEF SweepInv, SearchTypeOK
<1> USE DEF SweepInv, SeenHandled, Seen, Queued, Known, Weighted, Start, Successors
<1>2. CASE Pop
  BY <1>2, PopSweep
<1>3. CASE Examine
  BY <1>3, ExamineSweep
<1>4. CASE Trace \/ Return
  <2>1. Trace => state \in DOMAIN parents
    BY DEF Trace, PathInv, Walked, PathLegal
  <2> QED BY <2>1, <1>0, <1>4 DEF Trace, Return
<1>5. CASE PopEmpty
  BY <1>0, <1>5 DEF PopEmpty
<1>6. CASE EndExpand
  <2>1. \A i \in DOMAIN Successors(current) : i < next
    BY <1>6, SuccessorType DEF EndExpand, SearchTypeOK
  <2> QED BY <2>1, <1>0, <1>6 DEF EndExpand
<1>7. CASE UNCHANGED searchVars
  BY <1>0, <1>7 DEF searchVars
<1> QED BY <1>1, <1>2, <1>3, <1>4, <1>5, <1>6, <1>7 DEF SearchNext, Round

\* What the sweep comes to when the fringe is empty.
LEMMA SweptAll == SweepInv => RaisesOnlyWithoutGoal
<1> SUFFICES ASSUME SweepInv, pc = "raised"
             PROVE  RaisesOnlyWithoutGoal
  BY DEF RaisesOnlyWithoutGoal
<1>1. Seen = Known /\ Queued = {}
  BY DEF SweepInv, Seen, Queued
<1> QED BY <1>1 DEF SweepInv, SeenHandled, RaisesOnlyWithoutGoal

\* A search raises only when what it has seen is closed under the problem's successors
\* and holds no goal.
THEOREM RaisesRightly == SearchSpec => []RaisesOnlyWithoutGoal
<1>1. SearchSpec => [](PathInv /\ SweepInv)
  BY InitPath, NextPath, InitSweep, NextSweep, PTL DEF SearchSpec
<1>2. SweepInv => RaisesOnlyWithoutGoal
  BY SweptAll
<1> QED BY <1>1, <1>2, PTL

-----------------------------------------------------------------------------
\* The state can be taken from s at no greater cost.
Settled(s, i) ==
  /\ Successors(s)[i].state \in DOMAIN dis
  /\ dis[Successors(s)[i].state] <= dis[s] + Successors(s)[i].cost

Relaxed(s) ==
  /\ ~IsGoalState(problem, s)
  /\ \A i \in DOMAIN Successors(s) : (pc = "expand" /\ s = current => i < next) => Settled(s, i)

Cheaply(s) == \E e \in fringe : e.state = s /\ e.priority <= dis[s] + H(s)

\* A state with a cost is queued at no more than it, or its successors have theirs.
DisInv ==
  Weighted =>
    /\ pc # "idle" => Start \in DOMAIN dis /\ dis[Start] = 0
    /\ \A e \in fringe : e.state = Start \/ e.priority >= dis[e.state] + H(e.state)
    /\ pc \in {"pop", "expand"} => \A s \in DOMAIN dis : Cheaply(s) \/ Relaxed(s)
    /\ pc \in {"trace", "done"} =>
         \A s \in DOMAIN dis : dis[current] <= dis[s] + H(s) \/ Relaxed(s)

CostInv == SearchTypeOK /\ Costed /\ DisInv

LEMMA InitCost == SearchInit => CostInv
BY InitType DEF SearchInit, CostInv, DisInv

LEMMA CallCost ==
  ASSUME NEW p \in Problem, NEW f \in Algorithm, Call(p, f)
  PROVE  CostInv'
<1> DEFINE s == GetStartState(p)
<1>1. SearchTypeOK' /\ Costed'
  BY CallType
<1>2. problem' = p /\ algorithm' = f /\ pc' = "pop" /\ Start' = s
  BY DEF Call, Start
<1>3. ASSUME Weighted'
      PROVE  /\ DOMAIN dis' = {s} /\ dis'[s] = 0
             /\ fringe' = {Entry(0, s, 0)}
  BY <1>2, <1>3 DEF Call, Weighted
<1>4. ASSUME Weighted'
      PROVE  \E e \in fringe' : e.state = s /\ e.priority <= dis'[s] + H(s)'
  <2>1. H(s)' \in Nat
    BY <1>2, ProblemAssumption DEF H
  <2>2. Entry(0, s, 0).state = s /\ Entry(0, s, 0).priority = 0
    BY DEF Entry
  <2>3. Entry(0, s, 0) \in fringe' /\ dis'[s] = 0
    BY <1>3, <1>4
  <2> QED BY <2>1, <2>2, <2>3
<1>5. DisInv'
  BY <1>2, <1>3, <1>4 DEF DisInv, Cheaply, Weighted, H, Entry
<1> QED BY <1>1, <1>5 DEF CostInv

LEMMA PopCost ==
  ASSUME CostInv, Pop
  PROVE  CostInv'
<1>1. SearchTypeOK' /\ Costed'
  BY PopType DEF CostInv
<1>2. PICK e \in fringe : /\ First(e) /\ fringe' = fringe \ {e} /\ current' = e.state
                          /\ IF IsGoalState(problem, e.state)
                             THEN pc' = "trace"
                             ELSE pc' = "expand" /\ next' = 1
  BY DEF Pop
<1>3. UNCHANGED <<problem, algorithm, dis>> /\ pc = "pop"
  BY DEF Pop
<1> SUFFICES ASSUME Weighted
             PROVE  DisInv'
  BY <1>1, <1>3 DEF CostInv, DisInv, Weighted
<1>4. /\ e.state \in DOMAIN dis /\ e.priority \in Nat
      /\ \A f \in fringe : f.priority \in Nat /\ e.priority <= f.priority
  <2>1. \A f \in fringe : f.priority \in Nat
    BY DEF CostInv, SearchTypeOK
  <2>2. algorithm # "dfs" /\ algorithm # "bfs"
    BY DEF Weighted
  <2>3. \A f \in fringe : e.priority < f.priority \/ e.priority = f.priority
    BY <1>2, <2>2 DEF First
  <2> QED BY <2>1, <2>3, <1>3 DEF CostInv, Costed
<1>5. \A s \in DOMAIN dis : s \in State(problem) /\ dis[s] \in Nat /\ H(s) \in Nat
  BY HType DEF CostInv, SearchTypeOK
<1>6. \A s \in DOMAIN dis : Cheaply(s) \/ Relaxed(s)
  BY <1>3 DEF CostInv, DisInv
<1>7. /\ Start \in DOMAIN dis /\ dis[Start] = 0
      /\ \A f \in fringe' : f.state = Start \/ f.priority >= dis[f.state] + H(f.state)
  BY <1>2, <1>3 DEF CostInv, DisInv
<1>8. CASE IsGoalState(problem, e.state)
  <2>1. dis[e.state] <= e.priority
    <3>1. e.state = Start \/ e.priority >= dis[e.state] + H(e.state)
      BY <1>2 DEF CostInv, DisInv
    <3> QED BY <3>1, <1>4, <1>5, <1>7
  <2>2. \A s \in DOMAIN dis :
          \/ dis[e.state] <= dis[s] + H(s)
          \/ /\ ~IsGoalState(problem, s)
             /\ \A i \in DOMAIN Successors(s) : Settled(s, i)
    <3> TAKE s \in DOMAIN dis
    <3>1. CASE Cheaply(s)
      <4>1. PICK f \in fringe : f.priority <= dis[s] + H(s)
        BY <3>1 DEF Cheaply
      <4> QED BY <4>1, <2>1, <1>4, <1>5
    <3>2. CASE Relaxed(s)
      BY <3>2, <1>3 DEF Relaxed
    <3> QED BY <3>1, <3>2, <1>6
  <2> QED BY <2>2, <1>2, <1>3, <1>7, <1>8
          DEF DisInv, Relaxed, Settled, Start, H, Successors
<1>9. CASE ~IsGoalState(problem, e.state)
  <2>1. \A s \in DOMAIN dis :
          \/ \E f \in fringe' : f.state = s /\ f.priority <= dis[s] + H(s)
          \/ /\ ~IsGoalState(problem, s)
             /\ \A i \in DOMAIN Successors(s) : (s = e.state => i < 1) => Settled(s, i)
    <3> TAKE s \in DOMAIN dis
    <3>1. CASE s = e.state
      <4>1. \A i \in DOMAIN Successors(s) : ~(i < 1)
        BY <1>5, SuccessorType DEF CostInv, SearchTypeOK
      <4> QED BY <4>1, <3>1, <1>9
    <3>2. CASE s # e.state /\ Cheaply(s)
      BY <3>2, <1>2 DEF Cheaply
    <3>3. CASE Relaxed(s)
      BY <3>3, <1>3 DEF Relaxed
    <3> QED BY <3>1, <3>2, <3>3, <1>6
  <2> QED BY <2>1, <1>2, <1>3, <1>7, <1>9
          DEF DisInv, Relaxed, Cheaply, Settled, Start, H, Successors
<1> QED BY <1>8, <1>9

LEMMA ExamineCost ==
  ASSUME CostInv, Examine
  PROVE  CostInv'
<1> DEFINE t == Successors(current)[next]
           d == dis[current] + t.cost
<1>1. SearchTypeOK' /\ Costed'
  BY ExamineType DEF CostInv
<1> SUFFICES ASSUME Weighted
             PROVE  DisInv'
  BY <1>1 DEF CostInv, DisInv, Weighted, Examine
<1>2. /\ UNCHANGED <<problem, algorithm, current, pc>> /\ pc = "expand"
      /\ next' = next + 1 /\ next \in Nat /\ next \in DOMAIN Successors(current)
      /\ current \in State(problem) /\ current \in DOMAIN dis
  BY SuccessorType DEF Examine, CostInv, SearchTypeOK, Costed
<1>3. /\ \A s \in DOMAIN dis : s \in State(problem) /\ dis[s] \in Nat
      /\ \A s \in State(problem) : H(s) \in Nat
  BY HType DEF CostInv, SearchTypeOK
<1>4. t.state \in State(problem) /\ t.cost \in Nat
  BY <1>2, SuccessorType DEF CostInv, SearchTypeOK
<1>5. d \in Nat /\ d >= dis[current]
  BY <1>2, <1>3, <1>4
<1>6. \A s \in State(problem) : \A i \in DOMAIN Successors(s) :
        /\ Successors(s)[i].cost \in Nat /\ Successors(s)[i].state \in State(problem)
        /\ i \in Nat
  BY SuccessorType DEF CostInv, SearchTypeOK
<1>7. /\ Start \in DOMAIN dis /\ dis[Start] = 0
      /\ \A e \in fringe : e.state = Start \/ e.priority >= dis[e.state] + H(e.state)
      /\ \A s \in DOMAIN dis : Cheaply(s) \/ Relaxed(s)
      /\ \A e \in fringe : e.state \in DOMAIN dis /\ e.priority \in Nat
  BY <1>2 DEF CostInv, DisInv, Costed, SearchTypeOK
<1>8. CASE Takes(t)
  <2>1. /\ dis' = Assign(dis, t.state, d)
        /\ fringe' = fringe \cup {Entry(count, t.state, d + H(t.state))}
    BY <1>8 DEF Examine, Take, Push
  <2>2. t.state \notin DOMAIN dis \/ d < dis[t.state]
    BY <1>8 DEF Takes, Cheaper
  <2> HIDE DEF t, d
  <2>3. /\ DOMAIN dis' = DOMAIN dis \cup {t.state} /\ dis'[t.state] = d
        /\ \A s \in DOMAIN dis : s # t.state => dis'[s] = dis[s]
    BY <2>1 DEF Assign
  <2>4. \A s \in DOMAIN dis : dis'[s] <= dis[s] /\ dis'[s] \in Nat
    BY <2>2, <2>3, <1>3, <1>5
  <2>5. Start # t.state /\ current # t.state
    BY <2>2, <1>2, <1>3, <1>5, <1>7
  <2>6. PICK e : /\ fringe' = fringe \cup {e}
                 /\ e.state = t.state /\ e.priority = d + H(t.state)
    <3>1. /\ Entry(count, t.state, d + H(t.state)).state = t.state
          /\ Entry(count, t.state, d + H(t.state)).priority = d + H(t.state)
      BY DEF Entry
    <3> QED BY <2>1, <3>1
  <2>7. \A f \in fringe' : f.state = Start \/ f.priority >= dis'[f.state] + H(f.state)
    <3> TAKE f \in fringe'
    <3>1. CASE f = e
      BY <3>1, <2>3, <2>6, <1>3, <1>4, <1>5
    <3>2. CASE f \in fringe
      <4>1. f.state \in DOMAIN dis /\ f.priority \in Nat /\ H(f.state) \in Nat
        BY <3>2, <1>3, <1>7
      <4> QED BY <4>1, <3>2, <2>4, <1>3, <1>7
    <3> QED BY <3>1, <3>2, <2>6
  <2>8. ASSUME NEW s \in DOMAIN dis'
        PROVE  \/ \E f \in fringe' : f.state = s /\ f.priority <= dis'[s] + H(s)
               \/ /\ ~IsGoalState(problem, s)
                  /\ \A i \in DOMAIN Successors(s) : (s = current => i < next + 1) =>
                       /\ Successors(s)[i].state \in DOMAIN dis'
                       /\ dis'[Successors(s)[i].state] <= dis'[s] + Successors(s)[i].cost
    <3>1. CASE s = t.state
      BY <3>1, <2>3, <2>6, <1>3, <1>4, <1>5
    <3>2. CASE s # t.state /\ Cheaply(s)
      BY <3>2, <2>3, <2>6 DEF Cheaply
    <3>3. CASE s # t.state /\ Relaxed(s)
      <4>1. s \in DOMAIN dis /\ s \in State(problem) /\ dis'[s] = dis[s]
        BY <3>3, <2>3, <1>3
      <4>2. ASSUME NEW i \in DOMAIN Successors(s), s = current => i < next + 1
            PROVE  /\ Successors(s)[i].state \in DOMAIN dis'
                   /\ dis'[Successors(s)[i].state] <= dis'[s] + Successors(s)[i].cost
        <5>1. CASE s = current /\ i = next
          <6>1. Successors(s)[i] = t
            BY <5>1 DEF t
          <6>2. d = dis[current] + t.cost
            BY DEF d
          <6> QED BY <5>1, <6>1, <6>2, <4>1, <2>3, <1>5
        <5>2. CASE ~(s = current /\ i = next)
          <6>1. s = current => i < next
            BY <5>2, <4>1, <4>2, <1>2, <1>6
          <6>2. Settled(s, i)
            BY <6>1, <3>3 DEF Relaxed
          <6>3. Successors(s)[i].cost \in Nat
            BY <4>1, <1>6
          <6> DEFINE x == Successors(s)[i].state
          <6>4. x \in DOMAIN dis /\ dis[x] <= dis[s] + Successors(s)[i].cost
            BY <6>2 DEF Settled
          <6> HIDE DEF x
          <6>5. x \in DOMAIN dis' /\ dis'[x] <= dis'[s] + Successors(s)[i].cost
            BY <6>3, <6>4, <4>1, <2>3, <2>4, <1>3
          <6> QED BY <6>5 DEF x
        <5> QED BY <5>1, <5>2
      <4> QED BY <4>2, <3>3 DEF Relaxed
    <3> QED BY <3>1, <3>2, <3>3, <2>3, <1>7
  <2>9. Start \in DOMAIN dis' /\ dis'[Start] = 0
    BY <2>3, <2>5, <1>7
  <2> QED BY <2>7, <2>8, <2>9, <1>2 DEF DisInv, Relaxed, Cheaply, Settled, Start, H, Successors
<1>9. CASE ~Takes(t)
  <2>1. UNCHANGED <<fringe, dis>>
    BY <1>9 DEF Examine
  <2>2. Settled(current, next)
    BY <1>2, <1>3, <1>5, <1>9 DEF Takes, Cheaper, Settled
  <2>3. ASSUME NEW s \in DOMAIN dis, Relaxed(s)
        PROVE  \A i \in DOMAIN Successors(s) : (s = current => i < next + 1) => Settled(s, i)
    <3> TAKE i \in DOMAIN Successors(s)
    <3>1. i \in Nat
      BY <1>3, <1>6
    <3> QED BY <3>1, <2>2, <2>3, <1>2 DEF Relaxed
  <2> QED BY <2>1, <2>3, <1>2, <1>7 DEF DisInv, Relaxed, Cheaply, Settled, Start, H, Successors
<1> QED BY <1>8, <1>9

LEMMA NextCost ==
  ASSUME CostInv, [SearchNext]_searchVars
  PROVE  CostInv'
<1>0. SearchTypeOK' /\ Costed'
  BY NextType DEF CostInv
<1>1. CASE pc = "idle" /\ Call(problem, algorithm)
  BY <1>1, CallCost DEF CostInv, SearchTypeOK
<1> USE DEF CostInv, DisInv, Relaxed, Cheaply, Settled, Weighted, Start, H, Successors
<1>2. CASE Pop
  BY <1>2, PopCost
<1>3. CASE Examine
  BY <1>3, ExamineCost
<1>4. CASE Trace \/ Return
  BY <1>0, <1>4 DEF Trace, Return
<1>5. CASE PopEmpty
  BY <1>0, <1>5 DEF PopEmpty
<1>6. CASE EndExpand
  <2>1. \A i \in DOMAIN Successors(current) : i < next
    BY <1>6, SuccessorType DEF EndExpand, SearchTypeOK
  <2> QED BY <2>1, <1>0, <1>6 DEF EndExpand
<1>7. CASE UNCHANGED searchVars
  BY <1>0, <1>7 DEF searchVars
<1> QED BY <1>1, <1>2, <1>3, <1>4, <1>5, <1>6, <1>7 DEF SearchNext, Round

LEMMA LeastOne ==
  ASSUME NEW S \in SUBSET Nat, S # {}
  PROVE  Least(S) \in S /\ \A n \in S : Least(S) <= n
<1>1. \E n \in S : \A m \in S : n <= m
  BY NatMin
<1> QED BY <1>1 DEF Least

-----------------------------------------------------------------------------
\* What the path that is collected costs.

\* The sums of the first numbers of a list, and the recursion that defines them.
Sums(c, n, f) ==
  /\ f \in [0 .. n -> Nat] /\ f[0] = 0
  /\ \A k \in 1 .. n : f[k] = c[k] + f[k - 1]
AddUp(c, n, f) == [k \in 0 .. n |-> IF k = 0 THEN 0 ELSE c[k] + f[k - 1]]

\* A function that counts up from 0 exists.
LEMMA CountedUp ==
  ASSUME NEW step \in Steps(Nat)
  PROVE  \E g \in [Nat -> Nat] : g[0] = 0 /\ \A k \in Nat : g[k + 1] = step[k][g[k]]
<1> DEFINE V == Nat
           zero == 0
<1>1. zero \in V
  OBVIOUS
<1>2. step \in Steps(V)
  OBVIOUS
<1>3. \E g \in [Nat -> V] : g[0] = zero /\ \A k \in Nat : g[k + 1] = step[k][g[k]]
  <2> HIDE DEF V, zero
  <2> QED BY <1>1, <1>2, PrimitiveRecursion, SMTT(30)
<1> QED BY <1>3

LEMMA SumsExist ==
  ASSUME NEW n \in Nat, NEW c \in [1 .. n -> Nat]
  PROVE  \E f : Sums(c, n, f) /\ f = AddUp(c, n, f)
<1> DEFINE step == [k \in Nat |-> [v \in Nat |-> IF k < n THEN c[k + 1] + v ELSE v]]
<1>1. step \in Steps(Nat)
  BY DEF Steps
<1>2. PICK g \in [Nat -> Nat] : g[0] = 0 /\ \A k \in Nat : g[k + 1] = step[k][g[k]]
  <2> HIDE DEF step
  <2> QED BY <1>1, CountedUp
<1>3. \A k \in Nat : k < n => g[k + 1] = c[k + 1] + g[k]
  BY <1>2
<1> HIDE DEF step
<1>4. PICK f : f = [k \in 0 .. n |-> g[k]]
  OBVIOUS
<1>5. \A k \in 1 .. n : f[k] = c[k] + f[k - 1]
  <2> TAKE k \in 1 .. n
  <2>1. k - 1 \in Nat /\ k - 1 < n /\ k - 1 + 1 = k /\ k \in 0 .. n /\ k - 1 \in 0 .. n
    OBVIOUS
  <2>2. g[k] = c[k] + g[k - 1]
    BY <1>3, <2>1
  <2> QED BY <1>4, <2>1, <2>2
<1>6. Sums(c, n, f)
  <2>1. \A k \in 0 .. n : g[k] \in Nat
    OBVIOUS
  <2>2. f \in [0 .. n -> Nat]
    BY <1>4, <2>1
  <2>3. f[0] = 0
    BY <1>2, <1>4
  <2> QED BY <1>5, <2>2, <2>3 DEF Sums
<1>7. f = AddUp(c, n, f)
  <2>1. \A k \in 0 .. n : f[k] = AddUp(c, n, f)[k]
    BY <1>6 DEF Sums, AddUp
  <2> QED BY <1>4, <2>1 DEF AddUp
<1> QED BY <1>6, <1>7

\* What AddUp defines are the sums.
LEMMA AddUpIs ==
  ASSUME NEW n \in Nat, NEW c \in [1 .. n -> Nat], NEW g, g = AddUp(c, n, g)
  PROVE  Sums(c, n, g)
<1>1. g[0] = 0 /\ \A k \in 1 .. n : g[k] = c[k] + g[k - 1]
  BY DEF AddUp
<1> DEFINE S == {k \in Nat : k <= n => g[k] \in Nat}
<1>2. 0 \in S
  BY <1>1
<1>3. ASSUME NEW k \in Nat, k \in S PROVE k + 1 \in S
  <2> SUFFICES ASSUME k + 1 <= n PROVE g[k + 1] \in Nat
    OBVIOUS
  <2>1. k + 1 \in 1 .. n /\ k + 1 - 1 = k /\ g[k] \in Nat
    BY <1>3
  <2>2. g[k + 1] = c[k + 1] + g[k] /\ c[k + 1] \in Nat
    BY <1>1, <2>1
  <2> QED BY <2>1, <2>2
<1>4. \A k \in Nat : k \in S
  <2> HIDE DEF S
  <2> QED BY <1>2, <1>3, NatIn
<1>5. g \in [0 .. n -> Nat]
  <2>1. \A k \in 0 .. n : g[k] \in Nat
    BY <1>4
  <2>2. DOMAIN g = 0 .. n /\ g = [k \in 0 .. n |-> g[k]]
    BY DEF AddUp
  <2> QED BY <2>1, <2>2
<1> QED BY <1>1, <1>5 DEF Sums

\* A link costs what the problem says, or less if it lists the action twice.
LEMMA LinkCostIs ==
  ASSUME problem \in Problem, NEW link \in Link(problem), NEW s, Leads(link, s)
  PROVE  /\ LinkCost(link, s) \in Nat
         /\ \A i \in DOMAIN Successors(link.from) :
              Successors(link.from)[i].state = s /\ Successors(link.from)[i].action = link.action =>
                LinkCost(link, s) <= Successors(link.from)[i].cost
<1> DEFINE to == Successors(link.from)
           Listed == {j \in DOMAIN to : to[j].state = s /\ to[j].action = link.action}
           S == {to[i].cost : i \in Listed}
<1>1. link.from \in State(problem)
  BY DEF Link
<1>2. S \in SUBSET Nat /\ S # {}
  BY <1>1, SuccessorType DEF Leads
<1>3. LinkCost(link, s) = Least(S)
  BY DEF LinkCost
<1> HIDE DEF S
<1>4. LinkCost(link, s) \in S /\ \A n \in S : LinkCost(link, s) <= n
  BY <1>2, <1>3, LeastOne
<1> QED BY <1>2, <1>4 DEF S

\* Where the i-th link of a path leads, and what the k-th link from its end costs.
LinkTo(path, goal, i) == IF i = Len(path) THEN goal ELSE path[i + 1].from
FromEnd(path, goal) ==
  [k \in 1 .. Len(path) |->
     LinkCost(path[Len(path) + 1 - k], LinkTo(path, goal, Len(path) + 1 - k))]
Chained(path, goal) ==
  path \in Seq(Link(problem)) /\ \A i \in 1 .. Len(path) : Leads(path[i], LinkTo(path, goal, i))

LEMMA CostOfActionsIs ==
  ASSUME problem \in Problem, NEW path, NEW goal, Chained(path, goal)
  PROVE  \E f : /\ Sums(FromEnd(path, goal), Len(path), f)
               /\ CostOfActions(path, goal) = f[Len(path)]
<1> DEFINE n == Len(path)
           c == FromEnd(path, goal)
<1>1. n \in Nat
  BY DEF Chained
<1>2. c \in [1 .. n -> Nat]
  <2>1. ASSUME NEW k \in 1 .. n
        PROVE  LinkCost(path[n + 1 - k], LinkTo(path, goal, n + 1 - k)) \in Nat
    <3>1. n + 1 - k \in 1 .. n
      BY <1>1
    <3>2. /\ path[n + 1 - k] \in Link(problem)
          /\ Leads(path[n + 1 - k], LinkTo(path, goal, n + 1 - k))
      BY <3>1 DEF Chained
    <3> QED BY <3>2, LinkCostIs
  <2> QED BY <2>1 DEF FromEnd
<1> DEFINE g == CHOOSE h : h = AddUp(c, n, h)
<1>3. CostOfActions(path, goal) = g[n]
  <2>1. \A h : AddUp(c, n, h) =
               [k \in 0 .. n |->
                  IF k = 0 THEN 0
                  ELSE LinkCost(path[n + 1 - k],
                                IF n + 1 - k = n THEN goal ELSE path[n + 1 - k + 1].from) + h[k - 1]]
    <3> TAKE h
    <3>1. \A k \in 0 .. n : k # 0 =>
            c[k] = LinkCost(path[n + 1 - k],
                            IF n + 1 - k = n THEN goal ELSE path[n + 1 - k + 1].from)
      BY <1>1 DEF FromEnd, LinkTo
    <3> HIDE DEF c
    <3> QED BY <3>1 DEF AddUp
  <2> QED BY <2>1 DEF CostOfActions
<1> HIDE DEF c, n
<1>4. g = AddUp(c, n, g)
  BY <1>1, <1>2, SumsExist
<1> HIDE DEF g
<1>5. Sums(c, n, g)
  BY <1>1, <1>2, <1>4, AddUpIs
<1> QED BY <1>3, <1>5 DEF c, n

\* One link more at the front costs what it costs.
LEMMA CostPrepended ==
  ASSUME problem \in Problem, NEW path, NEW goal, Chained(path, goal),
         NEW link \in Link(problem), NEW s, Leads(link, s),
         IF path = <<>> THEN s = goal ELSE path[1].from = s
  PROVE  /\ Chained(<<link>> \o path, goal)
         /\ CostOfActions(path, goal) \in Nat
         /\ CostOfActions(<<link>> \o path, goal) = LinkCost(link, s) + CostOfActions(path, goal)
<1> DEFINE more == <<link>> \o path
           n == Len(path)
<1>1. /\ path \in Seq(Link(problem)) /\ n \in Nat /\ more \in Seq(Link(problem))
      /\ Len(more) = n + 1 /\ more[1] = link
      /\ \A i \in 1 .. n : more[i + 1] = path[i]
      /\ n = 0 <=> path = <<>>
  BY DEF Chained
<1> HIDE DEF more, n
<1>2. LinkTo(more, goal, 1) = s
  BY <1>1 DEF LinkTo, n
<1>3. ASSUME NEW i \in 1 .. n PROVE LinkTo(more, goal, i + 1) = LinkTo(path, goal, i)
  <2>1. CASE i = n
    BY <1>1, <2>1 DEF LinkTo, n
  <2>2. CASE i # n
    <3>1. i + 1 \in 1 .. n /\ i + 1 # Len(more) /\ i # Len(path)
      BY <1>1, <2>2 DEF n
    <3> QED BY <1>1, <3>1 DEF LinkTo
  <2> QED BY <2>1, <2>2
<1>4. Chained(more, goal)
  <2>1. ASSUME NEW i \in 1 .. Len(more) PROVE Leads(more[i], LinkTo(more, goal, i))
    <3>1. CASE i = 1
      BY <1>1, <1>2, <3>1
    <3>2. CASE i # 1
      <4>1. i - 1 \in 1 .. n /\ i - 1 + 1 = i
        BY <1>1, <3>2
      <4>2. more[i] = path[i - 1] /\ LinkTo(more, goal, i) = LinkTo(path, goal, i - 1)
        BY <1>1, <1>3, <4>1
      <4> QED BY <4>1, <4>2 DEF Chained, n
    <3> QED BY <3>1, <3>2
  <2> QED BY <1>1, <2>1 DEF Chained
<1>5. PICK f : Sums(FromEnd(path, goal), n, f) /\ CostOfActions(path, goal) = f[n]
  BY CostOfActionsIs DEF n
<1>6. PICK g : Sums(FromEnd(more, goal), n + 1, g) /\ CostOfActions(more, goal) = g[n + 1]
  BY <1>1, <1>4, CostOfActionsIs
<1>7. ASSUME NEW k \in 1 .. n PROVE FromEnd(more, goal)[k] = FromEnd(path, goal)[k]
  <2>1. /\ n + 1 - k \in 1 .. n /\ n + 1 + 1 - k = n + 1 - k + 1
        /\ k \in 1 .. Len(more) /\ k \in 1 .. Len(path)
    BY <1>1 DEF n
  <2>2. /\ more[n + 1 + 1 - k] = path[n + 1 - k]
        /\ LinkTo(more, goal, n + 1 + 1 - k) = LinkTo(path, goal, n + 1 - k)
    BY <1>1, <1>3, <2>1
  <2> QED BY <1>1, <2>1, <2>2 DEF FromEnd, n
<1> DEFINE S == {k \in Nat : k <= n => g[k] = f[k]}
<1>8. 0 \in S
  BY <1>5, <1>6 DEF Sums
<1>9. ASSUME NEW k \in Nat, k \in S PROVE k + 1 \in S
  <2> SUFFICES ASSUME k + 1 <= n PROVE g[k + 1] = f[k + 1]
    OBVIOUS
  <2>1. k + 1 \in 1 .. n /\ k + 1 \in 1 .. n + 1 /\ k + 1 - 1 = k /\ g[k] = f[k]
    BY <1>1, <1>9
  <2> QED BY <1>5, <1>6, <1>7, <2>1 DEF Sums
<1>10. n \in S
  <2> HIDE DEF S
  <2> QED BY <1>1, <1>8, <1>9, NatIn
<1>11. FromEnd(more, goal)[n + 1] = LinkCost(link, s)
  <2>1. n + 1 \in 1 .. Len(more) /\ Len(more) + 1 - (n + 1) = 1
    BY <1>1
  <2> QED BY <1>1, <1>2, <2>1 DEF FromEnd
<1>12. g[n + 1] = FromEnd(more, goal)[n + 1] + g[n]
  <2> DEFINE m == n + 1
  <2>1. m \in 1 .. m /\ m - 1 = n
    BY <1>1
  <2>2. \A k \in 1 .. m : g[k] = FromEnd(more, goal)[k] + g[k - 1]
    BY <1>6 DEF Sums
  <2> HIDE DEF m
  <2>3. g[m] = FromEnd(more, goal)[m] + g[m - 1]
    BY <2>1, <2>2
  <2> QED BY <2>1, <2>3 DEF m
<1>13. f[n] \in Nat
  BY <1>1, <1>5 DEF Sums
<1>14. CostOfActions(more, goal) = LinkCost(link, s) + CostOfActions(path, goal)
  BY <1>1, <1>5, <1>6, <1>10, <1>11, <1>12
<1> QED BY <1>4, <1>5, <1>13, <1>14 DEF more

\* A state costs at least as much as where it was taken from and the action that led to
\* it: a parent's cost may have fallen since, and then the state is taken again.
LinksPaid ==
  Weighted /\ pc # "idle" =>
    \A s \in DOMAIN parents :
      /\ s \in DOMAIN dis /\ parents[s].from \in DOMAIN dis
      /\ dis[parents[s].from] + LinkCost(parents[s], s) <= dis[s]

\* What is collected costs at most what the goal costs more than where the walk is.
WalkPaid ==
  Weighted /\ pc \in {"trace", "done"} =>
    /\ Chained(ans, current) /\ state \in DOMAIN dis
    /\ dis[state] + CostOfActions(ans, current) <= dis[current]

WalkInv == PathInv /\ CostInv /\ LinksPaid /\ WalkPaid

\* The costs of links and of paths are the problem's.
LEMMA SameCosts ==
  ASSUME UNCHANGED problem
  PROVE  /\ \A link, s : LinkCost(link, s)' = LinkCost(link, s)
         /\ CostOfActions(ans, current)' = CostOfActions(ans', current')
         /\ Chained(ans, current)' <=> Chained(ans', current')
<1> USE DEF LinkCost, Successors
<1>1. \A link, s : LinkCost(link, s)' = LinkCost(link, s)
  OBVIOUS
<1>2. CostOfActions(ans, current)' = CostOfActions(ans', current')
  BY DEF CostOfActions
<1>3. Chained(ans, current)' <=> Chained(ans', current')
  BY DEF Chained, LinkTo, Leads
<1> QED BY <1>1, <1>2, <1>3

LEMMA CallWalk ==
  ASSUME NEW p \in Problem, NEW f \in Algorithm, Call(p, f)
  PROVE  WalkInv'
<1>1. PathInv' /\ CostInv'
  BY CallPath, CallCost
<1>2. parents' = Empty /\ pc' = "pop"
  BY DEF Call
<1> QED BY <1>1, <1>2 DEF WalkInv, LinksPaid, WalkPaid, Empty

LEMMA PopWalk ==
  ASSUME WalkInv, Pop
  PROVE  LinksPaid' /\ WalkPaid'
<1>1. UNCHANGED <<problem, algorithm, dis, parents, ans>> /\ pc = "pop" /\ ans = <<>>
  BY DEF Pop, WalkInv, PathInv, Walked
<1>2. LinksPaid'
  BY <1>1, SameCosts DEF WalkInv, LinksPaid, Weighted
<1>3. ASSUME Weighted, pc' \in {"trace", "done"}
      PROVE  /\ Chained(ans', current') /\ state' \in DOMAIN dis'
             /\ dis'[state'] + CostOfActions(ans', current') <= dis'[current']
  <2>1. state' = current' /\ current' \in DOMAIN dis /\ dis[current'] \in Nat
    <3>1. PICK e \in fringe : /\ current' = e.state
                              /\ IF IsGoalState(problem, e.state) THEN state' = e.state
                                 ELSE pc' = "expand"
      BY DEF Pop
    <3>2. e.state \in DOMAIN dis /\ dis[e.state] \in Nat
      BY <1>1, <1>3 DEF WalkInv, CostInv, Costed, SearchTypeOK
    <3> QED BY <1>3, <3>1, <3>2
  <2>2. Chained(ans', current') /\ Len(ans') = 0
    BY <1>1 DEF Chained
  <2>3. problem \in Problem
    BY DEF WalkInv, CostInv, SearchTypeOK
  <2>4. CostOfActions(ans', current') = 0
    <3>1. PICK g : /\ Sums(FromEnd(ans', current'), Len(ans'), g)
                   /\ CostOfActions(ans', current') = g[Len(ans')]
      BY <2>2, <2>3, CostOfActionsIs
    <3> QED BY <3>1, <2>2 DEF Sums
  <2> QED BY <1>1, <2>1, <2>2, <2>4
<1>4. WalkPaid'
  BY <1>1, <1>3, SameCosts DEF WalkPaid, Weighted
<1> QED BY <1>2, <1>4

LEMMA ExamineWalk ==
  ASSUME WalkInv, Examine
  PROVE  LinksPaid' /\ WalkPaid'
<1> DEFINE t == Successors(current)[next]
           d == dis[current] + t.cost
           link == [from |-> current, action |-> t.action]
<1>1. UNCHANGED <<problem, algorithm, current, state, ans, pc>> /\ pc = "expand"
  BY DEF Examine
<1>2. WalkPaid'
  BY <1>1 DEF WalkPaid
<1> SUFFICES ASSUME Weighted
             PROVE  LinksPaid'
  BY <1>1, <1>2 DEF LinksPaid, Weighted
<1>3. /\ problem \in Problem /\ current \in State(problem) /\ current \in DOMAIN dis
      /\ next \in DOMAIN Successors(current)
      /\ \A s \in DOMAIN dis : dis[s] \in Nat
  BY SuccessorType DEF Examine, WalkInv, CostInv, Costed, SearchTypeOK
<1>4. t.state \in State(problem) /\ t.cost \in Nat /\ t.action \in Action(problem)
  BY <1>3, SuccessorType
<1>5. \A s \in DOMAIN parents :
        /\ s \in DOMAIN dis /\ parents[s].from \in DOMAIN dis
        /\ dis[parents[s].from] + LinkCost(parents[s], s) <= dis[s]
        /\ LinkCost(parents[s], s) \in Nat
  <2>1. \A s \in DOMAIN parents : parents[s] \in Link(problem) /\ Leads(parents[s], s)
    BY DEF WalkInv, PathInv, Parented, SearchTypeOK
  <2> QED BY <1>1, <1>3, <2>1, LinkCostIs DEF WalkInv, LinksPaid
<1>6. CASE Takes(t)
  <2>1. dis' = Assign(dis, t.state, d) /\ parents' = Assign(parents, t.state, link)
    BY <1>6 DEF Examine, Take
  <2>2. t.state \notin DOMAIN dis \/ d < dis[t.state]
    BY <1>6 DEF Takes, Cheaper
  <2>3. d \in Nat /\ d >= dis[current] /\ d = dis[current] + t.cost
    BY <1>3, <1>4
  <2>4. LinkCost(link, t.state) \in Nat /\ LinkCost(link, t.state) <= t.cost /\ link.from = current
    <3>1. link \in Link(problem) /\ link.from = current /\ link.action = t.action
      BY <1>3, <1>4 DEF Link
    <3>2. Successors(link.from)[next] = t /\ next \in DOMAIN Successors(link.from)
      BY <1>3, <3>1
    <3> HIDE DEF link, t
    <3>3. Leads(link, t.state)
      BY <3>1, <3>2 DEF Leads
    <3> QED BY <1>3, <3>1, <3>2, <3>3, LinkCostIs
  <2> DEFINE x == t.state
             c == t.cost
  <2>5. /\ x \notin DOMAIN dis \/ d < dis[x]
        /\ dis' = Assign(dis, x, d) /\ parents' = Assign(parents, x, link)
        /\ c \in Nat /\ d = dis[current] + c
        /\ LinkCost(link, x) \in Nat /\ LinkCost(link, x) <= c
    BY <2>1, <2>2, <2>3, <2>4, <1>4
  <2> HIDE DEF t, d, link, x, c
  <2>6. /\ DOMAIN dis' = DOMAIN dis \cup {x} /\ dis'[x] = d
        /\ \A s \in DOMAIN dis : s # x => dis'[s] = dis[s]
        /\ DOMAIN parents' = DOMAIN parents \cup {x} /\ parents'[x] = link
        /\ \A s \in DOMAIN parents : s # x => parents'[s] = parents[s]
    BY <2>5 DEF Assign
  <2>7. \A s \in DOMAIN dis : dis'[s] <= dis[s] /\ dis'[s] \in Nat
    BY <1>3, <2>3, <2>5, <2>6
  <2>8. current # x
    BY <1>3, <2>3, <2>5
  <2>9. ASSUME NEW s \in DOMAIN parents'
        PROVE  /\ s \in DOMAIN dis' /\ parents'[s].from \in DOMAIN dis'
               /\ dis'[parents'[s].from] + LinkCost(parents'[s], s) <= dis'[s]
    <3>1. CASE s = x
      <4>1. dis'[current] = dis[current]
        BY <1>3, <2>6, <2>8
      <4> QED BY <3>1, <4>1, <1>3, <2>4, <2>5, <2>6
    <3>2. CASE s # x
      <4>1. s \in DOMAIN parents /\ parents'[s] = parents[s] /\ dis'[s] = dis[s]
        BY <1>5, <2>6, <3>2
      <4> DEFINE y == parents[s].from
                 k == LinkCost(parents[s], s)
      <4>2. y \in DOMAIN dis /\ dis[y] + k <= dis[s] /\ k \in Nat /\ s \in DOMAIN dis
        BY <1>5, <4>1
      <4> HIDE DEF y, k
      <4>3. y \in DOMAIN dis' /\ dis'[y] + k <= dis'[s] /\ s \in DOMAIN dis'
        BY <1>3, <2>6, <2>7, <4>1, <4>2
      <4> QED BY <4>1, <4>3 DEF y, k
    <3> QED BY <3>1, <3>2
  <2> QED BY <1>1, <2>9, SameCosts DEF LinksPaid
<1>7. CASE ~Takes(t)
  <2>1. UNCHANGED <<dis, parents>>
    BY <1>7 DEF Examine
  <2> QED BY <1>1, <1>5, <2>1, SameCosts DEF LinksPaid
<1> QED BY <1>6, <1>7

LEMMA TraceWalk ==
  ASSUME WalkInv, Trace
  PROVE  LinksPaid' /\ WalkPaid'
<1> DEFINE link == parents[state]
<1>1. state \in DOMAIN parents /\ pc = "trace"
  BY DEF Trace, WalkInv, PathInv, Walked, PathLegal
<1>2. /\ UNCHANGED <<problem, algorithm, dis, parents, current, pc>>
      /\ ans' = <<link>> \o ans /\ state' = link.from
  BY <1>1 DEF Trace
<1>3. LinksPaid'
  BY <1>2, SameCosts DEF WalkInv, LinksPaid, Weighted
<1> SUFFICES ASSUME Weighted
             PROVE  WalkPaid'
  BY <1>2, <1>3 DEF WalkPaid, Weighted
<1>4. /\ problem \in Problem /\ link \in Link(problem) /\ Leads(link, state)
      /\ \A s \in DOMAIN dis : dis[s] \in Nat
      /\ current \in DOMAIN dis
  BY <1>1 DEF WalkInv, PathInv, Parented, CostInv, Costed, SearchTypeOK
<1>5. /\ Chained(ans, current) /\ state \in DOMAIN dis
      /\ dis[state] + CostOfActions(ans, current) <= dis[current]
      /\ link.from \in DOMAIN dis /\ dis[link.from] + LinkCost(link, state) <= dis[state]
  BY <1>1 DEF WalkInv, WalkPaid, LinksPaid
<1>6. IF ans = <<>> THEN state = current ELSE ans[1].from = state
  BY <1>1 DEF WalkInv, PathInv, Walked, PathLegal
<1>7. LinkCost(link, state) \in Nat
  BY <1>4, LinkCostIs
<1> HIDE DEF link
<1>8. /\ Chained(ans', current) /\ CostOfActions(ans, current) \in Nat
      /\ CostOfActions(ans', current) = LinkCost(link, state) + CostOfActions(ans, current)
  BY <1>2, <1>4, <1>5, <1>6, CostPrepended
<1>9. dis[link.from] + CostOfActions(ans', current) <= dis[current]
  BY <1>4, <1>5, <1>7, <1>8
<1> QED BY <1>2, <1>5, <1>8, <1>9, SameCosts DEF WalkPaid

LEMMA NextWalk ==
  ASSUME WalkInv, [SearchNext]_searchVars
  PROVE  WalkInv'
<1>0. PathInv' /\ CostInv'
  BY NextPath, NextCost DEF WalkInv
<1>1. CASE pc = "idle" /\ Call(problem, algorithm)
  BY <1>1, CallWalk DEF WalkInv, PathInv, SearchTypeOK
<1>2. CASE Pop
  BY <1>0, <1>2, PopWalk DEF WalkInv
<1>3. CASE Examine
  BY <1>0, <1>3, ExamineWalk DEF WalkInv
<1>4. CASE Trace
  BY <1>0, <1>4, TraceWalk DEF WalkInv
<1>5. CASE PopEmpty \/ EndExpand \/ Return \/ UNCHANGED searchVars
  <2>1. /\ UNCHANGED <<problem, algorithm, dis, parents, current, state, ans>>
        /\ pc' # "idle" => pc # "idle"
        /\ pc' \in {"trace", "done"} => pc \in {"trace", "done"}
    BY <1>5 DEF PopEmpty, EndExpand, Return, searchVars
  <2>2. LinksPaid' /\ WalkPaid'
    BY <2>1, SameCosts DEF WalkInv, LinksPaid, WalkPaid, Weighted
  <2> QED BY <1>0, <2>2 DEF WalkInv
<1> QED BY <1>1, <1>2, <1>3, <1>4, <1>5 DEF SearchNext, Round

\* What is returned costs no more than the goal that was popped.
LEMMA ReturnedPaid ==
  ASSUME WalkInv, Weighted, pc = "done"
  PROVE  /\ CostOfActions(ans, current) \in Nat
         /\ current \in DOMAIN dis /\ dis[current] \in Nat
         /\ CostOfActions(ans, current) <= dis[current]
<1>1. state = Start /\ problem \in Problem /\ dis[Start] = 0
  BY DEF WalkInv, PathInv, Walked, PathLegal, SearchTypeOK, CostInv, DisInv
<1>2. Chained(ans, current) /\ dis[state] + CostOfActions(ans, current) <= dis[current]
  BY DEF WalkInv, WalkPaid
<1>3. CostOfActions(ans, current) \in Nat
  <2>1. PICK f : /\ Sums(FromEnd(ans, current), Len(ans), f)
                 /\ CostOfActions(ans, current) = f[Len(ans)]
    BY <1>1, <1>2, CostOfActionsIs
  <2>2. Len(ans) \in 0 .. Len(ans)
    BY <1>2 DEF Chained
  <2> QED BY <2>1, <2>2 DEF Sums
<1>4. current \in DOMAIN dis /\ dis[current] \in Nat
  BY DEF WalkInv, CostInv, Costed, SearchTypeOK
<1> QED BY <1>1, <1>2, <1>3, <1>4

\* The costs at a goal are the least.
LEMMA CheapestIs == WalkInv => Cheapest
<1> SUFFICES ASSUME WalkInv, CostInv, pc = "done", Weighted, Consistent
             PROVE  /\ Bound(Start) <= 0
                    /\ \A s \in State(problem) :
                         /\ IsGoalState(problem, s) => CostOfActions(ans, current) <= Bound(s)
                         /\ \A i \in DOMAIN Successors(s) :
                              Bound(Successors(s)[i].state) <= Bound(s) + Successors(s)[i].cost
  BY DEF Cheapest, WalkInv
<1>1. /\ \A s \in DOMAIN dis : s \in State(problem) /\ dis[s] \in Nat
      /\ \A s \in State(problem) : H(s) \in Nat
      /\ current \in DOMAIN dis
  BY HType DEF CostInv, SearchTypeOK, Costed
<1>2. /\ Start \in DOMAIN dis /\ dis[Start] = 0
      /\ \A s \in DOMAIN dis : dis[current] <= dis[s] + H(s) \/ Relaxed(s)
  BY DEF CostInv, DisInv
<1>3. Bound(Start) <= 0
  BY <1>1, <1>2 DEF Bound
<1>4. ASSUME NEW s \in State(problem), IsGoalState(problem, s)
      PROVE  CostOfActions(ans, current) <= Bound(s)
  <2>1. H(s) = 0
    BY <1>4 DEF Consistent
  <2>2. Bound(s) = dis[current]
    BY <2>1, <1>1, <1>2, <1>4 DEF Bound, Relaxed
  <2> QED BY <2>2, ReturnedPaid
<1>5. ASSUME NEW s \in State(problem), NEW i \in DOMAIN Successors(s)
      PROVE  Bound(Successors(s)[i].state) <= Bound(s) + Successors(s)[i].cost
  <2> DEFINE x == Successors(s)[i].state
             c == Successors(s)[i].cost
  <2>1. x \in State(problem) /\ c \in Nat
    BY SuccessorType DEF CostInv, SearchTypeOK
  <2>2. H(s) <= c + H(x)
    BY DEF Consistent
  <2>3. s \in DOMAIN dis /\ dis[s] + H(s) < dis[current] => x \in DOMAIN dis /\ dis[x] <= dis[s] + c
    BY <1>1, <1>2 DEF Relaxed, Settled
  <2> HIDE DEF x, c
  <2>4. Bound(x) <= Bound(s) + c
    BY <2>1, <2>2, <2>3, <1>1 DEF Bound
  <2> QED BY <2>4 DEF x, c
<1> QED BY <1>3, <1>4, <1>5

LEMMA InitWalk == SearchInit => WalkInv
BY InitPath, InitCost DEF SearchInit, WalkInv, LinksPaid, WalkPaid

\* The actions that uniformCostSearch returns cost no more than any way to a goal, in
\* every problem, and so do those of aStarSearch with every consistent heuristic.
THEOREM CheapestFound == SearchSpec => []Cheapest
<1>1. SearchSpec => []WalkInv
  BY InitWalk, NextWalk, PTL DEF SearchSpec
<1>2. WalkInv => Cheapest
  BY CheapestIs
<1> QED BY <1>1, <1>2, PTL
-----------------------------------------------------------------------------
\* What CostToGo and Within are, although they are defined by recursion.

\* A table of costs, and that of one action more.
Table == [State(problem) -> Nat]
Through(g, s) == {Successors(s)[i].cost + g[Successors(s)[i].state] : i \in DOMAIN Successors(s)}
OneMore(g) == [s \in State(problem) |-> Least({g[s]} \cup Through(g, s))]
AtGoals == [s \in State(problem) |-> IF IsGoalState(problem, s) THEN 0 ELSE NoWay]

LEMMA ThroughType ==
  ASSUME problem \in Problem, NEW g \in Table, NEW s \in State(problem)
  PROVE  {g[s]} \cup Through(g, s) \in SUBSET Nat
<1>1. g[s] \in Nat
  BY DEF Table
<1>2. ASSUME NEW i \in DOMAIN Successors(s)
      PROVE  Successors(s)[i].cost + g[Successors(s)[i].state] \in Nat
  <2>1. Successors(s)[i].cost \in Nat /\ Successors(s)[i].state \in State(problem)
    BY SuccessorType
  <2>2. g[Successors(s)[i].state] \in Nat
    BY <2>1 DEF Table
  <2> QED BY <2>1, <2>2
<1> QED BY <1>1, <1>2 DEF Through

LEMMA OneMoreType ==
  ASSUME problem \in Problem, NEW g \in Table
  PROVE  OneMore(g) \in Table
<1>1. \A s \in State(problem) : Least({g[s]} \cup Through(g, s)) \in Nat
  BY ThroughType, LeastOne
<1> QED BY <1>1 DEF OneMore, Table

\* One action more costs no more, and its cost is that of a way.
LEMMA OneMoreIs ==
  ASSUME problem \in Problem, NEW g \in Table, NEW s \in State(problem)
  PROVE  /\ OneMore(g)[s] <= g[s]
         /\ \A i \in DOMAIN Successors(s) :
              OneMore(g)[s] <= Successors(s)[i].cost + g[Successors(s)[i].state]
         /\ \/ OneMore(g)[s] = g[s]
            \/ \E i \in DOMAIN Successors(s) :
                 OneMore(g)[s] = Successors(s)[i].cost + g[Successors(s)[i].state]
<1> DEFINE S == {g[s]} \cup Through(g, s)
<1>1. OneMore(g)[s] = Least(S)
  BY DEF OneMore
<1>2. S \in SUBSET Nat /\ S # {}
  BY ThroughType
<1> HIDE DEF S
<1>3. OneMore(g)[s] \in S /\ \A n \in S : OneMore(g)[s] <= n
  BY <1>1, <1>2, LeastOne
<1> QED BY <1>3 DEF S, Through

LEMMA CostToGoRecursion ==
  ASSUME problem \in Problem
  PROVE  /\ \A k \in Nat : CostToGo[k] \in Table
         /\ CostToGo[0] = AtGoals
         /\ \A k \in Nat : CostToGo[k + 1] = OneMore(CostToGo[k])
<1>1. AtGoals \in Table
  BY DEF AtGoals, Table, NoWay
<1> DEFINE step == [k \in Nat |-> [g \in Table |-> OneMore(g)]]
<1>2. step \in Steps(Table)
  BY OneMoreType DEF Steps
<1>3. PICK f \in [Nat -> Table] : f[0] = AtGoals /\ \A k \in Nat : f[k + 1] = step[k][f[k]]
  <2> HIDE DEF step
  <2> QED BY <1>1, <1>2, PrimitiveRecursion
<1>4. \A k \in Nat : f[k] \in Table /\ f[k + 1] = OneMore(f[k])
  BY <1>3
<1> HIDE DEF step
<1> DEFINE body(g) == [k \in Nat |->
                         IF k = 0 THEN AtGoals ELSE OneMore(g[k - 1])]
<1>5. f = body(f)
  <2>1. \A k \in Nat : f[k] = body(f)[k]
    <3> TAKE k \in Nat
    <3>1. CASE k = 0
      BY <1>3, <3>1
    <3>2. CASE k # 0
      <4>1. k - 1 \in Nat /\ k - 1 + 1 = k
        BY <3>2
      <4>2. f[k] = OneMore(f[k - 1])
        BY <4>1, <1>4
      <4> QED BY <3>2, <4>2
    <3> QED BY <3>1, <3>2
  <2> QED BY <2>1
<1>6. CostToGo = body(CostToGo)
  <2>1. CostToGo = CHOOSE g : g = body(g)
    BY DEF CostToGo, OneMore, Through, AtGoals
  <2> HIDE DEF body
  <2> QED BY <2>1, <1>5
<1>7. CostToGo[0] = AtGoals
  BY <1>6
<1>8. \A k \in Nat : CostToGo[k + 1] = OneMore(CostToGo[k])
  <2> TAKE k \in Nat
  <2>1. k + 1 \in Nat /\ k + 1 # 0 /\ k + 1 - 1 = k
    OBVIOUS
  <2> QED BY <1>6, <2>1
<1>9. \A k \in Nat : CostToGo[k] \in Table
  <2> DEFINE S == {k \in Nat : CostToGo[k] \in Table}
  <2>1. 0 \in S
    BY <1>1, <1>7
  <2>2. \A k \in Nat : k \in S => k + 1 \in S
    BY <1>8, OneMoreType
  <2> HIDE DEF S
  <2>3. \A k \in Nat : k \in S
    BY <2>1, <2>2, NatIn
  <2> QED BY <2>3 DEF S
<1> QED BY <1>7, <1>8, <1>9
-----------------------------------------------------------------------------
\* With enough actions the costs are as low as they get.

\* The least cost of a way to a goal, whatever its length.
Costs(s) == {CostToGo[k][s] : k \in Nat}
Limit == [s \in State(problem) |-> Least(Costs(s))]
AtLimit(k) == {s \in State(problem) : CostToGo[k][s] = Limit[s]}

LEMMA LimitIs ==
  ASSUME problem \in Problem, NEW s \in State(problem)
  PROVE  /\ Limit[s] \in Nat
         /\ \A k \in Nat : CostToGo[k][s] \in Nat /\ Limit[s] <= CostToGo[k][s]
         /\ \E k \in Nat : s \in AtLimit(k)
<1>1. \A k \in Nat : CostToGo[k][s] \in Nat
  BY CostToGoRecursion DEF Table
<1>2. Costs(s) \in SUBSET Nat /\ CostToGo[0][s] \in Costs(s)
  BY <1>1 DEF Costs
<1>3. Limit[s] \in Costs(s) /\ \A n \in Costs(s) : Limit[s] <= n
  <2>1. Limit[s] = Least(Costs(s))
    BY DEF Limit
  <2> QED BY <1>2, <2>1, LeastOne
<1> QED BY <1>1, <1>2, <1>3 DEF Costs, AtLimit

LEMMA OneActionMore ==
  ASSUME problem \in Problem, NEW s \in State(problem), NEW k \in Nat
  PROVE  /\ CostToGo[k + 1][s] <= CostToGo[k][s]
         /\ \A i \in DOMAIN Successors(s) :
              CostToGo[k + 1][s] <= Successors(s)[i].cost + CostToGo[k][Successors(s)[i].state]
         /\ \/ CostToGo[k + 1][s] = CostToGo[k][s]
            \/ \E i \in DOMAIN Successors(s) :
                 CostToGo[k + 1][s] = Successors(s)[i].cost + CostToGo[k][Successors(s)[i].state]
<1>1. CostToGo[k] \in Table /\ CostToGo[k + 1] = OneMore(CostToGo[k])
  BY CostToGoRecursion
<1> QED BY <1>1, OneMoreIs

\* The limit is a lower bound of each of its successors' and a step.
LEMMA LimitStep ==
  ASSUME problem \in Problem, NEW s \in State(problem), NEW i \in DOMAIN Successors(s)
  PROVE  Limit[s] <= Successors(s)[i].cost + Limit[Successors(s)[i].state]
<1> DEFINE t == Successors(s)[i].state
           c == Successors(s)[i].cost
<1>1. t \in State(problem) /\ c \in Nat
  BY SuccessorType
<1>2. PICK k \in Nat : CostToGo[k][t] = Limit[t]
  BY <1>1, LimitIs DEF AtLimit
<1>3. CostToGo[k + 1][s] <= c + CostToGo[k][t]
  BY OneActionMore
<1> HIDE DEF t, c
<1>4. Limit[s] \in Nat /\ Limit[s] <= CostToGo[k + 1][s] /\ CostToGo[k + 1][s] \in Nat /\ Limit[t] \in Nat
  BY <1>1, LimitIs
<1>5. Limit[s] <= c + Limit[t]
  BY <1>1, <1>2, <1>3, <1>4
<1> QED BY <1>5 DEF t, c

\* What has reached its limit stays there.
LEMMA LimitStays ==
  ASSUME problem \in Problem, NEW j \in Nat, NEW k \in Nat, j <= k
  PROVE  AtLimit(j) \subseteq AtLimit(k)
<1> DEFINE S == {n \in Nat : AtLimit(j) \subseteq AtLimit(j + n)}
<1>1. 0 \in S
  OBVIOUS
<1>2. ASSUME NEW n \in Nat, n \in S PROVE n + 1 \in S
  <2>1. ASSUME NEW s \in AtLimit(j) PROVE s \in AtLimit(j + n + 1)
    <3>1. s \in State(problem) /\ CostToGo[j + n][s] = Limit[s]
      BY <1>2, <2>1 DEF AtLimit
    <3>2. /\ CostToGo[j + n + 1][s] <= CostToGo[j + n][s]
          /\ Limit[s] <= CostToGo[j + n + 1][s]
          /\ CostToGo[j + n + 1][s] \in Nat /\ Limit[s] \in Nat
      BY <3>1, OneActionMore, LimitIs
    <3> QED BY <3>1, <3>2 DEF AtLimit
  <2>2. j + (n + 1) = j + n + 1
    OBVIOUS
  <2> QED BY <2>1, <2>2
<1> HIDE DEF S
<1>3. \A n \in Nat : n \in S
  BY <1>1, <1>2, NatIn
<1>4. k - j \in S /\ j + (k - j) = k
  BY <1>3
<1> QED BY <1>4 DEF S

\* As long as a state has not reached its limit, one more does with every action.
LEMMA OneMoreAtLimit ==
  ASSUME problem \in Problem, NEW k \in Nat, AtLimit(k) # State(problem)
  PROVE  \E s \in State(problem) : s \notin AtLimit(k) /\ s \in AtLimit(k + 1)
<1> DEFINE Late == {j \in Nat : \E s \in State(problem) : s \notin AtLimit(k) /\ s \in AtLimit(j)}
<1>1. Late \in SUBSET Nat /\ Late # {}
  <2>1. PICK s \in State(problem) : s \notin AtLimit(k)
    BY DEF AtLimit
  <2>2. \E j \in Nat : s \in AtLimit(j)
    BY LimitIs
  <2> QED BY <2>1, <2>2
<1>2. PICK j \in Late : \A n \in Late : j <= n
  <2> HIDE DEF Late
  <2> QED BY <1>1, NatMin
<1>3. PICK s \in State(problem) : s \notin AtLimit(k) /\ s \in AtLimit(j)
  BY <1>2
<1>4. j \in Nat /\ j > k
  BY <1>2, <1>3, LimitStays
<1>5. j - 1 \in Nat /\ j - 1 + 1 = j /\ j - 1 \notin Late
  BY <1>2, <1>4
<1>6. \A t \in State(problem) : t \in AtLimit(j - 1) => t \in AtLimit(k)
  BY <1>5
<1> HIDE DEF Late
<1>7. CostToGo[j][s] = Limit[s] /\ CostToGo[j - 1][s] # Limit[s]
  BY <1>3, <1>6 DEF AtLimit
<1>8. PICK i \in DOMAIN Successors(s) :
        CostToGo[j][s] = Successors(s)[i].cost + CostToGo[j - 1][Successors(s)[i].state]
  BY <1>5, <1>7, OneActionMore
<1> DEFINE t == Successors(s)[i].state
           c == Successors(s)[i].cost
<1>9. t \in State(problem) /\ c \in Nat
  BY SuccessorType
<1>10. Limit[s] <= c + Limit[t] /\ Limit[s] = c + CostToGo[j - 1][t]
  BY <1>7, <1>8, LimitStep
<1>11. CostToGo[k + 1][s] <= c + CostToGo[k][t]
  BY OneActionMore
<1> HIDE DEF t, c
<1>12. /\ Limit[t] \in Nat /\ CostToGo[j - 1][t] \in Nat /\ Limit[t] <= CostToGo[j - 1][t]
       /\ Limit[s] \in Nat /\ CostToGo[k + 1][s] \in Nat /\ Limit[s] <= CostToGo[k + 1][s]
  BY <1>5, <1>9, LimitIs
<1>13. CostToGo[j - 1][t] = Limit[t]
  BY <1>9, <1>10, <1>12
<1>14. CostToGo[k][t] = Limit[t]
  BY <1>6, <1>9, <1>13 DEF AtLimit
<1>15. CostToGo[k + 1][s] = Limit[s]
  BY <1>9, <1>10, <1>11, <1>12, <1>13, <1>14
<1> QED BY <1>3, <1>15 DEF AtLimit

\* As many actions as there are states are enough.
LEMMA CostToGoStable ==
  ASSUME problem \in Problem, IsFiniteSet(State(problem))
  PROVE  CostToGo[Cardinality(State(problem))] = Limit
<1> DEFINE N == Cardinality(State(problem))
           S == {k \in Nat : AtLimit(k) = State(problem) \/ Cardinality(AtLimit(k)) >= k}
<1>1. \A k \in Nat : /\ AtLimit(k) \in SUBSET State(problem) /\ IsFiniteSet(AtLimit(k))
                     /\ Cardinality(AtLimit(k)) \in Nat
  <2> TAKE k \in Nat
  <2>1. AtLimit(k) \in SUBSET State(problem)
    BY DEF AtLimit
  <2> QED BY <2>1, FS_Subset, FS_CardinalityType
<1>2. 0 \in S
  <2>1. Cardinality(AtLimit(0)) >= 0
    BY <1>1
  <2> QED BY <2>1
<1>3. ASSUME NEW k \in Nat, k \in S PROVE k + 1 \in S
  <2>1. AtLimit(k) \subseteq AtLimit(k + 1)
    BY LimitStays
  <2>2. CASE AtLimit(k) = State(problem)
    <3>1. AtLimit(k + 1) \in SUBSET State(problem)
      BY <1>1
    <3>2. AtLimit(k + 1) = State(problem)
      BY <2>1, <2>2, <3>1
    <3> QED BY <3>2
  <2>3. CASE AtLimit(k) # State(problem)
    <3>1. PICK s \in State(problem) : s \notin AtLimit(k) /\ s \in AtLimit(k + 1)
      BY <2>3, OneMoreAtLimit
    <3>2. Cardinality(AtLimit(k) \cup {s}) = Cardinality(AtLimit(k)) + 1
      BY <1>1, <3>1, FS_AddElement
    <3>3. AtLimit(k) \cup {s} \in SUBSET AtLimit(k + 1)
      BY <2>1, <3>1
    <3>4. Cardinality(AtLimit(k) \cup {s}) <= Cardinality(AtLimit(k + 1))
      BY <1>1, <3>3, FS_Subset
    <3>5. Cardinality(AtLimit(k)) >= k
      BY <1>3, <2>3
    <3>6. Cardinality(AtLimit(k + 1)) >= k + 1
      BY <1>1, <3>2, <3>4, <3>5
    <3> QED BY <3>6
  <2> QED BY <2>2, <2>3
<1>4. N \in Nat
  BY FS_CardinalityType
<1>5. N \in S
  <2> HIDE DEF S, N
  <2> QED BY <1>2, <1>3, <1>4, NatIn
<1>6. AtLimit(N) = State(problem)
  <2>1. CASE Cardinality(AtLimit(N)) >= N
    <3>1. Cardinality(AtLimit(N)) <= N /\ (Cardinality(AtLimit(N)) = N => AtLimit(N) = State(problem))
      BY <1>1, <1>4, FS_Subset
    <3> QED BY <1>1, <1>4, <2>1, <3>1
  <2> QED BY <1>5, <2>1
<1>7. \A s \in State(problem) : CostToGo[N][s] = Limit[s]
  BY <1>6 DEF AtLimit
<1>8. CostToGo[N] \in Table
  BY <1>4, CostToGoRecursion
<1> HIDE DEF N
<1>9. CostToGo[N] = Limit
  BY <1>7, <1>8 DEF Table, Limit
<1> QED BY <1>9 DEF N
-----------------------------------------------------------------------------
\* No way to a goal costs less than the one found, if the heuristic never overestimates.
LEMMA NoCheaper ==
  ASSUME CostInv, pc = "done", algorithm = "astar", NEW N \in Nat,
         \A s \in State(problem) : H(s) <= CostToGo[N][s], CostToGo[N][Start] < NoWay
  PROVE  dis[current] <= CostToGo[N][Start]
<1>1. /\ \A s \in State(problem) : H(s) \in Nat
      /\ \A k \in Nat, s \in State(problem) : CostToGo[k][s] \in Nat
      /\ \A s \in DOMAIN dis : s \in State(problem) /\ dis[s] \in Nat
      /\ current \in DOMAIN dis /\ Start \in DOMAIN dis /\ dis[Start] = 0
      /\ \A s \in DOMAIN dis : dis[current] <= dis[s] + H(s) \/ Relaxed(s)
  <2>1. \A k \in Nat, s \in State(problem) : CostToGo[k][s] \in Nat
    BY CostToGoRecursion DEF CostInv, SearchTypeOK, Table
  <2> QED BY <2>1, HType DEF CostInv, SearchTypeOK, Costed, DisInv, Weighted
<1>2. \A k \in Nat : k <= N => \A s \in State(problem) : H(s) <= CostToGo[k][s]
  <2> DEFINE S == {n \in Nat : n <= N => \A s \in State(problem) : H(s) <= CostToGo[N - n][s]}
  <2>1. 0 \in S
    OBVIOUS
  <2>2. ASSUME NEW n \in Nat, n \in S PROVE n + 1 \in S
    <3> SUFFICES ASSUME n + 1 <= N, NEW s \in State(problem)
                 PROVE  H(s) <= CostToGo[N - (n + 1)][s]
      OBVIOUS
    <3>1. N - (n + 1) \in Nat /\ N - (n + 1) + 1 = N - n /\ N - n \in Nat
      OBVIOUS
    <3>2. CostToGo[N - n][s] <= CostToGo[N - (n + 1)][s]
      BY <3>1, OneActionMore DEF CostInv, SearchTypeOK
    <3>3. H(s) <= CostToGo[N - n][s]
      BY <2>2
    <3> QED BY <1>1, <3>1, <3>2, <3>3
  <2> HIDE DEF S
  <2>3. \A n \in Nat : n \in S
    BY <2>1, <2>2, NatIn
  <2>4. ASSUME NEW k \in Nat, k <= N, NEW s \in State(problem) PROVE H(s) <= CostToGo[k][s]
    <3>1. N - k \in Nat /\ N - k <= N /\ N - (N - k) = k
      BY <2>4
    <3> QED BY <2>3, <3>1 DEF S
  <2> QED BY <2>4
<1> DEFINE S == {k \in Nat : k <= N => \A s \in DOMAIN dis :
                               CostToGo[k][s] < NoWay => dis[current] <= dis[s] + CostToGo[k][s]}
<1>3. 0 \in S
  <2>1. ASSUME NEW s \in DOMAIN dis, CostToGo[0][s] < NoWay
        PROVE  dis[current] <= dis[s] + CostToGo[0][s]
    <3>1. CostToGo[0][s] = IF IsGoalState(problem, s) THEN 0 ELSE NoWay
      BY <1>1, CostToGoRecursion DEF AtGoals, CostInv, SearchTypeOK
    <3>2. IsGoalState(problem, s)
      BY <2>1, <3>1 DEF NoWay
    <3>3. ~Relaxed(s)
      BY <3>2 DEF Relaxed
    <3>4. H(s) <= CostToGo[0][s]
      BY <1>1, <1>2
    <3> QED BY <1>1, <3>3, <3>4
  <2> QED BY <2>1
<1>4. ASSUME NEW k \in Nat, k \in S PROVE k + 1 \in S
  <2> SUFFICES ASSUME k + 1 <= N, NEW s \in DOMAIN dis, CostToGo[k + 1][s] < NoWay
               PROVE  dis[current] <= dis[s] + CostToGo[k + 1][s]
    OBVIOUS
  <2>0. \A x \in DOMAIN dis : CostToGo[k][x] < NoWay => dis[current] <= dis[x] + CostToGo[k][x]
    BY <1>4
  <2>1. CASE ~Relaxed(s)
    <3>1. H(s) <= CostToGo[k + 1][s]
      BY <1>1, <1>2
    <3> QED BY <1>1, <2>1, <3>1
  <2>2. CASE Relaxed(s)
    <3>1. CASE CostToGo[k + 1][s] = CostToGo[k][s]
      BY <2>0, <3>1
    <3>2. CASE \E i \in DOMAIN Successors(s) :
                 CostToGo[k + 1][s] = Successors(s)[i].cost + CostToGo[k][Successors(s)[i].state]
      <4>1. PICK i \in DOMAIN Successors(s) :
              CostToGo[k + 1][s] = Successors(s)[i].cost + CostToGo[k][Successors(s)[i].state]
        BY <3>2
      <4> DEFINE t == Successors(s)[i].state
                 c == Successors(s)[i].cost
      <4>2. t \in DOMAIN dis /\ dis[t] <= dis[s] + c
        BY <2>2 DEF Relaxed, Settled
      <4>3. c \in Nat /\ CostToGo[k + 1][s] = c + CostToGo[k][t]
        BY <1>1, <4>1, SuccessorType DEF CostInv, SearchTypeOK
      <4> HIDE DEF t, c
      <4>4. CostToGo[k][t] \in Nat /\ dis[t] \in Nat /\ dis[s] \in Nat /\ NoWay \in Nat
        BY <1>1, <4>2 DEF NoWay
      <4>5. CostToGo[k][t] < NoWay
        BY <4>3, <4>4
      <4>6. dis[current] <= dis[t] + CostToGo[k][t]
        BY <2>0, <4>2, <4>5
      <4> QED BY <1>1, <4>2, <4>3, <4>4, <4>6
    <3> QED BY <1>1, <3>1, <3>2, OneActionMore DEF CostInv, SearchTypeOK
  <2> QED BY <2>1, <2>2
<1>5. N \in S
  <2> HIDE DEF S
  <2> QED BY <1>3, <1>4, NatIn
<1>6. CostToGo[N][Start] \in Nat
  BY <1>1
<1> QED BY <1>1, <1>5, <1>6

\* What is returned costs no more than the cost known at the goal, and that no more than
\* any way there is.
LEMMA AdmissibleIs ==
  ASSUME \A p \in Problem : IsFiniteSet(State(p))
  PROVE  WalkInv => (CostOfActions(ans, current) <= NoWay => CheapestIfAdmissible)
<1> DEFINE N == Cardinality(State(problem))
<1> SUFFICES ASSUME WalkInv, CostOfActions(ans, current) <= NoWay, pc = "done",
                    algorithm = "astar", \A s \in State(problem) : H(s) <= CostToGo[N][s]
             PROVE  CostOfActions(ans, current) <= CostToGo[N][Start]
  BY DEF CheapestIfAdmissible
<1>1. problem \in Problem /\ CostInv /\ N \in Nat /\ CostToGo[N] = Limit
  BY CostToGoStable, FS_CardinalityType DEF WalkInv, CostInv, SearchTypeOK
<1>2. /\ CostOfActions(ans, current) \in Nat /\ dis[current] \in Nat
      /\ CostOfActions(ans, current) <= dis[current]
  BY ReturnedPaid DEF Weighted
<1>3. CostToGo[N][Start] \in Nat /\ CostToGo[N][Start] <= NoWay
  <2>1. CostToGo[0][Start] \in {0, NoWay}
    BY <1>1, CostToGoRecursion, StartType DEF AtGoals
  <2>2. Limit[Start] \in Nat /\ Limit[Start] <= CostToGo[0][Start]
    BY <1>1, LimitIs, StartType
  <2> QED BY <1>1, <2>1, <2>2 DEF NoWay
<1>4. CostToGo[N][Start] < NoWay => dis[current] <= CostToGo[N][Start]
  <2> HIDE DEF N
  <2> QED BY <1>1, NoCheaper
<1> HIDE DEF N
<1> QED BY <1>2, <1>3, <1>4 DEF NoWay

\* With a heuristic that never overestimates, consistent or not, the actions that
\* aStarSearch returns cost no more than any way to a goal: in every problem with finitely
\* many states, as long as they cost no more than what getCostOfActions takes for no path.
THEOREM AdmissibleFindsCheapest ==
  ASSUME \A p \in Problem : IsFiniteSet(State(p))
  PROVE  SearchSpec => [](CostOfActions(ans, current) <= NoWay => CheapestIfAdmissible)
<1>1. WalkInv => (CostOfActions(ans, current) <= NoWay => CheapestIfAdmissible)
  BY AdmissibleIs
<1> QED BY <1>1, InitWalk, NextWalk, PTL DEF SearchSpec
-----------------------------------------------------------------------------
\* Sets of states by the actions that lead to them, and how deep a state is in them.
Layers == [Nat -> SUBSET State(problem)]
After(S) == UNION {{Successors(s)[i].state : i \in DOMAIN Successors(s)} : s \in S}
Levels(w) == w[0] = {Start} /\ \A k \in Nat : w[k + 1] = w[k] \cup After(w[k])

OnLayer(w, s) == \E k \in Nat : s \in w[k]
Layer(w, s) == Least({k \in Nat : s \in w[k]})

LEMMA LayerIs ==
  ASSUME NEW w, NEW s, NEW k \in Nat, s \in w[k]
  PROVE  OnLayer(w, s) /\ Layer(w, s) \in Nat /\ s \in w[Layer(w, s)] /\ Layer(w, s) <= k
<1> DEFINE S == {n \in Nat : s \in w[n]}
<1>1. S \in SUBSET Nat /\ k \in S
  OBVIOUS
<1>2. Layer(w, s) = Least(S)
  BY DEF Layer
<1> HIDE DEF S
<1>3. Layer(w, s) \in S /\ Layer(w, s) <= k
  BY <1>1, <1>2, LeastOne
<1> QED BY <1>3 DEF S, OnLayer

LEMMA OnLayerIs ==
  ASSUME NEW w, NEW s, OnLayer(w, s)
  PROVE  Layer(w, s) \in Nat /\ s \in w[Layer(w, s)]
BY LayerIs DEF OnLayer

LEMMA AfterType ==
  ASSUME problem \in Problem, NEW S \in SUBSET State(problem)
  PROVE  After(S) \in SUBSET State(problem)
BY SuccessorType DEF After

LEMMA WithinRecursion ==
  ASSUME problem \in Problem
  PROVE  \E w \in Layers : Levels(w) /\ \A k \in Nat : Within[k] = w[k]
<1> DEFINE V == SUBSET State(problem)
           grow(S) == S \cup After(S)
           step == [k \in Nat |-> [S \in V |-> grow(S)]]
           v0 == {Start}
<1>1. v0 \in V
  BY StartType
<1>2. step \in Steps(V)
  BY AfterType DEF Steps
<1>3. PICK f \in [Nat -> V] : f[0] = v0 /\ \A k \in Nat : f[k + 1] = step[k][f[k]]
  <2> HIDE DEF step, V, grow, v0
  <2> QED BY <1>1, <1>2, PrimitiveRecursion
<1>4. \A k \in Nat : f[k + 1] = grow(f[k])
  BY <1>3
<1> HIDE DEF step
<1> DEFINE body(g) == [k \in Nat |-> IF k = 0 THEN {Start} ELSE grow(g[k - 1])]
<1>5. f = body(f)
  <2>1. \A k \in Nat : f[k] = body(f)[k]
    <3> TAKE k \in Nat
    <3>1. CASE k = 0
      BY <1>3, <3>1
    <3>2. CASE k # 0
      <4>1. k - 1 \in Nat /\ k - 1 + 1 = k
        BY <3>2
      <4>2. f[k] = grow(f[k - 1])
        BY <4>1, <1>4
      <4> QED BY <3>2, <4>2
    <3> QED BY <3>1, <3>2
  <2> QED BY <2>1
<1>6. Within = body(Within)
  <2>1. Within = CHOOSE g : g = body(g)
    BY DEF Within, After
  <2> HIDE DEF body
  <2> QED BY <2>1, <1>5
<1>7. Within[0] = f[0]
  BY <1>3, <1>6
<1>8. \A k \in Nat : Within[k] = f[k] => Within[k + 1] = f[k + 1]
  <2> SUFFICES ASSUME NEW k \in Nat, Within[k] = f[k] PROVE Within[k + 1] = f[k + 1]
    OBVIOUS
  <2>1. k + 1 \in Nat /\ k + 1 # 0 /\ k + 1 - 1 = k
    OBVIOUS
  <2> HIDE DEF grow
  <2>2. Within[k + 1] = grow(Within[k])
    BY <1>6, <2>1
  <2> QED BY <1>4, <2>2
<1>9. \A k \in Nat : Within[k] = f[k]
  <2> DEFINE S == {k \in Nat : Within[k] = f[k]}
  <2>1. 0 \in S /\ \A k \in Nat : k \in S => k + 1 \in S
    BY <1>7, <1>8
  <2> HIDE DEF S
  <2>2. \A k \in Nat : k \in S
    BY <2>1, NatIn
  <2> QED BY <2>2 DEF S
<1> QED BY <1>3, <1>4, <1>9 DEF Layers, Levels

-----------------------------------------------------------------------------
\* The queue holds states of at most two depths, the lesser ones first, a state is a step
\* deeper than where it was taken from, and the goal popped is no deeper than another.
Layered(w) ==
  /\ \A e \in fringe : OnLayer(w, e.state) /\ e.count < count
  /\ \A e, f \in fringe :
       /\ Layer(w, f.state) <= Layer(w, e.state) + 1
       /\ e.count <= f.count => Layer(w, e.state) <= Layer(w, f.state)
  /\ OnLayer(w, current)
  /\ pc = "expand" =>
       \A e \in fringe : /\ Layer(w, current) <= Layer(w, e.state)
                         /\ Layer(w, e.state) <= Layer(w, current) + 1
  /\ \A s \in DOMAIN parents : /\ OnLayer(w, s) /\ OnLayer(w, parents[s].from)
                               /\ Layer(w, s) = Layer(w, parents[s].from) + 1
  /\ pc \in {"trace", "done"} =>
       /\ OnLayer(w, state)
       /\ Len(ans) + Layer(w, state) = Layer(w, current)
       /\ \A k \in Nat : k < Layer(w, current) => \A s \in w[k] : ~IsGoalState(problem, s)

Breadth ==
  algorithm = "bfs" /\ pc # "idle" => \A w \in Layers : Levels(w) => Layered(w)

BreadthInv == PathInv /\ SweepInv /\ Breadth

\* All that fewer actions lead to than to what is queued has been looked at.
LEMMA ShallowVisited ==
  ASSUME SweepInv, algorithm = "bfs", pc \in {"pop", "expand"},
         NEW w \in Layers, Levels(w), Layered(w), NEW m \in Nat,
         \A e \in fringe : m <= Layer(w, e.state),
         pc = "expand" => m <= Layer(w, current)
  PROVE  /\ \A k \in Nat : k <= m => w[k] \subseteq visited
         /\ \A k \in Nat : k < m => \A s \in w[k] : ~IsGoalState(problem, s)
<1>1. Seen = visited /\ Queued \subseteq visited
  BY DEF SweepInv, Seen, Known, Weighted
<1>2. ASSUME NEW k \in Nat, k < m, NEW s \in w[k], s \in visited
      PROVE  /\ ~IsGoalState(problem, s)
             /\ \A i \in DOMAIN Successors(s) : Successors(s)[i].state \in visited
  <2>1. Layer(w, s) \in Nat /\ Layer(w, s) <= k
    BY <1>2, LayerIs
  <2>2. s \notin Queued /\ (pc = "expand" => s # current)
    BY <2>1, <1>2 DEF Queued
  <2> QED BY <1>1, <1>2, <2>2 DEF SweepInv, SeenHandled
<1> DEFINE S == {k \in Nat : k <= m => w[k] \subseteq visited}
<1>3. 0 \in S
  BY <1>1 DEF Levels, SweepInv, SeenHandled
<1>4. ASSUME NEW k \in Nat, k \in S PROVE k + 1 \in S
  <2> SUFFICES ASSUME k + 1 <= m, NEW x \in w[k + 1] PROVE x \in visited
    OBVIOUS
  <2>1. k < m /\ w[k] \subseteq visited
    BY <1>4
  <2>2. x \in w[k] \/ \E s \in w[k] : \E i \in DOMAIN Successors(s) : x = Successors(s)[i].state
    BY DEF Levels, After
  <2> QED BY <1>2, <2>1, <2>2
<1>5. \A k \in Nat : k \in S
  <2> HIDE DEF S
  <2> QED BY <1>3, <1>4, NatIn
<1> QED BY <1>2, <1>5

LEMMA CallBreadth ==
  ASSUME NEW p \in Problem, NEW f \in Algorithm, Call(p, f)
  PROVE  BreadthInv'
<1> DEFINE s == GetStartState(p)
<1>1. PathInv' /\ SweepInv'
  BY CallPath, CallSweep
<1>2. /\ fringe' = {Entry(0, s, 0)} /\ count' = 1 /\ current' = s /\ Start' = s
      /\ parents' = Empty /\ pc' = "pop"
  BY DEF Call, Start
<1>3. Entry(0, s, 0).state = s /\ Entry(0, s, 0).count = 0
  BY DEF Entry
<1>4. ASSUME NEW w \in Layers', Levels(w)'
      PROVE  Layered(w)'
  <2>1. s \in w[0]
    BY <1>2, <1>4 DEF Levels
  <2>2. OnLayer(w, s) /\ Layer(w, s) \in Nat
    BY <2>1, LayerIs
  <2> QED BY <1>2, <1>3, <2>2 DEF Layered, Empty
<1> QED BY <1>1, <1>4 DEF BreadthInv, Breadth

LEMMA PopLayered ==
  ASSUME BreadthInv, algorithm = "bfs", NEW w \in Layers, Levels(w), Layered(w), Pop
  PROVE  Layered(w)'
<1>1. PICK e \in fringe : /\ First(e) /\ fringe' = fringe \ {e} /\ current' = e.state
                          /\ IF IsGoalState(problem, e.state)
                             THEN pc' = "trace" /\ state' = e.state
                             ELSE pc' = "expand"
  BY DEF Pop
<1>2. UNCHANGED <<problem, count, parents, ans>> /\ pc = "pop" /\ ans = <<>>
  BY DEF Pop, BreadthInv, PathInv, Walked
<1>3. \A f \in fringe : e.count <= f.count
  BY <1>1 DEF First, Weighted
<1>4. /\ \A f \in fringe : OnLayer(w, f.state) /\ Layer(w, f.state) \in Nat
      /\ \A f \in fringe : Layer(w, e.state) <= Layer(w, f.state)
  BY <1>3, OnLayerIs DEF Layered
<1>5. \A k \in Nat : k < Layer(w, e.state) => \A s \in w[k] : ~IsGoalState(problem, s)
  BY <1>2, <1>4, ShallowVisited DEF BreadthInv
<1>6. /\ \A f \in fringe' : OnLayer(w, f.state) /\ f.count < count
      /\ \A f, g \in fringe' :
           /\ Layer(w, g.state) <= Layer(w, f.state) + 1
           /\ f.count <= g.count => Layer(w, f.state) <= Layer(w, g.state)
      /\ \A f \in fringe' : /\ Layer(w, e.state) <= Layer(w, f.state)
                            /\ Layer(w, f.state) <= Layer(w, e.state) + 1
      /\ \A s \in DOMAIN parents : /\ OnLayer(w, s) /\ OnLayer(w, parents[s].from)
                                   /\ Layer(w, s) = Layer(w, parents[s].from) + 1
  BY <1>1, <1>4 DEF Layered
<1>7. pc' = "trace" => state' = e.state
  BY <1>1
<1>8. pc' \in {"trace", "expand"}
  BY <1>1
<1>9. Len(ans) = 0
  BY <1>2
<1> QED BY <1>1, <1>2, <1>4, <1>5, <1>6, <1>7, <1>8, <1>9 DEF Layered

LEMMA ExamineLayered ==
  ASSUME BreadthInv, algorithm = "bfs", NEW w \in Layers, Levels(w), Layered(w), Examine
  PROVE  Layered(w)'
<1> DEFINE t == Successors(current)[next]
           d == Layer(w, current)
<1>1. /\ UNCHANGED <<problem, current, state, ans, pc>> /\ pc = "expand"
      /\ next \in DOMAIN Successors(current) /\ count \in Nat
      /\ \A e \in fringe : e.count \in Nat
  BY SuccessorType DEF Examine, BreadthInv, PathInv, SearchTypeOK
<1>2. OnLayer(w, current) /\ d \in Nat /\ current \in w[d]
  BY OnLayerIs DEF Layered
<1>3. \A e \in fringe : /\ OnLayer(w, e.state) /\ Layer(w, e.state) \in Nat /\ e.count < count
                        /\ d <= Layer(w, e.state) /\ Layer(w, e.state) <= d + 1
  BY <1>1, OnLayerIs DEF Layered
<1>4. CASE t.state \notin visited
  <2>1. /\ parents' = Assign(parents, t.state, [from |-> current, action |-> t.action])
        /\ fringe' = fringe \cup {Entry(count, t.state, 0)} /\ count' = count + 1
    BY <1>4 DEF Examine, Takes, Take, Push, Weighted
  <2>2. t.state \in w[d + 1]
    <3>1. t.state \in After(w[d])
      BY <1>1, <1>2 DEF After
    <3> HIDE DEF t, d
    <3> QED BY <1>2, <3>1 DEF Levels
  <2>3. \A k \in Nat : k <= d => t.state \notin w[k]
    BY <1>1, <1>2, <1>3, <1>4, ShallowVisited DEF BreadthInv
  <2> DEFINE x == t.state
             link == [from |-> current, action |-> t.action]
  <2>4. link.from = current
    OBVIOUS
  <2> HIDE DEF t, link
  <2>5. OnLayer(w, x) /\ Layer(w, x) \in Nat /\ Layer(w, x) = d + 1
    <3>1. OnLayer(w, x) /\ Layer(w, x) \in Nat /\ x \in w[Layer(w, x)] /\ Layer(w, x) <= d + 1
      <4> HIDE DEF d
      <4> QED BY <1>2, <2>2, LayerIs
    <3> HIDE DEF d
    <3> QED BY <1>2, <2>3, <3>1
  <2> HIDE DEF x, d
  <2>6. PICK n : fringe' = fringe \cup {n} /\ n.state = x /\ n.count = count
    <3>1. Entry(count, x, 0).state = x /\ Entry(count, x, 0).count = count
      BY DEF Entry
    <3> QED BY <2>1, <3>1 DEF x
  <2>7. /\ \A f \in fringe' : OnLayer(w, f.state) /\ f.count < count'
        /\ \A f \in fringe' : d <= Layer(w, f.state) /\ Layer(w, f.state) <= d + 1
    BY <1>1, <1>2, <1>3, <2>1, <2>5, <2>6
  <2>8. \A e, f \in fringe' :
           /\ Layer(w, f.state) <= Layer(w, e.state) + 1
           /\ e.count <= f.count => Layer(w, e.state) <= Layer(w, f.state)
    <3> TAKE e, f \in fringe'
    <3>1. CASE f = n
      BY <3>1, <1>2, <1>3, <2>5, <2>6
    <3>2. CASE e = n /\ f \in fringe
      BY <3>2, <1>1, <1>2, <1>3, <2>5, <2>6
    <3>3. CASE e \in fringe /\ f \in fringe
      BY <3>3 DEF Layered
    <3> QED BY <3>1, <3>2, <3>3, <2>6
  <2>9. \A s \in DOMAIN parents' : /\ OnLayer(w, s) /\ OnLayer(w, parents'[s].from)
                                   /\ Layer(w, s) = Layer(w, parents'[s].from) + 1
    <3>1. /\ DOMAIN parents' = DOMAIN parents \cup {x} /\ parents'[x] = link
          /\ \A s \in DOMAIN parents : s # x => parents'[s] = parents[s]
      <4>1. parents' = Assign(parents, x, link)
        BY <2>1 DEF x, link
      <4> QED BY <4>1 DEF Assign
    <3> TAKE s \in DOMAIN parents'
    <3>2. CASE s = x
      BY <3>1, <3>2, <1>2, <2>4, <2>5 DEF d
    <3>3. CASE s # x
      BY <3>1, <3>3 DEF Layered
    <3> QED BY <3>2, <3>3
  <2> QED BY <1>1, <1>2, <2>7, <2>8, <2>9 DEF Layered, d
<1>5. CASE t.state \in visited
  <2>1. UNCHANGED <<fringe, count, parents>>
    BY <1>5 DEF Examine, Takes, Weighted
  <2> QED BY <1>1, <2>1 DEF Layered
<1> QED BY <1>4, <1>5

LEMMA TraceLayered ==
  ASSUME BreadthInv, algorithm = "bfs", NEW w \in Layers, Levels(w), Layered(w), Trace
  PROVE  Layered(w)'
<1> DEFINE link == parents[state]
<1>1. state \in DOMAIN parents /\ pc = "trace"
  BY DEF Trace, BreadthInv, PathInv, Walked, PathLegal
<1>2. /\ UNCHANGED <<problem, fringe, count, parents, current, pc>>
      /\ ans' = <<link>> \o ans /\ state' = link.from
  BY <1>1 DEF Trace
<1>3. link \in Link(problem) /\ ans \in Seq(Link(problem))
  BY <1>1 DEF BreadthInv, PathInv, SearchTypeOK
<1>4. /\ OnLayer(w, link.from) /\ OnLayer(w, state) /\ Layer(w, state) = Layer(w, link.from) + 1
      /\ Len(ans) + Layer(w, state) = Layer(w, current)
  BY <1>1 DEF Layered
<1> HIDE DEF link
<1>5. Len(ans') = Len(ans) + 1 /\ Len(ans) \in Nat
  BY <1>2, <1>3, Prepended
<1>6. Len(ans') + Layer(w, state') = Layer(w, current)
  BY <1>2, <1>4, <1>5, OnLayerIs
<1> QED BY <1>1, <1>2, <1>4, <1>6 DEF Layered

LEMMA NextBreadth ==
  ASSUME BreadthInv, [SearchNext]_searchVars
  PROVE  BreadthInv'
<1>1. CASE pc = "idle" /\ Call(problem, algorithm)
  BY <1>1, CallBreadth DEF BreadthInv, PathInv, SearchTypeOK
<1>2. CASE Round \/ UNCHANGED searchVars
  <2>1. PathInv' /\ SweepInv'
    BY NextPath, NextSweep DEF BreadthInv
  <2>2. UNCHANGED <<problem, algorithm>> /\ (pc' # "idle" => pc # "idle")
    BY <1>2 DEF Round, Pop, PopEmpty, Examine, EndExpand, Trace, Return, searchVars
  <2>3. ASSUME algorithm = "bfs", pc # "idle", NEW w \in Layers, Levels(w)
        PROVE  Layered(w)'
    <3>0. Layered(w)
      BY <2>3 DEF BreadthInv, Breadth
    <3>1. CASE Pop
      BY <2>3, <3>0, <3>1, PopLayered
    <3>2. CASE Examine
      BY <2>3, <3>0, <3>2, ExamineLayered
    <3>3. CASE Trace
      BY <2>3, <3>0, <3>3, TraceLayered
    <3>4. CASE PopEmpty \/ EndExpand
      BY <3>0, <3>4 DEF Layered, PopEmpty, EndExpand
    <3>5. CASE Return \/ UNCHANGED searchVars
      BY <3>0, <3>5 DEF Layered, Return, searchVars
    <3> QED BY <1>2, <3>1, <3>2, <3>3, <3>4, <3>5 DEF Round
  <2>4. Layers' = Layers /\ \A w \in Layers : Levels(w)' <=> Levels(w)
    BY <2>2 DEF Layers, Levels, After, Start, Successors
  <2>5. Breadth'
    BY <2>2, <2>3, <2>4 DEF Breadth
  <2> QED BY <2>1, <2>5 DEF BreadthInv
<1> QED BY <1>1, <1>2 DEF SearchNext

\* No goal is on a layer before that of the goal popped.
LEMMA FewestIs == BreadthInv => FewestActions
<1> SUFFICES ASSUME BreadthInv, pc = "done", algorithm = "bfs", ans # <<>>,
                    NEW s \in Within[Len(ans) - 1]
             PROVE  ~IsGoalState(problem, s)
  BY DEF FewestActions
<1>1. problem \in Problem /\ state = Start /\ Len(ans) \in Nat /\ Len(ans) # 0
  BY DEF BreadthInv, PathInv, SearchTypeOK, Walked, PathLegal
<1>2. PICK w \in Layers : Levels(w) /\ \A k \in Nat : Within[k] = w[k]
  BY <1>1, WithinRecursion
<1>3. Layered(w)
  BY <1>2 DEF BreadthInv, Breadth
<1>4. Start \in w[0]
  BY <1>2 DEF Levels
<1>5. Layer(w, Start) \in Nat /\ Layer(w, Start) <= 0
  BY <1>4, LayerIs
<1>6. Len(ans) + Layer(w, state) = Layer(w, current)
  BY <1>3 DEF Layered
<1>7. Len(ans) - 1 \in Nat /\ Len(ans) - 1 < Layer(w, current)
  BY <1>1, <1>5, <1>6
<1>8. s \in w[Len(ans) - 1]
  BY <1>2, <1>7
<1> QED BY <1>3, <1>7, <1>8 DEF Layered

\* In every problem breadthFirstSearch returns a path of as few actions as lead to a goal.
THEOREM FewestFound == SearchSpec => []FewestActions
<1>1. SearchInit => BreadthInv
  BY InitPath, InitSweep DEF SearchInit, BreadthInv, Breadth
<1>2. BreadthInv => FewestActions
  BY FewestIs
<1> QED BY <1>1, <1>2, NextBreadth, PTL DEF SearchSpec
=============================================================================
