------------------------------- MODULE MCRaft -------------------------------
(***************************************************************************)
(* Raft on small instances.  A run that needs a leader starts in a later   *)
(* state of the system, which Init leads to.                               *)
(***************************************************************************)
EXTENDS Raft, TLC

\* Servers are interchangeable: no constant names one of them.
Symmetry == Permutations(Server)

-----------------------------------------------------------------------------
\* The leaders' loops send first.  What they send only adds to requests, where a
\* message may stay for ever: no state of a server is lost by that order.
Sends(s) ==
  \/ SendHeartBeats(s) /\ requests' # requests
  \/ \E p \in Server : StartAgreement(s, p) /\ requests' # requests

Unsent(s) ==
  /\ Up(s) /\ state[s] = "LEADER"
  /\ \/ ~(HeartBeats(s) \subseteq requests)
     \/ /\ agreementGoing[s]
        /\ \E p \in Server \ {s} :
             LET i == nextIndex[s][p] - lastIncludedIndex[s]
             IN  \/ i <= 0 /\ SnapshotArgs(s, p) \notin requests
                 \/ i > 0 /\ i < Length(s) /\ AppendArgs(s, p, i) \notin requests

NextSendFirst ==
  IF \E s \in Server : Unsent(s) THEN \E s \in Server : Sends(s) ELSE Next

-----------------------------------------------------------------------------
\* A state of servers that have been neither crashed nor sent a snapshot, and that
\* have committed nothing.  votes[t] are those who voted for the leader of term t, those
\* who refused, and those whose vote is still on its way; a server's term is the last one
\* it was asked in.  log[s] is what s has logged, next and match are the leaders' indices
\* of the others, sent are the requests on their way, and left are the elections, the commands
\* and the crashes that are still to come.
LateBallot(leader, voters, refusing, late) ==
  [leader |-> leader, voters |-> voters, asked |-> voters \cup refusing, late |-> late]
Ballot(leader, voters, refusing) == LateBallot(leader, voters, refusing, {})
LastAsked(votes, s) == Max({0} \cup {t \in DOMAIN votes : s \in votes[t].asked})
LastLed(votes, s) == Max({0} \cup {t \in DOMAIN votes : votes[t].leader = s})
Stands(votes, s) == LastLed(votes, s) > 0 /\ LastLed(votes, s) = LastAsked(votes, s)
Leads(votes, s) ==
  Stands(votes, s) /\ LET vote == votes[LastLed(votes, s)]
                      IN  Majority(Cardinality(vote.voters \ vote.late))
VotesOf(votes, s) ==
  [t \in Term |-> IF t \in DOMAIN votes /\ s \in votes[t].voters THEN votes[t].leader ELSE Nil]

Left(e, c, r) == [elections |-> e, commands |-> c, crashes |-> r]

InitAfter(votes, log, next, match, sent, left) ==
  /\ currentTerm = [s \in Server |-> LastAsked(votes, s)]
  /\ votesGiven = [s \in Server |-> VotesOf(votes, s)]
  /\ entries = [s \in Server |-> <<Dummy>> \o log[s]]
  /\ lastIncludedIndex = [s \in Server |-> 0]
  /\ lastIncludedTerm = [s \in Server |-> -1]
  /\ state = [s \in Server |-> CASE Leads(votes, s) -> "LEADER"
                             [] Stands(votes, s) /\ ~Leads(votes, s) -> "CANDIDATE"
                             [] OTHER -> "FOLLOWER"]
  /\ votesReceived = [s \in Server |->
       IF LastLed(votes, s) > 0
       THEN LET vote == votes[LastLed(votes, s)] IN Cardinality(vote.voters \ vote.late)
       ELSE 0]
  /\ nextIndex = next
  /\ matchIndex = match
  /\ agreementGoing = [s \in Server |->
       Leads(votes, s) /\ \E i \in DOMAIN log[s] : log[s][i].term = LastLed(votes, s)]
  /\ commitIndex = [s \in Server |-> 0]
  /\ lastApplied = [s \in Server |-> 0]
  /\ applyTo = [s \in Server |-> 0]
  /\ applyMsg = [s \in Server |-> Nil]
  /\ bootMsg = [s \in Server |-> Nil]
  /\ mode = [s \in Server |-> "run"]
  /\ unsent = [s \in Server |-> {}]
  /\ persisted = [s \in Server |->
       [currentTerm |-> LastAsked(votes, s), votesGiven |-> VotesOf(votes, s),
        entries |-> <<Dummy>> \o log[s], lastIncludedIndex |-> 0, lastIncludedTerm |-> -1]]
  /\ snapshot = [s \in Server |-> <<>>]
  /\ applied = [s \in Server |-> <<>>]
  /\ snapping = [s \in Server |-> FALSE]
  /\ requests = sent
  /\ replies = UNION {{[type |-> "vote", to |-> votes[t].leader, incarnation |-> 0, term |-> t,
                        replyTerm |-> t, granted |-> TRUE, from |-> q] : q \in votes[t].late}
                      : t \in DOMAIN votes}
  /\ incarnation = [s \in Server |-> 0]
  /\ decided = <<>>
  /\ elections = MaxElections - left.elections
  /\ starts = MaxStarts - left.commands /\ crashes = MaxCrashes - left.crashes

\* The parts that three servers play.
Part == CHOOSE f \in [1 .. 3 -> Server] : Cardinality({f[1], f[2], f[3]}) = 3

Zero == [s \in Server |-> 0]
One == [s \in Server |-> 1]
Zeros == [s \in Server |-> Zero]

\* The vote of p that s, with that log, asks for in term t.
Asked(s, p, t, log) ==
  [type |-> "vote", from |-> s, to |-> p, incarnation |-> 0, term |-> t,
   lastIndex |-> Len(log), lastTerm |-> IF log = <<>> THEN 0 ELSE log[Len(log)].term]

\* Entries that a leader s of term t has sent to p and not committed yet.
Sent(s, p, t, prev, prevTerm, new) ==
  [type |-> "append", from |-> s, to |-> p, incarnation |-> 0, term |-> t,
   prev |-> prev, prevTerm |-> prevTerm, new |-> new, commit |-> 0]

\* s leads term 1 with a command that it has not sent yet: anyone may begin another election.
InitElected ==
  LET s == Part[1]
  IN  InitAfter(<<Ballot(s, Server, {})>>,
                [r \in Server |-> IF r = s THEN <<Entry(1, 1)>> ELSE <<>>],
                [r \in Server |-> IF r = s THEN One ELSE Zero], Zeros, {}, Left(1, 0, 0))

\* s leads term 1 with a command that p may have got.  p has just begun an election:
\* servers crash before and after its votes.
InitDeposed ==
  LET s == Part[1]  p == Part[2]  q == Part[3]
      command == <<Entry(1, 1)>>
  IN  \E got \in {<<>>, command} :
        InitAfter(<<Ballot(s, Server, {}), Ballot(p, {p}, {})>>,
                  [r \in Server |-> CASE r = s -> command
                                      [] r = p -> got
                                      [] r = q -> <<>>],
                  [r \in Server |-> IF r = s THEN One ELSE Zero], Zeros,
                  {Asked(p, r, 2, got) : r \in {s, q}}, Left(0, 0, 2))

\* s has won a first election with the vote of p: that of q is still on its way.
InitVoted ==
  LET s == Part[1]  p == Part[2]  q == Part[3]
  IN  InitAfter(<<LateBallot(s, Server, {}, {q})>>, [r \in Server |-> <<>>],
                [r \in Server |-> IF r = s THEN One ELSE Zero], Zeros, {},
                Left(MaxElections - 1, 0, 0))

\* s has led term 1 and logged two commands that nobody else has got.  It has refused
\* to vote for p, which leads term 2 and has replicated a command to q; q leads term 3.
InitContested ==
  LET s == Part[1]  p == Part[2]  q == Part[3]
  IN  InitAfter(<<Ballot(s, Server, {}), Ballot(p, {p, q}, {s}), Ballot(q, {p, q}, {})>>,
                [r \in Server |-> IF r = s THEN <<Entry(1, 1), Entry(1, 2)>>
                                          ELSE <<Entry(2, 3)>>],
                [r \in Server |-> CASE r = s -> One
                                    [] r = p -> [One EXCEPT ![q] = 2]
                                    [] r = q -> [x \in Server |-> 2]],
                [r \in Server |-> IF r = p THEN [Zero EXCEPT ![q] = 1] ELSE Zero],
                {Sent(s, q, 1, 0, -1, <<Entry(1, 1), Entry(1, 2)>>),
                 Sent(p, s, 2, 0, -1, <<Entry(2, 3)>>)}, Left(0, 1, 1))

\* One server, p, lags behind: the others have the leader's two commands.
InitLagging ==
  LET log == <<Entry(1, 1), Entry(1, 2)>>
      s == Part[1]  p == Part[2]
  IN  InitAfter(<<Ballot(s, Server, {})>>,
                [q \in Server |-> IF q = p THEN <<>> ELSE log],
                [q \in Server |-> IF q = s THEN [r \in Server |-> IF r \in {s, p} THEN 1 ELSE 3]
                                           ELSE Zero],
                [q \in Server |-> IF q = s THEN [r \in Server |-> IF r \in {s, p} THEN 0 ELSE 2]
                                           ELSE Zero],
                {Sent(s, q, 1, 0, -1, log) : q \in Server \ {s}},
                Left(0, MaxStarts - 2, MaxCrashes))

\* s has led term 1, with a first command that p has got and a second one whose
\* message to p is still on its way.  p led term 2 with a command of its own, and
\* now s leads term 3 with the vote of q.
InitReturned ==
  LET s == Part[1]  p == Part[2]  q == Part[3]
  IN  InitAfter(<<Ballot(s, Server, {}), Ballot(p, {p, q}, {}), Ballot(s, {s, q}, {})>>,
                [r \in Server |-> CASE r = s -> <<Entry(1, 1), Entry(1, 2)>>
                                    [] r = p -> <<Entry(1, 1), Entry(2, 3)>>
                                    [] r = q -> <<>>],
                [r \in Server |-> CASE r = s -> [x \in Server |-> 3]
                                    [] r = p -> [x \in Server |-> 2]
                                    [] r = q -> Zero],
                Zeros, {Sent(s, p, 1, 1, 1, <<Entry(1, 2)>>)}, Left(0, 1, 0))

SpecContested ==
  (InitElected \/ InitDeposed \/ InitVoted \/ InitContested) /\ [][NextSendFirst]_vars
SpecLagging == InitLagging /\ [][NextSendFirst]_vars
SpecReturned == InitReturned /\ [][NextSendFirst]_vars
=============================================================================
