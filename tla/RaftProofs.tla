----------------------------- MODULE RaftProofs -----------------------------
(***************************************************************************)
(* Theorems about Raft, for any number of elections, commands, crashes and *)
(* snapshots.  Its elections: a server votes once in a term, and at most   *)
(* three servers elect at most one leader in a term.  Its logs: types, and *)
(* with them that every slice keeps its slot 0; and that a log on disk     *)
(* never begins before the snapshot beside it ends.  And its logs where no *)
(* service takes a snapshot: services get the commands in order, no        *)
(* command has two places in any log, and an index and a term identify an  *)
(* entry of at most three servers.                                         *)
(***************************************************************************)
EXTENDS Raft, NatRecursion, FiniteSetTheorems, SequenceTheorems

-----------------------------------------------------------------------------
\* The inductive invariant of the elections.

ServerTypeOK ==
  /\ currentTerm \in [Server -> Nat]
  /\ votesGiven \in [Server -> Votes]
  /\ state \in [Server -> {"FOLLOWER", "CANDIDATE", "LEADER"}]
  /\ elections \in 0 .. MaxElections
  /\ \A s \in Server : currentTerm[s] <= elections

RequestOK(m) ==
  /\ m.from \in Server /\ m.to \in Server /\ m.term \in 0 .. elections
  /\ m.type = "vote" => m.from # m.to /\ m.term > 0

\* A granted vote is one its sender has given, and will not take back.
ReplyOK(r) ==
  /\ r.to \in Server /\ r.replyTerm \in 0 .. elections
  /\ r.type = "vote" /\ r.granted =>
       /\ r.from \in Server \ {r.to} /\ r.term \in Term
       /\ votesGiven[r.from][r.term] = r.to

MessagesOK ==
  /\ \A m \in requests : RequestOK(m)
  /\ \A r \in replies : ReplyOK(r)
  /\ unsent = [s \in Server |-> unsent[s]]
  /\ \A s \in Server : \A r \in unsent[s] : ReplyOK(r)

\* Nothing of terms and votes is volatile: whoever changes them calls persist.
VotesPersisted ==
  /\ persisted = [s \in Server |-> persisted[s]]
  /\ \A s \in Server : /\ persisted[s].currentTerm = currentTerm[s]
                       /\ persisted[s].votesGiven = votesGiven[s]

\* No vote is given in a term to come.
VotesPast ==
  \A s \in Server, t \in Term : votesGiven[s][t] # Nil => t <= currentTerm[s]

\* A candidate and a leader have voted for themselves.
OwnVote ==
  \A s \in Server : state[s] # "FOLLOWER" =>
    currentTerm[s] \in Term /\ votesGiven[s][currentTerm[s]] = s

\* A leader has the vote of another server in its term.
OthersVote ==
  \A s \in Server : state[s] = "LEADER" =>
    \E p \in Server \ {s} : votesGiven[p][currentTerm[s]] = s

IInv ==
  /\ ServerTypeOK /\ MessagesOK /\ VotesPersisted
  /\ VotesPast /\ OwnVote /\ OthersVote

-----------------------------------------------------------------------------
\* What the invariant says is about these variables only.
electionVars == <<currentTerm, votesGiven, state, elections>>
mailVars == <<requests, replies, unsent>>

\* The initial states satisfy the invariant.
LEMMA InitInvariant == Init => IInv
  <1> SUFFICES ASSUME Init PROVE IInv
    OBVIOUS
  <1> USE RaftAssumption DEF Init
  <1>1. ServerTypeOK
    BY DEF ServerTypeOK, Votes
  <1>2. MessagesOK
    BY DEF MessagesOK
  <1>3. VotesPersisted
    BY DEF VotesPersisted
  <1>4. VotesPast
    BY DEF VotesPast
  <1>5. OwnVote /\ OthersVote
    BY DEF OwnVote, OthersVote
  <1>6. QED
    BY <1>1, <1>2, <1>3, <1>4, <1>5 DEF IInv

\* A step that gives no vote keeps the votes in order, provided that whoever changes
\* its term ends as a follower.
LEMMA NoVoteGiven ==
  ASSUME IInv, UNCHANGED <<votesGiven, elections>>,
         currentTerm' \in [Server -> 0 .. elections],
         state' \in [Server -> {"FOLLOWER", "CANDIDATE", "LEADER"}],
         \A s \in Server : \/ state'[s] = "FOLLOWER" /\ currentTerm'[s] >= currentTerm[s]
                           \/ state'[s] = state[s] /\ currentTerm'[s] = currentTerm[s]
  PROVE  ServerTypeOK' /\ VotesPast' /\ OwnVote' /\ OthersVote'
  <1> USE RaftAssumption
  <1>1. ServerTypeOK'
    BY DEF IInv, ServerTypeOK
  <1>2. VotesPast'
    BY DEF IInv, ServerTypeOK, VotesPast, Term
  <1>3. OwnVote'
    BY DEF IInv, OwnVote
  <1>4. OthersVote'
    BY DEF IInv, OthersVote
  <1>5. QED
    BY <1>1, <1>2, <1>3, <1>4

\* Votes that are given stay given: no reply becomes wrong.
LEMMA RepliesStayOK ==
  ASSUME NEW r, ReplyOK(r), elections \in Nat, elections' \in Nat, elections' >= elections,
         \A s \in Server, t \in Term : votesGiven[s][t] \in Server =>
                                          votesGiven'[s][t] = votesGiven[s][t]
  PROVE  ReplyOK(r)'
  BY DEF ReplyOK

\* Persist leaves on disk the terms and votes that the server now has.
LEMMA PersistKeepsUp ==
  ASSUME IInv, NEW s \in Server, Persist(s),
         \A p \in Server \ {s} : currentTerm'[p] = currentTerm[p] /\ votesGiven'[p] = votesGiven[p]
  PROVE  VotesPersisted'
  BY DEF IInv, VotesPersisted, Persist

\* A step that gives no vote keeps the whole invariant, if its messages are right.
LEMMA QuietStep ==
  ASSUME IInv, UNCHANGED <<votesGiven, elections>>,
         currentTerm' \in [Server -> 0 .. elections],
         state' \in [Server -> {"FOLLOWER", "CANDIDATE", "LEADER"}],
         \A s \in Server : \/ state'[s] = "FOLLOWER" /\ currentTerm'[s] >= currentTerm[s]
                           \/ state'[s] = state[s] /\ currentTerm'[s] = currentTerm[s],
         VotesPersisted',
         \A m \in requests' : m \in requests \/ RequestOK(m)',
         \A r \in replies' : r \in replies \/ ReplyOK(r)',
         unsent' = [s \in Server |-> unsent'[s]],
         \A s \in Server : \A r \in unsent'[s] : r \in unsent[s] \/ ReplyOK(r)'
  PROVE  IInv'
  <1>1. ServerTypeOK' /\ VotesPast' /\ OwnVote' /\ OthersVote'
    BY NoVoteGiven
  <1>2. \A r : ReplyOK(r) => ReplyOK(r)'
    BY DEF ReplyOK
  <1>3. MessagesOK'
    BY <1>2 DEF IInv, MessagesOK, RequestOK
  <1>4. QED
    BY <1>1, <1>3 DEF IInv

\* Steps that touch no term, no vote and no message.
LEMMA UnrelatedStep ==
  ASSUME IInv, UNCHANGED <<electionVars, mailVars, persisted>>
  PROVE  IInv'
  BY DEF IInv, electionVars, mailVars, ServerTypeOK, MessagesOK, RequestOK, ReplyOK,
         VotesPersisted, VotesPast, OwnVote, OthersVote

-----------------------------------------------------------------------------
\* One lemma for each action that touches a term, a vote or a message.

\* The candidate's new term is beyond every term in which it has voted.
LEMMA StartElectionsInvariant ==
  ASSUME IInv, NEW s \in Server, StartElections(s)
  PROVE  IInv'
  <1> DEFINE term == currentTerm[s] + 1
  <1> USE RaftAssumption
  <1>1. /\ term \in Term /\ elections' = elections + 1 /\ votesGiven[s][term] = Nil
        /\ currentTerm' = [currentTerm EXCEPT ![s] = term]
        /\ votesGiven' = [votesGiven EXCEPT ![s][term] = s]
        /\ state' = [state EXCEPT ![s] = "CANDIDATE"]
        /\ UNCHANGED <<replies, unsent>>
    BY DEF IInv, ServerTypeOK, VotesPast, StartElections, Term
  <1>2. \A p \in Server, t \in Term : votesGiven[p][t] \in Server =>
                                     votesGiven'[p][t] = votesGiven[p][t]
    BY <1>1 DEF IInv, ServerTypeOK, Votes
  <1>3. ServerTypeOK'
    <2>1. votesGiven' \in [Server -> Votes]
      BY <1>1 DEF IInv, ServerTypeOK, Votes
    <2>2. /\ currentTerm' \in [Server -> Nat]
          /\ \A p \in Server : currentTerm'[p] <= elections'
      BY <1>1 DEF IInv, ServerTypeOK, Term
    <2>3. /\ state' \in [Server -> {"FOLLOWER", "CANDIDATE", "LEADER"}]
          /\ elections' \in 0 .. MaxElections
      BY <1>1 DEF IInv, ServerTypeOK, StartElections
    <2>4. QED
      BY <2>1, <2>2, <2>3 DEF ServerTypeOK
  <1>4. MessagesOK'
    <2>1. \A m \in requests' : RequestOK(m)'
      BY <1>1 DEF IInv, ServerTypeOK, MessagesOK, RequestOK, StartElections, Send, Term
    <2>2. \A r : ReplyOK(r) => ReplyOK(r)'
      BY <1>1, <1>2, RepliesStayOK DEF IInv, ServerTypeOK
    <2>3. QED
      BY <1>1, <2>1, <2>2 DEF IInv, MessagesOK
  <1>5. VotesPersisted'
    BY <1>1 DEF IInv, ServerTypeOK, VotesPersisted, StartElections, Persist
  <1>6. VotesPast'
    BY <1>1 DEF IInv, ServerTypeOK, VotesPast, Votes, Term
  <1>7. OwnVote'
    BY <1>1 DEF IInv, ServerTypeOK, OwnVote, Votes
  <1>8. OthersVote'
    <2> SUFFICES ASSUME NEW l \in Server, state'[l] = "LEADER"
                 PROVE  \E p \in Server \ {l} : votesGiven'[p][currentTerm'[l]] = l
      BY DEF OthersVote
    <2>1. l # s /\ state[l] = "LEADER" /\ currentTerm'[l] = currentTerm[l]
      BY <1>1 DEF IInv, ServerTypeOK
    <2>2. PICK p \in Server \ {l} : votesGiven[p][currentTerm[l]] = l
      BY <2>1 DEF IInv, OthersVote
    <2>3. currentTerm[l] \in Term
      BY <2>1 DEF IInv, OwnVote
    <2>4. QED
      BY <1>2, <2>1, <2>2, <2>3
  <1>9. QED
    BY <1>3, <1>4, <1>5, <1>6, <1>7, <1>8 DEF IInv

\* A vote goes to the candidate only if the server has voted for nobody else.
LEMMA RequestVoteInvariant ==
  ASSUME IInv, NEW m \in requests, RequestVote(m)
  PROVE  IInv'
  <1> DEFINE s == m.to
             granted == m.term >= currentTerm[s] /\ MayVote(m, s)
  <1>1. /\ s \in Server /\ m.from \in Server \ {s} /\ m.term \in Term
        /\ m.term <= elections /\ UNCHANGED <<elections, unsent>>
        /\ requests' = requests \ {m}
    BY RaftAssumption DEF IInv, ServerTypeOK, MessagesOK, RequestOK, RequestVote, Term, boundVars
  <1>2. \/ m.term < currentTerm[s] /\ UNCHANGED <<currentTerm, state>>
        \/ /\ m.term >= currentTerm[s]
           /\ currentTerm' = [currentTerm EXCEPT ![s] = m.term]
           /\ IF m.term > currentTerm[s] THEN StepDown(s) ELSE UNCHANGED state
    BY DEF RequestVote
  <1>3. /\ currentTerm' \in [Server -> 0 .. elections]
        /\ state' \in [Server -> {"FOLLOWER", "CANDIDATE", "LEADER"}]
        /\ \A p \in Server : \/ state'[p] = "FOLLOWER" /\ currentTerm'[p] >= currentTerm[p]
                             \/ state'[p] = state[p] /\ currentTerm'[p] = currentTerm[p]
    <2>1. currentTerm \in [Server -> 0 .. elections]
      BY DEF IInv, ServerTypeOK
    <2>2. m.term \in 0 .. elections
      BY <1>1, RaftAssumption DEF IInv, ServerTypeOK, Term
    <2>3. QED
      BY <1>1, <1>2, <2>1, <2>2 DEF IInv, ServerTypeOK, StepDown
  <1>4. /\ granted => /\ votesGiven' = [votesGiven EXCEPT ![s][m.term] = m.from]
                      /\ votesGiven[s][m.term] \in {Nil, m.from}
                      /\ currentTerm' = [currentTerm EXCEPT ![s] = m.term]
                      /\ replies' = replies \cup {VoteReply(m, TRUE)}
        /\ ~granted => /\ UNCHANGED votesGiven
                       /\ replies' \subseteq replies \cup {VoteReply(m, FALSE)}
    <2>1. CASE m.term < currentTerm[s]
      <3>1. ~(m.term >= currentTerm[s])
        BY <1>1, <2>1, RaftAssumption DEF IInv, ServerTypeOK, Term
      <3>2. UNCHANGED votesGiven /\ replies' = replies \cup {VoteReply(m, FALSE)}
        BY <3>1 DEF RequestVote, Reply
      <3>3. QED
        BY <3>1, <3>2
    <2>2. CASE ~(m.term < currentTerm[s])
      BY <1>1, <2>2 DEF IInv, ServerTypeOK, Term, RequestVote, Reply, MayVote
    <2>3. QED
      BY <2>1, <2>2
  <1>5. VotesPersisted'
    <2>1. \A p \in Server \ {s} : currentTerm'[p] = currentTerm[p] /\ votesGiven'[p] = votesGiven[p]
      BY <1>1, <1>2, <1>4 DEF IInv, ServerTypeOK
    <2>2. QED
      BY <1>1, <2>1, PersistKeepsUp DEF RequestVote
  <1>6. \A p \in Server, t \in Term :
           \/ votesGiven'[p][t] = votesGiven[p][t]
           \/ /\ p = s /\ t = m.term /\ votesGiven[p][t] \in {Nil, m.from}
              /\ votesGiven'[p][t] = m.from /\ currentTerm'[p] = m.term
    <2>1. CASE ~granted
      BY <1>4, <2>1
    <2>2. CASE granted
      <3>1. TAKE p \in Server, t \in Term
      <3>2. CASE p # s \/ t # m.term
        BY <1>1, <1>4, <2>2, <3>2 DEF IInv, ServerTypeOK, Votes
      <3>3. CASE p = s /\ t = m.term
        BY <1>1, <1>4, <2>2, <3>3 DEF IInv, ServerTypeOK, Votes
      <3>4. QED
        BY <3>2, <3>3
    <2>3. QED
      BY <2>1, <2>2
  <1>7. \A p \in Server, t \in Term : votesGiven[p][t] \in Server =>
                                     votesGiven'[p][t] = votesGiven[p][t]
    BY <1>6, RaftAssumption
  <1>8. \A r : ReplyOK(r) => ReplyOK(r)'
    BY <1>1, <1>7, RepliesStayOK, RaftAssumption DEF IInv, ServerTypeOK
  <1>9. CASE granted
    <2>1. votesGiven' \in [Server -> Votes] /\ votesGiven'[s][m.term] = m.from
      BY <1>1, <1>4, <1>9 DEF IInv, ServerTypeOK, Votes
    <2>2. ServerTypeOK'
      BY <1>1, <1>3, <2>1, RaftAssumption DEF IInv, ServerTypeOK
    <2>3. ASSUME NEW r, r = VoteReply(m, TRUE) PROVE ReplyOK(r)'
      <3>1. /\ r.to = m.from /\ r.from = s /\ r.term = m.term
            /\ r.replyTerm = currentTerm[s]
        BY <2>3 DEF VoteReply
      <3>2. currentTerm[s] \in 0 .. elections
        BY <1>1 DEF IInv, ServerTypeOK
      <3>3. QED
        BY <1>1, <2>1, <3>1, <3>2 DEF ReplyOK
    <2>4. MessagesOK'
      BY <1>1, <1>4, <1>8, <1>9, <2>3 DEF IInv, MessagesOK, RequestOK
    <2>5. VotesPast'
      <3> SUFFICES ASSUME NEW p \in Server, NEW t \in Term, votesGiven'[p][t] # Nil
                   PROVE  t <= currentTerm'[p]
        BY DEF VotesPast
      <3>1. CASE votesGiven'[p][t] = votesGiven[p][t]
        <4>1. t <= currentTerm[p] /\ currentTerm'[p] >= currentTerm[p]
          BY <1>3, <3>1 DEF IInv, ServerTypeOK, VotesPast
        <4>2. QED
          BY <1>3, <4>1, RaftAssumption DEF IInv, ServerTypeOK, Term
      <3>2. CASE t = m.term /\ currentTerm'[p] = m.term
        BY <3>2, RaftAssumption DEF Term
      <3>3. QED
        BY <1>6, <3>1, <3>2
    <2>6. OwnVote'
      BY <1>1, <1>3, <1>7 DEF IInv, OwnVote
    <2>7. OthersVote'
      BY <1>1, <1>3, <1>7 DEF IInv, OwnVote, OthersVote
    <2>8. QED
      BY <1>5, <2>2, <2>4, <2>5, <2>6, <2>7 DEF IInv
  <1>10. CASE ~granted
    <2>1. ServerTypeOK' /\ VotesPast' /\ OwnVote' /\ OthersVote'
      BY <1>1, <1>3, <1>4, <1>10, NoVoteGiven
    <2>2. ASSUME NEW r, r = VoteReply(m, FALSE) PROVE ReplyOK(r)'
      <3>1. r.to = m.from /\ r.replyTerm = currentTerm[s] /\ ~r.granted
        BY <2>2 DEF VoteReply
      <3>2. currentTerm[s] \in 0 .. elections
        BY <1>1 DEF IInv, ServerTypeOK
      <3>3. QED
        BY <1>1, <3>1, <3>2 DEF ReplyOK
    <2>3. MessagesOK'
      BY <1>1, <1>4, <1>8, <1>10, <2>2 DEF IInv, MessagesOK, RequestOK
    <2>4. QED
      BY <1>5, <2>1, <2>3 DEF IInv
  <1>11. QED
    BY <1>9, <1>10

\* A leader has counted a vote of its own term, the one that made it win.
LEMMA VoteAnswerInvariant ==
  ASSUME IInv, NEW r \in replies, VoteAnswer(r.to, r)
  PROVE  IInv'
  <1> DEFINE s == r.to
  <1>1. /\ s \in Server /\ ReplyOK(r) /\ r.type = "vote"
        /\ UNCHANGED <<currentTerm, votesGiven, elections, requests, unsent, persisted>>
        /\ replies' = replies \ {r}
    BY DEF IInv, MessagesOK, ReplyOK, VoteAnswer, durableVars, boundVars, persisterVars
  <1>2. \/ state' = [state EXCEPT ![s] = "FOLLOWER"]
        \/ state' = state
        \/ /\ r.granted /\ r.term = currentTerm[s] /\ state[s] = "CANDIDATE"
           /\ state' = [state EXCEPT ![s] = "LEADER"]
    BY DEF VoteAnswer, StepDown, Wins
  <1>3. currentTerm \in [Server -> 0 .. elections]
    BY DEF IInv, ServerTypeOK
  <1>4. VotesPersisted'
    BY <1>1 DEF IInv, VotesPersisted
  <1>5. CASE state' = [state EXCEPT ![s] = "FOLLOWER"] \/ state' = state
    <2>1. /\ state' \in [Server -> {"FOLLOWER", "CANDIDATE", "LEADER"}]
          /\ \A p \in Server : /\ state'[p] = "FOLLOWER" \/ state'[p] = state[p]
                               /\ currentTerm'[p] = currentTerm[p]
                               /\ currentTerm'[p] >= currentTerm[p]
      BY <1>1, <1>3, <1>5, RaftAssumption DEF IInv, ServerTypeOK
    <2>2. unsent' = [p \in Server |-> unsent'[p]]
      BY <1>1 DEF IInv, MessagesOK
    <2>3. QED
      BY <1>1, <1>3, <1>4, <2>1, <2>2, QuietStep
  <1>6. CASE /\ r.granted /\ r.term = currentTerm[s] /\ state[s] = "CANDIDATE"
             /\ state' = [state EXCEPT ![s] = "LEADER"]
    <2>1. ServerTypeOK' /\ VotesPast' /\ OwnVote'
      BY <1>1, <1>6 DEF IInv, ServerTypeOK, VotesPast, OwnVote
    <2>2. MessagesOK'
      BY <1>1 DEF IInv, MessagesOK, RequestOK, ReplyOK
    <2>3. r.from \in Server \ {s} /\ votesGiven[r.from][currentTerm[s]] = s
      BY <1>1, <1>6 DEF ReplyOK
    <2>4. OthersVote'
      BY <1>1, <1>6, <2>3 DEF IInv, ServerTypeOK, OthersVote
    <2>5. QED
      BY <1>4, <2>1, <2>2, <2>4 DEF IInv
  <1>7. QED
    BY <1>2, <1>5, <1>6

\* Start changes the log only.
LEMMA StartInvariant ==
  ASSUME IInv, NEW s \in Server, Start(s)
  PROVE  IInv'
  <1>1. UNCHANGED <<currentTerm, votesGiven, state, elections, requests, replies, unsent>>
    BY DEF Start, networkVars
  <1>2. VotesPersisted'
    BY <1>1, PersistKeepsUp DEF Start
  <1>3. QED
    BY <1>1, <1>2 DEF IInv, ServerTypeOK, MessagesOK, RequestOK, ReplyOK, VotesPast, OwnVote,
                      OthersVote

\* A leader sends its own term.
LEMMA LeaderSends ==
  ASSUME IInv, NEW ms, UNCHANGED <<electionVars, replies, unsent, persisted>>,
         requests' = requests \cup ms, \A m \in ms : RequestOK(m)
  PROVE  IInv'
  BY DEF IInv, electionVars, ServerTypeOK, MessagesOK, RequestOK, ReplyOK, VotesPersisted,
         VotesPast, OwnVote, OthersVote

LEMMA SendHeartBeatsInvariant ==
  ASSUME IInv, NEW s \in Server, SendHeartBeats(s)
  PROVE  IInv'
  <1>1. \A m \in HeartBeats(s) : RequestOK(m)
    BY DEF IInv, ServerTypeOK, HeartBeats, RequestOK
  <1>2. /\ UNCHANGED <<electionVars, replies, unsent, persisted>>
        /\ requests' = requests \cup HeartBeats(s)
    BY DEF SendHeartBeats, Send, electionVars, durableVars, persisterVars, boundVars
  <1>3. QED
    BY <1>1, <1>2, LeaderSends

LEMMA StartAgreementInvariant ==
  ASSUME IInv, NEW s \in Server, NEW p \in Server, StartAgreement(s, p)
  PROVE  IInv'
  <1> DEFINE i == nextIndex[s][p] - lastIncludedIndex[s]
  <1>1. currentTerm[s] \in 0 .. elections
    BY DEF IInv, ServerTypeOK
  <1>2. RequestOK(SnapshotArgs(s, p)) /\ RequestOK(AppendArgs(s, p, i))
    BY <1>1 DEF RequestOK, SnapshotArgs, AppendArgs
  <1>3. PICK ms \in {{}, {SnapshotArgs(s, p)}, {AppendArgs(s, p, i)}} : requests' = requests \cup ms
    BY DEF StartAgreement, Send
  <1>4. UNCHANGED <<electionVars, replies, unsent, persisted>>
    BY DEF StartAgreement, electionVars, durableVars, persisterVars, boundVars
  <1>5. QED
    BY <1>2, <1>3, <1>4, LeaderSends

\* AppendEntry takes over the leader's term as a follower.
LEMMA AppendEntryInvariant ==
  ASSUME IInv, NEW m \in requests, AppendEntry(m)
  PROVE  IInv'
  <1> DEFINE s == m.to
  <1>1. s \in Server /\ m.from \in Server /\ m.term \in 0 .. elections
    BY DEF IInv, MessagesOK, RequestOK
  <1>2. currentTerm \in [Server -> 0 .. elections] /\ elections \in Nat
    BY RaftAssumption DEF IInv, ServerTypeOK
  <1>3. UNCHANGED <<votesGiven, elections, unsent, requests>>
    BY DEF AppendEntry, boundVars
  <1>4. \/ UNCHANGED <<currentTerm, state>>
        \/ /\ m.term >= currentTerm[s] /\ StepDown(s)
           /\ currentTerm' = [currentTerm EXCEPT ![s] = m.term]
    BY DEF AppendEntry
  <1>5. /\ currentTerm' \in [Server -> 0 .. elections]
        /\ state' \in [Server -> {"FOLLOWER", "CANDIDATE", "LEADER"}]
        /\ \A p \in Server : \/ state'[p] = "FOLLOWER" /\ currentTerm'[p] >= currentTerm[p]
                             \/ state'[p] = state[p] /\ currentTerm'[p] = currentTerm[p]
    BY <1>1, <1>2, <1>4 DEF IInv, ServerTypeOK, StepDown
  <1>6. VotesPersisted'
    <2>1. \A p \in Server \ {s} : currentTerm'[p] = currentTerm[p] /\ votesGiven'[p] = votesGiven[p]
      BY <1>2, <1>3, <1>4
    <2>2. QED
      BY <1>1, <2>1, PersistKeepsUp DEF AppendEntry
  <1>7. \A r \in replies' : r \in replies \/ ReplyOK(r)'
    <2>1. ASSUME NEW b, NEW t, NEW c, NEW r, r = AppendReply(m, b, t, c)
          PROVE  ReplyOK(r)'
      <3>1. r.type = "append" /\ r.to = m.from /\ r.replyTerm = currentTerm[s]
        BY <2>1 DEF AppendReply
      <3>2. QED
        BY <1>1, <1>2, <1>3, <3>1 DEF ReplyOK
    <2>2. PICK b, t, c : replies' \subseteq replies \cup {AppendReply(m, b, t, c)}
      BY DEF AppendEntry, Refuse, Accept, Reply
    <2>3. QED
      BY <2>1, <2>2
  <1>8. unsent' = [p \in Server |-> unsent'[p]]
    BY <1>3 DEF IInv, MessagesOK
  <1>9. QED
    BY <1>3, <1>5, <1>6, <1>7, <1>8, QuietStep

\* The answer to an AppendEntry, whatever its age, may only make the leader step down.
LEMMA AppendAnswerInvariant ==
  ASSUME IInv, NEW r \in replies, AppendAnswer(r.to, r)
  PROVE  IInv'
  <1> DEFINE s == r.to
  <1>1. s \in Server /\ r.replyTerm \in 0 .. elections
    BY DEF IInv, MessagesOK, ReplyOK
  <1>2. currentTerm \in [Server -> 0 .. elections] /\ elections \in Nat
    BY RaftAssumption DEF IInv, ServerTypeOK
  <1>3. UNCHANGED <<votesGiven, elections, unsent, requests, replies>>
    BY DEF AppendAnswer, boundVars, networkVars
  <1>4. \/ UNCHANGED <<currentTerm, state>>
        \/ /\ r.replyTerm > currentTerm[s] /\ StepDown(s)
           /\ currentTerm' = [currentTerm EXCEPT ![s] = r.replyTerm]
    BY DEF AppendAnswer
  <1>5. /\ currentTerm' \in [Server -> 0 .. elections]
        /\ state' \in [Server -> {"FOLLOWER", "CANDIDATE", "LEADER"}]
        /\ \A p \in Server : \/ state'[p] = "FOLLOWER" /\ currentTerm'[p] >= currentTerm[p]
                             \/ state'[p] = state[p] /\ currentTerm'[p] = currentTerm[p]
    BY <1>1, <1>2, <1>4 DEF IInv, ServerTypeOK, StepDown
  <1>6. VotesPersisted'
    <2>1. \A p \in Server \ {s} : currentTerm'[p] = currentTerm[p] /\ votesGiven'[p] = votesGiven[p]
      BY <1>2, <1>3, <1>4
    <2>2. QED
      BY <1>1, <2>1, PersistKeepsUp DEF AppendAnswer
  <1>7. unsent' = [p \in Server |-> unsent'[p]]
    BY <1>3 DEF IInv, MessagesOK
  <1>8. QED
    BY <1>3, <1>5, <1>6, <1>7, QuietStep

\* Steps that change no term and no vote, and at most make a server step down.
LEMMA SameTermStep ==
  ASSUME IInv, NEW s \in Server, UNCHANGED <<currentTerm, votesGiven, elections, requests>>,
         StepDown(s) \/ UNCHANGED state, VotesPersisted',
         \A r \in replies' : r \in replies \/ ReplyOK(r)' \/ r \in unsent[s],
         unsent' = [unsent EXCEPT ![s] = unsent'[s]], \A r \in unsent'[s] : ReplyOK(r)'
  PROVE  IInv'
  <1>1. /\ currentTerm' \in [Server -> 0 .. elections]
        /\ state' \in [Server -> {"FOLLOWER", "CANDIDATE", "LEADER"}]
        /\ \A p \in Server : \/ state'[p] = "FOLLOWER" /\ currentTerm'[p] >= currentTerm[p]
                             \/ state'[p] = state[p] /\ currentTerm'[p] = currentTerm[p]
    BY RaftAssumption DEF IInv, ServerTypeOK, StepDown
  <1>2. \A r \in replies' : r \in replies \/ ReplyOK(r)'
    BY DEF IInv, MessagesOK, ReplyOK
  <1>3. /\ unsent' = [p \in Server |-> unsent'[p]]
        /\ \A p \in Server : \A r \in unsent'[p] : r \in unsent[p] \/ ReplyOK(r)'
    BY DEF IInv, MessagesOK
  <1>4. QED
    BY <1>1, <1>2, <1>3, QuietStep

LEMMA SnapshotInvariant ==
  ASSUME IInv, NEW s \in Server, Snapshot(s)
  PROVE  IInv'
  <1>1. UNCHANGED <<currentTerm, votesGiven, elections, requests, replies, state>>
    BY DEF Snapshot, durableVars, boundVars, networkVars
  <1>2. VotesPersisted'
    <2>1. CASE Persist(s)
      BY <1>1, <2>1, PersistKeepsUp
    <2>2. CASE UNCHANGED persisted
      BY <1>1, <2>2 DEF IInv, VotesPersisted
    <2>3. QED
      BY <2>1, <2>2 DEF Snapshot, Save
  <1>3. unsent' = unsent \/ unsent' = [unsent EXCEPT ![s] = {}]
    BY DEF Snapshot, Save
  <1>4. QED
    BY <1>1, <1>2, <1>3
       DEF IInv, ServerTypeOK, MessagesOK, RequestOK, ReplyOK, VotesPast, OwnVote, OthersVote

LEMMA SaveStateAndSnapshotInvariant ==
  ASSUME IInv, NEW s \in Server, SaveStateAndSnapshot(s)
  PROVE  IInv'
  <1>1. /\ UNCHANGED <<currentTerm, votesGiven, elections, requests, state, persisted>>
        /\ replies' = replies \cup unsent[s]
        /\ unsent' = [unsent EXCEPT ![s] = {}]
    BY DEF SaveStateAndSnapshot, durableVars, boundVars
  <1>2. VotesPersisted'
    BY <1>1 DEF IInv, VotesPersisted
  <1>3. unsent'[s] = {}
    BY <1>1 DEF IInv, MessagesOK
  <1>4. QED
    BY <1>1, <1>2, <1>3, SameTermStep

\* InstallSnapshot does not even take over the leader's term.
LEMMA InstallSnapshotInvariant ==
  ASSUME IInv, NEW m \in requests, InstallSnapshot(m)
  PROVE  IInv'
  <1> DEFINE s == m.to
  <1>1. s \in Server /\ m.from \in Server
    BY DEF IInv, MessagesOK, RequestOK
  <1>2. UNCHANGED <<currentTerm, votesGiven, elections, requests>>
    BY DEF InstallSnapshot, boundVars
  <1>3. StepDown(s) \/ UNCHANGED state
    BY DEF InstallSnapshot
  <1>4. VotesPersisted'
    <2>1. CASE Persist(s)
      BY <1>1, <1>2, <2>1, PersistKeepsUp
    <2>2. CASE UNCHANGED persisted
      BY <1>2, <2>2 DEF IInv, VotesPersisted
    <2>3. QED
      BY <2>1, <2>2 DEF InstallSnapshot, Save
  <1>5. ASSUME NEW r, r = SnapshotReply(m) PROVE ReplyOK(r)'
    <2>1. r.type = "snapshot" /\ r.to = m.from /\ r.replyTerm = currentTerm[s]
      BY <1>5 DEF SnapshotReply
    <2>2. currentTerm[s] \in 0 .. elections
      BY <1>1 DEF IInv, ServerTypeOK
    <2>3. QED
      BY <1>1, <1>2, <2>1, <2>2 DEF ReplyOK
  <1>6. replies' \subseteq replies \cup {SnapshotReply(m)}
    BY DEF InstallSnapshot, Reply
  <1>7. unsent' = unsent \/ unsent' = [unsent EXCEPT ![s] = {SnapshotReply(m)}]
    BY DEF InstallSnapshot, Save
  <1>8. CASE unsent' = unsent
    <2>1. unsent' = [unsent EXCEPT ![s] = unsent'[s]] /\ \A r \in unsent'[s] : ReplyOK(r)'
      BY <1>1, <1>2, <1>8 DEF IInv, MessagesOK, ReplyOK
    <2>2. QED
      BY <1>1, <1>2, <1>3, <1>4, <1>5, <1>6, <2>1, SameTermStep
  <1>9. CASE unsent' = [unsent EXCEPT ![s] = {SnapshotReply(m)}]
    <2>1. unsent'[s] = {SnapshotReply(m)}
      BY <1>1, <1>9 DEF IInv, MessagesOK
    <2>2. QED
      BY <1>1, <1>2, <1>3, <1>4, <1>5, <1>6, <1>9, <2>1, SameTermStep
  <1>10. QED
    BY <1>7, <1>8, <1>9

LEMMA SnapshotAnswerInvariant ==
  ASSUME IInv, NEW r \in replies, SnapshotAnswer(r.to, r)
  PROVE  IInv'
  <1> DEFINE s == r.to
  <1>1. s \in Server
    BY DEF IInv, MessagesOK, ReplyOK
  <1>2. /\ UNCHANGED <<currentTerm, votesGiven, elections, requests, replies, unsent, persisted>>
        /\ StepDown(s) \/ UNCHANGED state
    BY DEF SnapshotAnswer, durableVars, boundVars, networkVars, persisterVars
  <1>3. VotesPersisted'
    BY <1>2 DEF IInv, VotesPersisted
  <1>4. unsent' = [unsent EXCEPT ![s] = unsent'[s]] /\ \A x \in unsent'[s] : ReplyOK(x)'
    BY <1>1, <1>2 DEF IInv, MessagesOK, ReplyOK
  <1>5. QED
    BY <1>1, <1>2, <1>3, <1>4, SameTermStep

\* A restarted server comes back with its term and its votes, as a follower.
LEMMA CrashInvariant ==
  ASSUME IInv, NEW s \in Server, Crash(s)
  PROVE  IInv'
  <1>1. Restored(s).currentTerm = currentTerm[s] /\ Restored(s).votesGiven = votesGiven[s]
    BY DEF IInv, VotesPersisted, Restored
  <1>2. UNCHANGED <<currentTerm, votesGiven, elections, requests, replies, persisted>>
    BY <1>1 DEF IInv, ServerTypeOK, Crash, networkVars, persisterVars
  <1>3. StepDown(s) /\ unsent' = [unsent EXCEPT ![s] = {}]
    BY DEF Crash
  <1>4. VotesPersisted'
    BY <1>2 DEF IInv, VotesPersisted
  <1>5. unsent'[s] = {}
    BY <1>3 DEF IInv, MessagesOK
  <1>6. QED
    BY <1>2, <1>3, <1>4, <1>5, SameTermStep

-----------------------------------------------------------------------------
\* Every step preserves the invariant.
LEMMA StepInvariant == IInv /\ [Next]_vars => IInv'
  <1> SUFFICES ASSUME IInv, [Next]_vars PROVE IInv'
    OBVIOUS
  <1>1. ASSUME NEW s \in Server,
               AgreementEnds(s) \/ CheckIfCommitted(s) \/ SendApply(s) \/ ApplyCommand(s)
                 \/ ReadPersistedSnapshot(s) \/ ApplyPersistedSnapshot(s)
        PROVE  IInv'
    <2>1. UNCHANGED <<electionVars, mailVars, persisted>>
      BY <1>1 DEF AgreementEnds, CheckIfCommitted, SendApply, ApplyCommand,
                  ReadPersistedSnapshot, ApplyPersistedSnapshot, electionVars, mailVars,
                  durableVars, persisterVars,
                  networkVars, boundVars
    <2>2. QED
      BY <2>1, UnrelatedStep
  <1>2. ASSUME NEW s \in Server,
               \/ StartElections(s) \/ Start(s) \/ SendHeartBeats(s) \/ Snapshot(s)
               \/ SaveStateAndSnapshot(s) \/ Crash(s) \/ \E p \in Server : StartAgreement(s, p)
        PROVE  IInv'
    BY <1>2, StartElectionsInvariant, StartInvariant, SendHeartBeatsInvariant,
       SnapshotInvariant, SaveStateAndSnapshotInvariant, CrashInvariant,
       StartAgreementInvariant
  <1>3. ASSUME NEW m \in requests, Handle(m) PROVE IInv'
    BY <1>3, RequestVoteInvariant, AppendEntryInvariant, InstallSnapshotInvariant DEF Handle
  <1>4. ASSUME NEW r \in replies, HandleAnswer(r) PROVE IInv'
    BY <1>4, VoteAnswerInvariant, AppendAnswerInvariant, SnapshotAnswerInvariant
       DEF HandleAnswer
  <1>5. CASE UNCHANGED vars
    BY <1>5, UnrelatedStep
       DEF vars, electionVars, mailVars, durableVars, persisterVars, networkVars, boundVars
  <1>6. QED
    BY <1>1, <1>2, <1>3, <1>4, <1>5 DEF Next

\* The invariant holds in every reachable state: terms are persisted before they are
\* used, votes are for one server a term, and who leads has a vote of another server.
THEOREM Invariant == Spec => []IInv
  <1>1. QED
    BY InitInvariant, StepInvariant, PTL DEF Spec

-----------------------------------------------------------------------------
\* What every step does to the votes that are given.
VotesKept ==
  \A s \in Server, t \in Term : votesGiven[s][t] # Nil => votesGiven'[s][t] = votesGiven[s][t]

\* A new candidate has not voted in the new term.
LEMMA StartElectionsKeepsVotes ==
  ASSUME IInv, NEW s \in Server, StartElections(s)
  PROVE  VotesKept
  <1> DEFINE term == currentTerm[s] + 1
  <1>1. term \in Term /\ votesGiven[s][term] = Nil
    BY RaftAssumption DEF IInv, ServerTypeOK, VotesPast, StartElections, Term
  <1>2. votesGiven' = [votesGiven EXCEPT ![s][term] = s]
    BY DEF StartElections
  <1>3. QED
    BY <1>1, <1>2 DEF IInv, ServerTypeOK, Votes, VotesKept

\* RequestVote writes a vote that is still to be given, or the same one again.
LEMMA RequestVoteKeepsVotes ==
  ASSUME IInv, NEW m \in requests, RequestVote(m)
  PROVE  VotesKept
  <1> DEFINE s == m.to
  <1>1. s \in Server
    BY DEF IInv, MessagesOK, RequestOK
  <1>2. \/ UNCHANGED votesGiven
        \/ /\ votesGiven[s][m.term] \in {Nil, m.from}
           /\ votesGiven' = [votesGiven EXCEPT ![s][m.term] = m.from]
    BY DEF RequestVote, MayVote
  <1>3. QED
    BY <1>1, <1>2 DEF IInv, ServerTypeOK, Votes, VotesKept

LEMMA StepKeepsVotes == IInv /\ [Next]_vars => VotesKept
  <1> SUFFICES ASSUME IInv, [Next]_vars PROVE VotesKept
    OBVIOUS
  <1>1. ASSUME NEW s \in Server,
               \/ Start(s) \/ SendHeartBeats(s) \/ AgreementEnds(s) \/ CheckIfCommitted(s)
               \/ SendApply(s) \/ ApplyCommand(s) \/ Snapshot(s)
               \/ ReadPersistedSnapshot(s) \/ ApplyPersistedSnapshot(s)
               \/ SaveStateAndSnapshot(s) \/ \E p \in Server : StartAgreement(s, p)
        PROVE  UNCHANGED votesGiven
    BY <1>1 DEF Start, SendHeartBeats, AgreementEnds, CheckIfCommitted, SendApply, ApplyCommand,
                ReadPersistedSnapshot, ApplyPersistedSnapshot, Snapshot, SaveStateAndSnapshot,
                StartAgreement, durableVars
  <1>2. ASSUME NEW m \in requests, AppendEntry(m) \/ InstallSnapshot(m)
        PROVE  UNCHANGED votesGiven
    BY <1>2 DEF AppendEntry, InstallSnapshot
  <1>3. ASSUME NEW r \in replies, HandleAnswer(r)
        PROVE  UNCHANGED votesGiven
    BY <1>3 DEF HandleAnswer, VoteAnswer, AppendAnswer, SnapshotAnswer, durableVars
  <1>4. ASSUME NEW s \in Server, Crash(s) PROVE UNCHANGED votesGiven
    BY <1>4 DEF IInv, ServerTypeOK, VotesPersisted, Crash, Restored
  <1>5. CASE UNCHANGED vars
    BY <1>5 DEF vars, durableVars, VotesKept
  <1>6. CASE UNCHANGED votesGiven
    BY <1>6 DEF VotesKept
  <1>7. QED
    BY <1>1, <1>2, <1>3, <1>4, <1>5, <1>6, StartElectionsKeepsVotes, RequestVoteKeepsVotes
       DEF Next, Handle

\* A server that has voted in a term never votes for another server in that term, however
\* often it crashes: RequestVote persists the vote before it answers.
THEOREM VotesAreFinal == Spec => VoteOnce
  <1>1. IInv /\ [Next]_vars =>
          [\A s \in Server, t \in Term :
             votesGiven[s][t] # Nil => votesGiven'[s][t] = votesGiven[s][t]]_vars
    BY StepKeepsVotes DEF VotesKept
  <1>2. QED
    BY <1>1, Invariant, PTL DEF Spec, VoteOnce

\* A set grows by one.
LEMMA OneMore ==
  ASSUME NEW S, IsFiniteSet(S), NEW n \in Nat, Cardinality(S) = n, NEW x, x \notin S
  PROVE  IsFiniteSet(S \cup {x}) /\ Cardinality(S \cup {x}) = n + 1
  BY FS_AddElement

\* Four servers that differ are four.
LEMMA FourServers ==
  ASSUME NEW s \in Server, NEW p \in Server \ {s}, NEW q \in Server \ {s, p},
         NEW o \in Server \ {s, p, q}
  PROVE  Cardinality(Server) > 3
  <1> DEFINE one == {} \cup {s}
             two == one \cup {p}
             three == two \cup {q}
             four == three \cup {o}
  <1>1. p \notin one /\ q \notin two /\ o \notin three /\ four \subseteq Server
    OBVIOUS
  <1>2. IsFiniteSet(one) /\ Cardinality(one) = 0 + 1
    BY FS_EmptySet, OneMore
  <1> HIDE DEF one
  <1>3. IsFiniteSet(two) /\ Cardinality(two) = 1 + 1
    BY <1>1, <1>2, OneMore
  <1> HIDE DEF two
  <1>4. IsFiniteSet(three) /\ Cardinality(three) = 2 + 1
    BY <1>1, <1>3, OneMore
  <1> HIDE DEF three
  <1>5. IsFiniteSet(four) /\ Cardinality(four) = 3 + 1
    BY <1>1, <1>4, OneMore
  <1> HIDE DEF four
  <1>6. Cardinality(four) <= Cardinality(Server) /\ Cardinality(Server) \in Nat
    BY <1>1, RaftAssumption, FS_Subset, FS_CardinalityType
  <1>7. QED
    BY <1>5, <1>6

\* Two servers that have two votes each in a term are two of four.
LEMMA TwoVotesEach ==
  ASSUME NEW s \in Server, NEW p \in Server \ {s}, NEW t,
         votesGiven[s][t] = s, \E q \in Server \ {s} : votesGiven[q][t] = s,
         votesGiven[p][t] = p, \E q \in Server \ {p} : votesGiven[q][t] = p
  PROVE  Cardinality(Server) > 3
  <1>1. PICK q \in Server \ {s} : votesGiven[q][t] = s
    OBVIOUS
  <1>2. PICK o \in Server \ {p} : votesGiven[o][t] = p
    OBVIOUS
  <1>3. q \in Server \ {s, p} /\ o \in Server \ {s, p, q}
    BY <1>1, <1>2
  <1>4. QED
    BY <1>3, FourServers

\* So are two leaders of a term.
LEMMA TwoLeadersNeedFour ==
  ASSUME IInv, NEW s \in Server, NEW p \in Server, s # p,
         state[s] = "LEADER", state[p] = "LEADER", currentTerm[s] = currentTerm[p]
  PROVE  Cardinality(Server) > 3
  <1> DEFINE t == currentTerm[s]
  <1>1. votesGiven[s][t] = s /\ votesGiven[p][t] = p
    BY DEF IInv, OwnVote
  <1>2. \E q \in Server \ {s} : votesGiven[q][t] = s
    BY DEF IInv, OthersVote
  <1>3. \E q \in Server \ {p} : votesGiven[q][t] = p
    BY DEF IInv, OthersVote
  <1>4. QED
    BY <1>1, <1>2, <1>3, TwoVotesEach

\* At most three servers elect at most one leader in a term, although startElections counts
\* the votes of earlier elections: the vote that makes a candidate win is of its own term.
THEOREM ThreeServersElectOne ==
  ASSUME Cardinality(Server) <= 3
  PROVE  Spec => []ElectionSafety
  <1>1. Cardinality(Server) \in Nat
    BY RaftAssumption, FS_CardinalityType
  <1>2. IInv => ElectionSafety
    BY <1>1, TwoLeadersNeedFour DEF ElectionSafety
  <1>3. QED
    BY <1>2, Invariant, PTL

-----------------------------------------------------------------------------
\* The inductive invariant of the logs, which goes with that of the elections.

\* The entries that Start makes.
RealEntry == [term : 0 .. MaxElections, cmd : 1 .. MaxStarts]
Commands == Seq(0 .. MaxStarts)

\* A slice with its slot 0, which may be a dummy entry.  The others are not.
SliceOK(log) ==
  /\ log \in Log /\ Len(log) >= 1
  /\ \A i \in 2 .. Len(log) : log[i].cmd >= 1

LogsOK ==
  /\ entries = [s \in Server |-> entries[s]]
  /\ lastIncludedIndex \in [Server -> Nat]
  /\ lastIncludedTerm \in [Server -> -1 .. MaxElections]
  /\ \A s \in Server : /\ SliceOK(entries[s]) /\ SliceOK(persisted[s].entries)
                       /\ persisted[s].lastIncludedIndex \in Nat
                       /\ persisted[s].lastIncludedTerm \in -1 .. MaxElections

IndicesOK ==
  /\ votesReceived \in [Server -> Nat]
  /\ nextIndex \in [Server -> [Server -> Nat]]
  /\ matchIndex \in [Server -> [Server -> Nat]]
  /\ agreementGoing \in [Server -> BOOLEAN]
  /\ commitIndex \in [Server -> Nat]
  /\ lastApplied \in [Server -> Nat] /\ applyTo \in [Server -> Nat]

Offer == [index : Nat, cmd : 0 .. MaxStarts]
BootOffer == [index : Nat \cup {NotRead}, data : Commands]

ServiceOK ==
  /\ mode \in [Server -> {"run", "save", "stuck", "panic", "fatal"}]
  /\ snapshot \in [Server -> Commands] /\ applied \in [Server -> Commands]
  /\ snapping \in [Server -> BOOLEAN]
  /\ starts \in 0 .. MaxStarts
  /\ applyMsg = [s \in Server |-> applyMsg[s]] /\ bootMsg = [s \in Server |-> bootMsg[s]]
  /\ \A s \in Server : /\ applyMsg[s] # Nil => applyMsg[s] \in Offer
                       /\ bootMsg[s] # Nil => bootMsg[s] \in BootOffer

RequestTyped(m) ==
  /\ m.type = "append" => m.prev \in Nat /\ m.commit \in Nat /\ m.new \in Seq(RealEntry)
  /\ m.type = "snapshot" =>
       m.index \in Nat /\ m.lastTerm \in -1 .. MaxElections /\ m.data \in Commands

ReplyTyped(r) ==
  /\ r.from \in Server
  /\ r.type = "append" => r.prev \in Nat /\ r.length \in Nat /\ r.conflictingIndex \in Nat
  /\ r.type = "snapshot" => r.index \in Nat

MailOK ==
  /\ \A m \in requests : RequestTyped(m)
  /\ \A r \in replies : ReplyTyped(r)
  /\ \A s \in Server : \A r \in unsent[s] : ReplyTyped(r)

TypesInv == LogsOK /\ IndicesOK /\ ServiceOK /\ MailOK

-----------------------------------------------------------------------------
\* What the helpers on sets and slices return.

\* A set of integers between bounds has a greatest one, which Max chooses.
LEMMA IntervalMax ==
  ASSUME NEW a \in Int, NEW b \in Int, NEW S \in SUBSET (a .. b), S # {}
  PROVE  Max(S) \in S /\ \A x \in S : x <= Max(S)
  <1> DEFINE T == {b - x : x \in S}
  <1>1. T \in SUBSET Nat /\ T # {}
    <2>1. \A x \in S : b - x \in Nat
      OBVIOUS
    <2>2. QED
      BY <2>1
  <1>2. PICK t \in T : \A u \in T : t <= u
    BY <1>1, NatMin
  <1>3. PICK x \in S : t = b - x
    BY <1>2
  <1>4. \A y \in S : x >= y
    <2> TAKE y \in S
    <2>1. b - y \in T /\ y \in Int /\ x \in Int
      OBVIOUS
    <2>2. b - x <= b - y
      BY <1>2, <1>3, <2>1
    <2>3. QED
      BY <2>1, <2>2
  <1>5. Max(S) \in S /\ \A y \in S : Max(S) >= y
    BY <1>4 DEF Max
  <1>6. QED
    BY <1>5

\* ... and a least one, which Min chooses.
LEMMA IntervalMin ==
  ASSUME NEW a \in Int, NEW b \in Int, NEW S \in SUBSET (a .. b), S # {}
  PROVE  Min(S) \in S /\ \A x \in S : Min(S) <= x
  <1> DEFINE T == {x - a : x \in S}
  <1>1. T \in SUBSET Nat /\ T # {}
    <2>1. \A x \in S : x - a \in Nat
      OBVIOUS
    <2>2. QED
      BY <2>1
  <1>2. PICK t \in T : \A u \in T : t <= u
    BY <1>1, NatMin
  <1>3. PICK x \in S : t = x - a
    BY <1>2
  <1>4. \A y \in S : x =< y
    <2> TAKE y \in S
    <2>1. y - a \in T /\ y \in Int /\ x \in Int
      OBVIOUS
    <2>2. x - a <= y - a
      BY <1>2, <1>3, <2>1
    <2>3. QED
      BY <2>1, <2>2
  <1>5. QED
    BY <1>4 DEF Min

LEMMA PairMax ==
  ASSUME NEW a \in Nat, NEW b \in Nat
  PROVE  Max({a, b}) \in {a, b} /\ Max({a, b}) >= a /\ Max({a, b}) >= b
  <1>1. PICK c \in {a, b} : c >= a /\ c >= b
    OBVIOUS
  <1>2. QED
    BY <1>1 DEF Max

LEMMA PairMin ==
  ASSUME NEW a \in Nat, NEW b \in Nat
  PROVE  Min({a, b}) \in {a, b} /\ Min({a, b}) <= a /\ Min({a, b}) <= b
  <1>1. PICK c \in {a, b} : c =< a /\ c =< b
    OBVIOUS
  <1>2. QED
    BY <1>1 DEF Min

AnyEntry == [term : 0 .. MaxElections, cmd : 0 .. MaxStarts]

\* A piece of a sequence of S, all of which is in T.
LEMMA Piece ==
  ASSUME NEW S, NEW s \in Seq(S), NEW m \in Nat \ {0}, NEW n \in Nat, n <= Len(s), NEW T,
         \A i \in m .. n : s[i] \in T
  PROVE  /\ SubSeq(s, m, n) \in Seq(T)
         /\ Len(SubSeq(s, m, n)) = IF m <= n THEN n - m + 1 ELSE 0
         /\ \A i \in 1 .. n - m + 1 : SubSeq(s, m, n)[i] = s[m + i - 1]
  BY SubSeqProperties

\* Every slot of a slice is an entry.
LEMMA SliceSlots ==
  ASSUME NEW log, SliceOK(log)
  PROVE  /\ log \in Seq(AnyEntry) /\ Len(log) \in Nat /\ Len(log) >= 1
         /\ \A i \in 1 .. Len(log) : log[i] \in AnyEntry
         /\ \A i \in 2 .. Len(log) : log[i] \in RealEntry
  <1>1. log \in Seq(AnyEntry) /\ Len(log) \in Nat /\ Len(log) >= 1
    BY DEF SliceOK, Log, AnyEntry
  <1>2. \A i \in 1 .. Len(log) : log[i] \in AnyEntry
    BY <1>1
  <1>3. \A i \in 2 .. Len(log) : log[i] \in AnyEntry /\ log[i].cmd >= 1
    BY <1>1, <1>2 DEF SliceOK
  <1>4. \A i \in 2 .. Len(log) : log[i] \in RealEntry
    BY <1>3, RaftAssumption DEF AnyEntry, RealEntry
  <1>5. QED
    BY <1>1, <1>2, <1>4

LEMMA MakesSlice ==
  ASSUME NEW log \in Seq(AnyEntry), Len(log) >= 1,
         \A i \in 2 .. Len(log) : log[i] \in RealEntry
  PROVE  SliceOK(log)
  BY RaftAssumption DEF SliceOK, Log, AnyEntry, RealEntry

LEMMA RealIsAny == \A e \in RealEntry : e \in AnyEntry
  BY RaftAssumption DEF RealEntry, AnyEntry

\* The slice up to one of its slots, and from one on.
LEMMA SlicePrefix ==
  ASSUME NEW log, SliceOK(log), NEW n \in 1 .. Len(log)
  PROVE  SliceOK(SubSeq(log, 1, n)) /\ Len(SubSeq(log, 1, n)) = n
  <1> DEFINE t == SubSeq(log, 1, n)
  <1>1. t \in Seq(AnyEntry) /\ Len(t) = n /\ \A i \in 1 .. n : t[i] = log[i]
    BY SliceSlots, Piece
  <1> HIDE DEF t
  <1>2. \A i \in 2 .. Len(t) : t[i] \in RealEntry
    BY <1>1, SliceSlots
  <1>3. SliceOK(t) /\ Len(t) = n
    BY <1>1, <1>2, MakesSlice
  <1>4. QED
    BY <1>3 DEF t

LEMMA SliceSuffix ==
  ASSUME NEW log, SliceOK(log), NEW n \in 1 .. Len(log)
  PROVE  SliceOK(SubSeq(log, n, Len(log)))
  <1> DEFINE t == SubSeq(log, n, Len(log))
  <1>1. /\ t \in Seq(AnyEntry) /\ Len(t) = Len(log) - n + 1
        /\ \A i \in 1 .. Len(t) : t[i] = log[n + i - 1]
    BY SliceSlots, Piece
  <1> HIDE DEF t
  <1>2. \A i \in 2 .. Len(t) : t[i] \in RealEntry
    <2> TAKE i \in 2 .. Len(t)
    <2>1. n + i - 1 \in 2 .. Len(log) /\ t[i] = log[n + i - 1]
      BY <1>1, SliceSlots
    <2>2. QED
      BY <2>1, SliceSlots
  <1>3. Len(t) >= 1
    BY <1>1, SliceSlots
  <1>4. QED
    BY <1>1, <1>2, <1>3, MakesSlice DEF t

\* What follows slot 0 is entries that Start has made.
LEMMA SliceTail ==
  ASSUME NEW log, SliceOK(log), NEW n \in Nat, n >= 2
  PROVE  SubSeq(log, n, Len(log)) \in Seq(RealEntry)
  BY SliceSlots, Piece

LEMMA EntriesSuffix ==
  ASSUME NEW new \in Seq(RealEntry), NEW n \in Nat \ {0}
  PROVE  SubSeq(new, n, Len(new)) \in Seq(RealEntry)
  <1>1. Len(new) \in Nat /\ \A i \in n .. Len(new) : new[i] \in RealEntry
    OBVIOUS
  <1>2. QED
    BY <1>1, Piece

LEMMA SliceExtended ==
  ASSUME NEW log, SliceOK(log), NEW new \in Seq(RealEntry)
  PROVE  SliceOK(log \o new)
  <1> DEFINE t == log \o new
  <1>1. log \in Seq(AnyEntry) /\ Len(log) >= 1 /\ \A i \in 2 .. Len(log) : log[i] \in RealEntry
    BY SliceSlots
  <1>2. new \in Seq(AnyEntry) /\ \A i \in 1 .. Len(new) : new[i] \in RealEntry
    BY RealIsAny
  <1>3. /\ t \in Seq(AnyEntry) /\ Len(t) = Len(log) + Len(new)
        /\ Len(log) \in Nat /\ Len(new) \in Nat
        /\ \A i \in 1 .. Len(t) : t[i] = IF i <= Len(log) THEN log[i] ELSE new[i - Len(log)]
    BY <1>1, <1>2
  <1> HIDE DEF t
  <1>4. \A i \in 2 .. Len(t) : t[i] \in RealEntry
    <2> TAKE i \in 2 .. Len(t)
    <2>1. t[i] = IF i <= Len(log) THEN log[i] ELSE new[i - Len(log)]
      BY <1>3
    <2>2. CASE i <= Len(log)
      BY <1>1, <2>1, <2>2
    <2>3. CASE ~(i <= Len(log))
      <3>1. i - Len(log) \in 1 .. Len(new)
        BY <1>3, <2>3
      <3>2. QED
        BY <1>2, <2>1, <2>3, <3>1
    <2>4. QED
      BY <2>2, <2>3
  <1>5. Len(t) >= 1
    BY <1>1, <1>3
  <1>6. QED
    BY <1>3, <1>4, <1>5, MakesSlice DEF t

LEMMA OneSlot ==
  ASSUME NEW e \in AnyEntry
  PROVE  SliceOK(<<e>>)
  <1>1. <<e>> \in Seq(AnyEntry) /\ Len(<<e>>) = 1
    OBVIOUS
  <1>2. \A i \in 2 .. Len(<<e>>) : <<e>>[i] \in RealEntry
    BY <1>1
  <1>3. Len(<<e>>) >= 1
    BY <1>1
  <1>4. QED
    BY <1>1, <1>2, <1>3, MakesSlice

LEMMA DummySlice == SliceOK(<<Dummy>>)
  <1>1. Dummy \in AnyEntry
    BY RaftAssumption DEF Dummy, Entry, AnyEntry
  <1>2. QED
    BY <1>1, OneSlot

\* A slot of a server's slice.
LEMMA ServerSlots ==
  ASSUME LogsOK, NEW s \in Server
  PROVE  /\ SliceOK(entries[s]) /\ Length(s) \in Nat /\ Length(s) >= 1
         /\ \A i \in 0 .. Length(s) - 1 : /\ Slot(s, i) \in AnyEntry
                                          /\ i >= 1 => Slot(s, i) \in RealEntry
         /\ LastIndex(s) \in Nat /\ lastIncludedIndex[s] \in Nat
  <1>1. /\ Len(entries[s]) \in Nat /\ Len(entries[s]) >= 1 /\ lastIncludedIndex[s] \in Nat
        /\ \A i \in 1 .. Len(entries[s]) : entries[s][i] \in AnyEntry
        /\ \A i \in 2 .. Len(entries[s]) : entries[s][i] \in RealEntry
    BY SliceSlots DEF LogsOK
  <1>2. ASSUME NEW i \in 0 .. Length(s) - 1
        PROVE  Slot(s, i) \in AnyEntry /\ (i >= 1 => Slot(s, i) \in RealEntry)
    BY <1>1 DEF Slot, Length
  <1>3. QED
    BY <1>1, <1>2 DEF LogsOK, Length, LastIndex

\* What a follower merges is a slice, with the slot before the new entries.
LEMMA MergedSlice ==
  ASSUME LogsOK, NEW s \in Server, NEW m, RequestTyped(m), m.type = "append", Matches(m, s)
  PROVE  SliceOK(Merge(m, s))
  <1> DEFINE p == m.prev - lastIncludedIndex[s]
             cut == IF Length(s) > p + 1 /\ Slot(s, p + 1).term # m.new[1].term
                    THEN SubSeq(entries[s], 1, p + 1) ELSE entries[s]
  <1>1. p \in 0 .. Length(s) - 1 /\ p \in Nat
    BY ServerSlots DEF Matches, InRange, RequestTyped
  <1>2. SliceOK(cut) /\ Len(cut) \in Nat /\ Len(cut) >= p + 1
    <2>1. CASE cut = entries[s]
      BY <1>1, <2>1, ServerSlots DEF Length
    <2>2. CASE cut # entries[s]
      <3>1. cut = SubSeq(entries[s], 1, p + 1)
        BY <2>2
      <3>2. p + 1 \in 1 .. Len(entries[s])
        BY <1>1, ServerSlots DEF Length
      <3>3. SliceOK(SubSeq(entries[s], 1, p + 1)) /\ Len(SubSeq(entries[s], 1, p + 1)) = p + 1
        BY <3>2, ServerSlots, SlicePrefix
      <3> HIDE DEF cut, p
      <3>4. QED
        BY <1>1, <3>1, <3>3
    <2>3. QED
      BY <2>1, <2>2
  <1>3. Merge(m, s) = IF Len(cut) <= p + Len(m.new)
                      THEN cut \o SubSeq(m.new, Len(cut) - p, Len(m.new)) ELSE cut
    BY DEF Merge
  <1> HIDE DEF cut
  <1>4. SubSeq(m.new, Len(cut) - p, Len(m.new)) \in Seq(RealEntry)
    <2>1. Len(cut) - p \in Nat \ {0} /\ m.new \in Seq(RealEntry)
      BY <1>1, <1>2 DEF RequestTyped
    <2>2. QED
      BY <2>1, EntriesSuffix
  <1>5. SliceOK(cut \o SubSeq(m.new, Len(cut) - p, Len(m.new)))
    BY <1>2, <1>4, SliceExtended
  <1>6. QED
    BY <1>2, <1>3, <1>5

-----------------------------------------------------------------------------
\* The logs.

\* It is enough that the new slices are slices: what persist() writes are the fields.
LEMMA LogsKept ==
  ASSUME IInv, LogsOK, NEW s \in Server, Persist(s) \/ UNCHANGED persisted,
         entries' = [entries EXCEPT ![s] = entries'[s]], SliceOK(entries'[s]),
         lastIncludedIndex' = [lastIncludedIndex EXCEPT ![s] = lastIncludedIndex'[s]],
         lastIncludedIndex'[s] \in Nat,
         lastIncludedTerm' = [lastIncludedTerm EXCEPT ![s] = lastIncludedTerm'[s]],
         lastIncludedTerm'[s] \in -1 .. MaxElections
  PROVE  LogsOK'
  <1>1. entries' = [p \in Server |-> entries'[p]]
    BY DEF LogsOK
  <1>2. /\ lastIncludedIndex' \in [Server -> Nat]
        /\ lastIncludedTerm' \in [Server -> -1 .. MaxElections]
    BY DEF LogsOK
  <1>3. \A p \in Server \ {s} : entries'[p] = entries[p]
    BY DEF LogsOK
  <1>4. \A p \in Server \ {s} : persisted'[p] = persisted[p]
    BY DEF Persist, IInv, VotesPersisted
  <1>5. \/ persisted'[s] = persisted[s]
        \/ /\ persisted'[s].entries = entries'[s]
           /\ persisted'[s].lastIncludedIndex = lastIncludedIndex'[s]
           /\ persisted'[s].lastIncludedTerm = lastIncludedTerm'[s]
    BY DEF Persist, IInv, VotesPersisted
  <1>6. QED
    BY <1>1, <1>2, <1>3, <1>4, <1>5 DEF LogsOK

\* A step that leaves the log alone may write it down again.
LEMMA LogsWritten ==
  ASSUME IInv, LogsOK, NEW s \in Server, Persist(s) \/ UNCHANGED persisted,
         UNCHANGED <<entries, lastIncludedIndex, lastIncludedTerm>>
  PROVE  LogsOK'
  <1>1. /\ entries' = [entries EXCEPT ![s] = entries'[s]]
        /\ lastIncludedIndex' = [lastIncludedIndex EXCEPT ![s] = lastIncludedIndex'[s]]
        /\ lastIncludedTerm' = [lastIncludedTerm EXCEPT ![s] = lastIncludedTerm'[s]]
    BY DEF LogsOK
  <1>2. /\ SliceOK(entries'[s]) /\ lastIncludedIndex'[s] \in Nat
        /\ lastIncludedTerm'[s] \in -1 .. MaxElections
    BY DEF LogsOK
  <1>3. QED
    BY <1>1, <1>2, LogsKept

LEMMA StartLogs ==
  ASSUME IInv, TypesInv, NEW s \in Server, Start(s)
  PROVE  LogsOK'
  <1>1. LogsOK /\ starts' = starts + 1 /\ starts' \in 1 .. MaxStarts
    BY RaftAssumption DEF TypesInv, ServiceOK, Start
  <1>2. currentTerm[s] \in 0 .. MaxElections
    BY RaftAssumption DEF IInv, ServerTypeOK, Start
  <1>3. Entry(currentTerm[s], starts') \in RealEntry
    BY <1>1, <1>2 DEF RealEntry, Entry
  <1>4. entries'[s] = entries[s] \o <<Entry(currentTerm[s], starts')>>
    <2>1. entries'[s] = Append(entries[s], Entry(currentTerm[s], starts'))
      BY <1>1 DEF Start, LogsOK
    <2>2. entries[s] \in Seq(AnyEntry) /\ Entry(currentTerm[s], starts') \in AnyEntry
      BY <1>1, <1>3, ServerSlots, SliceSlots, RealIsAny
    <2>3. QED
      BY <2>1, <2>2
  <1>5. SliceOK(entries'[s])
    <2>1. <<Entry(currentTerm[s], starts')>> \in Seq(RealEntry) /\ SliceOK(entries[s])
      BY <1>1, <1>3 DEF LogsOK
    <2>2. QED
      BY <1>4, <2>1, SliceExtended
  <1>6. /\ entries' = [entries EXCEPT ![s] = entries'[s]]
        /\ lastIncludedTerm' = [lastIncludedTerm EXCEPT ![s] = lastIncludedTerm'[s]]
        /\ lastIncludedTerm'[s] \in -1 .. MaxElections
        /\ lastIncludedIndex' = [lastIncludedIndex EXCEPT ![s] = lastIncludedIndex'[s]]
        /\ lastIncludedIndex'[s] \in Nat /\ Persist(s)
    BY <1>1, RaftAssumption DEF Start, LogsOK
  <1>7. QED
    BY <1>1, <1>5, <1>6, LogsKept

LEMMA AppendEntryLogs ==
  ASSUME IInv, TypesInv, NEW m \in requests, AppendEntry(m)
  PROVE  LogsOK'
  <1> DEFINE s == m.to
  <1>1. s \in Server /\ LogsOK /\ RequestTyped(m) /\ m.type = "append"
    BY DEF IInv, MessagesOK, RequestOK, TypesInv, MailOK, AppendEntry
  <1>2. Persist(s) /\ UNCHANGED <<lastIncludedIndex, lastIncludedTerm>>
    BY DEF AppendEntry
  <1>3. \/ UNCHANGED entries
        \/ \E log : /\ entries' = [entries EXCEPT ![s] = log]
                    /\ log = entries[s] \/ (Matches(m, s) /\ log = Merge(m, s))
    BY DEF AppendEntry
  <1>4. CASE UNCHANGED entries
    BY <1>1, <1>2, <1>4, LogsWritten
  <1>5. ASSUME NEW log, entries' = [entries EXCEPT ![s] = log],
               log = entries[s] \/ (Matches(m, s) /\ log = Merge(m, s))
        PROVE  LogsOK'
    <2>1. SliceOK(log)
      BY <1>1, <1>5, ServerSlots, MergedSlice
    <2>2. /\ entries'[s] = log /\ entries' = [entries EXCEPT ![s] = entries'[s]]
          /\ lastIncludedIndex' = [lastIncludedIndex EXCEPT ![s] = lastIncludedIndex'[s]]
          /\ lastIncludedTerm' = [lastIncludedTerm EXCEPT ![s] = lastIncludedTerm'[s]]
          /\ lastIncludedIndex'[s] \in Nat /\ lastIncludedTerm'[s] \in -1 .. MaxElections
      BY <1>1, <1>2, <1>5 DEF LogsOK
    <2>3. QED
      BY <1>1, <1>2, <2>1, <2>2, LogsKept
  <1>6. QED
    BY <1>3, <1>4, <1>5

LEMMA SnapshotLogs ==
  ASSUME IInv, TypesInv, NEW s \in Server, Snapshot(s)
  PROVE  LogsOK'
  <1> DEFINE index == Len(applied[s])
             i == index - lastIncludedIndex[s]
  <1>1. LogsOK /\ index \in Nat
    BY DEF TypesInv, ServiceOK, Commands
  <1>2. CASE InRange(s, i)
    <2>1. i \in 0 .. Length(s) - 1 /\ Slot(s, i) \in AnyEntry
      BY <1>1, <1>2, ServerSlots DEF InRange
    <2>2. entries' = [entries EXCEPT ![s] = Kept(s, index)] /\ Persist(s)
      BY <1>2 DEF Snapshot, Save
    <2>3. SliceOK(Kept(s, index))
      <3>1. index - lastIncludedIndex[s] + 2 \in Nat /\ index - lastIncludedIndex[s] + 2 >= 2
        BY <1>1, <2>1
      <3>2. SubSeq(entries[s], index - lastIncludedIndex[s] + 2, Length(s)) \in Seq(RealEntry)
        BY <1>1, <3>1, ServerSlots, SliceTail DEF Length
      <3>3. QED
        BY <3>2, DummySlice, SliceExtended DEF Kept
    <2>4. /\ entries'[s] = Kept(s, index) /\ entries' = [entries EXCEPT ![s] = entries'[s]]
          /\ lastIncludedIndex' = [lastIncludedIndex EXCEPT ![s] = lastIncludedIndex'[s]]
          /\ lastIncludedTerm' = [lastIncludedTerm EXCEPT ![s] = lastIncludedTerm'[s]]
          /\ lastIncludedIndex'[s] \in Nat /\ lastIncludedTerm'[s] \in -1 .. MaxElections
      BY <1>1, <1>2, <2>1, <2>2, RaftAssumption DEF Snapshot, LogsOK, AnyEntry
    <2>5. QED
      BY <1>1, <2>2, <2>3, <2>4, LogsKept
  <1>3. CASE ~InRange(s, i)
    BY <1>1, <1>3, LogsWritten DEF Snapshot, durableVars
  <1>4. QED
    BY <1>2, <1>3

\* What InstallSnapshot keeps begins with the first entry beyond the snapshot.
LEMMA InstallSnapshotLogs ==
  ASSUME IInv, TypesInv, NEW m \in requests, InstallSnapshot(m)
  PROVE  LogsOK'
  <1> DEFINE s == m.to
             i == m.index - lastIncludedIndex[s]
  <1>1. s \in Server /\ LogsOK /\ RequestTyped(m) /\ m.type = "snapshot"
    BY DEF IInv, MessagesOK, RequestOK, TypesInv, MailOK, InstallSnapshot
  <1>2. \/ UNCHANGED <<entries, lastIncludedIndex, lastIncludedTerm, persisted>>
        \/ /\ i > 0
           /\ lastIncludedIndex' = [lastIncludedIndex EXCEPT ![s] = m.index]
           /\ lastIncludedTerm' = [lastIncludedTerm EXCEPT ![s] = m.lastTerm]
           /\ \/ /\ LastIndex(s) > m.index
                 /\ entries' = [entries EXCEPT ![s] = SubSeq(@, i + 2, Len(@))]
                 /\ UNCHANGED persisted
              \/ entries' = [entries EXCEPT ![s] = <<Dummy>>] /\ Persist(s)
    BY DEF InstallSnapshot, Save
  <1>3. CASE UNCHANGED <<entries, lastIncludedIndex, lastIncludedTerm, persisted>>
    BY <1>1, <1>3, LogsWritten
  <1>4. CASE /\ i > 0
             /\ lastIncludedIndex' = [lastIncludedIndex EXCEPT ![s] = m.index]
             /\ lastIncludedTerm' = [lastIncludedTerm EXCEPT ![s] = m.lastTerm]
             /\ \/ /\ LastIndex(s) > m.index
                   /\ entries' = [entries EXCEPT ![s] = SubSeq(@, i + 2, Len(@))]
                   /\ UNCHANGED persisted
                \/ entries' = [entries EXCEPT ![s] = <<Dummy>>] /\ Persist(s)
    <2>1. /\ lastIncludedIndex' = [lastIncludedIndex EXCEPT ![s] = lastIncludedIndex'[s]]
          /\ lastIncludedTerm' = [lastIncludedTerm EXCEPT ![s] = lastIncludedTerm'[s]]
          /\ lastIncludedIndex'[s] \in Nat /\ lastIncludedTerm'[s] \in -1 .. MaxElections
      BY <1>1, <1>4 DEF LogsOK, RequestTyped
    <2>2. CASE LastIndex(s) > m.index /\ entries' = [entries EXCEPT ![s] = SubSeq(@, i + 2, Len(@))]
      <3>1. i + 2 \in 1 .. Len(entries[s])
        <4>1. Length(s) \in Nat /\ lastIncludedIndex[s] \in Nat /\ m.index \in Nat
          BY <1>1, ServerSlots DEF RequestTyped
        <4>2. Length(s) - 1 + lastIncludedIndex[s] > m.index
          BY <2>2 DEF LastIndex
        <4>3. i + 2 \in 1 .. Length(s)
          BY <1>4, <4>1, <4>2
        <4>4. QED
          BY <4>3 DEF Length
      <3>2. entries'[s] = SubSeq(entries[s], i + 2, Len(entries[s]))
        BY <1>1, <2>2 DEF LogsOK
      <3>3. SliceOK(entries'[s])
        BY <1>1, <3>1, <3>2, ServerSlots, SliceSuffix
      <3>4. entries' = [entries EXCEPT ![s] = entries'[s]]
        BY <1>1, <2>2 DEF LogsOK
      <3>5. QED
        BY <1>1, <1>4, <2>1, <3>3, <3>4, LogsKept
    <2>3. CASE entries' = [entries EXCEPT ![s] = <<Dummy>>]
      <3>1. entries'[s] = <<Dummy>> /\ entries' = [entries EXCEPT ![s] = entries'[s]]
        BY <1>1, <2>3 DEF LogsOK
      <3>2. SliceOK(entries'[s])
        BY <3>1, DummySlice
      <3>3. QED
        BY <1>1, <1>4, <2>1, <3>1, <3>2, LogsKept
    <2>4. QED
      BY <1>4, <2>2, <2>3
  <1>5. QED
    BY <1>2, <1>3, <1>4

LEMMA CrashLogs ==
  ASSUME IInv, TypesInv, NEW s \in Server, Crash(s)
  PROVE  LogsOK'
  <1>1. LogsOK /\ UNCHANGED persisted
    BY DEF TypesInv, Crash, persisterVars
  <1>2. /\ entries' = [entries EXCEPT ![s] = persisted[s].entries]
        /\ lastIncludedIndex' = [lastIncludedIndex EXCEPT ![s] = persisted[s].lastIncludedIndex]
        /\ lastIncludedTerm' = [lastIncludedTerm EXCEPT ![s] = persisted[s].lastIncludedTerm]
    BY DEF Crash, Restored
  <1>3. /\ SliceOK(entries'[s]) /\ entries' = [entries EXCEPT ![s] = entries'[s]]
        /\ lastIncludedIndex' = [lastIncludedIndex EXCEPT ![s] = lastIncludedIndex'[s]]
        /\ lastIncludedTerm' = [lastIncludedTerm EXCEPT ![s] = lastIncludedTerm'[s]]
        /\ lastIncludedIndex'[s] \in Nat /\ lastIncludedTerm'[s] \in -1 .. MaxElections
    BY <1>1, <1>2 DEF LogsOK
  <1>4. QED
    BY <1>1, <1>3, LogsKept

logVars == <<entries, lastIncludedIndex, lastIncludedTerm>>

LEMMA LogsStep ==
  ASSUME IInv, TypesInv, [Next]_vars
  PROVE  LogsOK'
  <1>0. LogsOK
    BY DEF TypesInv
  <1>1. ASSUME NEW s \in Server,
               \/ StartElections(s) \/ SendHeartBeats(s) \/ AgreementEnds(s)
               \/ CheckIfCommitted(s) \/ SendApply(s) \/ ApplyCommand(s)
               \/ ReadPersistedSnapshot(s) \/ ApplyPersistedSnapshot(s) \/ SaveStateAndSnapshot(s)
               \/ \E p \in Server : StartAgreement(s, p)
        PROVE  LogsOK'
    <2>1. UNCHANGED logVars /\ (Persist(s) \/ UNCHANGED persisted)
      BY <1>1 DEF logVars, StartElections, SendHeartBeats, AgreementEnds, CheckIfCommitted,
                  SendApply, ApplyCommand, ReadPersistedSnapshot, ApplyPersistedSnapshot,
                  SaveStateAndSnapshot,
                  StartAgreement, durableVars, persisterVars
    <2>2. QED
      BY <1>0, <2>1, LogsWritten DEF logVars
  <1>2. ASSUME NEW m \in requests, RequestVote(m)
        PROVE  LogsOK'
    <2>1. m.to \in Server /\ UNCHANGED logVars /\ Persist(m.to)
      BY <1>2 DEF logVars, RequestVote, IInv, MessagesOK, RequestOK
    <2>2. QED
      BY <1>0, <2>1, LogsWritten DEF logVars
  <1>3. ASSUME NEW r \in replies, HandleAnswer(r)
        PROVE  LogsOK'
    <2>1. r.to \in Server /\ UNCHANGED logVars /\ (Persist(r.to) \/ UNCHANGED persisted)
      BY <1>3 DEF logVars, HandleAnswer, VoteAnswer, AppendAnswer, SnapshotAnswer, IInv,
                  MessagesOK, ReplyOK, durableVars, persisterVars
    <2>2. QED
      BY <1>0, <2>1, LogsWritten DEF logVars
  <1>4. CASE UNCHANGED vars
    BY <1>0, <1>4 DEF vars, durableVars, persisterVars, LogsOK
  <1>5. QED
    BY <1>1, <1>2, <1>3, <1>4, StartLogs, AppendEntryLogs, SnapshotLogs, InstallSnapshotLogs,
       CrashLogs DEF Next, Handle

-----------------------------------------------------------------------------
\* The indices.

indexVars == <<votesReceived, nextIndex, matchIndex, agreementGoing, commitIndex, lastApplied,
               applyTo>>

LEMMA IndicesKept == ASSUME IndicesOK, UNCHANGED indexVars PROVE IndicesOK'
  BY DEF IndicesOK, indexVars

\* Where a refused leader goes back to.
LEMMA BackType ==
  ASSUME NEW s \in Server, NEW r, r.prev \in Nat, r.conflictingIndex \in Nat
  PROVE  Max(Passed(s, r)) \in Nat
  <1> DEFINE top == Max({r.prev, r.conflictingIndex})
  <1>1. top \in Nat /\ r.conflictingIndex <= top
    BY PairMax
  <1> HIDE DEF top
  <1>2. Passed(s, r) \in SUBSET (r.conflictingIndex .. top)
    BY DEF Passed, top
  <1>3. r.conflictingIndex \in Passed(s, r)
    <2>1. r.conflictingIndex \in r.conflictingIndex .. top
      BY <1>1
    <2>2. r.conflictingIndex .. r.conflictingIndex - 1 = {}
      OBVIOUS
    <2>3. QED
      BY <2>1, <2>2 DEF Passed, top
  <1>4. Max(Passed(s, r)) \in Passed(s, r)
    <2>1. r.conflictingIndex \in Int /\ top \in Int /\ Passed(s, r) # {}
      BY <1>1, <1>3
    <2>2. QED
      BY <1>2, <2>1, IntervalMax
  <1>5. QED
    BY <1>1, <1>2, <1>4

\* The slot that a follower answers with is none of slot 0.
LEMMA ConflictType ==
  ASSUME NEW s \in Server, NEW i \in Nat
  PROVE  ConflictSlot(s, i) \in Nat
  <1> DEFINE top == Max({i, 1})
             run == {k \in 1 .. top : \A j \in k .. i : Slot(s, j).term = Slot(s, i).term}
  <1>1. top \in {i, 1} /\ top >= i /\ top >= 1
    BY PairMax
  <1> HIDE DEF top
  <1>2. top \in run
    BY <1>1
  <1>3. run \in SUBSET (1 .. top) /\ top \in Nat
    BY <1>1
  <1> HIDE DEF run
  <1>4. Min(run) \in run
    <2>1. 1 \in Int /\ top \in Int /\ run # {}
      BY <1>2, <1>3
    <2>2. QED
      BY <1>3, <2>1, IntervalMin
  <1>5. QED
    BY <1>3, <1>4 DEF ConflictSlot, run, top

\* The commit index that a follower takes over.
LEMMA FollowType ==
  ASSUME NEW m, RequestTyped(m), m.type = "append", NEW s \in Server, LogsOK, IndicesOK,
         NEW log, SliceOK(log)
  PROVE  Follow(m, s, log) \in Nat
  <1>1. /\ m.commit \in Nat /\ commitIndex[s] \in Nat
        /\ Len(log) - 1 + lastIncludedIndex[s] \in Nat
    <2>1. m.commit \in Nat
      BY DEF RequestTyped
    <2>2. commitIndex[s] \in Nat /\ lastIncludedIndex[s] \in Nat
      BY DEF IndicesOK, LogsOK
    <2>3. Len(log) \in Nat /\ Len(log) >= 1
      BY SliceSlots
    <2>4. QED
      BY <2>1, <2>2, <2>3
  <1>2. Min({m.commit, Len(log) - 1 + lastIncludedIndex[s]}) \in Nat
    BY <1>1, PairMin
  <1>3. QED
    BY <1>1, <1>2 DEF Follow

\* An index of one server is set.
LEMMA OneIndex ==
  ASSUME NEW f \in [Server -> Nat], NEW s \in Server, NEW n \in Nat, NEW g,
         g = f \/ g = [f EXCEPT ![s] = n]
  PROVE  g \in [Server -> Nat]
  OBVIOUS

\* A leader's index of one peer is set.
IndexTable == [Server -> [Server -> Nat]]
PeerSet(f, s, p, n) == [f EXCEPT ![s][p] = n]

LEMMA PeerIndex ==
  ASSUME NEW f \in IndexTable, NEW s \in Server, NEW p \in Server, NEW n \in Nat
  PROVE  PeerSet(f, s, p, n) \in IndexTable
  <1>1. [f[s] EXCEPT ![p] = n] \in [Server -> Nat]
    BY DEF IndexTable
  <1>2. QED
    BY <1>1 DEF PeerSet, IndexTable

\* ... or those of all peers.
AllSet(f, s, n) == [f EXCEPT ![s] = [p \in Server |-> n]]

LEMMA AllIndices ==
  ASSUME NEW f \in IndexTable, NEW s \in Server, NEW n \in Nat
  PROVE  AllSet(f, s, n) \in IndexTable
  <1>1. [p \in Server |-> n] \in [Server -> Nat]
    OBVIOUS
  <1>2. QED
    BY <1>1 DEF AllSet, IndexTable

LEMMA VoteAnswerIndices ==
  ASSUME IInv, TypesInv, NEW r \in replies, VoteAnswer(r.to, r)
  PROVE  IndicesOK'
  <1> DEFINE s == r.to
             n == LastIndex(s) + 1
  <1>1. s \in Server /\ IndicesOK /\ n \in Nat
    BY ServerSlots DEF IInv, MessagesOK, ReplyOK, TypesInv
  <1>2. /\ votesReceived' = votesReceived
             \/ votesReceived' = [votesReceived EXCEPT ![s] = votesReceived[s] + 1]
        /\ nextIndex' = nextIndex \/ nextIndex' = AllSet(nextIndex, s, n)
        /\ matchIndex' = matchIndex \/ matchIndex' = AllSet(matchIndex, s, 0)
        /\ UNCHANGED <<agreementGoing, commitIndex, lastApplied, applyTo>>
    BY DEF VoteAnswer, applyVars, AllSet
  <1> HIDE DEF n
  <1>3. votesReceived' \in [Server -> Nat]
    <2>1. votesReceived \in [Server -> Nat] /\ votesReceived[s] + 1 \in Nat
      BY <1>1 DEF IndicesOK
    <2>2. QED
      BY <1>1, <1>2, <2>1, OneIndex
  <1>4. nextIndex \in IndexTable /\ matchIndex \in IndexTable
    BY <1>1 DEF IndicesOK, IndexTable
  <1>5. nextIndex' \in IndexTable /\ matchIndex' \in IndexTable
    BY <1>1, <1>2, <1>4, AllIndices
  <1>6. QED
    BY <1>1, <1>2, <1>3, <1>5 DEF IndicesOK, IndexTable

LEMMA AppendAnswerIndices ==
  ASSUME IInv, TypesInv, NEW r \in replies, AppendAnswer(r.to, r)
  PROVE  IndicesOK'
  <1> DEFINE s == r.to
             next == r.prev + r.length + 1
             back == Max(Passed(s, r))
  <1>1. s \in Server /\ r.from \in Server /\ IndicesOK
    BY DEF IInv, MessagesOK, ReplyOK, TypesInv, MailOK, ReplyTyped
  <1>2. next \in Nat /\ next - 1 \in Nat /\ back \in Nat
    <2>1. r.prev \in Nat /\ r.length \in Nat /\ r.conflictingIndex \in Nat
      BY DEF TypesInv, MailOK, ReplyTyped, AppendAnswer
    <2>2. QED
      BY <1>1, <2>1, BackType
  <1>3. /\ \/ nextIndex' = nextIndex
           \/ nextIndex' = PeerSet(nextIndex, s, r.from, next)
           \/ nextIndex' = PeerSet(nextIndex, s, r.from, back)
        /\ matchIndex' = matchIndex \/ matchIndex' = PeerSet(matchIndex, s, r.from, next - 1)
        /\ UNCHANGED <<votesReceived, agreementGoing, commitIndex, lastApplied, applyTo>>
    BY DEF AppendAnswer, applyVars, PeerSet
  <1> HIDE DEF next, back
  <1>4. nextIndex \in IndexTable /\ matchIndex \in IndexTable
    BY <1>1 DEF IndicesOK, IndexTable
  <1>5. nextIndex' \in IndexTable /\ matchIndex' \in IndexTable
    BY <1>1, <1>2, <1>3, <1>4, PeerIndex
  <1>6. QED
    BY <1>1, <1>3, <1>5 DEF IndicesOK, IndexTable

LEMMA SnapshotAnswerIndices ==
  ASSUME IInv, TypesInv, NEW r \in replies, SnapshotAnswer(r.to, r)
  PROVE  IndicesOK'
  <1> DEFINE s == r.to
  <1>1. s \in Server /\ r.from \in Server /\ r.index \in Nat /\ IndicesOK
    BY DEF IInv, MessagesOK, ReplyOK, TypesInv, MailOK, ReplyTyped, SnapshotAnswer
  <1>2. /\ nextIndex' = nextIndex \/ nextIndex' = PeerSet(nextIndex, s, r.from, r.index + 1)
        /\ matchIndex' = matchIndex \/ matchIndex' = PeerSet(matchIndex, s, r.from, r.index)
        /\ UNCHANGED <<votesReceived, agreementGoing, commitIndex, lastApplied, applyTo>>
    BY DEF SnapshotAnswer, applyVars, PeerSet
  <1>3. nextIndex \in IndexTable /\ matchIndex \in IndexTable
    BY <1>1 DEF IndicesOK, IndexTable
  <1>4. nextIndex' \in IndexTable /\ matchIndex' \in IndexTable
    <2>1. r.index + 1 \in Nat
      BY <1>1
    <2>2. QED
      BY <1>1, <1>2, <1>3, <2>1, PeerIndex
  <1>5. QED
    BY <1>1, <1>2, <1>4 DEF IndicesOK, IndexTable

LEMMA CheckIfCommittedIndices ==
  ASSUME IInv, TypesInv, NEW s \in Server, CheckIfCommitted(s)
  PROVE  IndicesOK'
  <1> DEFINE ready == {i \in commitIndex[s] + 1 .. LastIndex(s) :
                         i >= lastIncludedIndex[s] /\ state[s] = "LEADER" /\ MayCommit(s, i)}
             new == IF ready = {} THEN commitIndex[s] ELSE Max(ready)
  <1>1. /\ IndicesOK /\ commitIndex[s] \in Nat /\ lastApplied[s] \in Nat
        /\ lastIncludedIndex[s] \in Nat /\ LastIndex(s) \in Nat
    BY ServerSlots DEF TypesInv, IndicesOK
  <1>2. new \in Nat
    <2>1. CASE ready # {}
      <3>1. ready \in SUBSET (commitIndex[s] + 1 .. LastIndex(s))
        OBVIOUS
      <3> HIDE DEF ready
      <3>2. commitIndex[s] + 1 \in Int /\ LastIndex(s) \in Int
        BY <1>1
      <3>3. Max(ready) \in ready
        BY <2>1, <3>1, <3>2, IntervalMax
      <3>4. Max(ready) \in commitIndex[s] + 1 .. LastIndex(s)
        BY <3>1, <3>3
      <3>5. Max(ready) \in Nat
        BY <1>1, <3>4
      <3>6. QED
        BY <2>1, <3>5
    <2>2. CASE ready = {}
      BY <1>1, <2>2
    <2>3. QED
      BY <2>1, <2>2
  <1>3. Max({lastApplied[s], lastIncludedIndex[s]}) \in Nat
    BY <1>1, PairMax
  <1>4. /\ commitIndex' = commitIndex \/ commitIndex' = [commitIndex EXCEPT ![s] = new]
        /\ applyTo' = applyTo \/ applyTo' = [applyTo EXCEPT ![s] = new]
        /\ \/ lastApplied' = lastApplied
           \/ lastApplied' = [lastApplied EXCEPT ![s] = Max({@, lastIncludedIndex[s]})]
        /\ UNCHANGED <<votesReceived, nextIndex, matchIndex, agreementGoing>>
    BY DEF CheckIfCommitted, leaderVars
  <1> HIDE DEF new
  <1>5. commitIndex' \in [Server -> Nat] /\ applyTo' \in [Server -> Nat]
    <2>1. commitIndex \in [Server -> Nat] /\ applyTo \in [Server -> Nat]
      BY <1>1 DEF IndicesOK
    <2>2. QED
      BY <1>2, <1>4, <2>1, OneIndex
  <1>6. lastApplied' \in [Server -> Nat]
    <2>1. lastApplied \in [Server -> Nat]
      BY <1>1 DEF IndicesOK
    <2>2. QED
      BY <1>3, <1>4, <2>1, OneIndex
  <1>7. QED
    BY <1>1, <1>4, <1>5, <1>6 DEF IndicesOK

LEMMA AppendEntryIndices ==
  ASSUME IInv, TypesInv, NEW m \in requests, AppendEntry(m)
  PROVE  IndicesOK'
  <1> DEFINE s == m.to
  <1>1. s \in Server /\ LogsOK /\ IndicesOK /\ RequestTyped(m) /\ m.type = "append"
    BY DEF IInv, MessagesOK, RequestOK, TypesInv, MailOK, AppendEntry
  <1>2. \/ UNCHANGED commitIndex
        \/ \E log : /\ commitIndex' = [commitIndex EXCEPT ![s] = Follow(m, s, log)]
                    /\ log = entries[s] \/ (Matches(m, s) /\ log = Merge(m, s))
    BY DEF AppendEntry
  <1>3. UNCHANGED <<votesReceived, leaderVars, applyVars>>
    BY DEF AppendEntry
  <1>4. ASSUME NEW log, commitIndex' = [commitIndex EXCEPT ![s] = Follow(m, s, log)],
               log = entries[s] \/ (Matches(m, s) /\ log = Merge(m, s))
        PROVE  commitIndex' \in [Server -> Nat]
    <2>1. SliceOK(log)
      BY <1>1, <1>4, ServerSlots, MergedSlice
    <2>2. Follow(m, s, log) \in Nat
      BY <1>1, <2>1, FollowType
    <2>3. QED
      BY <1>1, <1>4, <2>2 DEF IndicesOK
  <1>5. commitIndex' \in [Server -> Nat]
    BY <1>1, <1>2, <1>4 DEF IndicesOK
  <1>6. QED
    BY <1>1, <1>3, <1>5 DEF IndicesOK, leaderVars, applyVars

LEMMA IndicesStep ==
  ASSUME IInv, TypesInv, [Next]_vars
  PROVE  IndicesOK'
  <1>0. IndicesOK
    BY DEF TypesInv
  <1>1. ASSUME NEW s \in Server,
               \/ SendHeartBeats(s) \/ SendApply(s) \/ Snapshot(s)
               \/ ReadPersistedSnapshot(s) \/ ApplyPersistedSnapshot(s)
               \/ SaveStateAndSnapshot(s) \/ \E p \in Server : StartAgreement(s, p)
        PROVE  UNCHANGED indexVars
    BY <1>1 DEF indexVars, SendHeartBeats, SendApply, Snapshot, ReadPersistedSnapshot,
                  ApplyPersistedSnapshot,
                SaveStateAndSnapshot, StartAgreement, leaderVars, applyVars
  <1>2. ASSUME NEW m \in requests, RequestVote(m) \/ InstallSnapshot(m)
        PROVE  UNCHANGED indexVars
    BY <1>2 DEF indexVars, RequestVote, InstallSnapshot, leaderVars, applyVars
  <1>3. ASSUME NEW s \in Server, StartElections(s) PROVE IndicesOK'
    BY <1>0, <1>3 DEF IndicesOK, StartElections, leaderVars, applyVars
  <1>4. ASSUME NEW s \in Server, Start(s) \/ AgreementEnds(s) PROVE IndicesOK'
    BY <1>0, <1>4 DEF IndicesOK, Start, AgreementEnds, applyVars
  <1>5. ASSUME NEW s \in Server, ApplyCommand(s) PROVE IndicesOK'
    BY <1>0, <1>5 DEF IndicesOK, ApplyCommand, leaderVars
  <1>6. ASSUME NEW s \in Server, Crash(s) PROVE IndicesOK'
    BY <1>0, <1>6 DEF IndicesOK, Crash
  <1>7. CASE UNCHANGED vars
    BY <1>7, <1>0, IndicesKept DEF vars, leaderVars, applyVars, indexVars
  <1>8. QED
    BY <1>0, <1>1, <1>2, <1>3, <1>4, <1>5, <1>6, <1>7, IndicesKept, VoteAnswerIndices,
       AppendAnswerIndices, SnapshotAnswerIndices, CheckIfCommittedIndices, AppendEntryIndices
       DEF Next, Handle, HandleAnswer

-----------------------------------------------------------------------------
\* The services, and how each server goes.

Mode == {"run", "save", "stuck", "panic", "fatal"}
serviceVarsOf == <<mode, snapshot, applied, snapping, starts, applyMsg, bootMsg>>

LEMMA ServiceKept == ASSUME ServiceOK, UNCHANGED serviceVarsOf PROVE ServiceOK'
  BY DEF ServiceOK, serviceVarsOf

\* A server panics, or gets into another mode, and that is all.
LEMMA ModeOnly ==
  ASSUME ServiceOK, UNCHANGED <<snapshot, applied, snapping, starts, applyMsg, bootMsg>>,
         NEW s, NEW v \in Mode, mode' = mode \/ mode' = [mode EXCEPT ![s] = v]
  PROVE  ServiceOK'
  <1>1. mode' \in [Server -> Mode]
    BY DEF ServiceOK, Mode
  <1>2. QED
    BY <1>1 DEF ServiceOK, Mode

\* What a goroutine of sendApply has in hand.
LEMMA NextMsgType ==
  ASSUME LogsOK, IndicesOK, NEW s \in Server, InRange(s, NextSlot(s))
  PROVE  NextMsg(s) \in Offer
  <1> DEFINE i == NextSlot(s)
  <1>1. i \in 0 .. Length(s) - 1 /\ lastApplied[s] \in Nat
    BY DEF InRange, LogsOK, IndicesOK
  <1>2. Slot(s, i) \in AnyEntry
    BY <1>1, ServerSlots
  <1>3. Slot(s, i).cmd \in 0 .. MaxStarts
    BY <1>2 DEF AnyEntry
  <1>4. QED
    BY <1>1, <1>3 DEF NextMsg, Offer

\* The command that a service takes, or refuses.
LEMMA TakenType ==
  ASSUME TypesInv, NEW s \in Server, Offered(s)
  PROVE  LET m == IF applyMsg[s] # Nil THEN applyMsg[s] ELSE NextMsg(s)
         IN  m.cmd \in 0 .. MaxStarts
  <1>1. LogsOK /\ IndicesOK /\ ServiceOK
    BY DEF TypesInv
  <1>2. CASE applyMsg[s] # Nil
    BY <1>1, <1>2 DEF ServiceOK, Offer
  <1>3. CASE applyMsg[s] = Nil
    <2>1. InRange(s, NextSlot(s))
      BY <1>3 DEF Offered
    <2>2. NextMsg(s) \in Offer
      BY <1>1, <2>1, NextMsgType
    <2>3. QED
      BY <1>3, <2>2 DEF Offer
  <1>4. QED
    BY <1>2, <1>3

LEMMA ApplyCommandService ==
  ASSUME IInv, TypesInv, NEW s \in Server, ApplyCommand(s)
  PROVE  ServiceOK'
  <1> DEFINE m == IF applyMsg[s] # Nil THEN applyMsg[s] ELSE NextMsg(s)
  <1>1. ServiceOK /\ Offered(s)
    BY DEF TypesInv, ApplyCommand
  <1>2. m.cmd \in 0 .. MaxStarts
    BY <1>1, TakenType
  <1>3. /\ applyMsg' = [applyMsg EXCEPT ![s] = Nil] /\ UNCHANGED <<snapshot, starts, bootMsg>>
        /\ IF m.index = Len(applied[s]) + 1
           THEN /\ applied' = [applied EXCEPT ![s] = Append(@, m.cmd)]
                /\ snapping' = [snapping EXCEPT ![s] = m.index \in SnapshotPoints]
                /\ UNCHANGED mode
           ELSE mode' = [mode EXCEPT ![s] = "fatal"] /\ UNCHANGED <<applied, snapping>>
    BY DEF ApplyCommand, persisterVars, boundVars, serviceVars
  <1> HIDE DEF m
  <1>4. /\ applyMsg' = [p \in Server |-> applyMsg'[p]]
        /\ \A p \in Server : applyMsg'[p] # Nil => applyMsg'[p] \in Offer
    BY <1>1, <1>3 DEF ServiceOK
  <1>5. applied' \in [Server -> Commands]
    <2>1. CASE m.index = Len(applied[s]) + 1
      <3>1. Append(applied[s], m.cmd) \in Commands
        BY <1>1, <1>2, <2>1 DEF ServiceOK, Commands
      <3>2. QED
        BY <1>1, <1>3, <2>1, <3>1 DEF ServiceOK
    <2>2. CASE m.index # Len(applied[s]) + 1
      BY <1>1, <1>3, <2>2 DEF ServiceOK
    <2>3. QED
      BY <2>1, <2>2
  <1>6. snapping' \in [Server -> BOOLEAN]
    <2>1. snapping \in [Server -> BOOLEAN]
      BY <1>1 DEF ServiceOK
    <2>2. CASE m.index = Len(applied[s]) + 1 /\ m.index \in SnapshotPoints
      <3>1. snapping' = [snapping EXCEPT ![s] = TRUE]
        BY <1>3, <2>2, Zenon
      <3>2. QED
        BY <2>1, <3>1
    <2>3. CASE m.index = Len(applied[s]) + 1 /\ m.index \notin SnapshotPoints
      <3>1. snapping' = [snapping EXCEPT ![s] = FALSE]
        <4>1. (m.index \in SnapshotPoints) = FALSE
          BY <2>3
        <4>2. QED
          BY <1>3, <2>3, <4>1, Zenon
      <3>2. QED
        BY <2>1, <3>1
    <2>4. CASE m.index # Len(applied[s]) + 1
      BY <1>3, <2>1, <2>4
    <2>5. QED
      BY <2>2, <2>3, <2>4
  <1>7. mode' \in [Server -> Mode]
    BY <1>1, <1>3 DEF ServiceOK, Mode
  <1>8. QED
    BY <1>1, <1>3, <1>4, <1>5, <1>6, <1>7 DEF ServiceOK, Mode

LEMMA SendApplyService ==
  ASSUME IInv, TypesInv, NEW s \in Server, SendApply(s)
  PROVE  ServiceOK'
  <1>1. LogsOK /\ IndicesOK /\ ServiceOK
    BY DEF TypesInv
  <1>2. UNCHANGED <<snapshot, applied, snapping, starts, bootMsg>>
    BY DEF SendApply, persisterVars, serviceVars, boundVars
  <1>3. CASE InRange(s, NextSlot(s))
    <2>1. applyMsg' = [applyMsg EXCEPT ![s] = NextMsg(s)] /\ UNCHANGED mode
      BY <1>3 DEF SendApply
    <2>2. NextMsg(s) \in Offer
      BY <1>1, <1>3, NextMsgType
    <2>3. /\ applyMsg' = [p \in Server |-> applyMsg'[p]]
          /\ \A p \in Server : applyMsg'[p] # Nil => applyMsg'[p] \in Offer
      BY <1>1, <2>1, <2>2 DEF ServiceOK
    <2>4. QED
      BY <1>1, <1>2, <2>1, <2>3 DEF ServiceOK
  <1>4. CASE ~InRange(s, NextSlot(s))
    <2>1. mode' = [mode EXCEPT ![s] = "panic"] /\ UNCHANGED applyMsg
      BY <1>4 DEF SendApply, Panic
    <2>2. QED
      BY <1>1, <1>2, <2>1, ModeOnly DEF Mode
  <1>5. QED
    BY <1>3, <1>4

LEMMA ReadPersistedSnapshotService ==
  ASSUME IInv, TypesInv, NEW s \in Server, ReadPersistedSnapshot(s)
  PROVE  ServiceOK'
  <1>1. ServiceOK /\ bootMsg[s] # Nil /\ bootMsg[s] \in BootOffer
    BY DEF TypesInv, ServiceOK, ReadPersistedSnapshot
  <1>2. /\ bootMsg' = [bootMsg EXCEPT ![s].index = lastIncludedIndex[s]]
        /\ UNCHANGED <<mode, applied, snapshot, snapping, starts, applyMsg>>
    BY DEF ReadPersistedSnapshot, serviceVars, persisterVars, boundVars
  <1>3. bootMsg'[s] \in BootOffer /\ \A p \in Server \ {s} : bootMsg'[p] = bootMsg[p]
    <2>1. lastIncludedIndex[s] \in Nat
      BY DEF TypesInv, LogsOK
    <2>2. [bootMsg[s] EXCEPT !.index = lastIncludedIndex[s]] \in BootOffer
      BY <1>1, <2>1 DEF BootOffer
    <2>3. QED
      BY <1>1, <1>2, <2>2 DEF ServiceOK
  <1>4. bootMsg' = [p \in Server |-> bootMsg'[p]]
    BY <1>1, <1>2 DEF ServiceOK
  <1>5. QED
    BY <1>1, <1>2, <1>3, <1>4 DEF ServiceOK

LEMMA ApplyPersistedSnapshotService ==
  ASSUME IInv, TypesInv, NEW s \in Server, ApplyPersistedSnapshot(s)
  PROVE  ServiceOK'
  <1>1. ServiceOK /\ bootMsg[s] # Nil /\ bootMsg[s] \in BootOffer
    BY DEF TypesInv, ServiceOK, ApplyPersistedSnapshot
  <1>2. /\ bootMsg' = [bootMsg EXCEPT ![s] = Nil]
        /\ UNCHANGED <<snapshot, snapping, starts, applyMsg>>
        /\ applied' = applied \/ applied' = [applied EXCEPT ![s] = bootMsg[s].data]
        /\ mode' = mode \/ mode' = [mode EXCEPT ![s] = "fatal"]
    BY DEF ApplyPersistedSnapshot, Ingest, persisterVars, boundVars
  <1>3. /\ bootMsg' = [p \in Server |-> bootMsg'[p]]
        /\ \A p \in Server : bootMsg'[p] # Nil => bootMsg'[p] \in BootOffer
    BY <1>1, <1>2 DEF ServiceOK
  <1>4. applied' \in [Server -> Commands] /\ mode' \in [Server -> Mode]
    BY <1>1, <1>2 DEF ServiceOK, Mode, BootOffer
  <1>5. QED
    BY <1>1, <1>2, <1>3, <1>4 DEF ServiceOK, Mode

LEMMA InstallSnapshotService ==
  ASSUME IInv, TypesInv, NEW m \in requests, InstallSnapshot(m)
  PROVE  ServiceOK'
  <1> DEFINE s == m.to
  <1>1. ServiceOK /\ s \in Server /\ m.data \in Commands
    BY DEF TypesInv, MailOK, RequestTyped, IInv, MessagesOK, RequestOK, InstallSnapshot
  <1>2. UNCHANGED <<snapshot, snapping, starts, applyMsg, bootMsg>>
    BY DEF InstallSnapshot, applyVars, boundVars
  <1>3. \/ UNCHANGED applied
        \/ applied' = [applied EXCEPT ![s] = m.data]
    BY DEF InstallSnapshot, Ingest
  <1>4. UNCHANGED mode \/ \E v \in Mode : mode' = [mode EXCEPT ![s] = v]
    <2>1. "stuck" \in Mode /\ "save" \in Mode /\ "fatal" \in Mode
      BY DEF Mode
    <2>2. \/ UNCHANGED mode
          \/ mode' = [mode EXCEPT ![s] = "stuck"]
          \/ mode' = [mode EXCEPT ![s] = "save"]
          \/ mode' = [mode EXCEPT ![s] = "fatal"]
      BY DEF InstallSnapshot, Ingest, Save
    <2>3. QED
      BY <2>1, <2>2
  <1>5. applied' \in [Server -> Commands] /\ mode' \in [Server -> Mode]
    BY <1>1, <1>3, <1>4 DEF ServiceOK, Mode
  <1>6. QED
    BY <1>1, <1>2, <1>5 DEF ServiceOK, Mode

LEMMA CrashService ==
  ASSUME IInv, TypesInv, NEW s \in Server, Crash(s)
  PROVE  ServiceOK'
  <1>1. ServiceOK /\ snapshot[s] \in Commands
    BY DEF TypesInv, ServiceOK
  <1>2. /\ UNCHANGED <<snapshot, starts>>
        /\ mode' = [mode EXCEPT ![s] = "run"] /\ snapping' = [snapping EXCEPT ![s] = FALSE]
        /\ applied' = [applied EXCEPT ![s] = snapshot[s]]
        /\ applyMsg' = [applyMsg EXCEPT ![s] = Nil]
        /\ bootMsg' = [bootMsg EXCEPT ![s] =
             IF snapshot[s] = <<>> THEN Nil ELSE [index |-> NotRead, data |-> snapshot[s]]]
    BY DEF Crash, persisterVars
  <1>3. /\ applied' \in [Server -> Commands] /\ mode' \in [Server -> Mode]
        /\ snapping' \in [Server -> BOOLEAN]
    BY <1>1, <1>2 DEF ServiceOK, Mode
  <1>4. /\ applyMsg' = [p \in Server |-> applyMsg'[p]]
        /\ \A p \in Server : applyMsg'[p] # Nil => applyMsg'[p] \in Offer
    BY <1>1, <1>2 DEF ServiceOK
  <1>5. /\ bootMsg' = [p \in Server |-> bootMsg'[p]]
        /\ \A p \in Server : bootMsg'[p] # Nil => bootMsg'[p] \in BootOffer
    <2>1. bootMsg'[s] = IF snapshot[s] = <<>> THEN Nil
                                              ELSE [index |-> NotRead, data |-> snapshot[s]]
      BY <1>1, <1>2 DEF ServiceOK
    <2>2. bootMsg'[s] # Nil => bootMsg'[s] \in BootOffer
      BY <1>1, <2>1 DEF BootOffer
    <2>3. \A p \in Server \ {s} : bootMsg'[p] = bootMsg[p]
      BY <1>1, <1>2 DEF ServiceOK
    <2>4. bootMsg' = [p \in Server |-> bootMsg'[p]]
      BY <1>1, <1>2 DEF ServiceOK
    <2>5. QED
      BY <1>1, <2>2, <2>3, <2>4 DEF ServiceOK
  <1>6. QED
    BY <1>1, <1>2, <1>3, <1>4, <1>5 DEF ServiceOK, Mode

LEMMA ServiceStep ==
  ASSUME IInv, TypesInv, [Next]_vars
  PROVE  ServiceOK'
  <1>0. ServiceOK
    BY DEF TypesInv
  <1>1. ASSUME NEW s \in Server, StartElections(s) \/ SendHeartBeats(s) \/ AgreementEnds(s)
        PROVE  UNCHANGED serviceVarsOf
    BY <1>1 DEF serviceVarsOf, StartElections, SendHeartBeats, AgreementEnds, persisterVars,
                serviceVars, applyVars, boundVars
  <1>2. ASSUME NEW m \in requests, RequestVote(m) \/ AppendEntry(m)
        PROVE  UNCHANGED serviceVarsOf
    BY <1>2 DEF serviceVarsOf, RequestVote, AppendEntry, serviceVars, applyVars, boundVars
  <1>3. ASSUME NEW r \in replies, VoteAnswer(r.to, r) \/ SnapshotAnswer(r.to, r)
        PROVE  UNCHANGED serviceVarsOf
    BY <1>3 DEF serviceVarsOf, VoteAnswer, SnapshotAnswer, persisterVars, serviceVars, applyVars,
                boundVars
  <1>4. ASSUME NEW r \in replies, AppendAnswer(r.to, r) PROVE ServiceOK'
    <2>1. /\ UNCHANGED <<snapshot, applied, snapping, starts, applyMsg, bootMsg>>
          /\ mode' = mode \/ mode' = [mode EXCEPT ![r.to] = "panic"]
      BY <1>4 DEF AppendAnswer, Panic, serviceVars, applyVars, boundVars
    <2>2. QED
      BY <1>0, <2>1, ModeOnly DEF Mode
  <1>5. ASSUME NEW s \in Server, NEW p \in Server, StartAgreement(s, p) PROVE ServiceOK'
    <2>1. /\ UNCHANGED <<snapshot, applied, snapping, starts, applyMsg, bootMsg>>
          /\ mode' = mode \/ mode' = [mode EXCEPT ![s] = "panic"]
      BY <1>5 DEF StartAgreement, Panic, persisterVars, serviceVars, applyVars, boundVars
    <2>2. QED
      BY <1>0, <2>1, ModeOnly DEF Mode
  <1>6. ASSUME NEW s \in Server, CheckIfCommitted(s) PROVE ServiceOK'
    <2>1. /\ UNCHANGED <<snapshot, applied, snapping, starts, applyMsg, bootMsg>>
          /\ mode' = mode \/ mode' = [mode EXCEPT ![s] = "panic"]
      BY <1>6 DEF CheckIfCommitted, Panic, persisterVars, serviceVars, boundVars
    <2>2. QED
      BY <1>0, <2>1, ModeOnly DEF Mode
  <1>7. ASSUME NEW s \in Server, Snapshot(s) PROVE ServiceOK'
    <2>1. /\ UNCHANGED <<snapshot, applied, snapping, starts, applyMsg, bootMsg>>
          /\ \/ mode' = [mode EXCEPT ![s] = "panic"]
             \/ mode' = [mode EXCEPT ![s] = "save"]
      BY <1>7 DEF Snapshot, Panic, Save, serviceVars, applyVars, boundVars
    <2>2. QED
      BY <1>0, <2>1, ModeOnly DEF Mode
  <1>8. ASSUME NEW s \in Server, Start(s) PROVE ServiceOK'
    <2>1. /\ UNCHANGED <<mode, snapshot, applied, snapping, applyMsg, bootMsg>>
          /\ starts' = starts + 1 /\ starts < MaxStarts
      BY <1>8 DEF Start, serviceVars, applyVars
    <2>2. QED
      BY <1>0, <2>1, RaftAssumption DEF ServiceOK
  <1>9. ASSUME NEW s \in Server, SaveStateAndSnapshot(s) PROVE ServiceOK'
    <2>1. /\ UNCHANGED <<applied, starts, applyMsg, bootMsg>>
          /\ snapshot' = [snapshot EXCEPT ![s] = applied[s]]
          /\ snapping' = [snapping EXCEPT ![s] = FALSE] /\ mode' = [mode EXCEPT ![s] = "run"]
      BY <1>9 DEF SaveStateAndSnapshot, applyVars, boundVars
    <2>2. /\ snapshot' \in [Server -> Commands] /\ snapping' \in [Server -> BOOLEAN]
          /\ mode' \in [Server -> Mode]
      BY <1>0, <2>1 DEF ServiceOK, Mode
    <2>3. QED
      BY <1>0, <2>1, <2>2 DEF ServiceOK, Mode
  <1>10. CASE UNCHANGED vars
    BY <1>0, <1>10, ServiceKept DEF vars, serviceVarsOf, persisterVars, serviceVars, applyVars,
                                    boundVars
  <1>11. QED
    BY <1>0, <1>1, <1>2, <1>3, <1>4, <1>5, <1>6, <1>7, <1>8, <1>9, <1>10, ServiceKept,
       ApplyCommandService, SendApplyService, ReadPersistedSnapshotService,
       ApplyPersistedSnapshotService, InstallSnapshotService, CrashService
       DEF Next, Handle, HandleAnswer

-----------------------------------------------------------------------------
\* What is on its way.

\* What a leader sends is from its log, after slot 0.
LEMMA SentTyped ==
  ASSUME TypesInv, NEW s \in Server, NEW p \in Server
  PROVE  /\ \A m \in HeartBeats(s) : RequestTyped(m)
         /\ RequestTyped(SnapshotArgs(s, p))
         /\ LET i == nextIndex[s][p] - lastIncludedIndex[s]
            IN  i > 0 /\ i < Length(s) => RequestTyped(AppendArgs(s, p, i))
  <1> DEFINE i == nextIndex[s][p] - lastIncludedIndex[s]
  <1>1. LogsOK /\ IndicesOK /\ ServiceOK
    BY DEF TypesInv
  <1>2. /\ commitIndex[s] \in Nat /\ nextIndex[s][p] \in Nat /\ lastIncludedIndex[s] \in Nat
        /\ lastIncludedTerm[s] \in -1 .. MaxElections /\ snapshot[s] \in Commands
    BY <1>1 DEF LogsOK, IndicesOK, ServiceOK
  <1>3. \A m \in HeartBeats(s) : RequestTyped(m)
    <2> TAKE m \in HeartBeats(s)
    <2>1. m.type = "append" /\ m.prev = 0 /\ m.commit = commitIndex[s] /\ m.new = <<>>
      BY DEF HeartBeats
    <2>2. <<>> \in Seq(RealEntry)
      OBVIOUS
    <2>3. QED
      BY <1>2, <2>1, <2>2 DEF RequestTyped
  <1>4. RequestTyped(SnapshotArgs(s, p))
    BY <1>2 DEF SnapshotArgs, RequestTyped
  <1>5. ASSUME i > 0 PROVE RequestTyped(AppendArgs(s, p, i))
    <2>1. i \in Nat /\ i + 1 \in Nat /\ i + 1 >= 2
      BY <1>2, <1>5
    <2>2. SubSeq(entries[s], i + 1, Length(s)) \in Seq(RealEntry)
      BY <1>1, <2>1, ServerSlots, SliceTail DEF Length
    <2>3. nextIndex[s][p] - 1 \in Nat
      BY <1>2, <1>5
    <2> HIDE DEF i
    <2>4. /\ AppendArgs(s, p, i).type = "append"
          /\ AppendArgs(s, p, i).commit = commitIndex[s]
          /\ AppendArgs(s, p, i).prev \in {nextIndex[s][p] - 1, lastIncludedIndex[s]}
          /\ AppendArgs(s, p, i).new = SubSeq(entries[s], i + 1, Length(s))
      BY DEF AppendArgs
    <2>5. QED
      BY <1>2, <2>2, <2>3, <2>4 DEF RequestTyped
  <1>6. QED
    BY <1>3, <1>4, <1>5

\* A reply answers with numbers.
LEMMA AppendReplyTyped ==
  ASSUME NEW m, m.to \in Server, RequestTyped(m), m.type = "append", NEW success, NEW t,
         NEW i \in Nat
  PROVE  ReplyTyped(AppendReply(m, success, t, i))
  <1>1. m.prev \in Nat /\ Len(m.new) \in Nat
    BY DEF RequestTyped
  <1>2. QED
    BY <1>1 DEF AppendReply, ReplyTyped

LEMMA AppendEntryMail ==
  ASSUME IInv, TypesInv, NEW m \in requests, AppendEntry(m)
  PROVE  MailOK'
  <1> DEFINE s == m.to
             p == m.prev - lastIncludedIndex[s]
             last == Min({p, Length(s) - 1})
  <1>1. s \in Server /\ LogsOK /\ MailOK /\ RequestTyped(m) /\ m.type = "append"
    BY DEF IInv, MessagesOK, RequestOK, TypesInv, MailOK, AppendEntry
  <1>2. UNCHANGED <<requests, unsent>>
    BY DEF AppendEntry
  <1>3. ASSUME p \in Nat PROVE ConflictSlot(s, last) + lastIncludedIndex[s] \in Nat
    <2>1. Length(s) - 1 \in Nat /\ lastIncludedIndex[s] \in Nat
      BY <1>1, ServerSlots
    <2> HIDE DEF p
    <2>2. last \in Nat
      BY <1>3, <2>1, PairMin
    <2> HIDE DEF last
    <2>3. ConflictSlot(s, last) \in Nat
      BY <1>1, <2>2, ConflictType
    <2>4. QED
      BY <2>1, <2>3
  <1>4. p \in Nat \/ p < 0
    BY <1>1, ServerSlots DEF RequestTyped
  <1>5. \/ UNCHANGED replies
        \/ \E success, t : \E i \in Nat :
             replies' = replies \cup {AppendReply(m, success, t, i)}
    <2>1. \/ UNCHANGED replies
          \/ replies' = replies \cup {AppendReply(m, TRUE, 0, 0)}
          \/ replies' = replies \cup {AppendReply(m, FALSE, 0, 0)}
          \/ /\ ~(p < 0)
             /\ replies' = replies \cup {AppendReply(m, FALSE, Slot(s, last).term,
                                                     ConflictSlot(s, last) + lastIncludedIndex[s])}
      BY DEF AppendEntry, Refuse, Accept, Reply
    <2>2. 0 \in Nat
      OBVIOUS
    <2> HIDE DEF p, last
    <2>3. QED
      BY <1>3, <1>4, <2>1, <2>2
  <1>6. \A r \in replies' : r \in replies \/ ReplyTyped(r)
    BY <1>1, <1>5, AppendReplyTyped
  <1>7. QED
    BY <1>1, <1>2, <1>6 DEF MailOK

LEMMA MailStep ==
  ASSUME IInv, TypesInv, [Next]_vars
  PROVE  MailOK'
  <1>0. MailOK
    BY DEF TypesInv
  <1>1. ASSUME NEW s \in Server,
               \/ Start(s) \/ AgreementEnds(s) \/ CheckIfCommitted(s) \/ SendApply(s)
               \/ ApplyCommand(s) \/ ReadPersistedSnapshot(s) \/ ApplyPersistedSnapshot(s)
        PROVE  UNCHANGED mailVars
    BY <1>1 DEF mailVars, Start, AgreementEnds, CheckIfCommitted, SendApply, ApplyCommand,
                ReadPersistedSnapshot, ApplyPersistedSnapshot, networkVars
  <1>2. CASE UNCHANGED mailVars
    BY <1>0, <1>2 DEF mailVars, MailOK
  <1>3. ASSUME NEW s \in Server, StartElections(s) PROVE MailOK'
    <2>1. \A m \in requests' : m \in requests \/ m.type = "vote"
      BY <1>3 DEF StartElections, Send
    <2>2. UNCHANGED <<replies, unsent>>
      BY <1>3 DEF StartElections
    <2>3. QED
      BY <1>0, <2>1, <2>2 DEF MailOK, RequestTyped
  <1>4. ASSUME NEW m \in requests, RequestVote(m) PROVE MailOK'
    <2>1. m.to \in Server
      BY DEF IInv, MessagesOK, RequestOK
    <2>2. \A r \in replies' : r \in replies \/ (r.type = "vote" /\ r.from = m.to)
      BY <1>4 DEF RequestVote, Reply, VoteReply
    <2>3. requests' \subseteq requests /\ UNCHANGED unsent
      BY <1>4 DEF RequestVote
    <2>4. QED
      BY <1>0, <2>1, <2>2, <2>3 DEF MailOK, ReplyTyped
  <1>5. ASSUME NEW s \in Server, SendHeartBeats(s) PROVE MailOK'
    <2>1. requests' = requests \cup HeartBeats(s) /\ UNCHANGED <<replies, unsent>>
      BY <1>5 DEF SendHeartBeats, Send
    <2>2. QED
      BY <1>0, <2>1, SentTyped DEF MailOK
  <1>6. ASSUME NEW s \in Server, NEW p \in Server, StartAgreement(s, p) PROVE MailOK'
    <2> DEFINE i == nextIndex[s][p] - lastIncludedIndex[s]
    <2>1. UNCHANGED <<replies, unsent>>
      BY <1>6 DEF StartAgreement
    <2>2. \/ UNCHANGED requests
          \/ requests' = requests \cup {SnapshotArgs(s, p)}
          \/ /\ ~(i > Length(s)) /\ i # Length(s) /\ ~(i <= 0)
             /\ requests' = requests \cup {AppendArgs(s, p, i)}
      BY <1>6 DEF StartAgreement, Send
    <2>3. i \in Int /\ Length(s) \in Nat
      BY ServerSlots DEF TypesInv, LogsOK, IndicesOK
    <2>4. (i > 0 /\ i < Length(s) => RequestTyped(AppendArgs(s, p, i)))
            /\ RequestTyped(SnapshotArgs(s, p))
      BY SentTyped
    <2> HIDE DEF i
    <2>5. \A m \in requests' : m \in requests \/ RequestTyped(m)
      BY <2>2, <2>3, <2>4
    <2>6. QED
      BY <1>0, <2>1, <2>5 DEF MailOK
  <1>7. ASSUME NEW m \in requests, InstallSnapshot(m) PROVE MailOK'
    <2>1. m.to \in Server /\ m.index \in Nat /\ UNCHANGED requests
      BY <1>0, <1>7 DEF IInv, MessagesOK, RequestOK, MailOK, RequestTyped, InstallSnapshot
    <2>2. ReplyTyped(SnapshotReply(m))
      BY <2>1 DEF ReplyTyped, SnapshotReply
    <2>3. \/ UNCHANGED replies
          \/ replies' = replies \cup {SnapshotReply(m)}
      BY <1>7 DEF InstallSnapshot, Reply
    <2>4. \/ UNCHANGED unsent
          \/ unsent' = [unsent EXCEPT ![m.to] = {SnapshotReply(m)}]
      BY <1>7 DEF InstallSnapshot, Save
    <2>5. \A s \in Server : \A r \in unsent'[s] : r \in unsent[s] \/ r = SnapshotReply(m)
      BY <2>4 DEF IInv, MessagesOK
    <2>6. QED
      BY <1>0, <2>1, <2>2, <2>3, <2>5 DEF MailOK
  <1>8. ASSUME NEW s \in Server, Snapshot(s) PROVE MailOK'
    <2>1. /\ UNCHANGED <<requests, replies>>
          /\ unsent' = unsent \/ unsent' = [unsent EXCEPT ![s] = {}]
      BY <1>8 DEF Snapshot, Save, networkVars
    <2>2. \A p \in Server : unsent'[p] \subseteq unsent[p]
      BY <2>1 DEF IInv, MessagesOK
    <2>3. QED
      BY <1>0, <2>1, <2>2 DEF MailOK
  <1>9. ASSUME NEW s \in Server, SaveStateAndSnapshot(s) \/ Crash(s) PROVE MailOK'
    <2>1. /\ UNCHANGED requests /\ replies' \subseteq replies \cup unsent[s]
          /\ unsent' = [unsent EXCEPT ![s] = {}]
      BY <1>9 DEF SaveStateAndSnapshot, Crash, networkVars
    <2>2. \A p \in Server : unsent'[p] \subseteq unsent[p]
      BY <2>1 DEF IInv, MessagesOK
    <2>3. QED
      BY <1>0, <2>1, <2>2 DEF MailOK
  <1>10. ASSUME NEW r \in replies, HandleAnswer(r) PROVE MailOK'
    <2>1. UNCHANGED <<requests, unsent>> /\ replies' \subseteq replies
      BY <1>10 DEF HandleAnswer, VoteAnswer, AppendAnswer, SnapshotAnswer, networkVars
    <2>2. QED
      BY <1>0, <2>1 DEF MailOK
  <1>11. CASE UNCHANGED vars
    BY <1>2, <1>11 DEF vars, mailVars, networkVars
  <1>12. QED
    BY <1>1, <1>2, <1>3, <1>4, <1>5, <1>6, <1>7, <1>8, <1>9, <1>10, <1>11, AppendEntryMail
       DEF Next, Handle
-----------------------------------------------------------------------------
LEMMA InitTypes == Init => TypesInv
  <1> SUFFICES ASSUME Init PROVE TypesInv
    OBVIOUS
  <1> USE RaftAssumption
  <1>1. LogsOK
    <2>1. /\ entries = [s \in Server |-> entries[s]] /\ lastIncludedIndex \in [Server -> Nat]
          /\ lastIncludedTerm \in [Server -> -1 .. MaxElections]
      BY DEF Init
    <2>2. \A s \in Server : /\ entries[s] = <<Dummy>> /\ persisted[s].entries = <<Dummy>>
                            /\ persisted[s].lastIncludedIndex = 0
                            /\ persisted[s].lastIncludedTerm = -1
      BY DEF Init
    <2>3. QED
      BY <2>1, <2>2, DummySlice DEF LogsOK
  <1>2. IndicesOK
    BY DEF Init, IndicesOK
  <1>3. ServiceOK
    <2>1. <<>> \in Commands
      BY DEF Commands
    <2>2. QED
      BY <2>1 DEF Init, ServiceOK
  <1>4. MailOK
    BY DEF Init, MailOK
  <1>5. QED
    BY <1>1, <1>2, <1>3, <1>4 DEF TypesInv

LEMMA TypesStep == IInv /\ TypesInv /\ [Next]_vars => TypesInv'
  BY LogsStep, IndicesStep, ServiceStep, MailStep DEF TypesInv

\* What TypeOK says.
LEMMA TypesImplyTypeOK == IInv /\ TypesInv => TypeOK
  <1> SUFFICES ASSUME IInv, TypesInv PROVE TypeOK
    OBVIOUS
  <1>1. currentTerm \in [Server -> 0 .. MaxElections] /\ votesGiven \in [Server -> Votes]
    BY RaftAssumption DEF IInv, ServerTypeOK
  <1>2. entries \in [Server -> Log] /\ \A s \in Server : entries[s] # <<>>
    BY DEF TypesInv, LogsOK, SliceOK
  <1>3. QED
    BY <1>1, <1>2 DEF TypeOK, TypesInv, LogsOK, IndicesOK, ServiceOK, Commands, IInv, ServerTypeOK

\* Terms and commands stay within their bounds, every slice of every server keeps its slot 0,
\* in memory and in what is persisted, whatever is cut off, installed or restored, and no index
\* becomes negative.
THEOREM TypesCorrect == Spec => []TypeOK
  <1>1. Init => IInv /\ TypesInv
    BY InitInvariant, InitTypes
  <1>2. (IInv /\ TypesInv) /\ [Next]_vars => (IInv /\ TypesInv)'
    BY StepInvariant, TypesStep
  <1>3. QED
    BY <1>1, <1>2, TypesImplyTypeOK, PTL DEF Spec
-----------------------------------------------------------------------------
\* The snapshots.  A handler that is about to write one has persisted a log that begins
\* where it ends.
SnapshotOK(s) ==
  /\ Len(snapshot[s]) <= persisted[s].lastIncludedIndex
  /\ persisted[s].lastIncludedIndex <= lastIncludedIndex[s]
  /\ mode[s] = "save" => Len(applied[s]) <= persisted[s].lastIncludedIndex

SnapshotsOK == \A s \in Server : SnapshotOK(s)

SnapInv == IInv /\ TypesInv /\ SnapshotsOK

LEMMA SnapshotTypes ==
  ASSUME SnapInv, NEW s \in Server
  PROVE  /\ SnapshotOK(s) /\ Len(snapshot[s]) \in Nat /\ Len(applied[s]) \in Nat
         /\ lastIncludedIndex[s] \in Nat /\ persisted[s].lastIncludedIndex \in Nat
         /\ lastIncludedIndex = [p \in Server |-> lastIncludedIndex[p]]
         /\ mode = [p \in Server |-> mode[p]] /\ applied = [p \in Server |-> applied[p]]
         /\ snapshot = [p \in Server |-> snapshot[p]]
         /\ persisted = [p \in Server |-> persisted[p]]
  BY DEF SnapInv, SnapshotsOK, TypesInv, LogsOK, ServiceOK, Commands, IInv, VotesPersisted

\* persist() writes the log's beginning as it is in memory.
LEMMA PersistIndex ==
  ASSUME SnapInv, NEW s \in Server, Persist(s) \/ UNCHANGED persisted, NEW p \in Server
  PROVE  persisted'[p].lastIncludedIndex \in {persisted[p].lastIncludedIndex, lastIncludedIndex'[p]}
  <1>1. persisted = [q \in Server |-> persisted[q]]
    BY SnapshotTypes
  <1>2. CASE UNCHANGED persisted
    BY <1>2
  <1>3. CASE Persist(s) /\ p = s
    <2>1. persisted'[s].lastIncludedIndex = lastIncludedIndex'[s]
      BY <1>1, <1>3 DEF Persist
    <2>2. QED
      BY <1>3, <2>1
  <1>4. CASE Persist(s) /\ p # s
    <2>1. persisted'[p] = persisted[p]
      BY <1>1, <1>4 DEF Persist
    <2>2. QED
      BY <2>1
  <1>5. QED
    BY <1>2, <1>3, <1>4

\* Nobody begins to save, and no log is trimmed.
LEMMA SnapshotsKept ==
  ASSUME SnapInv, UNCHANGED <<snapshot, lastIncludedIndex>>,
         NEW s \in Server, Persist(s) \/ UNCHANGED persisted,
         \A p \in Server : mode'[p] = "save" => mode[p] = "save" /\ applied'[p] = applied[p]
  PROVE  SnapshotsOK'
  <1> SUFFICES ASSUME NEW p \in Server PROVE SnapshotOK(p)'
    BY DEF SnapshotsOK
  <1>1. persisted'[p].lastIncludedIndex \in {persisted[p].lastIncludedIndex, lastIncludedIndex'[p]}
    BY PersistIndex
  <1>2. QED
    BY <1>1, SnapshotTypes DEF SnapshotOK

\* Server s alone changes, and ends up in order.
LEMMA SnapshotsElsewhere ==
  ASSUME SnapInv, NEW s \in Server, SnapshotOK(s)',
         \A p \in Server \ {s} :
           /\ snapshot'[p] = snapshot[p] /\ lastIncludedIndex'[p] = lastIncludedIndex[p]
           /\ mode'[p] = mode[p] /\ applied'[p] = applied[p] /\ persisted'[p] = persisted[p]
  PROVE  SnapshotsOK'
  BY DEF SnapInv, SnapshotsOK, SnapshotOK

LEMMA SnapshotSnapshots ==
  ASSUME SnapInv, NEW s \in Server, Snapshot(s)
  PROVE  SnapshotsOK'
  <1> DEFINE index == Len(applied[s])
  <1>1. UNCHANGED <<snapshot, applied>>
    BY DEF Snapshot, serviceVars
  <1>2. CASE InRange(s, index - lastIncludedIndex[s])
    <2>1. /\ lastIncludedIndex' = [lastIncludedIndex EXCEPT ![s] = index] /\ Persist(s)
          /\ mode' = [mode EXCEPT ![s] = "save"]
      BY <1>2 DEF Snapshot, Save
    <2>2. index >= lastIncludedIndex[s]
      BY <1>2, SnapshotTypes, ServerSlots DEF InRange, SnapInv, TypesInv
    <2>3. lastIncludedIndex'[s] = index /\ persisted'[s].lastIncludedIndex = index
      BY <2>1, SnapshotTypes DEF Persist
    <2>4. SnapshotOK(s)'
      <3>1. /\ Len(snapshot[s]) \in Nat /\ persisted[s].lastIncludedIndex \in Nat
            /\ lastIncludedIndex[s] \in Nat /\ index \in Nat
        BY SnapshotTypes
      <3>2. /\ Len(snapshot[s]) <= persisted[s].lastIncludedIndex
            /\ persisted[s].lastIncludedIndex <= lastIncludedIndex[s]
        BY DEF SnapInv, SnapshotsOK, SnapshotOK
      <3>3. snapshot'[s] = snapshot[s] /\ Len(applied'[s]) = index
        BY <1>1
      <3> HIDE DEF index
      <3>4. Len(snapshot[s]) <= index
        BY <2>2, <3>1, <3>2
      <3>5. QED
        BY <2>3, <3>1, <3>3, <3>4 DEF SnapshotOK
    <2>5. QED
      BY <1>1, <2>1, <2>4, SnapshotTypes, SnapshotsElsewhere DEF Persist
  <1>3. CASE ~InRange(s, index - lastIncludedIndex[s])
    <2>1. mode' = [mode EXCEPT ![s] = "panic"] /\ UNCHANGED <<lastIncludedIndex, persisted>>
      BY <1>3 DEF Snapshot, Panic, durableVars
    <2>2. QED
      BY <1>1, <2>1, SnapshotTypes, SnapshotsKept
  <1>4. QED
    BY <1>2, <1>3

LEMMA InstallSnapshotSnapshots ==
  ASSUME SnapInv, NEW m \in requests, InstallSnapshot(m)
  PROVE  SnapshotsOK'
  <1> DEFINE s == m.to
  <1>1. s \in Server /\ m.index \in Nat /\ UNCHANGED snapshot /\ mode[s] = "run"
    BY DEF SnapInv, IInv, MessagesOK, RequestOK, TypesInv, MailOK, RequestTyped,
           InstallSnapshot, Up
  <1>2. \/ /\ UNCHANGED <<lastIncludedIndex, persisted, applied>>
           /\ mode' = mode \/ \E v \in {"stuck", "fatal"} : mode' = [mode EXCEPT ![s] = v]
        \/ /\ m.index > lastIncludedIndex[s] /\ Len(m.data) = m.index
           /\ applied' = [applied EXCEPT ![s] = m.data]
           /\ lastIncludedIndex' = [lastIncludedIndex EXCEPT ![s] = m.index]
           /\ \/ UNCHANGED <<mode, persisted>>
              \/ mode' = [mode EXCEPT ![s] = "save"] /\ Persist(s)
    <2>1. m.index - lastIncludedIndex[s] > 0 <=> m.index > lastIncludedIndex[s]
      BY <1>1, SnapshotTypes
    <2>2. QED
      BY <1>1, <2>1 DEF InstallSnapshot, Ingest, Save
  <1>3. CASE /\ UNCHANGED <<lastIncludedIndex, persisted, applied>>
             /\ mode' = mode \/ \E v \in {"stuck", "fatal"} : mode' = [mode EXCEPT ![s] = v]
    BY <1>1, <1>3, SnapshotTypes, SnapshotsKept
  <1>4. CASE /\ m.index > lastIncludedIndex[s] /\ Len(m.data) = m.index
             /\ applied' = [applied EXCEPT ![s] = m.data]
             /\ lastIncludedIndex' = [lastIncludedIndex EXCEPT ![s] = m.index]
             /\ \/ UNCHANGED <<mode, persisted>>
                \/ mode' = [mode EXCEPT ![s] = "save"] /\ Persist(s)
    <2>1. lastIncludedIndex'[s] = m.index /\ Len(applied'[s]) = m.index
      BY <1>1, <1>4, SnapshotTypes
    <2>2. SnapshotOK(s)'
      <3>1. CASE UNCHANGED <<mode, persisted>>
        BY <1>1, <1>4, <2>1, <3>1, SnapshotTypes DEF SnapshotOK
      <3>2. CASE Persist(s)
        <4>1. persisted'[s].lastIncludedIndex = m.index
          BY <1>1, <2>1, <3>2, SnapshotTypes DEF Persist
        <4>2. QED
          BY <1>1, <1>4, <2>1, <4>1, SnapshotTypes DEF SnapshotOK
      <3>3. QED
        BY <1>4, <3>1, <3>2
    <2>3. QED
      BY <1>1, <1>4, <2>2, SnapshotTypes, SnapshotsElsewhere DEF Persist
  <1>5. QED
    BY <1>2, <1>3, <1>4

\* The second write, and the restart.
LEMMA SaveStateAndSnapshotSnapshots ==
  ASSUME SnapInv, NEW s \in Server, SaveStateAndSnapshot(s)
  PROVE  SnapshotsOK'
  <1>1. /\ mode[s] = "save" /\ UNCHANGED <<lastIncludedIndex, persisted, applied>>
        /\ snapshot' = [snapshot EXCEPT ![s] = applied[s]]
        /\ mode' = [mode EXCEPT ![s] = "run"]
    BY DEF SaveStateAndSnapshot, durableVars
  <1>2. SnapshotOK(s)'
    BY <1>1, SnapshotTypes DEF SnapshotOK
  <1>3. QED
    BY <1>1, <1>2, SnapshotTypes, SnapshotsElsewhere

LEMMA CrashSnapshots ==
  ASSUME SnapInv, NEW s \in Server, Crash(s)
  PROVE  SnapshotsOK'
  <1>1. /\ UNCHANGED <<snapshot, persisted>> /\ applied' = [applied EXCEPT ![s] = snapshot[s]]
        /\ lastIncludedIndex' = [lastIncludedIndex EXCEPT ![s] = persisted[s].lastIncludedIndex]
        /\ mode' = [mode EXCEPT ![s] = "run"]
    BY DEF Crash, Restored, persisterVars
  <1>2. SnapshotOK(s)'
    BY <1>1, SnapshotTypes DEF SnapshotOK
  <1>3. QED
    BY <1>1, <1>2, SnapshotTypes, SnapshotsElsewhere

LEMMA SnapshotsStep ==
  ASSUME SnapInv, [Next]_vars
  PROVE  SnapshotsOK'
  <1>1. ASSUME NEW s \in Server,
               \/ StartElections(s) \/ Start(s) \/ SendHeartBeats(s) \/ AgreementEnds(s)
               \/ ReadPersistedSnapshot(s)
        PROVE  SnapshotsOK'
    <2>1. /\ UNCHANGED <<snapshot, lastIncludedIndex, mode, applied>>
          /\ Persist(s) \/ UNCHANGED persisted
      BY <1>1 DEF StartElections, Start, SendHeartBeats, AgreementEnds, ReadPersistedSnapshot,
                  durableVars, persisterVars, serviceVars
    <2>2. QED
      BY <2>1, SnapshotsKept
  <1>2. ASSUME NEW s \in Server,
               \/ CheckIfCommitted(s) \/ SendApply(s) \/ ApplyCommand(s)
               \/ ApplyPersistedSnapshot(s) \/ \E p \in Server : StartAgreement(s, p)
        PROVE  SnapshotsOK'
    <2>1. /\ UNCHANGED <<snapshot, lastIncludedIndex, persisted>> /\ mode[s] = "run"
          /\ \/ mode' = mode
             \/ \E v \in {"panic", "fatal"} : mode' = [mode EXCEPT ![s] = v]
          /\ applied' = applied \/ \E a : applied' = [applied EXCEPT ![s] = a]
      BY <1>2 DEF CheckIfCommitted, SendApply, ApplyCommand, ApplyPersistedSnapshot, Ingest,
                  StartAgreement, Panic, Up, durableVars, persisterVars, serviceVars
    <2>2. \A p \in Server : mode'[p] = "save" => mode[p] = "save" /\ applied'[p] = applied[p]
      BY <2>1, SnapshotTypes
    <2>3. QED
      BY <2>1, <2>2, SnapshotsKept
  <1>3. ASSUME NEW m \in requests, RequestVote(m) \/ AppendEntry(m)
        PROVE  SnapshotsOK'
    <2>1. /\ UNCHANGED <<snapshot, lastIncludedIndex, mode, applied>>
          /\ m.to \in Server /\ Persist(m.to)
      BY <1>3 DEF RequestVote, AppendEntry, serviceVars, SnapInv, IInv, MessagesOK, RequestOK
    <2>2. QED
      BY <2>1, SnapshotsKept
  <1>4. ASSUME NEW r \in replies, HandleAnswer(r)
        PROVE  SnapshotsOK'
    <2>1. /\ UNCHANGED <<snapshot, lastIncludedIndex, applied>> /\ r.to \in Server
          /\ Persist(r.to) \/ UNCHANGED persisted
          /\ mode' = mode \/ mode' = [mode EXCEPT ![r.to] = "panic"]
      BY <1>4 DEF HandleAnswer, VoteAnswer, AppendAnswer, SnapshotAnswer, Panic, durableVars,
                  persisterVars, serviceVars, SnapInv, IInv, MessagesOK, ReplyOK
    <2>2. \A p \in Server : mode'[p] = "save" => mode[p] = "save"
      BY <2>1, SnapshotTypes
    <2>3. QED
      BY <2>1, <2>2, SnapshotsKept
  <1>5. CASE UNCHANGED vars
    BY <1>5 DEF vars, durableVars, persisterVars, serviceVars, SnapInv, SnapshotsOK, SnapshotOK
  <1>6. QED
    BY <1>1, <1>2, <1>3, <1>4, <1>5, SnapshotSnapshots, InstallSnapshotSnapshots,
       SaveStateAndSnapshotSnapshots, CrashSnapshots DEF Next, Handle

\* Whenever a server crashes, also between the two writes of a snapshot, the log that it
\* restarts with begins at the end of the snapshot that it finds, or after it: Snapshot and
\* InstallSnapshot persist the trimmed raftstate before they write the snapshot.
THEOREM SnapshotsWithinLogs == Spec => []SnapshotWithinLog
  <1>1. Init => SnapInv
    <2> SUFFICES ASSUME Init PROVE SnapInv
      OBVIOUS
    <2>1. SnapshotsOK
      BY DEF Init, SnapshotsOK, SnapshotOK
    <2>2. QED
      BY <2>1, InitInvariant, InitTypes DEF SnapInv
  <1>2. SnapInv /\ [Next]_vars => SnapInv'
    BY StepInvariant, TypesStep, SnapshotsStep DEF SnapInv
  <1>3. SnapInv => SnapshotWithinLog
    BY DEF SnapInv, SnapshotsOK, SnapshotOK, SnapshotWithinLog
  <1>4. QED
    BY <1>1, <1>2, <1>3, PTL DEF Spec
-----------------------------------------------------------------------------
\* Places in the log where no service takes a snapshot.

\* Nothing of server s is compacted: its slice begins at index 0, in memory and on disk,
\* and its service has what it has been sent, one command after the other.
Uncompacted(s) ==
  /\ lastIncludedIndex[s] = 0 /\ snapshot[s] = <<>> /\ snapping[s] = FALSE
  /\ applyMsg[s] = Nil /\ bootMsg[s] = Nil /\ mode[s] \in {"run", "panic"}
  /\ Len(applied[s]) = lastApplied[s]
  /\ persisted[s].lastIncludedIndex = 0 /\ persisted[s].entries = entries[s]

\* The only snapshot ever sent is the empty one, to a peer whose nextIndex fell to 0.
NoSnapshots ==
  /\ \A s \in Server : Uncompacted(s)
  /\ \A m \in requests : m.type = "snapshot" => m.index = 0

\* Entry e has index i in the slice of a server, or in what is being sent to one.
InSlice(s, i, e) == i \in 1 .. Length(s) - 1 /\ e = Slot(s, i)
InMessage(m, i, e) == m.type = "append" /\ \E j \in 1 .. Len(m.new) : i = m.prev + j /\ e = m.new[j]
Logged(i, e) ==
  (\E s \in Server : InSlice(s, i, e)) \/ (\E m \in requests : InMessage(m, i, e))

\* Index i is a place of command c, in what is logged or applied.
Place(i, c) ==
  \/ \E e : Logged(i, e) /\ e.cmd = c
  \/ \E s \in Server : i \in 1 .. Len(applied[s]) /\ applied[s][i] = c

PlacesInv ==
  /\ \A i, c : Place(i, c) => c \in Nat /\ c <= starts
  /\ \A i, j, c : Place(i, c) /\ Place(j, c) => i = j
  /\ \A i, j, e, f : Logged(i, e) /\ Logged(j, f) /\ e.cmd = f.cmd => e = f

\* What a step does that gives the system no entry or command it does not have.
NothingNew ==
  /\ \A s \in Server : \A i \in 1 .. Len(entries'[s]) - 1 : Logged(i, entries'[s][i + 1])
  /\ \A m \in requests' : m.type = "append" =>
       \A j \in 1 .. Len(m.new) : Logged(m.prev + j, m.new[j])
  /\ \A s \in Server : \A i \in 1 .. Len(applied'[s]) : Place(i, applied'[s][i])
  /\ starts' = starts

LEMMA WhatIsLogged ==
  ASSUME NothingNew
  PROVE  /\ \A i, e : Logged(i, e)' => Logged(i, e)
         /\ \A i, c : Place(i, c)' => Place(i, c)
  <1>1. ASSUME NEW i, NEW e, Logged(i, e)' PROVE Logged(i, e)
    <2>1. CASE \E s \in Server : InSlice(s, i, e)'
      BY <2>1 DEF InSlice, Slot, Length, NothingNew
    <2>2. CASE \E m \in requests' : InMessage(m, i, e)
      BY <2>2 DEF InMessage, NothingNew
    <2> QED BY <1>1, <2>1, <2>2 DEF Logged, InMessage
  <1>2. ASSUME NEW i, NEW c, Place(i, c)' PROVE Place(i, c)
    <2>1. CASE \E e : Logged(i, e)' /\ e.cmd = c
      BY <1>1, <2>1 DEF Place
    <2>2. CASE \E s \in Server : i \in 1 .. Len(applied'[s]) /\ applied'[s][i] = c
      BY <2>2 DEF NothingNew
    <2> QED BY <1>2, <2>1, <2>2 DEF Place
  <1> QED BY <1>1, <1>2

LEMMA PlacesKept == PlacesInv /\ NothingNew => PlacesInv'
  <1> SUFFICES ASSUME PlacesInv, NothingNew PROVE PlacesInv'
    OBVIOUS
  <1>1. /\ \A i, e : Logged(i, e)' => Logged(i, e)
        /\ \A i, c : Place(i, c)' => Place(i, c)
    BY WhatIsLogged
  <1>2. starts' = starts
    BY DEF NothingNew
  <1> QED BY <1>1, <1>2 DEF PlacesInv

\* What is in a slice is logged, what a server has applied has a place.
LEMMA SliceLogged ==
  ASSUME NEW s \in Server, NEW i \in 1 .. Len(entries[s]) - 1
  PROVE  Logged(i, entries[s][i + 1])
  BY DEF Logged, InSlice, Slot, Length

LEMMA SentLogged ==
  ASSUME NEW m \in requests, m.type = "append", NEW j \in 1 .. Len(m.new)
  PROVE  Logged(m.prev + j, m.new[j])
  BY DEF Logged, InMessage

LEMMA AppliedPlaced ==
  ASSUME NEW s \in Server, NEW i \in 1 .. Len(applied[s])
  PROVE  Place(i, applied[s][i])
  BY DEF Place

\* Steps that leave the slices and the services alone, and send no entries.
LEMMA NothingSent ==
  ASSUME UNCHANGED <<entries, applied, starts>>,
         \A m \in requests' : m \in requests \/ m.type # "append" \/ m.new = <<>>
  PROVE  NothingNew
  <1>1. \A m \in requests' : m.type = "append" =>
          \A j \in 1 .. Len(m.new) : Logged(m.prev + j, m.new[j])
    BY SentLogged
  <1> QED BY <1>1, SliceLogged, AppliedPlaced DEF NothingNew

\* Steps of a server that persist what it has, or leave the disk alone.
LEMMA StaysUncompacted ==
  ASSUME LogsOK, NoSnapshots, NEW s \in Server,
         UNCHANGED <<lastIncludedIndex, lastApplied, applyMsg, bootMsg, snapshot, applied,
                     snapping>>,
         Persist(s) \/ UNCHANGED <<persisted, entries>>,
         persisted = [p \in Server |-> persisted[p]],
         \A p \in Server \ {s} : entries'[p] = entries[p],
         \A p \in Server : mode'[p] \in {mode[p], "panic"},
         \A m \in requests' : m \in requests \/ (m.type = "snapshot" => m.index = 0)
  PROVE  NoSnapshots'
  <1>1. \A p \in Server : /\ persisted'[p].lastIncludedIndex = 0
                          /\ persisted'[p].entries = entries'[p]
    <2>1. CASE Persist(s)
      BY <2>1 DEF Persist, NoSnapshots, Uncompacted
    <2>2. CASE UNCHANGED <<persisted, entries>>
      BY <2>2 DEF NoSnapshots, Uncompacted
    <2> QED BY <2>1, <2>2
  <1>2. \A p \in Server : Uncompacted(p)'
    BY <1>1 DEF NoSnapshots, Uncompacted
  <1>3. \A m \in requests' : m.type = "snapshot" => m.index = 0
    BY DEF NoSnapshots
  <1> QED BY <1>2, <1>3 DEF NoSnapshots

LEMMA RestOf ==
  ASSUME NEW S, NEW q \in Seq(S), NEW n \in Nat \ {0}, n <= Len(q) + 1
  PROVE  /\ SubSeq(q, n, Len(q)) \in Seq(S) /\ Len(SubSeq(q, n, Len(q))) = Len(q) - n + 1
         /\ \A k \in 1 .. Len(q) - n + 1 : SubSeq(q, n, Len(q))[k] = q[n + k - 1]
  <1>1. \A k \in n .. Len(q) : q[k] \in S
    OBVIOUS
  <1>2. Len(q) \in Nat
    OBVIOUS
  <1> QED BY <1>1, <1>2, Piece

\* What the leaders' loops send are entries of their slices, or the empty snapshot.
LEMMA StartAgreementSends ==
  ASSUME LogsOK, IndicesOK, NoSnapshots, NEW s \in Server, NEW p \in Server, StartAgreement(s, p)
  PROVE  NothingNew /\ \A m \in requests' : m \in requests \/ (m.type = "snapshot" => m.index = 0)
  <1> DEFINE i == nextIndex[s][p] - lastIncludedIndex[s]
  <1>1. /\ nextIndex[s][p] = i /\ i \in Nat /\ lastIncludedIndex[s] = 0
        /\ Length(s) \in Nat /\ Length(s) = Len(entries[s])
    <2>1. nextIndex[s][p] \in Nat /\ lastIncludedIndex[s] = 0
      BY DEF IndicesOK, NoSnapshots, Uncompacted
    <2>2. Length(s) \in Nat /\ Length(s) = Len(entries[s])
      BY ServerSlots, SliceSlots DEF Length
    <2> QED BY <2>1, <2>2
  <1>2. UNCHANGED <<entries, applied, starts>>
    BY DEF StartAgreement, durableVars, serviceVars, boundVars
  <1>3. \/ UNCHANGED requests
        \/ requests' = requests \cup {SnapshotArgs(s, p)} /\ SnapshotArgs(s, p).index = 0
        \/ requests' = requests \cup {AppendArgs(s, p, i)} /\ 0 < i /\ i < Length(s)
    BY <1>1 DEF StartAgreement, Send, SnapshotArgs
  <1> HIDE DEF i
  <1>4. CASE UNCHANGED requests
    BY <1>2, <1>4, NothingSent
  <1>5. CASE requests' = requests \cup {SnapshotArgs(s, p)} /\ SnapshotArgs(s, p).index = 0
    <2>1. SnapshotArgs(s, p).type # "append"
      BY DEF SnapshotArgs
    <2> QED BY <1>2, <1>5, <2>1, NothingSent
  <1>6. CASE requests' = requests \cup {AppendArgs(s, p, i)} /\ 0 < i /\ i < Length(s)
    <2> DEFINE m == AppendArgs(s, p, i)
    <2>1. /\ m.type = "append" /\ m.new = SubSeq(entries[s], i + 1, Len(entries[s]))
          /\ m.prev = i - 1 /\ requests' = requests \cup {m}
      <3>1. m.prev = IF Length(s) > 1 /\ i > 1 THEN i - 1 ELSE 0
        BY <1>1 DEF AppendArgs
      <3>2. m.type = "append" /\ m.new = SubSeq(entries[s], i + 1, Length(s))
        BY DEF AppendArgs
      <3>3. requests' = requests \cup {m}
        BY <1>6
      <3> HIDE DEF m
      <3>4. m.prev = i - 1
        BY <1>1, <1>6, <3>1
      <3> QED BY <1>1, <3>2, <3>3, <3>4
    <2> HIDE DEF m
    <2>2. ASSUME NEW j \in 1 .. Len(m.new) PROVE Logged(m.prev + j, m.new[j])
      <3>1. entries[s] \in Seq(AnyEntry) /\ i + 1 \in Nat \ {0} /\ Len(entries[s]) \in Nat
        BY <1>1, ServerSlots, SliceSlots
      <3> DEFINE n == i + 1
      <3>2. /\ n \in Nat \ {0} /\ n <= Len(entries[s]) + 1
            /\ m.new = SubSeq(entries[s], n, Len(entries[s]))
        BY <1>1, <1>6, <2>1
      <3> HIDE DEF n
      <3>4. /\ Len(m.new) = Len(entries[s]) - n + 1 /\ Len(m.new) \in Nat
            /\ m.new[j] = entries[s][n + j - 1]
        BY <3>1, <3>2, RestOf
      <3>5. j \in 1 .. Len(entries[s]) - i /\ n + j - 1 = m.prev + j + 1
        BY <1>1, <1>6, <2>1, <3>4 DEF n
      <3>3. m.prev + j \in 1 .. Len(entries[s]) - 1
        <4>1. m.prev = i - 1 /\ 0 < i /\ i \in Nat /\ Len(entries[s]) \in Nat
          BY <1>1, <1>6, <2>1
        <4> QED BY <3>5, <4>1
      <3> QED BY <3>3, <3>4, <3>5, SliceLogged
    <2> QED BY <1>2, <2>1, <2>2, SliceLogged, SentLogged, AppliedPlaced DEF NothingNew
  <1> QED BY <1>3, <1>4, <1>5, <1>6

\* What a follower merges was in its slice or is in the message, at the same indices.
LEMMA MergedPlaces ==
  ASSUME LogsOK, NoSnapshots, NEW s \in Server, NEW m, RequestTyped(m), m.type = "append",
         Matches(m, s), NEW i \in 1 .. Len(Merge(m, s)) - 1
  PROVE  \/ i \in 1 .. Len(entries[s]) - 1 /\ Merge(m, s)[i + 1] = entries[s][i + 1]
         \/ \E j \in 1 .. Len(m.new) : i = m.prev + j /\ Merge(m, s)[i + 1] = m.new[j]
  <1> DEFINE p == m.prev
             cut == IF Length(s) > p + 1 /\ Slot(s, p + 1).term # m.new[1].term
                    THEN SubSeq(entries[s], 1, p + 1) ELSE entries[s]
             rest == SubSeq(m.new, Len(cut) - p, Len(m.new))
  <1>1. /\ lastIncludedIndex[s] = 0 /\ p \in Nat /\ p < Len(entries[s]) /\ Len(entries[s]) \in Nat
        /\ entries[s] \in Seq(AnyEntry) /\ m.new \in Seq(RealEntry) /\ Len(m.new) \in Nat
    BY ServerSlots, SliceSlots DEF NoSnapshots, Uncompacted, RequestTyped, Matches, InRange, Length
  <1>2. /\ cut \in Seq(AnyEntry) /\ p < Len(cut) /\ Len(cut) <= Len(entries[s]) /\ Len(cut) \in Nat
        /\ \A k \in 1 .. Len(cut) : cut[k] = entries[s][k]
    <2>1. CASE cut = entries[s]
      BY <1>1, <2>1
    <2>2. CASE cut # entries[s]
      <3>0. p + 1 \in Nat /\ p + 1 <= Len(entries[s])
        BY <1>1
      <3>1. cut = SubSeq(entries[s], 1, p + 1) /\ p + 1 \in Nat /\ p + 1 <= Len(entries[s])
        BY <2>2, <3>0
      <3> HIDE DEF cut
      <3> QED BY <1>1, <3>1, SubSeqProperties
    <2> QED BY <2>1, <2>2
  <1>3. Merge(m, s) = IF Len(cut) <= p + Len(m.new) THEN cut \o rest ELSE cut
    <2>1. m.prev - lastIncludedIndex[s] = p
      BY <1>1
    <2> QED BY ONLY ZenonT(60), <2>1 DEF Merge
  <1> HIDE DEF cut
  <1>4. CASE i + 1 <= Len(cut)
    <2>1. Merge(m, s)[i + 1] = cut[i + 1]
      <3>1. rest \in Seq(RealEntry)
        <4>1. Len(cut) - p \in Nat \ {0}
          BY <1>1, <1>2
        <4> QED BY <1>1, <4>1, EntriesSuffix
      <3> QED BY <1>2, <1>3, <1>4, <3>1, ConcatProperties
    <2> QED BY <1>1, <1>2, <1>4, <2>1
  <1>5. CASE i + 1 > Len(cut)
    <2>1. Len(cut) <= p + Len(m.new) /\ Merge(m, s) = cut \o rest
      <3>1. Merge(m, s) # cut
        BY <1>2, <1>5
      <3> QED BY <1>3, <3>1
    <2>2. Len(rest) = Len(m.new) - (Len(cut) - p) + 1 /\ Len(rest) \in Nat
          /\ rest \in Seq(RealEntry)
          /\ \A k \in 1 .. Len(rest) : rest[k] = m.new[Len(cut) - p + k - 1]
      <3>1. Len(cut) - p \in 1 .. Len(m.new) + 1
        BY <1>1, <1>2, <2>1
      <3> DEFINE a == Len(cut) - p
      <3>2. a \in Nat \ {0} /\ a <= Len(m.new) + 1 /\ rest = SubSeq(m.new, a, Len(m.new))
        BY <1>1, <3>1
      <3> HIDE DEF a, rest
      <3>3. /\ rest \in Seq(RealEntry) /\ Len(rest) = Len(m.new) - a + 1
            /\ \A k \in 1 .. Len(m.new) - a + 1 : rest[k] = m.new[a + k - 1]
        BY <1>1, <3>2, RestOf
      <3>4. Len(rest) \in Nat
        BY <1>1, <3>2, <3>3
      <3> QED BY <3>3, <3>4 DEF a
    <2> HIDE DEF rest
    <2>3. /\ i + 1 - Len(cut) \in 1 .. Len(rest)
          /\ Merge(m, s)[i + 1] = rest[i + 1 - Len(cut)]
      BY <1>1, <1>2, <1>5, <2>1, <2>2, ConcatProperties
    <2>4. rest[i + 1 - Len(cut)] = m.new[i - p]
      <3>1. Len(cut) - p + (i + 1 - Len(cut)) - 1 = i - p
        BY <1>1, <1>2
      <3> QED BY <2>2, <2>3, <3>1
    <2>5. \E j \in 1 .. Len(m.new) : i = p + j /\ j = i - p
      <3> DEFINE j == i - p
      <3>1. j \in 1 .. Len(m.new) /\ i = p + j
        <4>1. Len(Merge(m, s)) \in Nat
          BY MergedSlice, SliceSlots
        <4>2. i \in Nat
          BY <4>1
        <4>3. i + 1 - Len(cut) <= Len(rest) /\ Len(rest) = Len(m.new) - (Len(cut) - p) + 1
          BY <2>2, <2>3
        <4>4. p < Len(cut) /\ Len(cut) \in Nat /\ p \in Nat /\ Len(m.new) \in Nat
          BY <1>1, <1>2
        <4>5. 1 <= i - p /\ i - p <= Len(m.new) /\ i - p \in Int
          <5>1. i - p \in Int /\ 1 <= i - p
            BY <1>5, <4>2, <4>4
          <5>2. i + 1 - Len(cut) <= Len(m.new) - (Len(cut) - p) + 1
            BY <4>3
          <5>3. i - p <= Len(m.new)
            BY <4>2, <4>4, <5>2
          <5> QED BY <5>1, <5>3
        <4>6. p + (i - p) = i
          BY <4>2, <4>4
        <4> QED BY SMTT(30), <4>4, <4>5, <4>6
      <3> QED BY <3>1
    <2> QED BY <2>3, <2>4, <2>5
  <1> QED BY <1>1, <1>2, <1>4, <1>5

\* AppendEntry gives the follower entries of the message at their indices.
LEMMA AppendEntryPlaces ==
  ASSUME TypesInv, IInv, NoSnapshots, NEW m \in requests, AppendEntry(m)
  PROVE  NothingNew /\ NoSnapshots'
  <1> DEFINE s == m.to
  <1>1. /\ s \in Server /\ m.type = "append" /\ RequestTyped(m)
        /\ persisted = [p \in Server |-> persisted[p]] /\ entries = [p \in Server |-> entries[p]]
    BY DEF IInv, MessagesOK, RequestOK, VotesPersisted, TypesInv, MailOK, LogsOK, AppendEntry
  <1>2. /\ UNCHANGED <<applied, starts, requests, mode, snapshot, snapping, lastApplied, applyMsg,
                       bootMsg, lastIncludedIndex>>
        /\ Persist(s)
    BY DEF AppendEntry, applyVars, serviceVars, boundVars
  <1>3. \/ UNCHANGED entries
        \/ Matches(m, s) /\ entries' = [entries EXCEPT ![s] = Merge(m, s)]
        \/ entries' = [entries EXCEPT ![s] = entries[s]]
    BY DEF AppendEntry
  <1>4. \A p \in Server \ {s} : entries'[p] = entries[p]
    BY <1>1, <1>3
  <1>5. NoSnapshots'
    BY <1>1, <1>2, <1>4, StaysUncompacted DEF TypesInv
  <1>6. \A i \in 1 .. Len(entries'[s]) - 1 : Logged(i, entries'[s][i + 1])
    <2>1. CASE entries'[s] = entries[s]
      BY <1>1, <2>1, SliceLogged
    <2>2. CASE Matches(m, s) /\ entries'[s] = Merge(m, s)
      <3> TAKE i \in 1 .. Len(entries'[s]) - 1
      <3>1. \/ i \in 1 .. Len(entries[s]) - 1 /\ Merge(m, s)[i + 1] = entries[s][i + 1]
            \/ \E j \in 1 .. Len(m.new) : i = m.prev + j /\ Merge(m, s)[i + 1] = m.new[j]
        BY <1>1, <2>2, MergedPlaces DEF TypesInv
      <3> QED BY <1>1, <2>2, <3>1, SliceLogged, SentLogged
    <2> QED BY <1>1, <1>3, <2>1, <2>2
  <1>7. \A p \in Server : \A i \in 1 .. Len(entries'[p]) - 1 : Logged(i, entries'[p][i + 1])
    BY <1>4, <1>6, SliceLogged
  <1> QED BY <1>2, <1>5, <1>7, SentLogged, AppliedPlaced DEF NothingNew

\* A service applies the command in the next slot: its place is that slot's index.
LEMMA ApplyCommandPlaces ==
  ASSUME SnapshotPoints = {}, TypesInv, NoSnapshots, NEW s \in Server, ApplyCommand(s)
  PROVE  NothingNew /\ NoSnapshots'
  <1>1. /\ lastIncludedIndex[s] = 0 /\ applyMsg[s] = Nil /\ Len(applied[s]) = lastApplied[s]
        /\ applied[s] \in Commands /\ lastApplied[s] \in Nat /\ Length(s) = Len(entries[s])
        /\ LogsOK /\ applied \in [Server -> Commands]
        /\ lastApplied \in [Server -> Nat] /\ snapping \in [Server -> BOOLEAN]
        /\ applyMsg = [p \in Server |-> applyMsg[p]]
    BY DEF NoSnapshots, Uncompacted, TypesInv, ServiceOK, IndicesOK, Length
  <1> DEFINE i == Len(applied[s]) + 1
             c == entries[s][i + 1].cmd
  <1>2. /\ NextMsg(s).index = i /\ NextMsg(s).cmd = c /\ i \in 1 .. Len(entries[s]) - 1
        /\ i \in Nat
    <2>1. NextSlot(s) = i /\ i \in Nat
      BY <1>1 DEF NextSlot
    <2>2. i \in 0 .. Length(s) - 1 /\ Length(s) \in Nat
      BY <1>1, <2>1, ServerSlots DEF ApplyCommand, Offered, InRange
    <2> HIDE DEF i
    <2> QED BY <1>1, <2>1, <2>2 DEF NextMsg, Slot, i
  <1>3. /\ applied' = [applied EXCEPT ![s] = Append(@, c)] /\ UNCHANGED mode
        /\ snapping' = [snapping EXCEPT ![s] = FALSE]
        /\ applyMsg' = [applyMsg EXCEPT ![s] = Nil]
        /\ lastApplied' = [lastApplied EXCEPT ![s] = @ + 1]
        /\ UNCHANGED <<entries, requests, starts, lastIncludedIndex, snapshot, bootMsg, persisted>>
    <2> HIDE DEF c
    <2> QED BY <1>1, <1>2
               DEF ApplyCommand, durableVars, persisterVars, networkVars, boundVars
  <1> HIDE DEF c
  <1>4. Place(i, c)
    BY <1>2, SliceLogged DEF Place, c
  <1>5. \A p \in Server : \A k \in 1 .. Len(applied'[p]) : Place(k, applied'[p][k])
    <2> TAKE p \in Server
    <2>1. CASE p # s
      BY <1>1, <1>3, <2>1, AppliedPlaced
    <2>2. CASE p = s
      <3>1. /\ applied'[s] = Append(applied[s], c) /\ applied[s] \in Commands
            /\ Len(applied'[s]) = i
            /\ \A k \in 1 .. Len(applied[s]) : applied'[s][k] = applied[s][k]
            /\ applied'[s][i] = c
        BY <1>1, <1>3 DEF Commands
      <3> TAKE k \in 1 .. Len(applied'[p])
      <3>2. k \in 1 .. Len(applied[s]) \/ k = i
        BY <2>2, <3>1
      <3> QED BY <1>4, <2>2, <3>1, <3>2, AppliedPlaced
    <2> QED BY <2>1, <2>2
  <1>6. NothingNew
    BY <1>3, <1>5, SliceLogged, SentLogged DEF NothingNew
  <1>7. NoSnapshots'
    <2>1. Len(applied'[s]) = lastApplied'[s]
      <3>1. applied'[s] = Append(applied[s], c) /\ applied[s] \in Commands
        BY <1>1, <1>3 DEF Commands
      <3> QED BY <1>1, <1>3, <3>1
    <2>2. Uncompacted(s)'
      BY <1>1, <1>3, <2>1 DEF NoSnapshots, Uncompacted
    <2>3. \A p \in Server \ {s} : Uncompacted(p)'
      BY <1>1, <1>3 DEF NoSnapshots, Uncompacted
    <2> QED BY <1>3, <2>2, <2>3 DEF NoSnapshots
  <1> QED BY <1>6, <1>7

\* A server that starts again has the slice it had, and a service that has nothing.
LEMMA CrashPlaces ==
  ASSUME TypesInv, NoSnapshots, NEW s \in Server, Crash(s)
  PROVE  NothingNew /\ NoSnapshots'
  <1>1. /\ LogsOK /\ applied \in [Server -> Commands] /\ entries = [p \in Server |-> entries[p]]
        /\ lastIncludedIndex \in [Server -> Nat] /\ lastApplied \in [Server -> Nat]
        /\ snapping \in [Server -> BOOLEAN] /\ applyMsg = [p \in Server |-> applyMsg[p]]
        /\ bootMsg = [p \in Server |-> bootMsg[p]]
        /\ mode \in [Server -> {"run", "save", "stuck", "panic", "fatal"}]
        /\ persisted[s].entries = entries[s] /\ persisted[s].lastIncludedIndex = 0
        /\ snapshot[s] = <<>>
    BY DEF TypesInv, LogsOK, ServiceOK, IndicesOK, NoSnapshots, Uncompacted
  <1>2. /\ UNCHANGED <<entries, requests, starts, snapshot, persisted>>
        /\ lastIncludedIndex' = [lastIncludedIndex EXCEPT ![s] = 0]
        /\ lastApplied' = [lastApplied EXCEPT ![s] = 0]
        /\ applyMsg' = [applyMsg EXCEPT ![s] = Nil]
        /\ bootMsg' = [bootMsg EXCEPT ![s] = Nil]
        /\ mode' = [mode EXCEPT ![s] = "run"]
        /\ applied' = [applied EXCEPT ![s] = <<>>]
        /\ snapping' = [snapping EXCEPT ![s] = FALSE]
    BY <1>1 DEF Crash, Restored, persisterVars, networkVars
  <1>3. Len(applied'[s]) = 0
    BY <1>1, <1>2
  <1>4. \A p \in Server : \A k \in 1 .. Len(applied'[p]) : Place(k, applied'[p][k])
    BY <1>1, <1>2, <1>3, AppliedPlaced
  <1>5. NothingNew
    BY <1>2, <1>4, SliceLogged, SentLogged DEF NothingNew
  <1>6. Uncompacted(s)'
    BY <1>1, <1>2, <1>3 DEF NoSnapshots, Uncompacted
  <1>7. \A p \in Server \ {s} : Uncompacted(p)'
    BY <1>1, <1>2 DEF NoSnapshots, Uncompacted
  <1> QED BY <1>2, <1>5, <1>6, <1>7 DEF NoSnapshots

\* An installed snapshot is the empty one, which is no newer than what the server has.
LEMMA InstallSnapshotPlaces ==
  ASSUME TypesInv, IInv, NoSnapshots, NEW m \in requests, InstallSnapshot(m)
  PROVE  NothingNew /\ NoSnapshots'
  <1> DEFINE s == m.to
  <1>1. s \in Server /\ m.index = 0 /\ lastIncludedIndex[s] = 0
    BY DEF IInv, MessagesOK, RequestOK, NoSnapshots, Uncompacted, InstallSnapshot
  <1>2. ~(m.index - lastIncludedIndex[s] > 0)
    BY <1>1
  <1>3. UNCHANGED <<entries, lastIncludedIndex, mode, persisted, applied, requests, starts,
                    snapshot, snapping, lastApplied, applyMsg, bootMsg>>
    BY <1>2 DEF InstallSnapshot, applyVars, boundVars
  <1>4. NothingNew
    BY <1>3, NothingSent
  <1>5. NoSnapshots'
    BY <1>3 DEF NoSnapshots, Uncompacted
  <1> QED BY <1>4, <1>5

\* Any step but that of Start.
LEMMA PlacesStep ==
  ASSUME SnapshotPoints = {}, IInv, TypesInv, NoSnapshots, [Next]_vars,
         ~\E s \in Server : Start(s)
  PROVE  NothingNew /\ NoSnapshots'
  <1>1. /\ LogsOK /\ IndicesOK /\ persisted = [p \in Server |-> persisted[p]]
        /\ mode \in [Server -> {"run", "save", "stuck", "panic", "fatal"}]
    BY DEF TypesInv, IInv, VotesPersisted, ServiceOK
  <1>2. ASSUME NEW s \in Server, StartElections(s) PROVE NothingNew /\ NoSnapshots'
    <2>1. /\ UNCHANGED <<entries, applied, starts, mode, snapshot, snapping, lastApplied, applyMsg,
                         bootMsg, lastIncludedIndex>>
          /\ Persist(s) /\ \A m \in requests' : m \in requests \/ m.type = "vote"
      BY <1>2 DEF StartElections, Send, applyVars, serviceVars
    <2> QED BY <1>1, <2>1, NothingSent, StaysUncompacted
  <1>3. ASSUME NEW m \in requests, RequestVote(m) PROVE NothingNew /\ NoSnapshots'
    <2>1. /\ UNCHANGED <<entries, applied, starts, mode, snapshot, snapping, lastApplied, applyMsg,
                         bootMsg, lastIncludedIndex>>
          /\ m.to \in Server /\ Persist(m.to) /\ requests' \subseteq requests
      BY <1>3 DEF RequestVote, applyVars, serviceVars, boundVars, IInv, MessagesOK, RequestOK
    <2> QED BY <1>1, <2>1, NothingSent, StaysUncompacted
  <1>4. ASSUME NEW r \in replies, VoteAnswer(r.to, r) \/ SnapshotAnswer(r.to, r)
        PROVE  NothingNew /\ NoSnapshots'
    <2>1. /\ UNCHANGED <<entries, applied, starts, mode, snapshot, snapping, lastApplied, applyMsg,
                         bootMsg, lastIncludedIndex, requests, persisted>>
          /\ r.to \in Server
      BY <1>4 DEF VoteAnswer, SnapshotAnswer, durableVars, applyVars, serviceVars, boundVars,
                  networkVars, persisterVars, IInv, MessagesOK, ReplyOK
    <2> QED BY <1>1, <2>1, NothingSent, StaysUncompacted
  <1>5. ASSUME NEW r \in replies, AppendAnswer(r.to, r) PROVE NothingNew /\ NoSnapshots'
    <2>1. /\ UNCHANGED <<entries, applied, starts, snapshot, snapping, lastApplied, applyMsg,
                         bootMsg, lastIncludedIndex, requests>>
          /\ r.to \in Server /\ Persist(r.to) /\ (UNCHANGED mode \/ Panic(r.to))
      BY <1>5 DEF AppendAnswer, applyVars, serviceVars, boundVars, networkVars, IInv, MessagesOK,
                  ReplyOK
    <2>2. \A p \in Server : mode'[p] \in {mode[p], "panic"}
      BY <1>1, <2>1 DEF Panic
    <2> QED BY <1>1, <2>1, <2>2, NothingSent, StaysUncompacted
  <1>6. ASSUME NEW s \in Server, SendHeartBeats(s) PROVE NothingNew /\ NoSnapshots'
    <2>1. /\ UNCHANGED <<entries, applied, starts, mode, snapshot, snapping, lastApplied, applyMsg,
                         bootMsg, lastIncludedIndex, persisted>>
          /\ \A m \in requests' : m \in requests \/ (m.type = "append" /\ m.new = <<>>)
      BY <1>6 DEF SendHeartBeats, HeartBeats, Send, durableVars, applyVars, serviceVars, boundVars,
                  persisterVars
    <2> QED BY <1>1, <2>1, NothingSent, StaysUncompacted
  <1>7. ASSUME NEW s \in Server, NEW p \in Server, StartAgreement(s, p)
        PROVE  NothingNew /\ NoSnapshots'
    <2>1. /\ UNCHANGED <<entries, applied, starts, snapshot, snapping, lastApplied, applyMsg,
                         bootMsg, lastIncludedIndex, persisted>>
          /\ UNCHANGED mode \/ Panic(s)
      BY <1>7 DEF StartAgreement, durableVars, applyVars, serviceVars, boundVars, persisterVars
    <2>2. \A q \in Server : mode'[q] \in {mode[q], "panic"}
      BY <1>1, <2>1 DEF Panic
    <2> QED BY <1>1, <1>7, <2>1, <2>2, StartAgreementSends, StaysUncompacted
  <1>8. ASSUME NEW s \in Server, AgreementEnds(s) PROVE NothingNew /\ NoSnapshots'
    <2>1. UNCHANGED <<entries, applied, starts, mode, snapshot, snapping, lastApplied, applyMsg,
                      bootMsg, lastIncludedIndex, persisted, requests>>
      BY <1>8 DEF AgreementEnds, durableVars, applyVars, serviceVars, boundVars, persisterVars,
                  networkVars
    <2> QED BY <1>1, <2>1, NothingSent, StaysUncompacted
  <1>9. ASSUME NEW s \in Server, CheckIfCommitted(s) PROVE NothingNew /\ NoSnapshots'
    <2>1. /\ UNCHANGED <<entries, applied, starts, snapshot, snapping, applyMsg, bootMsg,
                         lastIncludedIndex, persisted, requests>>
          /\ UNCHANGED mode \/ Panic(s)
          /\ \/ UNCHANGED lastApplied
             \/ lastApplied' = [lastApplied EXCEPT ![s] = Max({@, lastIncludedIndex[s]})]
      BY <1>9 DEF CheckIfCommitted, durableVars, serviceVars, boundVars, persisterVars, networkVars
    <2>2. \A q \in Server : mode'[q] \in {mode[q], "panic"}
      BY <1>1, <2>1 DEF Panic
    <2>3. UNCHANGED lastApplied
      <3>1. lastIncludedIndex[s] = 0 /\ lastApplied[s] \in Nat /\ lastApplied \in [Server -> Nat]
        BY <1>1 DEF NoSnapshots, Uncompacted, IndicesOK
      <3>2. Max({lastApplied[s], 0}) = lastApplied[s]
        BY <3>1, PairMax
      <3> QED BY <2>1, <3>1, <3>2
    <2> QED BY <1>1, <2>1, <2>2, <2>3, NothingSent, StaysUncompacted
  <1>10. ASSUME NEW s \in Server, SendApply(s) PROVE NothingNew /\ NoSnapshots'
    <2>1. /\ UNCHANGED <<entries, applied, starts, snapshot, snapping, lastApplied, applyMsg,
                         bootMsg, lastIncludedIndex, persisted, requests>>
          /\ Panic(s)
      BY <1>10 DEF SendApply, durableVars, serviceVars, boundVars, persisterVars, networkVars
    <2>2. \A q \in Server : mode'[q] \in {mode[q], "panic"}
      BY <1>1, <2>1 DEF Panic
    <2> QED BY <1>1, <2>1, <2>2, NothingSent, StaysUncompacted
  <1>11. ASSUME NEW s \in Server
         PROVE  /\ ~ReadPersistedSnapshot(s) /\ ~ApplyPersistedSnapshot(s)
                /\ ~Snapshot(s) /\ ~SaveStateAndSnapshot(s)
    BY DEF ReadPersistedSnapshot, ApplyPersistedSnapshot, Snapshot, SaveStateAndSnapshot,
           NoSnapshots, Uncompacted
  <1>12. CASE UNCHANGED vars
    <2>1. UNCHANGED <<entries, applied, starts, mode, snapshot, snapping, lastApplied, applyMsg,
                      bootMsg, lastIncludedIndex, persisted, requests>>
      BY <1>12 DEF vars, durableVars, applyVars, serviceVars, boundVars, persisterVars, networkVars
    <2>2. NoSnapshots'
      BY <2>1 DEF NoSnapshots, Uncompacted
    <2> QED BY <2>1, <2>2, NothingSent
  <1> QED BY <1>2, <1>3, <1>4, <1>5, <1>6, <1>7, <1>8, <1>9, <1>10, <1>11, <1>12,
             AppendEntryPlaces, ApplyCommandPlaces, CrashPlaces, InstallSnapshotPlaces
             DEF Next, Handle, HandleAnswer

\* Start adds one entry, with a new command, at the end of the leader's slice.
LEMMA StartPlaces ==
  ASSUME TypesInv, IInv, NoSnapshots, NEW s \in Server, Start(s)
  PROVE  /\ NoSnapshots' /\ starts \in Nat /\ starts' = starts + 1
         /\ \A i, e : Logged(i, e)' =>
              Logged(i, e) \/ (i = Length(s) /\ e = Entry(currentTerm[s], starts + 1))
         /\ \A i, c : Place(i, c)' => Place(i, c) \/ (i = Length(s) /\ c = starts + 1)
  <1> DEFINE n == Length(s)
             new == Entry(currentTerm[s], starts + 1)
  <1>1. /\ LogsOK /\ persisted = [p \in Server |-> persisted[p]] /\ starts \in Nat
        /\ entries = [p \in Server |-> entries[p]] /\ entries[s] \in Seq(AnyEntry)
        /\ n = Len(entries[s]) /\ n \in Nat
    BY ServerSlots, SliceSlots, RaftAssumption
       DEF TypesInv, LogsOK, ServiceOK, IInv, VotesPersisted, Length
  <1>2. /\ UNCHANGED <<lastIncludedIndex, lastApplied, applyMsg, bootMsg, snapshot, applied,
                       snapping, mode, requests>>
        /\ Persist(s) /\ entries' = [entries EXCEPT ![s] = Append(@, new)] /\ starts' = starts + 1
    BY DEF Start, applyVars, serviceVars, networkVars
  <1>3. NoSnapshots'
    BY <1>1, <1>2, StaysUncompacted
  <1>4. /\ \A p \in Server \ {s} : entries'[p] = entries[p]
        /\ Len(entries'[s]) = n + 1 /\ entries'[s][n + 1] = new
        /\ \A k \in 1 .. n : entries'[s][k] = entries[s][k]
    <2>1. entries'[s] = Append(entries[s], new)
      BY <1>1, <1>2
    <2> HIDE DEF new
    <2> QED BY <1>1, <1>2, <2>1, AppendProperties
  <1> HIDE DEF new, n
  <1>5. ASSUME NEW i, NEW e, Logged(i, e)' PROVE Logged(i, e) \/ (i = n /\ e = new)
    <2>1. CASE \E m \in requests' : InMessage(m, i, e)
      BY <1>2, <2>1 DEF Logged
    <2>2. CASE \E p \in Server : InSlice(p, i, e)'
      <3>1. PICK p \in Server : i \in 1 .. Len(entries'[p]) - 1 /\ e = entries'[p][i + 1]
        BY <2>2 DEF InSlice, Slot, Length
      <3>2. CASE p # s
        BY <1>4, <3>1, <3>2, SliceLogged
      <3>3. CASE p = s
        <4>1. i \in 1 .. n /\ e = entries'[s][i + 1] /\ i \in Nat
          BY <1>1, <1>4, <3>1, <3>3
        <4>2. CASE i = n
          BY <1>4, <4>1, <4>2
        <4>3. CASE i # n
          <5>1. i \in 1 .. Len(entries[s]) - 1 /\ i + 1 \in 1 .. n
            BY <1>1, <4>1, <4>3
          <5> QED BY <1>4, <4>1, <5>1, SliceLogged
        <4> QED BY <4>2, <4>3
      <3> QED BY <3>2, <3>3
    <2> QED BY <1>5, <2>1, <2>2 DEF Logged, InMessage
  <1>6. ASSUME NEW i, NEW c, Place(i, c)' PROVE Place(i, c) \/ (i = n /\ c = starts + 1)
    <2>1. CASE \E e : Logged(i, e)' /\ e.cmd = c
      <3>1. PICK e : Logged(i, e)' /\ e.cmd = c
        BY <2>1
      <3>2. CASE Logged(i, e)
        BY <3>1, <3>2 DEF Place
      <3>3. CASE i = n /\ e = new
        BY <3>1, <3>3 DEF new, Entry
      <3> QED BY <1>5, <3>1, <3>2, <3>3
    <2>2. CASE \E p \in Server : i \in 1 .. Len(applied[p]) /\ applied[p][i] = c
      BY <2>2 DEF Place
    <2> QED BY <1>2, <1>6, <2>1, <2>2 DEF Place
  <1> QED BY <1>1, <1>2, <1>3, <1>5, <1>6 DEF n, new

LEMMA StartKeepsPlaces ==
  ASSUME TypesInv, IInv, NoSnapshots, PlacesInv, NEW s \in Server, Start(s)
  PROVE  PlacesInv'
  <1> DEFINE n == Length(s)
             new == Entry(currentTerm[s], starts + 1)
  <1>1. /\ starts \in Nat /\ starts' = starts + 1 /\ new.cmd = starts + 1
        /\ \A i, e : Logged(i, e)' => Logged(i, e) \/ (i = n /\ e = new)
        /\ \A i, c : Place(i, c)' => Place(i, c) \/ (i = n /\ c = starts + 1)
    BY StartPlaces DEF Entry
  <1> HIDE DEF n, new
  <1>2. ~\E i : Place(i, starts + 1)
    BY <1>1 DEF PlacesInv
  <1>3. ~\E i, e : Logged(i, e) /\ e.cmd = starts + 1
    BY <1>2 DEF Place
  <1>4. ASSUME NEW i, NEW c, Place(i, c)' PROVE c \in Nat /\ c <= starts'
    <2>1. CASE Place(i, c)
      <3>1. c \in Nat /\ c <= starts
        BY <2>1 DEF PlacesInv
      <3> QED BY <1>1, <3>1
    <2>2. CASE c = starts + 1
      BY <1>1, <2>2
    <2> QED BY <1>1, <1>4, <2>1, <2>2
  <1>5. ASSUME NEW i, NEW j, NEW c, Place(i, c)', Place(j, c)' PROVE i = j
    BY <1>1, <1>2, <1>5 DEF PlacesInv
  <1>6. ASSUME NEW i, NEW j, NEW e, NEW f, Logged(i, e)', Logged(j, f)', e.cmd = f.cmd PROVE e = f
    BY <1>1, <1>3, <1>6 DEF PlacesInv
  <1> QED BY <1>4, <1>5, <1>6 DEF PlacesInv

LEMMA InitLogs == Init => ~\E i, e : Logged(i, e)
  <1> SUFFICES ASSUME Init PROVE ~\E i, e : Logged(i, e)
    OBVIOUS
  <1>1. \A s \in Server : Length(s) - 1 = 0
    BY DEF Init, Length
  <1> QED BY <1>1 DEF Init, Logged, InSlice

LEMMA InitPlaces == Init => NoSnapshots /\ PlacesInv
  <1> SUFFICES ASSUME Init PROVE NoSnapshots /\ PlacesInv
    OBVIOUS
  <1>1. NoSnapshots
    BY DEF Init, NoSnapshots, Uncompacted
  <1>2. ~\E i, e : Logged(i, e)
    BY InitLogs
  <1>3. \A s \in Server : Len(applied[s]) = 0
    BY DEF Init
  <1>4. ~\E i, c : Place(i, c)
    BY <1>2, <1>3 DEF Place
  <1> QED BY <1>1, <1>2, <1>4 DEF PlacesInv

LEMMA PlacesInvariant ==
  ASSUME SnapshotPoints = {}
  PROVE  Spec => [](IInv /\ TypesInv /\ NoSnapshots /\ PlacesInv)
  <1> DEFINE Inv == IInv /\ TypesInv /\ NoSnapshots /\ PlacesInv
  <1>1. Init => Inv
    BY InitInvariant, InitTypes, InitPlaces
  <1>2. Inv /\ [Next]_vars => Inv'
    <2> SUFFICES ASSUME Inv, [Next]_vars PROVE Inv'
      OBVIOUS
    <2>1. IInv' /\ TypesInv'
      BY StepInvariant, TypesStep
    <2>2. CASE \E s \in Server : Start(s)
      BY <2>1, <2>2, StartPlaces, StartKeepsPlaces
    <2>3. CASE ~\E s \in Server : Start(s)
      BY <2>1, <2>3, PlacesStep, PlacesKept
    <2> QED BY <2>2, <2>3
  <1> QED BY <1>1, <1>2, PTL DEF Spec

\* Where no snapshot is taken, every service gets the commands one after the other, with no
\* gap and none twice, through crashes and whatever becomes of the logs: the "apply out of
\* order" of config.go takes a snapshot.
THEOREM InOrderWithoutSnapshots ==
  ASSUME SnapshotPoints = {}
  PROVE  Spec => []ServiceInOrder
  <1>1. NoSnapshots => ServiceInOrder
    BY DEF NoSnapshots, Uncompacted, ServiceInOrder
  <1> QED BY <1>1, PlacesInvariant, PTL

\* Where nothing is compacted, an index is that of a slot.
LEMMA IndicesAreSlots ==
  ASSUME TypesInv, NoSnapshots, NEW s \in Server
  PROVE  /\ Indices(s) = 1 .. Length(s) - 1
         /\ \A i \in Indices(s) : At(s, i) = Slot(s, i)
  <1>1. lastIncludedIndex[s] = 0 /\ Length(s) \in Nat
    BY ServerSlots DEF NoSnapshots, Uncompacted, TypesInv, Length
  <1>2. LastIndex(s) = Length(s) - 1
    BY <1>1 DEF LastIndex
  <1>3. Indices(s) = 1 .. Length(s) - 1
    BY <1>1, <1>2 DEF Indices
  <1>4. \A i \in Indices(s) : i - lastIncludedIndex[s] = i
    BY <1>1, <1>3
  <1> QED BY <1>3, <1>4 DEF At

\* A command that Start has accepted has one index, in all logs and for all services, and
\* one entry.
OnePlaceEach ==
  \A s, p \in Server :
    /\ \A i \in Indices(s), j \in Indices(p) :
         At(s, i).cmd = At(p, j).cmd => i = j /\ At(s, i) = At(p, j)
    /\ \A i \in Indices(s), j \in 1 .. Len(applied[p]) :
         At(s, i).cmd = applied[p][j] => i = j
    /\ \A i \in 1 .. Len(applied[s]), j \in 1 .. Len(applied[p]) :
         applied[s][i] = applied[p][j] => i = j

\* Where no snapshot is taken, no command is ever logged or applied at two indices, with any
\* number of servers, even where their logs have come to differ (raft.go:281 compares one
\* entry of several) or two of them lead: Start is the only one that numbers a command.
\* InstallSnapshot, which puts the first entry that it retains in slot 0, breaks it
\* (raft.go:361).
THEOREM CommandsHaveOnePlace ==
  ASSUME SnapshotPoints = {}
  PROVE  Spec => []OnePlaceEach
  <1>1. TypesInv /\ NoSnapshots /\ PlacesInv => OnePlaceEach
    <2> SUFFICES ASSUME TypesInv, NoSnapshots, PlacesInv, NEW s \in Server, NEW p \in Server
                 PROVE  /\ \A i \in Indices(s), j \in Indices(p) :
                             At(s, i).cmd = At(p, j).cmd => i = j /\ At(s, i) = At(p, j)
                        /\ \A i \in Indices(s), j \in 1 .. Len(applied[p]) :
                             At(s, i).cmd = applied[p][j] => i = j
                        /\ \A i \in 1 .. Len(applied[s]), j \in 1 .. Len(applied[p]) :
                             applied[s][i] = applied[p][j] => i = j
      BY DEF OnePlaceEach
    <2>1. \A q \in Server : \A i \in Indices(q) : Logged(i, At(q, i))
      BY IndicesAreSlots DEF Logged, InSlice
    <2>2. \A q \in Server : \A i \in Indices(q) : Place(i, At(q, i).cmd)
      BY <2>1 DEF Place
    <2>3. /\ \A i, j, c : Place(i, c) /\ Place(j, c) => i = j
          /\ \A i, j, e, f : Logged(i, e) /\ Logged(j, f) /\ e.cmd = f.cmd => e = f
      BY DEF PlacesInv
    <2> QED BY <2>1, <2>2, <2>3, AppliedPlaced
  <1> QED BY <1>1, PlacesInvariant, PTL

-----------------------------------------------------------------------------
\* Entries and terms, where a term has one leader.

\* Server s has what a leader of term t has: its own vote and another server's.
Elected(s, t) == votesGiven[s][t] = s /\ \E p \in Server \ {s} : votesGiven[p][t] = s

\* A server that was elected in term t has led it, or it could not lead any more.
Led(s, t) ==
  /\ Elected(s, t) /\ t <= currentTerm[s]
  /\ currentTerm[s] = t => state[s] # "CANDIDATE"

\* An entry is of a term that some server has led, its leader has it as long as it leads,
\* and it is the only one of its index and term.
TermsInv ==
  /\ \A i, e : Logged(i, e) => e.term \in Term /\ \E s \in Server : Led(s, e.term)
  /\ \A s \in Server : state[s] = "LEADER" =>
       \A i, e : Logged(i, e) /\ e.term = currentTerm[s] => InSlice(s, i, e)
  /\ \A i, e, f : Logged(i, e) /\ Logged(i, f) /\ e.term = f.term => e = f

\* What becomes of a server in a step other than that of Start.
Turn(s) ==
  \/ state'[s] = "FOLLOWER" /\ currentTerm'[s] >= currentTerm[s]
  \/ state'[s] = "CANDIDATE" /\ currentTerm'[s] > currentTerm[s]
  \/ /\ state'[s] = state[s] /\ currentTerm'[s] = currentTerm[s]
     /\ state[s] = "LEADER" => entries'[s] = entries[s]
  \/ /\ state[s] = "CANDIDATE" /\ state'[s] = "LEADER"
     /\ UNCHANGED <<currentTerm, votesGiven>>

LEMMA TermTypes ==
  ASSUME IInv, NEW s \in Server
  PROVE  currentTerm[s] \in Nat /\ \A t \in Term : t \in Nat
  BY RaftAssumption DEF IInv, ServerTypeOK, Term

LEMMA LedStays ==
  ASSUME IInv, IInv', VotesKept, NEW s \in Server, Turn(s), NEW t \in Term, Led(s, t)
  PROVE  Led(s, t)'
  <1>1. Elected(s, t)'
    <2>1. s # Nil /\ votesGiven[s][t] = s
      BY RaftAssumption DEF Led, Elected
    <2>2. PICK p \in Server \ {s} : votesGiven[p][t] = s
      BY DEF Led, Elected
    <2> QED BY <2>1, <2>2 DEF VotesKept, Elected
  <1>2. currentTerm[s] \in Nat /\ currentTerm'[s] \in Nat /\ t \in Nat /\ t <= currentTerm[s]
    BY TermTypes DEF Led, IInv, ServerTypeOK
  <1>3. t <= currentTerm'[s] /\ (currentTerm'[s] = t => state'[s] # "CANDIDATE")
    BY <1>2 DEF Turn, Led
  <1> QED BY <1>1, <1>3 DEF Led

\* Up to three servers, one server is elected in a term.
LEMMA OneElected ==
  ASSUME Cardinality(Server) <= 3, NEW s \in Server, NEW p \in Server, NEW t,
         Elected(s, t), Elected(p, t)
  PROVE  s = p
  <1>1. Cardinality(Server) \in Nat
    BY RaftAssumption, FS_CardinalityType
  <1>2. SUFFICES ASSUME p # s PROVE FALSE
    OBVIOUS
  <1>3. Cardinality(Server) > 3
    BY <1>2, TwoVotesEach DEF Elected
  <1> QED BY <1>1, <1>3

LEMMA LeaderElected ==
  ASSUME IInv, NEW s \in Server, state[s] = "LEADER"
  PROVE  Elected(s, currentTerm[s]) /\ currentTerm[s] \in Term
  BY DEF IInv, OwnVote, OthersVote, Elected

\* A step without a new entry.  Whoever wins an election then is the only one elected in that
\* term, and was a candidate: nothing can have been logged in it.
LEMMA TermsKept ==
  ASSUME Cardinality(Server) <= 3, IInv, IInv', VotesKept, TermsInv, NothingNew,
         \A s \in Server : Turn(s)
  PROVE  TermsInv'
  <1>1. \A i, e : Logged(i, e)' => Logged(i, e)
    BY WhatIsLogged
  <1>2. ASSUME NEW i, NEW e, Logged(i, e)'
        PROVE  e.term \in Term /\ \E s \in Server : Led(s, e.term)'
    <2>1. e.term \in Term /\ \E s \in Server : Led(s, e.term)
      BY <1>1, <1>2 DEF TermsInv
    <2> QED BY <2>1, LedStays
  <1>3. ASSUME NEW s \in Server, state'[s] = "LEADER", NEW i, NEW e, Logged(i, e)',
               e.term = currentTerm'[s]
        PROVE  InSlice(s, i, e)'
    <2>1. Logged(i, e)
      BY <1>1, <1>3
    <2>2. CASE state[s] = "LEADER" /\ currentTerm'[s] = currentTerm[s] /\ entries'[s] = entries[s]
      <3>1. InSlice(s, i, e)
        BY <1>3, <2>1, <2>2 DEF TermsInv
      <3> QED BY <2>2, <3>1 DEF InSlice, Slot, Length
    <2>3. CASE state[s] = "CANDIDATE" /\ UNCHANGED <<currentTerm, votesGiven>>
      <3>1. PICK l \in Server : Led(l, e.term)
        BY <2>1 DEF TermsInv
      <3>2. Elected(l, currentTerm[s]) /\ Led(l, currentTerm[s])
        BY <1>3, <2>3, <3>1 DEF Led
      <3>3. Elected(s, currentTerm[s])
        BY <1>3, <2>3 DEF IInv, OwnVote, OthersVote, Elected
      <3>4. l = s
        BY <3>2, <3>3, OneElected
      <3> QED BY <2>3, <3>2, <3>4 DEF Led
    <2> QED BY <1>3, <2>2, <2>3 DEF Turn
  <1>4. \A i, e, f : Logged(i, e)' /\ Logged(i, f)' /\ e.term = f.term => e = f
    BY <1>1 DEF TermsInv
  <1> QED BY <1>2, <1>3, <1>4 DEF TermsInv

\* The leader has every entry of its term: what it appends has a new index.
LEMMA StartTerms ==
  ASSUME Cardinality(Server) <= 3, IInv, TypesInv, NoSnapshots, TermsInv,
         NEW s \in Server, Start(s)
  PROVE  TermsInv'
  <1> DEFINE n == Length(s)
             t == currentTerm[s]
             new == Entry(t, starts + 1)
  <1>1. /\ state[s] = "LEADER" /\ UNCHANGED <<currentTerm, votesGiven, state>>
        /\ entries' = [entries EXCEPT ![s] = Append(@, new)]
    BY DEF Start
  <1>2. /\ entries = [p \in Server |-> entries[p]] /\ entries[s] \in Seq(AnyEntry)
        /\ n = Len(entries[s]) /\ n \in Nat /\ n >= 1
    BY ServerSlots, SliceSlots DEF TypesInv, LogsOK, Length
  <1>3. \A i, e : Logged(i, e)' => Logged(i, e) \/ (i = n /\ e = new)
    BY StartPlaces
  <1>4. Elected(s, t) /\ t \in Term /\ Led(s, t)
    BY <1>1, LeaderElected, TermTypes DEF Led
  <1>5. ASSUME NEW e, Logged(n, e) PROVE e.term # t
    <2>1. e.term = t => InSlice(s, n, e)
      BY <1>1, <1>5 DEF TermsInv
    <2> QED BY <1>2, <2>1 DEF InSlice
  <1>6. new.term = t
    BY DEF Entry
  <1>7. /\ entries'[s] = Append(entries[s], new)
        /\ \A p \in Server \ {s} : entries'[p] = entries[p]
    BY <1>1, <1>2
  <1> HIDE DEF new, t
  <1>8. /\ Len(entries'[s]) = n + 1 /\ entries'[s][n + 1] = new
        /\ \A k \in 1 .. n : entries'[s][k] = entries[s][k]
    BY <1>2, <1>7, AppendProperties
  <1>9. \A u : \A p \in Server : Led(p, u)' <=> Led(p, u)
    BY <1>1 DEF Led, Elected
  <1>10. ASSUME NEW i, NEW e, Logged(i, e)'
         PROVE  e.term \in Term /\ \E p \in Server : Led(p, e.term)'
    BY <1>3, <1>4, <1>6, <1>9, <1>10 DEF TermsInv
  <1>11. ASSUME NEW p \in Server, state'[p] = "LEADER", NEW i, NEW e, Logged(i, e)',
                e.term = currentTerm'[p]
         PROVE  InSlice(p, i, e)'
    <2>1. CASE Logged(i, e)
      <3>1. InSlice(p, i, e)
        BY <1>1, <1>11, <2>1 DEF TermsInv
      <3>2. i \in 1 .. Len(entries[p]) - 1 /\ e = entries[p][i + 1]
        BY <3>1 DEF InSlice, Slot, Length
      <3>3. CASE p = s
        <4>1. i \in 1 .. Len(entries'[s]) - 1 /\ i + 1 \in 1 .. n
          BY <1>2, <1>8, <3>2, <3>3
        <4> QED BY <1>8, <3>2, <3>3, <4>1 DEF InSlice, Slot, Length
      <3>4. CASE p # s
        BY <1>7, <3>1, <3>4 DEF InSlice, Slot, Length
      <3> QED BY <3>3, <3>4
    <2>2. CASE i = n /\ e = new
      <3>1. Elected(p, t)
        BY <1>1, <1>6, <1>11, <2>2, LeaderElected
      <3>2. p = s
        BY <1>4, <3>1, OneElected
      <3>3. n \in 1 .. Len(entries'[s]) - 1
        BY <1>2, <1>8
      <3> QED BY <1>8, <2>2, <3>2, <3>3 DEF InSlice, Slot, Length
    <2> QED BY <1>3, <1>11, <2>1, <2>2
  <1>12. ASSUME NEW i, NEW e, NEW f, Logged(i, e)', Logged(i, f)', e.term = f.term
         PROVE  e = f
    BY <1>3, <1>5, <1>6, <1>12 DEF TermsInv
  <1> QED BY <1>10, <1>11, <1>12 DEF TermsInv

\* What every step but Start's does to a server's state and term.
LEMMA TurnStep ==
  ASSUME IInv, TypesInv, NoSnapshots, [Next]_vars, ~\E s \in Server : Start(s), NEW s \in Server
  PROVE  Turn(s)
  <1>1. /\ currentTerm \in [Server -> Nat] /\ currentTerm[s] \in Nat
        /\ state \in [Server -> {"FOLLOWER", "CANDIDATE", "LEADER"}]
        /\ entries = [p \in Server |-> entries[p]]
        /\ \A m \in requests : m.to \in Server /\ m.term \in Nat
        /\ \A r \in replies : r.to \in Server /\ r.replyTerm \in Nat
    BY TermTypes DEF IInv, ServerTypeOK, TypesInv, LogsOK, MessagesOK, RequestOK, ReplyOK
  <1>2. ASSUME NEW p \in Server, StartElections(p) PROVE Turn(s)
    BY <1>1, <1>2 DEF StartElections, Turn
  <1>3. ASSUME NEW m \in requests, RequestVote(m) PROVE Turn(s)
    <2>1. /\ m.to \in Server /\ m.term \in Nat /\ UNCHANGED entries
          /\ \/ UNCHANGED <<currentTerm, state>>
             \/ /\ m.term >= currentTerm[m.to]
                /\ currentTerm' = [currentTerm EXCEPT ![m.to] = m.term]
                /\ IF m.term > currentTerm[m.to] THEN StepDown(m.to) ELSE UNCHANGED state
      BY <1>1, <1>3 DEF RequestVote
    <2>2. m.term = currentTerm[m.to] => UNCHANGED currentTerm
      BY <1>1, <2>1
    <2>3. CASE m.term > currentTerm[m.to] /\ StepDown(m.to)
      BY <1>1, <2>1, <2>3 DEF StepDown, Turn
    <2>4. CASE UNCHANGED <<currentTerm, state>>
      BY <2>1, <2>4 DEF Turn
    <2> QED BY <1>1, <2>1, <2>2, <2>3, <2>4
  <1>4. ASSUME NEW r \in replies, VoteAnswer(r.to, r) PROVE Turn(s)
    BY <1>1, <1>4 DEF VoteAnswer, StepDown, Wins, Turn, durableVars
  <1>5. ASSUME NEW m \in requests, AppendEntry(m) PROVE Turn(s)
    <2>1. /\ m.to \in Server /\ m.term \in Nat
          /\ \/ UNCHANGED <<currentTerm, state, entries>>
             \/ /\ m.term >= currentTerm[m.to]
                /\ currentTerm' = [currentTerm EXCEPT ![m.to] = m.term]
                /\ StepDown(m.to)
                /\ \/ UNCHANGED entries
                   \/ \E log : entries' = [entries EXCEPT ![m.to] = log]
      BY <1>1, <1>5 DEF AppendEntry
    <2> QED BY <1>1, <2>1 DEF StepDown, Turn
  <1>6. ASSUME NEW r \in replies, AppendAnswer(r.to, r) PROVE Turn(s)
    <2>1. /\ UNCHANGED entries /\ r.to \in Server /\ r.replyTerm \in Nat
          /\ \/ UNCHANGED <<currentTerm, state>>
             \/ /\ r.replyTerm > currentTerm[r.to] /\ StepDown(r.to)
                /\ currentTerm' = [currentTerm EXCEPT ![r.to] = r.replyTerm]
      BY <1>1, <1>6 DEF AppendAnswer
    <2> QED BY <1>1, <2>1 DEF StepDown, Turn
  <1>7. ASSUME NEW r \in replies, SnapshotAnswer(r.to, r) PROVE Turn(s)
    BY <1>1, <1>7 DEF SnapshotAnswer, StepDown, Turn, durableVars
  <1>8. ASSUME NEW m \in requests, InstallSnapshot(m) PROVE Turn(s)
    <2>1. m.index = 0 /\ lastIncludedIndex[m.to] = 0
      BY <1>1, <1>8 DEF NoSnapshots, Uncompacted, InstallSnapshot
    <2>2. ~(m.index - lastIncludedIndex[m.to] > 0)
      BY <2>1
    <2>3. UNCHANGED <<entries, currentTerm>> /\ (UNCHANGED state \/ StepDown(m.to))
      BY <1>8, <2>2 DEF InstallSnapshot
    <2> QED BY <1>1, <2>3 DEF StepDown, Turn
  <1>9. ASSUME NEW p \in Server, Crash(p) PROVE Turn(s)
    <2>1. UNCHANGED <<currentTerm, entries>>
      BY <1>1, <1>9 DEF Crash, Restored, IInv, VotesPersisted, NoSnapshots, Uncompacted
    <2> QED BY <1>1, <1>9, <2>1 DEF Crash, StepDown, Turn
  <1>10. ASSUME NEW p \in Server,
                \/ SendHeartBeats(p) \/ AgreementEnds(p) \/ CheckIfCommitted(p) \/ SendApply(p)
                \/ ApplyCommand(p) \/ \E q \in Server : StartAgreement(p, q)
         PROVE  Turn(s)
    <2>1. UNCHANGED <<currentTerm, state, entries>>
      BY <1>10 DEF SendHeartBeats, AgreementEnds, CheckIfCommitted, SendApply, ApplyCommand,
                   StartAgreement, durableVars
    <2> QED BY <2>1 DEF Turn
  <1>11. ASSUME NEW p \in Server
         PROVE  /\ ~ReadPersistedSnapshot(p) /\ ~ApplyPersistedSnapshot(p)
                /\ ~Snapshot(p) /\ ~SaveStateAndSnapshot(p)
    BY DEF ReadPersistedSnapshot, ApplyPersistedSnapshot, Snapshot, SaveStateAndSnapshot,
           NoSnapshots, Uncompacted
  <1>12. CASE UNCHANGED vars
    BY <1>12 DEF vars, durableVars, Turn
  <1> QED BY <1>2, <1>3, <1>4, <1>5, <1>6, <1>7, <1>8, <1>9, <1>10, <1>11, <1>12
             DEF Next, Handle, HandleAnswer

LEMMA TermsInvariant ==
  ASSUME SnapshotPoints = {}, Cardinality(Server) <= 3
  PROVE  Spec => [](IInv /\ TypesInv /\ NoSnapshots /\ TermsInv)
  <1> DEFINE Inv == IInv /\ TypesInv /\ NoSnapshots /\ TermsInv
  <1>1. Init => Inv
    <2> SUFFICES ASSUME Init PROVE Inv
      OBVIOUS
    <2>1. IInv /\ TypesInv /\ NoSnapshots
      BY InitInvariant, InitTypes, InitPlaces
    <2>2. ~\E i, e : Logged(i, e)
      BY InitLogs
    <2> QED BY <2>1, <2>2 DEF TermsInv
  <1>2. Inv /\ [Next]_vars => Inv'
    <2> SUFFICES ASSUME Inv, [Next]_vars PROVE Inv'
      OBVIOUS
    <2>1. IInv' /\ TypesInv' /\ VotesKept
      BY StepInvariant, TypesStep, StepKeepsVotes
    <2>2. CASE \E s \in Server : Start(s)
      BY <2>1, <2>2, StartPlaces, StartTerms
    <2>3. CASE ~\E s \in Server : Start(s)
      BY <2>1, <2>3, PlacesStep, TurnStep, TermsKept
    <2> QED BY <2>2, <2>3
  <1> QED BY <1>1, <1>2, PTL DEF Spec

\* Up to three servers that take no snapshots never have two entries of one index and term,
\* and a leader has all that anyone has of its term, through crashes and elections at any
\* point.  Of Raft's Log Matching this half holds of the code; the other, that what precedes
\* such entries is the same too, does not, as AppendEntry compares one entry of several.
THEOREM TermsIdentifyEntries ==
  ASSUME SnapshotPoints = {}, Cardinality(Server) <= 3
  PROVE  Spec => []EntriesIdentified
  <1>1. TypesInv /\ NoSnapshots /\ TermsInv => EntriesIdentified
    <2> SUFFICES ASSUME TypesInv, NoSnapshots, TermsInv PROVE EntriesIdentified
      OBVIOUS
    <2>1. \A q \in Server : \A i \in Indices(q) : Logged(i, At(q, i))
      BY IndicesAreSlots DEF Logged, InSlice
    <2>2. \A q \in Server : \A i, e : InSlice(q, i, e) => i \in Indices(q) /\ At(q, i) = e
      BY IndicesAreSlots DEF InSlice
    <2> QED BY <2>1, <2>2 DEF TermsInv, EntriesIdentified
  <1> QED BY <1>1, TermsInvariant, PTL
=============================================================================
