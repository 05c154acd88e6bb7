-------------------------------- MODULE Raft --------------------------------
(***************************************************************************)
(* The Raft library (src/Distributed Systems/raft/raft.go) with its        *)
(* persister, over the network of labrpc, below the service that config.go *)
(* runs on every server: elections, replication, snapshots and restarts.   *)
(*                                                                         *)
(* A critical section of rf.mu is one step.  entries[s] is the Go slice:   *)
(* its slot 0 is the dummy entry, slot i holds index i + lastIncludedIndex.*)
(***************************************************************************)
EXTENDS Integers, Sequences, FiniteSets, FiniteSetsExt

CONSTANTS
  Server,          \* the peers
  Nil,             \* no server, no message
  SnapshotPoints,  \* the indices at which the service takes a snapshot
  MaxElections,    \* bound on the elections started, and so on the terms
  MaxStarts,       \* bound on the commands given to Start
  MaxCrashes       \* bound on the servers that are crashed and restarted

ASSUME RaftAssumption ==
  /\ IsFiniteSet(Server) /\ Nil \notin Server
  /\ SnapshotPoints \subseteq Nat \ {0}
  /\ MaxElections \in Nat /\ MaxStarts \in Nat /\ MaxCrashes \in Nat

VARIABLES
  \* fields of Raft that persist() writes
  currentTerm, votesGiven, entries, lastIncludedIndex, lastIncludedTerm,
  \* fields of Raft that a restart resets
  state, votesReceived, nextIndex, matchIndex, agreementGoing, commitIndex,
  \* the goroutine of checkIfCommitted
  lastApplied,   \* rf.lastApplied
  applyTo,       \* newIndex of the sendApply that runs
  applyMsg,      \* the message it offers on applyCh, or Nil
  bootMsg,       \* the snapshot that readPersistedSnapshot has been given, or Nil
  mode,          \* who holds rf.mu, or how the server ended
  unsent,        \* replies of the handler that holds rf.mu while it saves
  \* the persister
  persisted,     \* raftstate
  snapshot,      \* snapshot: the commands it stands for
  \* the service
  applied,       \* cfg.logs: the commands applied so far
  snapping,      \* is it inside a call of Snapshot?
  \* the network
  requests, replies,
  incarnation,   \* crashes of the server, so that replies to an old one are lost
  \* history
  decided,       \* the longest log that any service has seen
  starts,        \* commands given to Start
  elections,     \* calls of startElections
  crashes

durableVars == <<currentTerm, votesGiven, entries, lastIncludedIndex, lastIncludedTerm>>
leaderVars == <<nextIndex, matchIndex, agreementGoing>>
applyVars == <<lastApplied, applyTo, applyMsg, bootMsg>>
persisterVars == <<persisted, snapshot>>
serviceVars == <<applied, snapping, decided>>
networkVars == <<requests, replies>>
boundVars == <<incarnation, starts, elections, crashes>>
vars == <<durableVars, state, votesReceived, leaderVars, commitIndex, applyVars,
          mode, unsent, persisterVars, serviceVars, networkVars, boundVars>>

-----------------------------------------------------------------------------
Term == 1 .. MaxElections
Entry(term, cmd) == [term |-> term, cmd |-> cmd]
Dummy == Entry(0, 0)

\* The index of a persisted snapshot before readPersistedSnapshot takes it.
NotRead == -1

\* rf.log.Entries[i] of server s, a Go index, and len(rf.log.Entries).
Slot(s, i) == entries[s][i + 1]
Length(s) == Len(entries[s])
LastIndex(s) == Length(s) - 1 + lastIncludedIndex[s]
InRange(s, i) == i \in 0 .. Length(s) - 1

\* What elections compare: an empty slice counts as an empty log, snapshot or not.
LastLogTerm(s) == IF Length(s) > 1 THEN Slot(s, Length(s) - 1).term ELSE 0
LastLogIndex(s) == IF Length(s) > 1 THEN LastIndex(s) ELSE 0

\* getConflictIndex: the first slot of the run of equal terms that ends in slot i.
ConflictSlot(s, i) ==
  Min({k \in 1 .. Max({i, 1}) : \A j \in k .. i : Slot(s, j).term = Slot(s, i).term})

Majority(n) == n > Cardinality(Server) \div 2

Up(s) == mode[s] = "run"

\* Mutant of Persist: persist() is not called.
ForgetPersist(s) == UNCHANGED persisted

\* persist(), the last thing a critical section does.
Persist(s) ==
  persisted' = [persisted EXCEPT ![s] =
    [currentTerm |-> currentTerm'[s], votesGiven |-> votesGiven'[s], entries |-> entries'[s],
     lastIncludedIndex |-> lastIncludedIndex'[s], lastIncludedTerm |-> lastIncludedTerm'[s]]]

StepDown(s) == state' = [state EXCEPT ![s] = "FOLLOWER"]

\* An index out of range: the process panics.
Panic(s) == mode' = [mode EXCEPT ![s] = "panic"]

\* labrpc may delay a message for ever, which is to lose it, and deliver messages
\* in any order.  Vote requests are sent once.  Everything a leader sends is sent
\* again every 10 or 100 ms, so that it may be delivered any number of times.
Send(ms) == requests' = requests \cup ms
Reply(r) == replies' = replies \cup {r}

\* A reply reaches the instance that sent the request.
Answers(r, s) == r \in replies /\ r.to = s /\ r.incarnation = incarnation[s] /\ Up(s)

-----------------------------------------------------------------------------
Init ==
  /\ currentTerm = [s \in Server |-> 0]
  /\ votesGiven = [s \in Server |-> [t \in Term |-> Nil]]
  /\ entries = [s \in Server |-> <<Dummy>>]
  /\ lastIncludedIndex = [s \in Server |-> 0]
  /\ lastIncludedTerm = [s \in Server |-> -1]
  /\ state = [s \in Server |-> "FOLLOWER"]
  /\ votesReceived = [s \in Server |-> 0]
  /\ nextIndex = [s \in Server |-> [p \in Server |-> 0]]
  /\ matchIndex = [s \in Server |-> [p \in Server |-> 0]]
  /\ agreementGoing = [s \in Server |-> FALSE]
  /\ commitIndex = [s \in Server |-> 0]
  /\ lastApplied = [s \in Server |-> 0]
  /\ applyTo = [s \in Server |-> 0]
  /\ applyMsg = [s \in Server |-> Nil]
  /\ bootMsg = [s \in Server |-> Nil]
  /\ mode = [s \in Server |-> "run"]
  /\ unsent = [s \in Server |-> {}]
  /\ persisted = [s \in Server |->
       [currentTerm |-> 0, votesGiven |-> [t \in Term |-> Nil], entries |-> <<Dummy>>,
        lastIncludedIndex |-> 0, lastIncludedTerm |-> -1]]
  /\ snapshot = [s \in Server |-> <<>>]
  /\ applied = [s \in Server |-> <<>>]
  /\ snapping = [s \in Server |-> FALSE]
  /\ requests = {} /\ replies = {}
  /\ incarnation = [s \in Server |-> 0]
  /\ decided = <<>> /\ starts = 0 /\ elections = 0 /\ crashes = 0

-----------------------------------------------------------------------------
\* Elections.

\* The ticker decides under rf.mu and calls startElections after it has released
\* it, so that even a server that has just won may start another election.
StartElections(s) ==
  LET term == currentTerm[s] + 1
  IN  /\ Up(s) /\ elections < MaxElections
      /\ elections' = elections + 1
      /\ state' = [state EXCEPT ![s] = "CANDIDATE"]
      /\ currentTerm' = [currentTerm EXCEPT ![s] = term]
      /\ votesGiven' = [votesGiven EXCEPT ![s][term] = s]
      /\ votesReceived' = [votesReceived EXCEPT ![s] = 1]
      /\ Send({[type |-> "vote", from |-> s, to |-> p, incarnation |-> incarnation[s],
                term |-> term, lastIndex |-> LastLogIndex(s), lastTerm |-> LastLogTerm(s)]
                 : p \in Server \ {s}})
      /\ UNCHANGED <<entries, lastIncludedIndex, lastIncludedTerm>>
      /\ Persist(s)
      /\ UNCHANGED <<leaderVars, commitIndex, applyVars, mode, unsent, snapshot,
                     serviceVars, replies, incarnation, starts, crashes>>

\* Mutant of UpToDate: the logs are not compared.
AnyLog(m, s) == TRUE

\* The log comparison of RequestVote: is the candidate's log as good as ours?
UpToDate(m, s) ==
  /\ m.lastTerm >= LastLogTerm(s)
  /\ m.lastTerm = LastLogTerm(s) => m.lastIndex >= LastLogIndex(s)

MayVote(m, s) ==
  /\ votesGiven[s][m.term] \in {Nil, m.from}
  /\ UpToDate(m, s)

VoteReply(m, granted) ==
  [type |-> "vote", to |-> m.from, incarnation |-> m.incarnation,
   term |-> m.term, replyTerm |-> currentTerm[m.to], granted |-> granted, from |-> m.to]

\* A refusal that cannot make the candidate step down has no effect: it is not sent.
RequestVote(m) ==
  LET s == m.to
  IN  /\ Up(s) /\ m.type = "vote"
      /\ requests' = requests \ {m}
      /\ \/ /\ m.term < currentTerm[s]
            /\ Reply(VoteReply(m, FALSE))
            /\ UNCHANGED <<currentTerm, votesGiven, state>>
         \/ /\ m.term >= currentTerm[s]
            /\ currentTerm' = [currentTerm EXCEPT ![s] = m.term]
            /\ IF m.term > currentTerm[s] THEN StepDown(s) ELSE UNCHANGED state
            /\ IF MayVote(m, s)
               THEN /\ votesGiven' = [votesGiven EXCEPT ![s][m.term] = m.from]
                    /\ Reply(VoteReply(m, TRUE))
               ELSE UNCHANGED <<votesGiven, replies>>
      /\ UNCHANGED <<entries, lastIncludedIndex, lastIncludedTerm>>
      /\ Persist(s)
      /\ UNCHANGED <<votesReceived, leaderVars, commitIndex, applyVars, mode, unsent,
                     snapshot, serviceVars, boundVars>>

\* Mutant of Wins: a vote of an earlier election may decide this one.
WinsByAnyVote(s, r, votes) == Majority(votes) /\ state[s] = "CANDIDATE"

Wins(s, r, votes) ==
  Majority(votes) /\ state[s] = "CANDIDATE" /\ r.term = currentTerm[s]

\* sendRequestVote, from the reply on.  Every granted vote is counted, those of
\* earlier elections included.
VoteAnswer(s, r) ==
  LET votes == votesReceived[s] + 1
  IN  /\ Answers(r, s) /\ r.type = "vote"
      /\ replies' = replies \ {r}
      /\ \/ /\ r.replyTerm > currentTerm[s]
            /\ StepDown(s)
            /\ UNCHANGED <<votesReceived, nextIndex, matchIndex>>
         \/ /\ r.replyTerm <= currentTerm[s] /\ r.granted
            /\ votesReceived' = [votesReceived EXCEPT ![s] = votes]
            /\ IF Wins(s, r, votes)
               THEN /\ state' = [state EXCEPT ![s] = "LEADER"]
                    /\ nextIndex' = [nextIndex EXCEPT ![s] = [p \in Server |-> LastIndex(s) + 1]]
                    /\ matchIndex' = [matchIndex EXCEPT ![s] = [p \in Server |-> 0]]
               ELSE UNCHANGED <<state, nextIndex, matchIndex>>
         \/ /\ r.replyTerm <= currentTerm[s] /\ ~r.granted
            /\ UNCHANGED <<state, votesReceived, nextIndex, matchIndex>>
      /\ UNCHANGED <<durableVars, agreementGoing, commitIndex, applyVars, mode, unsent,
                     persisterVars, serviceVars, requests, boundVars>>

-----------------------------------------------------------------------------
\* Replication.

\* Start on the leader; anywhere else it returns without effect.
Start(s) ==
  /\ Up(s) /\ state[s] = "LEADER" /\ starts < MaxStarts
  /\ starts' = starts + 1
  /\ entries' = [entries EXCEPT ![s] = Append(@, Entry(currentTerm[s], starts'))]
  /\ lastIncludedTerm' = [lastIncludedTerm EXCEPT ![s] = IF @ = 0 THEN -1 ELSE @]
  /\ agreementGoing' = [agreementGoing EXCEPT ![s] = TRUE]
  /\ UNCHANGED <<currentTerm, votesGiven, lastIncludedIndex>>
  /\ Persist(s)
  /\ UNCHANGED <<state, votesReceived, nextIndex, matchIndex, commitIndex, applyVars, mode,
                 unsent, snapshot, serviceVars, networkVars, incarnation, elections, crashes>>

\* sendHeartBeats, one round.
HeartBeats(s) ==
  {[type |-> "append", from |-> s, to |-> p, incarnation |-> incarnation[s],
    term |-> currentTerm[s], prev |-> 0, prevTerm |-> 0, new |-> <<>>,
    commit |-> commitIndex[s]] : p \in Server \ {s}}

SendHeartBeats(s) ==
  /\ Up(s) /\ state[s] = "LEADER"
  /\ Send(HeartBeats(s))
  /\ UNCHANGED <<durableVars, state, votesReceived, leaderVars, commitIndex, applyVars, mode,
                 unsent, persisterVars, serviceVars, replies, boundVars>>

\* What startAgreement sends to peer p, whose next entry is in slot i.
AppendArgs(s, p, i) ==
  LET logged == Length(s) > 1 /\ i > 1
  IN  [type |-> "append", from |-> s, to |-> p, incarnation |-> incarnation[s],
       term |-> currentTerm[s],
       prev |-> IF logged THEN nextIndex[s][p] - 1 ELSE lastIncludedIndex[s],
       prevTerm |-> IF logged THEN Slot(s, i - 1).term ELSE lastIncludedTerm[s],
       new |-> SubSeq(entries[s], i + 1, Length(s)),
       commit |-> commitIndex[s]]

SnapshotArgs(s, p) ==
  [type |-> "snapshot", from |-> s, to |-> p, incarnation |-> incarnation[s],
   term |-> currentTerm[s], index |-> lastIncludedIndex[s],
   lastTerm |-> lastIncludedTerm[s], data |-> snapshot[s]]

\* startAgreement, its visit of peer p.
StartAgreement(s, p) ==
  LET i == nextIndex[s][p] - lastIncludedIndex[s]
  IN  /\ Up(s) /\ agreementGoing[s] /\ state[s] = "LEADER"
      /\ p # s /\ i # Length(s)
      /\ IF i > Length(s)
         THEN Panic(s) /\ UNCHANGED requests
         ELSE Send({IF i <= 0 THEN SnapshotArgs(s, p) ELSE AppendArgs(s, p, i)})
              /\ UNCHANGED mode
      /\ UNCHANGED <<durableVars, state, votesReceived, leaderVars, commitIndex, applyVars,
                     unsent, persisterVars, serviceVars, replies, boundVars>>

\* The goroutine of startAgreement ends.
AgreementEnds(s) ==
  /\ Up(s) /\ agreementGoing[s]
  /\ state[s] = "LEADER" => \A p \in Server : nextIndex[s][p] > LastIndex(s)
  /\ agreementGoing' = [agreementGoing EXCEPT ![s] = FALSE]
  /\ UNCHANGED <<durableVars, state, votesReceived, nextIndex, matchIndex, commitIndex,
                 applyVars, mode, unsent, persisterVars, serviceVars, networkVars, boundVars>>

AppendReply(m, success, cTerm, cIndex) ==
  [type |-> "append", to |-> m.from, incarnation |-> m.incarnation, from |-> m.to,
   prev |-> m.prev, length |-> Len(m.new), replyTerm |-> currentTerm[m.to],
   success |-> success, conflictingTerm |-> cTerm, conflictingIndex |-> cIndex]

\* The answer to a heartbeat has an effect only if it makes the leader step down.
Refuse(m, cTerm, cIndex) == Reply(AppendReply(m, FALSE, cTerm, cIndex))
Accept(m) == IF m.prevTerm = 0 THEN UNCHANGED replies ELSE Reply(AppendReply(m, TRUE, 0, 0))

\* Mutant of Matches: the term of the entry before the new ones is not compared.
MatchesLength(m, s) == InRange(s, m.prev - lastIncludedIndex[s])

\* The consistency check: the entry before the new ones is here.  Slot 0 is not
\* compared: it stands for the start of the log or for the snapshot.
Matches(m, s) ==
  LET p == m.prev - lastIncludedIndex[s]
  IN  InRange(s, p) /\ (p >= 1 => Slot(s, p).term = m.prevTerm)

\* Mutant of Merge: entries that are already there are appended again.
MergeAgain(m, s) == entries[s] \o m.new

\* The log after the new entries: cut if the first of them conflicts, then
\* extended by as many of the last of them as are missing.
Merge(m, s) ==
  LET p   == m.prev - lastIncludedIndex[s]
      cut == IF Length(s) > p + 1 /\ Slot(s, p + 1).term # m.new[1].term
             THEN SubSeq(entries[s], 1, p + 1) ELSE entries[s]
  IN  IF Len(cut) <= p + Len(m.new)
      THEN cut \o SubSeq(m.new, Len(cut) - p, Len(m.new)) ELSE cut

\* Mutant of Follow: the leader's commit index is taken beyond the log's end.
FollowBlindly(m, s, log) == Max({commitIndex[s], m.commit})

\* Mutant of Follow: an older commit index of the leader is taken over too.
FollowBack(m, s, log) ==
  IF m.prevTerm = 0 /\ log[Len(log)].term # m.term
  THEN commitIndex[s]
  ELSE Min({m.commit, Len(log) - 1 + lastIncludedIndex[s]})

\* The commit index after an accepted message.  A heartbeat is not trusted while
\* the last entry is not of the leader's term.
Follow(m, s, log) ==
  IF (m.prevTerm = 0 /\ log[Len(log)].term # m.term) \/ m.commit <= commitIndex[s]
  THEN commitIndex[s]
  ELSE Min({m.commit, Len(log) - 1 + lastIncludedIndex[s]})

\* AppendEntry, for entries and for heartbeats (prevTerm = 0).
AppendEntry(m) ==
  LET s    == m.to
      p    == m.prev - lastIncludedIndex[s]
      last == Min({p, Length(s) - 1})
  IN  /\ Up(s) /\ m.type = "append"
      /\ \/ /\ m.term < currentTerm[s]
            /\ Refuse(m, 0, 0)
            /\ UNCHANGED <<currentTerm, state, entries, commitIndex>>
         \/ /\ m.term >= currentTerm[s]
            /\ currentTerm' = [currentTerm EXCEPT ![s] = m.term]
            /\ StepDown(s)
            /\ IF m.prevTerm = 0 \/ Matches(m, s)
               THEN LET log == IF m.prevTerm = 0 THEN entries[s] ELSE Merge(m, s)
                    IN  /\ entries' = [entries EXCEPT ![s] = log]
                        /\ commitIndex' = [commitIndex EXCEPT ![s] = Follow(m, s, log)]
                        /\ Accept(m)
               ELSE /\ IF p < 0
                       THEN Refuse(m, 0, 0)
                       ELSE Refuse(m, Slot(s, last).term,
                                   ConflictSlot(s, last) + lastIncludedIndex[s])
                    /\ UNCHANGED <<entries, commitIndex>>
      /\ UNCHANGED <<votesGiven, lastIncludedIndex, lastIncludedTerm>>
      /\ Persist(s)
      /\ UNCHANGED <<votesReceived, leaderVars, applyVars, mode, unsent, snapshot,
                     serviceVars, requests, boundVars>>

\* The indices a refused leader passes over from the conflicting index on, the
\* one it stops at included: those below prev whose entries have that term.
Passed(s, r) ==
  {i \in r.conflictingIndex .. Max({r.prev, r.conflictingIndex}) :
     \A j \in r.conflictingIndex .. i - 1 :
        /\ j < r.prev
        /\ InRange(s, j - lastIncludedIndex[s])
        /\ Slot(s, j - lastIncludedIndex[s]).term = r.conflictingTerm}

\* sendAppendEntries, from the reply on.  The reply may be that of an earlier term.
AppendAnswer(s, r) ==
  LET p    == r.from
      next == r.prev + r.length + 1
      back == Max(Passed(s, r))
  IN  /\ Answers(r, s) /\ r.type = "append"
      /\ \/ /\ r.replyTerm > currentTerm[s]
            /\ StepDown(s)
            /\ currentTerm' = [currentTerm EXCEPT ![s] = r.replyTerm]
            /\ UNCHANGED <<nextIndex, matchIndex, mode>>
         \/ /\ r.replyTerm <= currentTerm[s] /\ state[s] = "LEADER" /\ r.length > 0
            /\ UNCHANGED <<currentTerm, state>>
            /\ \/ /\ r.success /\ nextIndex[s][p] # next
                  /\ matchIndex' = [matchIndex EXCEPT ![s][p] = next - 1]
                  /\ nextIndex' = [nextIndex EXCEPT ![s][p] = next]
                  /\ UNCHANGED mode
               \/ /\ ~r.success /\ nextIndex[s][p] = r.prev + 1
                  /\ nextIndex' = [nextIndex EXCEPT ![s][p] = back]
                  /\ IF InRange(s, back - lastIncludedIndex[s]) THEN UNCHANGED mode ELSE Panic(s)
                  /\ UNCHANGED matchIndex
      /\ UNCHANGED <<votesGiven, entries, lastIncludedIndex, lastIncludedTerm>>
      /\ Persist(s)
      /\ UNCHANGED <<votesReceived, agreementGoing, commitIndex, applyVars, unsent, snapshot,
                     serviceVars, networkVars, boundVars>>

\* updateCommitIndex: a majority has index i, as far as the leader knows, and
\* from i on the log is of the leader's term.
MayCommit(s, i) ==
  /\ \A j \in i .. LastIndex(s) : Slot(s, j - lastIncludedIndex[s]).term >= currentTerm[s]
  /\ Majority(Cardinality({s} \cup {p \in Server \ {s} : matchIndex[s][p] >= i}))

\* checkIfCommitted: the commit index moves and sendApply begins, when the one
\* before has ended.  The loop of updateCommitIndex does not stop at slot 0: with a
\* commit index below the snapshot it panics, unless it meets an older term.
CheckIfCommitted(s) ==
  LET lowest == lastIncludedIndex[s]
      ready  == {i \in commitIndex[s] + 1 .. LastIndex(s) :
                   i >= lowest /\ state[s] = "LEADER" /\ MayCommit(s, i)}
      new    == IF ready = {} THEN commitIndex[s] ELSE Max(ready)
  IN  /\ Up(s) /\ applyMsg[s] = Nil /\ lastApplied[s] >= applyTo[s]
      /\ IF /\ state[s] = "LEADER" /\ ready = {} /\ commitIndex[s] + 1 < lowest
            /\ \A j \in lowest .. LastIndex(s) : Slot(s, j - lowest).term >= currentTerm[s]
         THEN Panic(s) /\ UNCHANGED <<commitIndex, applyTo, lastApplied>>
         ELSE /\ commitIndex' = [commitIndex EXCEPT ![s] = new]
              /\ applyTo' = [applyTo EXCEPT ![s] = new]
              /\ lastApplied' = [lastApplied EXCEPT ![s] = Max({@, lowest})]
              /\ UNCHANGED mode
      /\ UNCHANGED <<durableVars, state, votesReceived, leaderVars, applyMsg, bootMsg,
                     unsent, persisterVars, serviceVars, networkVars, boundVars>>

-----------------------------------------------------------------------------
\* Applying.  sendApply reads the next entry under rf.mu and then offers it on applyCh.
\* In between only a snapshot can interfere: without any, offer and receipt are one step.
NextSlot(s) == lastApplied[s] + 1 - lastIncludedIndex[s]
NextMsg(s) == [index |-> lastApplied[s] + 1, cmd |-> Slot(s, NextSlot(s)).cmd]

SendApply(s) ==
  /\ Up(s) /\ applyMsg[s] = Nil /\ lastApplied[s] < applyTo[s]
  /\ IF InRange(s, NextSlot(s))
     THEN /\ SnapshotPoints # {}
          /\ applyMsg' = [applyMsg EXCEPT ![s] = NextMsg(s)]
          /\ UNCHANGED mode
     ELSE Panic(s) /\ UNCHANGED applyMsg
  /\ UNCHANGED <<durableVars, state, votesReceived, leaderVars, commitIndex, lastApplied,
                 applyTo, bootMsg, unsent, persisterVars, serviceVars, networkVars, boundVars>>

\* Is a command offered to the service?
Offered(s) ==
  \/ applyMsg[s] # Nil
  \/ SnapshotPoints = {} /\ lastApplied[s] < applyTo[s] /\ InRange(s, NextSlot(s))

\* The service's applierSnap receives a command; log.Fatalf if it is out of order.
\* At a snapshot point it goes on to call Snapshot.
ApplyCommand(s) ==
  LET m == IF applyMsg[s] # Nil THEN applyMsg[s] ELSE NextMsg(s)
  IN  /\ Up(s) /\ ~snapping[s] /\ Offered(s)
      /\ applyMsg' = [applyMsg EXCEPT ![s] = Nil]
      /\ lastApplied' = [lastApplied EXCEPT ![s] = @ + 1]
      /\ IF m.index = Len(applied[s]) + 1
         THEN /\ applied' = [applied EXCEPT ![s] = Append(@, m.cmd)]
              /\ decided' = IF m.index > Len(decided) THEN applied'[s] ELSE decided
              /\ snapping' = [snapping EXCEPT ![s] = m.index \in SnapshotPoints]
              /\ UNCHANGED mode
         ELSE /\ mode' = [mode EXCEPT ![s] = "fatal"]
              /\ UNCHANGED serviceVars
      /\ UNCHANGED <<durableVars, state, votesReceived, leaderVars, commitIndex, applyTo,
                     bootMsg, unsent, persisterVars, networkVars, boundVars>>

\* applierSnap receives a snapshot (ingestSnap): its data must be of that index.
Ingest(s, index, data) ==
  IF Len(data) = index
  THEN applied' = [applied EXCEPT ![s] = data] /\ UNCHANGED mode
  ELSE mode' = [mode EXCEPT ![s] = "fatal"] /\ UNCHANGED applied

\* readPersistedSnapshot, which Make starts and nothing waits for: it takes the index that the
\* log has by then, without rf.mu, and offers the snapshot on applyCh.
ReadPersistedSnapshot(s) ==
  /\ Up(s) /\ bootMsg[s] # Nil /\ bootMsg[s].index = NotRead
  /\ bootMsg' = [bootMsg EXCEPT ![s].index = lastIncludedIndex[s]]
  /\ UNCHANGED <<durableVars, state, votesReceived, leaderVars, commitIndex, lastApplied,
                 applyTo, applyMsg, mode, unsent, persisterVars, serviceVars, networkVars,
                 boundVars>>

\* applierSnap receives it, however much the service has applied since.
ApplyPersistedSnapshot(s) ==
  /\ Up(s) /\ bootMsg[s] # Nil /\ bootMsg[s].index # NotRead /\ ~snapping[s]
  /\ bootMsg' = [bootMsg EXCEPT ![s] = Nil]
  /\ Ingest(s, bootMsg[s].index, bootMsg[s].data)
  /\ UNCHANGED <<durableVars, state, votesReceived, leaderVars, commitIndex, lastApplied,
                 applyTo, applyMsg, unsent, persisterVars, snapping, decided, networkVars,
                 boundVars>>

-----------------------------------------------------------------------------
\* Snapshots.

\* Mutant of Save: the old raftstate is written with the new snapshot.
SaveUnpersisted(s, rs) ==
  /\ UNCHANGED persisted
  /\ mode' = [mode EXCEPT ![s] = "save"]
  /\ unsent' = [unsent EXCEPT ![s] = rs]

\* A handler that replaces the snapshot holds rf.mu over two writes of the persister:
\* raftstate, then raftstate with the snapshot.
Save(s, rs) ==
  /\ Persist(s)
  /\ mode' = [mode EXCEPT ![s] = "save"]
  /\ unsent' = [unsent EXCEPT ![s] = rs]

\* The log after a snapshot of the service up to an index: a dummy entry and the rest.
Kept(s, index) == <<Dummy>> \o SubSeq(entries[s], index - lastIncludedIndex[s] + 2, Length(s))

\* Snapshot, which the service calls with all it has applied.
Snapshot(s) ==
  LET index == Len(applied[s])
      i     == index - lastIncludedIndex[s]
  IN  /\ Up(s) /\ snapping[s]
      /\ IF InRange(s, i)
         THEN /\ lastIncludedTerm' = [lastIncludedTerm EXCEPT ![s] = Slot(s, i).term]
              /\ lastIncludedIndex' = [lastIncludedIndex EXCEPT ![s] = index]
              /\ entries' = [entries EXCEPT ![s] = Kept(s, index)]
              /\ UNCHANGED <<currentTerm, votesGiven>>
              /\ Save(s, {})
         ELSE Panic(s) /\ UNCHANGED <<durableVars, unsent, persisted>>
      /\ UNCHANGED <<state, votesReceived, leaderVars, commitIndex, applyVars, snapshot,
                     serviceVars, networkVars, boundVars>>

\* SaveStateAndSnapshot; the handler returns and releases rf.mu.
SaveStateAndSnapshot(s) ==
  /\ mode[s] = "save"
  /\ snapshot' = [snapshot EXCEPT ![s] = applied[s]]
  /\ replies' = replies \cup unsent[s]
  /\ unsent' = [unsent EXCEPT ![s] = {}]
  /\ snapping' = [snapping EXCEPT ![s] = FALSE]
  /\ mode' = [mode EXCEPT ![s] = "run"]
  /\ UNCHANGED <<durableVars, state, votesReceived, leaderVars, commitIndex, applyVars,
                 persisted, applied, decided, requests, boundVars>>

SnapshotReply(m) ==
  [type |-> "snapshot", to |-> m.from, incarnation |-> m.incarnation, from |-> m.to,
   index |-> m.index, replyTerm |-> currentTerm[m.to]]

\* InstallSnapshot offers the snapshot on applyCh while it holds rf.mu.  A service
\* inside Snapshot waits for rf.mu: neither ever goes on.  Entries beyond the
\* snapshot stay, the first of them in slot 0, and then nothing is persisted.
InstallSnapshot(m) ==
  LET s == m.to
      i == m.index - lastIncludedIndex[s]
  IN  /\ Up(s) /\ m.type = "snapshot"
      /\ IF m.term >= currentTerm[s] THEN StepDown(s) ELSE UNCHANGED state
      /\ \/ /\ i <= 0
            /\ Reply(SnapshotReply(m))
            /\ UNCHANGED <<entries, lastIncludedIndex, lastIncludedTerm, mode, unsent,
                           persisted, applied>>
         \/ /\ i > 0 /\ snapping[s]
            /\ mode' = [mode EXCEPT ![s] = "stuck"]
            /\ UNCHANGED <<entries, lastIncludedIndex, lastIncludedTerm, unsent, persisted,
                           applied, replies>>
         \/ /\ i > 0 /\ ~snapping[s]
            /\ IF Len(m.data) # m.index
               THEN /\ Ingest(s, m.index, m.data)
                    /\ UNCHANGED <<entries, lastIncludedIndex, lastIncludedTerm, unsent,
                                   persisted, replies>>
               ELSE /\ applied' = [applied EXCEPT ![s] = m.data]
                    /\ lastIncludedIndex' = [lastIncludedIndex EXCEPT ![s] = m.index]
                    /\ lastIncludedTerm' = [lastIncludedTerm EXCEPT ![s] = m.lastTerm]
                    /\ IF LastIndex(s) > m.index
                       THEN /\ entries' = [entries EXCEPT ![s] = SubSeq(@, i + 2, Len(@))]
                            /\ Reply(SnapshotReply(m))
                            /\ UNCHANGED <<mode, unsent, persisted>>
                       ELSE /\ entries' = [entries EXCEPT ![s] = <<Dummy>>]
                            /\ UNCHANGED <<currentTerm, votesGiven, replies>>
                            /\ Save(s, {SnapshotReply(m)})
      /\ UNCHANGED <<currentTerm, votesGiven, votesReceived, leaderVars, commitIndex, applyVars,
                     snapshot, snapping, decided, requests, boundVars>>

\* sendInstallSnapshot, from the reply on: whatever the state and the term.
SnapshotAnswer(s, r) ==
  /\ Answers(r, s) /\ r.type = "snapshot"
  /\ IF r.replyTerm > currentTerm[s]
     THEN StepDown(s) /\ UNCHANGED <<nextIndex, matchIndex>>
     ELSE /\ nextIndex' = [nextIndex EXCEPT ![s][r.from] = r.index + 1]
          /\ matchIndex' = [matchIndex EXCEPT ![s][r.from] = r.index]
          /\ UNCHANGED state
  /\ UNCHANGED <<durableVars, votesReceived, agreementGoing, commitIndex, applyVars, mode,
                 unsent, persisterVars, serviceVars, networkVars, boundVars>>

-----------------------------------------------------------------------------
\* Mutant of Restored: a restarted server forgets whom it voted for.
RestoredVoteless(s) == [persisted[s] EXCEPT !.votesGiven = [t \in Term |-> Nil]]

\* Mutant of Restored: the log that Make starts from has no slot 0.
RestoredBare(s) == [persisted[s] EXCEPT !.entries = SubSeq(@, 2, Len(@))]

\* readPersist
Restored(s) == persisted[s]

\* crash1 and start1 of config.go: a new instance is made from a copy of the
\* persister, whatever the old one was doing; the service restarts from the snapshot.
Crash(s) ==
  /\ crashes < MaxCrashes
  /\ crashes' = crashes + 1
  /\ incarnation' = [incarnation EXCEPT ![s] = crashes']
  /\ currentTerm' = [currentTerm EXCEPT ![s] = Restored(s).currentTerm]
  /\ votesGiven' = [votesGiven EXCEPT ![s] = Restored(s).votesGiven]
  /\ entries' = [entries EXCEPT ![s] = Restored(s).entries]
  /\ lastIncludedIndex' = [lastIncludedIndex EXCEPT ![s] = Restored(s).lastIncludedIndex]
  /\ lastIncludedTerm' = [lastIncludedTerm EXCEPT ![s] = Restored(s).lastIncludedTerm]
  /\ StepDown(s)
  /\ votesReceived' = [votesReceived EXCEPT ![s] = 0]
  /\ nextIndex' = [nextIndex EXCEPT ![s] = [p \in Server |-> 0]]
  /\ matchIndex' = [matchIndex EXCEPT ![s] = [p \in Server |-> 0]]
  /\ agreementGoing' = [agreementGoing EXCEPT ![s] = FALSE]
  /\ commitIndex' = [commitIndex EXCEPT ![s] = 0]
  /\ lastApplied' = [lastApplied EXCEPT ![s] = 0]
  /\ applyTo' = [applyTo EXCEPT ![s] = 0]
  /\ applyMsg' = [applyMsg EXCEPT ![s] = Nil]
  /\ bootMsg' = [bootMsg EXCEPT ![s] =
       IF snapshot[s] = <<>> THEN Nil ELSE [index |-> NotRead, data |-> snapshot[s]]]
  /\ mode' = [mode EXCEPT ![s] = "run"]
  /\ unsent' = [unsent EXCEPT ![s] = {}]
  /\ applied' = [applied EXCEPT ![s] = snapshot[s]]
  /\ snapping' = [snapping EXCEPT ![s] = FALSE]
  /\ UNCHANGED <<persisterVars, decided, networkVars, starts, elections>>

Handle(m) == RequestVote(m) \/ AppendEntry(m) \/ InstallSnapshot(m)
HandleAnswer(r) == VoteAnswer(r.to, r) \/ AppendAnswer(r.to, r) \/ SnapshotAnswer(r.to, r)

Next ==
  \/ \E s \in Server : \/ StartElections(s) \/ Start(s) \/ SendHeartBeats(s)
                       \/ AgreementEnds(s) \/ CheckIfCommitted(s)
                       \/ SendApply(s) \/ ApplyCommand(s)
                       \/ ReadPersistedSnapshot(s) \/ ApplyPersistedSnapshot(s)
                       \/ Snapshot(s) \/ SaveStateAndSnapshot(s) \/ Crash(s)
                       \/ \E p \in Server : StartAgreement(s, p)
  \/ \E m \in requests : Handle(m)
  \/ \E r \in replies : HandleAnswer(r)

Spec == Init /\ [][Next]_vars

-----------------------------------------------------------------------------
Log == Seq([term : 0 .. MaxElections, cmd : 0 .. MaxStarts])
Votes == [Term -> Server \cup {Nil}]

\* Terms and commands stay within their bounds, and every slice has its slot 0: Make creates
\* it and what readPersist restores has it.  Services may apply its entry, the command 0:
\* a late readPersistedSnapshot takes them back behind the log.
TypeOK ==
  /\ currentTerm \in [Server -> 0 .. MaxElections]
  /\ votesGiven \in [Server -> Votes]
  /\ entries \in [Server -> Log] /\ \A s \in Server : entries[s] # <<>>
  /\ lastIncludedIndex \in [Server -> Nat]
  /\ lastIncludedTerm \in [Server -> -1 .. MaxElections]
  /\ state \in [Server -> {"FOLLOWER", "CANDIDATE", "LEADER"}]
  /\ votesReceived \in [Server -> Nat]
  /\ nextIndex \in [Server -> [Server -> Nat]]
  /\ matchIndex \in [Server -> [Server -> Nat]]
  /\ agreementGoing \in [Server -> BOOLEAN]
  /\ commitIndex \in [Server -> Nat]
  /\ lastApplied \in [Server -> Nat] /\ applyTo \in [Server -> Nat]
  /\ mode \in [Server -> {"run", "save", "stuck", "panic", "fatal"}]
  /\ snapshot \in [Server -> Seq(0 .. MaxStarts)]
  /\ applied \in [Server -> Seq(0 .. MaxStarts)]
  /\ snapping \in [Server -> BOOLEAN]

\* At most one server leads in a term, although votes of earlier elections are
\* counted (checkOneLeader of config.go: "term %d has %d (>1) leaders").
ElectionSafety ==
  \A s, p \in Server :
    state[s] = "LEADER" /\ state[p] = "LEADER" /\ currentTerm[s] = currentTerm[p] => s = p

\* A vote given in a term is never given to another server in that term, through
\* crashes too: votesGiven is persisted before the reply leaves.
VoteOnce ==
  [][\A s \in Server, t \in Term :
       votesGiven[s][t] # Nil => votesGiven'[s][t] = votesGiven[s][t]]_vars

\* Does what server s has persisted hold the first n commands of the decided log?
Holds(s, n) ==
  LET d == persisted[s].lastIncludedIndex
  IN  /\ SubSeq(snapshot[s], 1, d) = SubSeq(decided, 1, d)
      /\ \A i \in d + 1 .. n : /\ i - d + 1 \in DOMAIN persisted[s].entries
                               /\ persisted[s].entries[i - d + 1].cmd = decided[i]

\* Every command that some service has applied is persisted by a majority: no
\* crash can lose it.
DecidedOnMajority ==
  Majority(Cardinality({s \in Server : Holds(s, Len(decided))}))

\* The leader of the latest term has every command that a service has applied: the
\* log comparison of RequestVote keeps others from being elected.
LeaderCompleteness ==
  \A s \in Server :
    (state[s] = "LEADER" /\ \A p \in Server : currentTerm[p] <= currentTerm[s]) =>
      /\ LastIndex(s) >= Len(decided)
      /\ \A i \in lastIncludedIndex[s] + 1 .. Len(decided) :
           Slot(s, i - lastIncludedIndex[s]).cmd = decided[i]

\* The indices of a server's entries, and the entry at an index.
Indices(s) == lastIncludedIndex[s] + 1 .. LastIndex(s)
At(s, i) == Slot(s, i - lastIncludedIndex[s])

\* An index and a term identify an entry, whoever has it, and a leader has all that anyone
\* has of its term: entries that are sent again, or of which some are there already, keep
\* their indices, and what another leader's message cuts off is of another term.
EntriesIdentified ==
  \A s, p \in Server : \A i \in Indices(s) :
    /\ i \in Indices(p) /\ At(s, i).term = At(p, i).term => At(s, i) = At(p, i)
    /\ state[p] = "LEADER" /\ At(s, i).term = currentTerm[p] /\ i > lastIncludedIndex[p] =>
         i \in Indices(p) /\ At(p, i) = At(s, i)

\* The commit index of a server goes back only in a restart, in spite of heartbeats
\* that arrive late and of logs that are cut.
CommitMonotonic ==
  [][\A s \in Server : incarnation'[s] = incarnation[s] => commitIndex'[s] >= commitIndex[s]]_vars

\* No index of raft.go is out of the range of its slice: not the next entry to
\* apply, not that of a refused leader.
NoIndexPanic == \A s \in Server : mode[s] # "panic"

\* Services apply the same commands in the same order (checkLogs of config.go:
\* "commit index=%v server=%v %v != server=%v %v"), restarts and snapshots included.
StateMachineSafety == \A s \in Server : applied[s] = SubSeq(decided, 1, Len(applied[s]))

\* The log on disk never begins before the snapshot on disk ends, nor after the log in memory
\* does, whenever a server crashes: a snapshot is written after the raftstate that is trimmed
\* for it, or a restarted service would be offered what its snapshot holds.
SnapshotWithinLog ==
  \A s \in Server : /\ Len(snapshot[s]) <= persisted[s].lastIncludedIndex
                   /\ persisted[s].lastIncludedIndex <= lastIncludedIndex[s]

\* The service receives every command right after the one before or after a
\* snapshot that ends there (applierSnap of config.go: "server %v apply out of
\* order, expected index %v, got %v").
ServiceInOrder == \A s \in Server : mode[s] # "fatal"

\* What the services see is one replicated log.
Service == INSTANCE ReplicatedLog WITH proposed <- starts
ImplementsLog == Service!Init /\ [][Service!Next]_<<starts, decided, applied>>
=============================================================================
