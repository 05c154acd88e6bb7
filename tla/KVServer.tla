------------------------------ MODULE KVServer ------------------------------
(***************************************************************************)
(* The key/value service (src/Distributed Systems/kvraft): the clerks, the *)
(* handlers of KVServer and readApplyChannel, above what Raft promises     *)
(* (module ReplicatedLog).                                                 *)
(*                                                                         *)
(* labrpc answers a call when the handler has returned or the server is    *)
(* gone: a clerk and the handler that runs for it are one thread, pc[c].   *)
(* Critical sections of kv.mu and calls of Raft are one step each.         *)
(***************************************************************************)
EXTENDS Integers, Sequences, FiniteSets

CONSTANTS
  Server, Clerk,
  Key,
  Nil,         \* no command
  MaxCalls,    \* bound on the calls of Get, Put and Append
  MaxStarts,   \* bound on the commands that Raft accepts
  MaxCrashes   \* bound on the servers that are shut down and started again

ASSUME KVAssumption ==
  /\ IsFiniteSet(Server) /\ Server # {}
  /\ MaxCalls \in Nat /\ MaxStarts \in Nat /\ MaxCrashes \in Nat

\* The arguments of an RPC, and the Op that is logged.  A value is the list of the
\* writes it was made by, each named by its CommandId.
Command == [id : 1 .. MaxCalls, type : {"Get", "Put", "Append"}, key : Key]

ASSUME NilAssumption ==
  Nil \notin Command /\ Nil \notin Server /\ Nil \notin [value : Seq(1 .. MaxCalls), saw : Nat]

VARIABLES
  \* Raft, as the servers see it
  started,    \* the commands that a leader has accepted in Start
  decided,    \* the replicated log: indices of started
  applied,    \* what readApplyChannel has received from applyCh
  \* KVServer
  database,   \* <<>> for a key that is not there
  outcomes,
  \* a clerk, and the handler that runs for it
  pc,
  cmd,        \* the command it has called
  leader,     \* the server whose handler runs: servers[leaderId]
  value,      \* reply.Value
  \* history
  issued,     \* commands called so far
  crashes,
  floor,      \* the writes that a call must see at least
  seen,       \* the writes that some returned call saw
  saw         \* the writes that the handler's answer is based on

raftVars == <<started, decided, applied>>
dataVars == <<database, outcomes>>
replyVars == <<value, saw>>
callVars == <<cmd, floor, issued, seen>>
vars == <<raftVars, dataVars, pc, leader, replyVars, callVars, crashes>>

Log == INSTANCE ReplicatedLog WITH proposed <- Len(started)

-----------------------------------------------------------------------------
Init ==
  /\ started = <<>> /\ decided = <<>>
  /\ applied = [s \in Server |-> <<>>]
  /\ database = [s \in Server |-> [k \in Key |-> <<>>]]
  /\ outcomes = [s \in Server |-> [i \in 1 .. MaxCalls |-> "none"]]
  /\ pc = [c \in Clerk |-> "idle"]
  /\ cmd = [c \in Clerk |-> Nil]
  /\ leader = [c \in Clerk |-> Nil]
  /\ value = [c \in Clerk |-> <<>>]
  /\ saw = [c \in Clerk |-> 0]
  /\ issued = 0 /\ crashes = 0 /\ seen = 0
  /\ floor = [c \in Clerk |-> 0]

-----------------------------------------------------------------------------
\* Raft.

\* Mutant of ApplyOnce: a command that was logged twice is executed twice.
ApplyAlways(s, op) == TRUE

\* A command whose outcome is known is skipped.
ApplyOnce(s, op) == outcomes[s][op.id] = "none"

\* The key's value after a command.
After(old, op) ==
  CASE op.type = "Get" -> old
    [] op.type = "Put" -> <<op.id>>
    [] op.type = "Append" -> Append(old, op.id)

\* The writes among the first n commands of the log, each where it is first, and every
\* key's value before the first of them and after each.
Op(n) == started[decided[n]]
Effective(n) == Op(n).type # "Get" /\ \A j \in 1 .. n - 1 : Op(j).id # Op(n).id

Execute(e, op) ==
  [writes |-> Append(e.writes, op),
   stores |-> Append(e.stores, [e.stores[Len(e.stores)] EXCEPT ![op.key] = After(@, op)])]

Effects[n \in 0 .. Len(decided)] ==
  IF n = 0 THEN [writes |-> <<>>, stores |-> <<[k \in Key |-> <<>>]>>]
  ELSE IF Effective(n) THEN Execute(Effects[n - 1], Op(n)) ELSE Effects[n - 1]

\* readApplyChannel receives the next command of the log and executes it.
ReadApplyChannel(s) ==
  /\ UNCHANGED started /\ (Log!Decide(s) \/ Log!Advance(s))
  /\ Len(applied'[s]) = Len(applied[s]) + 1
  /\ LET op == started[applied'[s][Len(applied[s]) + 1]]
         old == database[s][op.key]
     IN  IF ApplyOnce(s, op)
         THEN /\ database' = [database EXCEPT ![s][op.key] = After(old, op)]
              /\ outcomes' = [outcomes EXCEPT ![s][op.id] =
                                IF op.type = "Get" /\ old = <<>> THEN "ErrNoKey" ELSE "OK"]
         ELSE UNCHANGED dataVars
  /\ UNCHANGED <<pc, leader, replyVars, callVars, crashes>>

-----------------------------------------------------------------------------
\* The clerk.

\* Get, Put or Append is called; CommandId is fresh.
Call(c) ==
  /\ pc[c] = "idle" /\ issued < MaxCalls
  /\ issued' = issued + 1
  /\ \E type \in {"Get", "Put", "Append"}, key \in Key :
       cmd' = [cmd EXCEPT ![c] = [id |-> issued', type |-> type, key |-> key]]
  /\ floor' = [floor EXCEPT ![c] = seen]
  /\ pc' = [pc EXCEPT ![c] = "send"]
  /\ UNCHANGED <<raftVars, dataVars, leader, replyVars, seen, crashes>>

\* Mutant of Retry: a clerk that gets no answer goes on with its next command.
NoRetry(cs) ==
  /\ pc' = [c \in Clerk |-> IF c \in cs THEN "idle" ELSE pc[c]]
  /\ leader' = [c \in Clerk |-> IF c \in cs THEN Nil ELSE leader[c]]
  /\ UNCHANGED replyVars

\* The clerks in set cs get no answer, or ErrWrongLeader: they try the next server.
Retry(cs) ==
  /\ pc' = [c \in Clerk |-> IF c \in cs THEN "send" ELSE pc[c]]
  /\ leader' = [c \in Clerk |-> IF c \in cs THEN Nil ELSE leader[c]]
  /\ value' = [c \in Clerk |-> IF c \in cs THEN <<>> ELSE value[c]]
  /\ saw' = [c \in Clerk |-> IF c \in cs THEN 0 ELSE saw[c]]

\* The reply is lost after the handler has returned.
LoseReply(c) ==
  /\ pc[c] = "reply"
  /\ Retry({c})
  /\ UNCHANGED <<raftVars, dataVars, callVars, crashes>>

\* The reply arrives and the call returns.
Return(c) ==
  /\ pc[c] = "reply"
  /\ pc' = [pc EXCEPT ![c] = "idle"]
  /\ leader' = [leader EXCEPT ![c] = Nil]
  /\ cmd' = [cmd EXCEPT ![c] = Nil]
  /\ seen' = IF saw[c] > seen THEN saw[c] ELSE seen
  /\ value' = [value EXCEPT ![c] = <<>>]
  /\ saw' = [saw EXCEPT ![c] = 0]
  /\ floor' = [floor EXCEPT ![c] = 0]
  /\ UNCHANGED <<raftVars, dataVars, issued, crashes>>

-----------------------------------------------------------------------------
\* The handlers Get and PutAppend.  Raft may win or lose an election between any
\* two steps, so that each call of GetState or Start may find a leader or not.
Goto(c, label) == pc' = [pc EXCEPT ![c] = label]

\* A request arrives at a server that says it leads.  Those before may have been
\* lost or refused, each of which makes the clerk go on to the next server and
\* changes nothing else: it may be any server.
GetState(c) ==
  /\ pc[c] = "send"
  /\ \E s \in Server : leader' = [leader EXCEPT ![c] = s]
  /\ Goto(c, IF cmd[c].type = "Get" THEN "start" ELSE "look")
  /\ UNCHANGED <<raftVars, dataVars, replyVars, callVars, crashes>>

\* The writes up to where the log has clerk c's command first.
SawFirst(c) ==
  LET Same(i) == Op(i).id = cmd[c].id
  IN  Len(Effects[CHOOSE i \in DOMAIN decided : Same(i) /\ \A j \in 1 .. i - 1 : ~Same(j)].writes)

\* The outcome that the handler reads under kv.mu.
Outcome(c) == outcomes[leader[c]][cmd[c].id]

\* Mutant of Found: a Get does not wait for its outcome.
FoundAlready(c) == Outcome(c) # "none" \/ cmd[c].type = "Get"

Found(c) == Outcome(c) # "none"

\* The handler has its answer.
Answer(c) ==
  /\ Goto(c, "reply")
  /\ saw' = [saw EXCEPT ![c] = SawFirst(c)]
  /\ UNCHANGED <<leader, value>>

\* PutAppend answers a command at once that has been executed here.
LookUp(c) ==
  /\ pc[c] = "look"
  /\ IF Found(c) THEN Answer(c) ELSE Goto(c, "start") /\ UNCHANGED <<leader, replyVars>>
  /\ UNCHANGED <<raftVars, dataVars, callVars, crashes>>

\* rf.Start, whose results are ignored: a server that does not lead any more does
\* not log the command.
Start(c) ==
  /\ pc[c] = "start"
  /\ \/ Len(started) < MaxStarts /\ started' = Append(started, cmd[c])
     \/ UNCHANGED started
  /\ Goto(c, "poll")
  /\ UNCHANGED <<decided, applied, dataVars, leader, replyVars, callVars, crashes>>

\* A round of the loop, which is repeated every 10 ms: the outcome is there, and the
\* server still leads.  A round that finds no outcome changes nothing.
Poll(c) ==
  /\ pc[c] = "poll" /\ Found(c)
  /\ IF cmd[c].type = "Get" /\ Outcome(c) # "ErrNoKey"
     THEN Goto(c, "read") /\ UNCHANGED <<leader, replyVars>>
     ELSE Answer(c)
  /\ UNCHANGED <<raftVars, dataVars, callVars, crashes>>

\* A round in which it does not lead any more: ErrWrongLeader.
WrongLeader(c) ==
  /\ pc[c] = "poll"
  /\ Retry({c})
  /\ UNCHANGED <<raftVars, dataVars, callVars, crashes>>

\* Get reads the database, which may have gone on since the command was executed.
ReadValue(c) ==
  /\ pc[c] = "read"
  /\ value' = [value EXCEPT ![c] = database[leader[c]][cmd[c].key]]
  /\ saw' = [saw EXCEPT ![c] = Len(Effects[Len(applied[leader[c]])].writes)]
  /\ Goto(c, "reply")
  /\ UNCHANGED <<raftVars, dataVars, leader, callVars, crashes>>

-----------------------------------------------------------------------------
\* ShutdownServer and StartServer: Raft delivers its log again to a KVServer that
\* has nothing, and clerks that wait for the old one get no answer.
Crash(s) ==
  /\ crashes < MaxCrashes
  /\ crashes' = crashes + 1
  /\ UNCHANGED started /\ Log!Restart(s) /\ applied'[s] = <<>>
  /\ database' = [database EXCEPT ![s] = [k \in Key |-> <<>>]]
  /\ outcomes' = [outcomes EXCEPT ![s] = [i \in 1 .. MaxCalls |-> "none"]]
  /\ Retry({c \in Clerk : leader[c] = s})
  /\ UNCHANGED callVars

HandlerStep(c) ==
  GetState(c) \/ LookUp(c) \/ Start(c) \/ Poll(c) \/ WrongLeader(c) \/ ReadValue(c)

ClerkStep(c) == Call(c) \/ HandlerStep(c) \/ LoseReply(c) \/ Return(c)

Next ==
  \/ \E c \in Clerk : ClerkStep(c)
  \/ \E s \in Server : ReadApplyChannel(s) \/ Crash(s)

Spec == Init /\ [][Next]_vars

-----------------------------------------------------------------------------
RaftTypeOK ==
  /\ started \in Seq(Command)
  /\ decided \in Seq(1 .. Len(started))
  /\ applied \in [Server -> Seq(1 .. Len(started))]

DataTypeOK ==
  /\ database \in [Server -> [Key -> Seq(1 .. MaxCalls)]]
  /\ outcomes \in [Server -> [1 .. MaxCalls -> {"none", "OK", "ErrNoKey"}]]

ClerkTypeOK ==
  /\ pc \in [Clerk -> {"idle", "send", "look", "start", "poll", "read", "reply"}]
  /\ cmd \in [Clerk -> Command \cup {Nil}]
  /\ \A c \in Clerk : cmd[c] = Nil <=> pc[c] = "idle"
  /\ \A c \in Clerk : leader[c] = Nil <=> pc[c] \in {"idle", "send"}
  /\ leader \in [Clerk -> Server \cup {Nil}]
  /\ value \in [Clerk -> Seq(1 .. MaxCalls)]
  /\ issued \in 0 .. MaxCalls

\* Commands are whole wherever they are; a clerk has a command exactly while it is
\* in a call, and a server exactly while a handler runs for it.
TypeOK == RaftTypeOK /\ DataTypeOK /\ ClerkTypeOK

\* No write is twice in a value, although clerks send it again to other servers and
\* each of them may log it ("duplicate element %v in Append result", test_test.go).
AppendedOnce ==
  \A s \in Server, k \in Key : \A i, j \in DOMAIN database[s][k] :
    database[s][k][i] = database[s][k][j] => i = j

\* All the servers that have executed a command have the same outcome for it,
\* whichever of its log entries they executed and however often they restarted.
OutcomesAgree ==
  \A s, p \in Server, i \in 1 .. MaxCalls :
    outcomes[s][i] # "none" /\ outcomes[p][i] # "none" => outcomes[s][i] = outcomes[p][i]

\* No call is answered before its command is in the log of Raft: neither a change of
\* leaders nor a crash undoes what a clerk was told.
AnswersLogged ==
  \A c \in Clerk : pc[c] \in {"read", "reply"} =>
    \E i \in DOMAIN decided : started[decided[i]] = cmd[c]

\* To its clerks the service is a linearizable store: what the porcupine checks of
\* test_test.go try on histories.
Replies ==
  [c \in Clerk |-> IF pc[c] = "reply" THEN [value |-> value[c], saw |-> saw[c]] ELSE Nil]

Store == INSTANCE KVStore WITH
  calls <- cmd,
  writes <- Effects[Len(decided)].writes,
  stores <- Effects[Len(decided)].stores,
  replies <- Replies
ImplementsStore == Store!Spec
=============================================================================
