--------------------------- MODULE KVServerProofs ---------------------------
(***************************************************************************)
(* Theorems about the key/value service, for any number of servers, clerks *)
(* and calls: every write is in a value at most once, no call is answered  *)
(* before its command is in the log, and servers at one place of the log   *)
(* hold the same values and outcomes.                                      *)
(***************************************************************************)
EXTENDS KVServer, SequenceTheorems, TLAPS

-----------------------------------------------------------------------------
\* The inductive invariant.

\* CommandIds are unique: two commands with the same one are the same call.
IdsUnique ==
  /\ \A n \in DOMAIN started : started[n].id <= issued
  /\ \A c \in Clerk : cmd[c] # Nil => cmd[c].id <= issued
  /\ \A c, d \in Clerk : cmd[c] # Nil /\ cmd[d] # Nil /\ cmd[c].id = cmd[d].id => c = d
  /\ \A c \in Clerk, n \in DOMAIN started :
       cmd[c] # Nil /\ started[n].id = cmd[c].id => started[n] = cmd[c]

\* A server has an outcome for every write that is in one of its values.
WritesKnown ==
  \A s \in Server, k \in Key : \A i \in DOMAIN database[s][k] :
    outcomes[s][database[s][k][i]] # "none"

Logged(i) == \E n \in DOMAIN decided : started[decided[n]].id = i

\* A command that has an outcome is in the log.
OutcomesLogged ==
  \A s \in Server, i \in 1 .. MaxCalls : outcomes[s][i] # "none" => Logged(i)

IInv ==
  /\ TypeOK /\ IdsUnique /\ WritesKnown /\ OutcomesLogged
  /\ AppendedOnce /\ AnswersLogged

-----------------------------------------------------------------------------
\* The initial states satisfy the invariant.
LEMMA InitInvariant == Init => IInv
  <1> SUFFICES ASSUME Init PROVE IInv
    OBVIOUS
  <1> USE KVAssumption, NilAssumption DEF Init
  <1>1. TypeOK
    BY DEF TypeOK, RaftTypeOK, DataTypeOK, ClerkTypeOK
  <1>2. IdsUnique
    BY DEF IdsUnique
  <1>3. WritesKnown /\ OutcomesLogged
    BY DEF WritesKnown, OutcomesLogged
  <1>4. AppendedOnce /\ AnswersLogged
    BY DEF AppendedOnce, AnswersLogged
  <1>5. QED
    BY <1>1, <1>2, <1>3, <1>4 DEF IInv

\* The members of a sequence.
LEMMA MembersOfSeq ==
  ASSUME NEW S, NEW q \in Seq(S)
  PROVE  \A i \in DOMAIN q : q[i] \in S
  <1>1. DOMAIN q = 1 .. Len(q)
    OBVIOUS
  <1>2. QED
    BY <1>1

\* What a server executes is a command of the log.
LEMMA AppliedIsDecided ==
  ASSUME IInv, NEW s \in Server, ReadApplyChannel(s)
  PROVE  /\ decided' \in Seq(1 .. Len(started))
         /\ applied' \in [Server -> Seq(1 .. Len(started))]
         /\ Len(decided') >= Len(decided)
         /\ \A n \in DOMAIN decided : n \in DOMAIN decided' /\ decided'[n] = decided[n]
         /\ \E n \in DOMAIN decided' : applied'[s][Len(applied[s]) + 1] = decided'[n]
  <1> USE DEF IInv, TypeOK, RaftTypeOK
  <1>1. CASE Log!Decide(s)
    <2>1. PICK n \in 1 .. Len(started) : decided' = Append(decided, n)
      BY <1>1 DEF Log!Decide
    <2>2. applied' = [applied EXCEPT ![s] = decided'] /\ applied[s] = decided
      BY <1>1 DEF Log!Decide
    <2>3. decided' \in Seq(1 .. Len(started)) /\ Len(decided') = Len(decided) + 1
      BY <2>1
    <2>4. \A m \in DOMAIN decided : m \in DOMAIN decided' /\ decided'[m] = decided[m]
      BY <2>1
    <2>5. Len(decided') \in DOMAIN decided' /\ Len(applied[s]) + 1 = Len(decided')
      BY <2>2, <2>3
    <2>6. applied' \in [Server -> Seq(1 .. Len(started))] /\ applied'[s] = decided'
      BY <2>2, <2>3
    <2>7. Len(decided') >= Len(decided)
      BY <2>3
    <2>8. QED
      BY <2>3, <2>4, <2>5, <2>6, <2>7
  <1>2. CASE Log!Advance(s)
    <2>1. decided' = decided
      BY <1>2 DEF Log!Advance
    <2>2. PICK n \in Len(applied[s]) + 1 .. Len(decided) :
            applied' = [applied EXCEPT ![s] = SubSeq(decided, 1, n)]
      BY <1>2 DEF Log!Advance
    <2>3. n \in Nat /\ n <= Len(decided) /\ n >= Len(applied[s]) + 1 /\ Len(applied[s]) \in Nat
      BY <2>2
    <2>4. SubSeq(decided, 1, n) \in Seq(1 .. Len(started))
      BY <2>3
    <2>5. applied'[s][Len(applied[s]) + 1] = decided[Len(applied[s]) + 1]
      BY <2>2, <2>3, <2>4
    <2>6. QED
      BY <2>1, <2>2, <2>3, <2>4, <2>5
  <1>3. QED
    BY <1>1, <1>2 DEF ReadApplyChannel

\* readApplyChannel keeps the invariant: a write enters a value together with its
\* outcome, and only if it had none.
LEMMA ReadApplyChannelInvariant ==
  ASSUME IInv, NEW s \in Server, ReadApplyChannel(s)
  PROVE  IInv'
  <1>0. started' = started /\ UNCHANGED <<pc, leader, replyVars, callVars, crashes>>
    BY DEF ReadApplyChannel
  <1>0a. /\ decided' \in Seq(1 .. Len(started))
         /\ \E m \in DOMAIN decided' : applied'[s][Len(applied[s]) + 1] = decided'[m]
    BY AppliedIsDecided
  <1>1. PICK n \in 1 .. Len(started) :
          /\ \E m \in DOMAIN decided' : n = decided'[m]
          /\ applied'[s][Len(applied[s]) + 1] = n
    BY <1>0a
  <1>2. PICK op \in Command : op = started[n]
    BY DEF IInv, TypeOK, RaftTypeOK
  <1>3. op.id \in 1 .. MaxCalls /\ op.key \in Key /\ op.type \in {"Get", "Put", "Append"}
    BY DEF Command
  <1>4. PICK old \in Seq(1 .. MaxCalls) : old = database[s][op.key]
    BY <1>3 DEF IInv, TypeOK, DataTypeOK
  <1>4a. After(old, op) \in Seq(1 .. MaxCalls)
    <2>1. CASE op.type = "Get"
      BY <2>1 DEF After
    <2>2. CASE op.type = "Put"
      BY <1>3, <2>2 DEF After
    <2>3. CASE op.type = "Append"
      BY <1>3, <2>3 DEF After
    <2>4. QED
      BY <1>3, <2>1, <2>2, <2>3
  <1>5. PICK new \in Seq(1 .. MaxCalls) : new = After(old, op)
    BY <1>4a
  <1> DEFINE changed(o) == /\ outcomes[s][op.id] = "none"
                           /\ database' = [database EXCEPT ![s][op.key] = new]
                           /\ outcomes' = [outcomes EXCEPT ![s][op.id] = o]
  <1>5a. UNCHANGED dataVars \/ \E o \in {"OK", "ErrNoKey"} : changed(o)
    BY <1>1, <1>2, <1>4, <1>5 DEF ReadApplyChannel, ApplyOnce
  <1>6. RaftTypeOK'
    BY <1>0, AppliedIsDecided DEF IInv, TypeOK, RaftTypeOK
  <1>7. DataTypeOK'
    <2>1. CASE UNCHANGED dataVars
      BY <2>1 DEF IInv, TypeOK, DataTypeOK, dataVars
    <2>2. ASSUME NEW o \in {"OK", "ErrNoKey"}, changed(o) PROVE DataTypeOK'
      BY <1>3, <2>2 DEF IInv, TypeOK, DataTypeOK
    <2>3. QED
      BY <1>5a, <2>1, <2>2
  <1>8. ClerkTypeOK'
    BY <1>0 DEF IInv, TypeOK, ClerkTypeOK, replyVars, callVars
  <1>9. IdsUnique'
    BY <1>0 DEF IInv, IdsUnique, callVars
  <1>10. \A i \in 1 .. MaxCalls : Logged(i) => Logged(i)'
    BY <1>0, AppliedIsDecided DEF Logged
  <1>11. Logged(op.id)'
    BY <1>0, <1>1, <1>2 DEF Logged
  <1>12. AnswersLogged'
    BY <1>0, AppliedIsDecided DEF IInv, AnswersLogged, callVars
  <1>13. CASE UNCHANGED dataVars
    <2>1. UNCHANGED <<database, outcomes>>
      BY <1>13 DEF dataVars
    <2>2. WritesKnown' /\ AppendedOnce'
      BY <2>1 DEF IInv, WritesKnown, AppendedOnce
    <2>3. OutcomesLogged'
      BY <1>10, <2>1 DEF IInv, OutcomesLogged
    <2>4. QED
      BY <1>6, <1>7, <1>8, <1>9, <1>12, <2>2, <2>3 DEF IInv, TypeOK
  <1>14. ASSUME NEW o \in {"OK", "ErrNoKey"}, changed(o) PROVE IInv'
    <2>1. /\ outcomes'[s][op.id] # "none"
          /\ \A p \in Server, i \in 1 .. MaxCalls :
               p # s \/ i # op.id => outcomes'[p][i] = outcomes[p][i]
      BY <1>3, <1>14 DEF IInv, TypeOK, DataTypeOK
    <2>2. /\ database'[s][op.key] = new
          /\ \A p \in Server, k \in Key :
               p # s \/ k # op.key => database'[p][k] = database[p][k]
      BY <1>3, <1>14 DEF IInv, TypeOK, DataTypeOK
    <2>3. \A i \in DOMAIN old : old[i] \in 1 .. MaxCalls /\ old[i] # op.id
      <3>1. \A i \in DOMAIN old : old[i] \in 1 .. MaxCalls
        BY MembersOfSeq
      <3>2. \A i \in DOMAIN old : outcomes[s][old[i]] # "none"
        BY <1>3, <1>4 DEF IInv, WritesKnown
      <3>3. QED
        BY <1>14, <3>1, <3>2
    <2>4. \A i \in DOMAIN new : \/ new[i] = op.id
                                \/ i \in DOMAIN old /\ new[i] = old[i]
      BY <1>3, <1>5 DEF After
    <2>5. \A i, j \in DOMAIN old : old[i] = old[j] => i = j
      BY <1>3, <1>4 DEF IInv, AppendedOnce
    <2>6. \A i, j \in DOMAIN new : new[i] = new[j] => i = j
      <3>1. CASE op.type = "Get"
        BY <1>5, <2>5, <3>1 DEF After
      <3>2. CASE op.type = "Put"
        BY <1>5, <3>2 DEF After
      <3>3. CASE op.type = "Append"
        BY <1>3, <1>5, <2>3, <2>5, <3>3 DEF After
      <3>4. QED
        BY <1>3, <3>1, <3>2, <3>3
    <2>7. WritesKnown'
      <3> SUFFICES ASSUME NEW p \in Server, NEW k \in Key, NEW i \in DOMAIN database'[p][k]
                   PROVE  outcomes'[p][database'[p][k][i]] # "none"
        BY DEF WritesKnown
      <3>1. database'[p][k][i] \in 1 .. MaxCalls
        <4>1. PICK v \in Seq(1 .. MaxCalls) : v = database'[p][k]
          BY <1>7 DEF DataTypeOK
        <4>2. QED
          BY <4>1, MembersOfSeq
      <3>2. CASE p # s \/ k # op.key
        BY <2>1, <2>2, <3>1, <3>2 DEF IInv, WritesKnown
      <3>3. CASE p = s /\ k = op.key
        <4>1. database'[p][k][i] = new[i] /\ i \in DOMAIN new
          BY <2>2, <3>3
        <4>2. CASE new[i] = op.id
          BY <2>1, <3>3, <4>1, <4>2
        <4>3. CASE new[i] # op.id
          BY <1>4, <2>1, <2>4, <3>1, <3>3, <4>1, <4>3 DEF IInv, WritesKnown
        <4>4. QED
          BY <4>2, <4>3
      <3>4. QED
        BY <3>2, <3>3
    <2>8. OutcomesLogged'
      <3> SUFFICES ASSUME NEW p \in Server, NEW i \in 1 .. MaxCalls, outcomes'[p][i] # "none"
                   PROVE  Logged(i)'
        BY DEF OutcomesLogged
      <3>1. QED
        BY <1>10, <1>11, <2>1 DEF IInv, OutcomesLogged
    <2>9. AppendedOnce'
      BY <2>2, <2>6 DEF IInv, AppendedOnce
    <2>10. QED
      BY <1>6, <1>7, <1>8, <1>9, <1>12, <2>7, <2>8, <2>9 DEF IInv, TypeOK
  <1>15. QED
    BY <1>5a, <1>13, <1>14

-----------------------------------------------------------------------------
\* The steps that leave the servers' data alone.

\* They keep what is said of that data.
LEMMA DataKept ==
  ASSUME IInv, UNCHANGED dataVars, UNCHANGED decided, issued' \in 0 .. MaxCalls,
         started' \in Seq(Command), Len(started') >= Len(started),
         \A n \in DOMAIN started : n \in DOMAIN started' /\ started'[n] = started[n],
         UNCHANGED applied
  PROVE  /\ RaftTypeOK' /\ DataTypeOK' /\ WritesKnown' /\ OutcomesLogged' /\ AppendedOnce'
         /\ \A n \in DOMAIN decided : started'[decided[n]] = started[decided[n]]
  <1>1. database' = database /\ outcomes' = outcomes
    BY DEF dataVars
  <1>2. DataTypeOK' /\ WritesKnown' /\ AppendedOnce'
    BY <1>1 DEF IInv, TypeOK, DataTypeOK, WritesKnown, AppendedOnce
  <1>3. 1 .. Len(started) \subseteq 1 .. Len(started')
    BY DEF IInv, TypeOK, RaftTypeOK
  <1>4. decided \in Seq(1 .. Len(started')) /\ applied \in [Server -> Seq(1 .. Len(started'))]
    BY <1>3, SeqMonotonic DEF IInv, TypeOK, RaftTypeOK
  <1>5. RaftTypeOK'
    BY <1>4 DEF RaftTypeOK
  <1>6. \A n \in DOMAIN decided : decided[n] \in DOMAIN started
    <2>1. \A n \in DOMAIN decided : decided[n] \in 1 .. Len(started)
      BY MembersOfSeq DEF IInv, TypeOK, RaftTypeOK
    <2>2. QED
      BY <2>1 DEF IInv, TypeOK, RaftTypeOK
  <1>7. \A n \in DOMAIN decided : started'[decided[n]] = started[decided[n]]
    BY <1>6
  <1>8. OutcomesLogged'
    BY <1>1, <1>7 DEF IInv, OutcomesLogged, Logged
  <1>9. QED
    BY <1>2, <1>5, <1>7, <1>8

\* A step that only moves clerks and handlers on keeps the invariant, if a handler
\* that gets its answer has found an outcome.
LEMMA HandlerInvariant ==
  ASSUME IInv, UNCHANGED <<raftVars, dataVars, callVars>>, ClerkTypeOK',
         \A c \in Clerk : pc'[c] \in {"read", "reply"} =>
           \/ pc[c] \in {"read", "reply"}
           \/ pc[c] \in {"look", "poll"} /\ Found(c)
  PROVE  IInv'
  <1>1. /\ UNCHANGED <<started, decided, applied>> /\ UNCHANGED dataVars
        /\ UNCHANGED <<cmd, issued>>
    BY DEF raftVars, callVars
  <1>2. RaftTypeOK' /\ DataTypeOK' /\ WritesKnown' /\ OutcomesLogged' /\ AppendedOnce'
    <2>1. issued' \in 0 .. MaxCalls /\ started' \in Seq(Command) /\ Len(started') >= Len(started)
      BY <1>1 DEF IInv, TypeOK, RaftTypeOK, ClerkTypeOK
    <2>2. QED
      BY <1>1, <2>1, DataKept
  <1>3. IdsUnique'
    BY <1>1 DEF IInv, IdsUnique
  <1>4. AnswersLogged'
    <2> SUFFICES ASSUME NEW c \in Clerk, pc'[c] \in {"read", "reply"}
                 PROVE  \E i \in DOMAIN decided : started[decided[i]] = cmd[c]
      BY <1>1 DEF AnswersLogged
    <2>1. CASE pc[c] \in {"read", "reply"}
      BY <2>1 DEF IInv, AnswersLogged
    <2>2. CASE pc[c] \in {"look", "poll"} /\ Found(c)
      <3>1. cmd[c] \in Command /\ leader[c] \in Server
        BY <2>2 DEF IInv, TypeOK, ClerkTypeOK
      <3>2. cmd[c].id \in 1 .. MaxCalls /\ cmd[c] # Nil
        BY <3>1, NilAssumption DEF Command
      <3>3. PICK i \in DOMAIN decided : started[decided[i]].id = cmd[c].id
        BY <2>2, <3>1, <3>2 DEF IInv, OutcomesLogged, Logged, Found, Outcome
      <3>4. decided[i] \in DOMAIN started
        <4>1. decided[i] \in 1 .. Len(started)
          BY MembersOfSeq DEF IInv, TypeOK, RaftTypeOK
        <4>2. QED
          BY <4>1 DEF IInv, TypeOK, RaftTypeOK
      <3>5. QED
        BY <3>2, <3>3, <3>4 DEF IInv, IdsUnique
    <2>3. QED
      BY <2>1, <2>2
  <1>5. QED
    BY <1>2, <1>3, <1>4 DEF IInv, TypeOK

LEMMA GetStateInvariant ==
  ASSUME IInv, NEW c \in Clerk, GetState(c)
  PROVE  IInv'
  <1>1. ClerkTypeOK'
    BY NilAssumption
    DEF IInv, TypeOK, ClerkTypeOK, GetState, Goto, replyVars, callVars
  <1>2. \A d \in Clerk : pc'[d] \in {"read", "reply"} => pc[d] \in {"read", "reply"}
    BY DEF IInv, TypeOK, ClerkTypeOK, GetState, Goto
  <1>3. QED
    BY <1>1, <1>2, HandlerInvariant DEF GetState

LEMMA LookUpInvariant ==
  ASSUME IInv, NEW c \in Clerk, LookUp(c)
  PROVE  IInv'
  <1>1. ClerkTypeOK'
    BY NilAssumption
    DEF IInv, TypeOK, ClerkTypeOK, LookUp, Answer, Goto, replyVars, callVars
  <1>2. \A d \in Clerk : pc'[d] \in {"read", "reply"} =>
          pc[d] \in {"read", "reply"} \/ (pc[d] = "look" /\ Found(d))
    BY DEF IInv, TypeOK, ClerkTypeOK, LookUp, Answer, Goto
  <1>3. QED
    BY <1>1, <1>2, HandlerInvariant DEF LookUp

LEMMA PollInvariant ==
  ASSUME IInv, NEW c \in Clerk, Poll(c)
  PROVE  IInv'
  <1>1. ClerkTypeOK'
    BY NilAssumption
    DEF IInv, TypeOK, ClerkTypeOK, Poll, Answer, Goto, replyVars, callVars
  <1>2. \A d \in Clerk : pc'[d] \in {"read", "reply"} =>
          pc[d] \in {"read", "reply"} \/ (pc[d] = "poll" /\ Found(d))
    BY DEF IInv, TypeOK, ClerkTypeOK, Poll, Answer, Goto
  <1>3. QED
    BY <1>1, <1>2, HandlerInvariant DEF Poll

LEMMA ReadValueInvariant ==
  ASSUME IInv, NEW c \in Clerk, ReadValue(c)
  PROVE  IInv'
  <1>1. leader[c] \in Server /\ cmd[c] \in Command
    BY DEF IInv, TypeOK, ClerkTypeOK, ReadValue
  <1>2. database[leader[c]][cmd[c].key] \in Seq(1 .. MaxCalls)
    BY <1>1 DEF IInv, TypeOK, DataTypeOK, Command
  <1>3. ClerkTypeOK'
    BY <1>2, NilAssumption
    DEF IInv, TypeOK, ClerkTypeOK, ReadValue, Goto, callVars
  <1>4. \A d \in Clerk : pc'[d] \in {"read", "reply"} => pc[d] \in {"read", "reply"}
    BY DEF IInv, TypeOK, ClerkTypeOK, ReadValue, Goto
  <1>5. QED
    BY <1>3, <1>4, HandlerInvariant DEF ReadValue

\* Clerks that have called a command and go on to the next server.
LEMMA RetryTypes ==
  ASSUME IInv, NEW cs \in SUBSET Clerk, Retry(cs), UNCHANGED callVars,
         \A c \in cs : pc[c] # "idle"
  PROVE  /\ ClerkTypeOK'
         /\ \A c \in Clerk : pc'[c] \in {"read", "reply"} => pc[c] \in {"read", "reply"}
  <1>1. ClerkTypeOK'
    <2>1. /\ UNCHANGED <<cmd, issued>>
          /\ pc' = [c \in Clerk |-> IF c \in cs THEN "send" ELSE pc[c]]
          /\ leader' = [c \in Clerk |-> IF c \in cs THEN Nil ELSE leader[c]]
          /\ value' = [c \in Clerk |-> IF c \in cs THEN <<>> ELSE value[c]]
      BY DEF Retry, callVars
    <2>2. /\ pc' \in [Clerk -> {"idle", "send", "look", "start", "poll", "read", "reply"}]
          /\ leader' \in [Clerk -> Server \cup {Nil}]
      BY <2>1 DEF IInv, TypeOK, ClerkTypeOK
    <2>2a. value' \in [Clerk -> Seq(1 .. MaxCalls)]
      <3>1. <<>> \in Seq(1 .. MaxCalls)
        OBVIOUS
      <3>2. \A c \in Clerk : value[c] \in Seq(1 .. MaxCalls)
        BY DEF IInv, TypeOK, ClerkTypeOK
      <3>3. QED
        BY <2>1, <3>1, <3>2
    <2>3. \A c \in Clerk : /\ cmd'[c] = Nil <=> pc'[c] = "idle"
                          /\ leader'[c] = Nil <=> pc'[c] \in {"idle", "send"}
      BY <2>1 DEF IInv, TypeOK, ClerkTypeOK
    <2>4. QED
      BY <2>1, <2>2, <2>2a, <2>3 DEF IInv, TypeOK, ClerkTypeOK
  <1>2. \A c \in Clerk : pc'[c] \in {"read", "reply"} => pc[c] \in {"read", "reply"}
    BY DEF Retry
  <1>3. QED
    BY <1>1, <1>2

LEMMA RetryInvariant ==
  ASSUME IInv, NEW c \in Clerk, WrongLeader(c) \/ LoseReply(c)
  PROVE  IInv'
  <1>1. /\ Retry({c}) /\ pc[c] # "idle"
        /\ UNCHANGED <<raftVars, dataVars, callVars>>
    BY DEF WrongLeader, LoseReply
  <1>2. {c} \in SUBSET Clerk /\ \A d \in {c} : pc[d] # "idle"
    BY <1>1
  <1>3. /\ ClerkTypeOK'
        /\ \A d \in Clerk : pc'[d] \in {"read", "reply"} => pc[d] \in {"read", "reply"}
    BY <1>1, <1>2, RetryTypes
  <1>4. QED
    BY <1>1, <1>3, HandlerInvariant

-----------------------------------------------------------------------------
\* The other steps.

LEMMA CallInvariant ==
  ASSUME IInv, NEW c \in Clerk, Call(c)
  PROVE  IInv'
  <1>1. PICK new \in Command : new.id = issued + 1 /\ cmd' = [cmd EXCEPT ![c] = new]
    <2>1. PICK type \in {"Get", "Put", "Append"}, key \in Key :
            cmd' = [cmd EXCEPT ![c] = [id |-> issued + 1, type |-> type, key |-> key]]
      BY DEF Call
    <2>2. [id |-> issued + 1, type |-> type, key |-> key] \in Command
      BY KVAssumption DEF Call, IInv, TypeOK, ClerkTypeOK, Command
    <2>3. QED
      BY <2>1, <2>2
  <1>2. /\ issued' = issued + 1 /\ issued' \in 0 .. MaxCalls /\ issued \in Nat
        /\ UNCHANGED <<started, decided, applied>> /\ UNCHANGED dataVars
        /\ pc' = [pc EXCEPT ![c] = "send"] /\ UNCHANGED <<leader, value>> /\ pc[c] = "idle"
    BY KVAssumption DEF Call, IInv, TypeOK, ClerkTypeOK, raftVars, replyVars
  <1>3. RaftTypeOK' /\ DataTypeOK' /\ WritesKnown' /\ OutcomesLogged' /\ AppendedOnce'
    <2>1. started' \in Seq(Command) /\ Len(started') >= Len(started)
      BY <1>2 DEF IInv, TypeOK, RaftTypeOK
    <2>2. QED
      BY <1>2, <2>1, DataKept
  <1>4. ClerkTypeOK'
    BY <1>1, <1>2, NilAssumption DEF IInv, TypeOK, ClerkTypeOK
  <1>5. cmd'[c] = new /\ \A d \in Clerk : d # c => cmd'[d] = cmd[d]
    BY <1>1 DEF IInv, TypeOK, ClerkTypeOK
  <1>6. IdsUnique'
    <2>1. \A n \in DOMAIN started : started[n].id <= issued /\ started[n].id \in Int
      <3>1. \A n \in DOMAIN started : started[n] \in Command
        BY MembersOfSeq DEF IInv, TypeOK, RaftTypeOK
      <3>2. QED
        BY <3>1 DEF IInv, IdsUnique, Command
    <2>2. \A d \in Clerk : d # c /\ cmd'[d] # Nil => cmd'[d].id <= issued /\ cmd'[d].id \in Int
      <3>1. \A d \in Clerk : cmd[d] # Nil => cmd[d].id \in 1 .. MaxCalls
        BY DEF IInv, TypeOK, ClerkTypeOK, Command
      <3>2. QED
        BY <1>5, <3>1, KVAssumption DEF IInv, IdsUnique
    <2>3. (\A n \in DOMAIN started : started[n].id <= issued)'
      BY <1>2, <2>1
    <2>4. (\A d \in Clerk : cmd[d] # Nil => cmd[d].id <= issued)'
      BY <1>1, <1>2, <1>5, <2>2
    <2>5. (\A d, e \in Clerk : cmd[d] # Nil /\ cmd[e] # Nil /\ cmd[d].id = cmd[e].id => d = e)'
      BY <1>1, <1>2, <1>5, <2>2 DEF IInv, IdsUnique
    <2>6. (\A d \in Clerk, n \in DOMAIN started :
             cmd[d] # Nil /\ started[n].id = cmd[d].id => started[n] = cmd[d])'
      BY <1>1, <1>2, <1>5, <2>1 DEF IInv, IdsUnique
    <2>7. QED
      BY <2>3, <2>4, <2>5, <2>6 DEF IdsUnique
  <1>7. AnswersLogged'
    <2>1. \A d \in Clerk : pc'[d] \in {"read", "reply"} => d # c /\ pc[d] \in {"read", "reply"}
      BY <1>2 DEF IInv, TypeOK, ClerkTypeOK
    <2>2. QED
      BY <1>2, <1>5, <2>1 DEF IInv, AnswersLogged
  <1>8. QED
    BY <1>3, <1>4, <1>6, <1>7 DEF IInv, TypeOK

LEMMA StartInvariant ==
  ASSUME IInv, NEW c \in Clerk, Start(c)
  PROVE  IInv'
  <1>1. cmd[c] \in Command /\ cmd[c] # Nil
    BY NilAssumption DEF IInv, TypeOK, ClerkTypeOK, Start
  <1>2. /\ started' = started \/ started' = Append(started, cmd[c])
        /\ UNCHANGED <<decided, applied, cmd, issued, leader, value>> /\ UNCHANGED dataVars
        /\ pc' = [pc EXCEPT ![c] = "poll"] /\ pc[c] = "start"
    BY DEF Start, Goto, replyVars, callVars
  <1>3. /\ started' \in Seq(Command) /\ Len(started') >= Len(started)
        /\ \A n \in DOMAIN started : n \in DOMAIN started' /\ started'[n] = started[n]
        /\ \A n \in DOMAIN started' : n \in DOMAIN started \/ started'[n] = cmd[c]
    <2>1. started \in Seq(Command)
      BY DEF IInv, TypeOK, RaftTypeOK
    <2>2. CASE started' = started
      BY <2>1, <2>2
    <2>3. CASE started' = Append(started, cmd[c])
      BY <1>1, <2>1, <2>3
    <2>4. QED
      BY <1>2, <2>2, <2>3
  <1>4. issued' \in 0 .. MaxCalls
    BY <1>2 DEF IInv, TypeOK, ClerkTypeOK
  <1>5. /\ RaftTypeOK' /\ DataTypeOK' /\ WritesKnown' /\ OutcomesLogged' /\ AppendedOnce'
        /\ \A n \in DOMAIN decided : started'[decided[n]] = started[decided[n]]
    BY <1>2, <1>3, <1>4, DataKept
  <1>6. ClerkTypeOK'
    BY <1>2 DEF IInv, TypeOK, ClerkTypeOK
  <1>7. IdsUnique'
    BY <1>1, <1>2, <1>3 DEF IInv, IdsUnique
  <1>8. AnswersLogged'
    <2>1. \A d \in Clerk : pc'[d] \in {"read", "reply"} => pc[d] \in {"read", "reply"}
      BY <1>2 DEF IInv, TypeOK, ClerkTypeOK
    <2>2. QED
      BY <1>2, <1>5, <2>1 DEF IInv, AnswersLogged
  <1>9. QED
    BY <1>5, <1>6, <1>7, <1>8 DEF IInv, TypeOK

LEMMA ReturnInvariant ==
  ASSUME IInv, NEW c \in Clerk, Return(c)
  PROVE  IInv'
  <1>1. /\ UNCHANGED <<started, decided, applied, issued>> /\ UNCHANGED dataVars
        /\ cmd' = [cmd EXCEPT ![c] = Nil] /\ pc' = [pc EXCEPT ![c] = "idle"]
        /\ leader' = [leader EXCEPT ![c] = Nil] /\ value' = [value EXCEPT ![c] = <<>>]
    BY DEF Return, raftVars
  <1>2. RaftTypeOK' /\ DataTypeOK' /\ WritesKnown' /\ OutcomesLogged' /\ AppendedOnce'
    <2>1. /\ issued' \in 0 .. MaxCalls /\ started' \in Seq(Command)
          /\ Len(started') >= Len(started)
      BY <1>1 DEF IInv, TypeOK, RaftTypeOK, ClerkTypeOK
    <2>2. QED
      BY <1>1, <2>1, DataKept
  <1>3. ClerkTypeOK'
    BY <1>1 DEF IInv, TypeOK, ClerkTypeOK
  <1>4. cmd'[c] = Nil /\ \A d \in Clerk : d # c => cmd'[d] = cmd[d]
    BY <1>1 DEF IInv, TypeOK, ClerkTypeOK
  <1>5. IdsUnique'
    BY <1>1, <1>4 DEF IInv, IdsUnique
  <1>6. AnswersLogged'
    BY <1>1, <1>4 DEF IInv, TypeOK, ClerkTypeOK, AnswersLogged
  <1>7. QED
    BY <1>2, <1>3, <1>5, <1>6 DEF IInv, TypeOK

\* A server that starts again has no outcomes and no values.
LEMMA CrashInvariant ==
  ASSUME IInv, NEW s \in Server, Crash(s)
  PROVE  IInv'
  <1>1. /\ UNCHANGED <<started, decided>> /\ UNCHANGED callVars /\ UNCHANGED <<cmd, issued>>
        /\ database' = [database EXCEPT ![s] = [k \in Key |-> <<>>]]
        /\ outcomes' = [outcomes EXCEPT ![s] = [i \in 1 .. MaxCalls |-> "none"]]
    BY DEF Crash, Log!Restart, callVars
  <1>2. RaftTypeOK'
    <2>1. PICK n \in 0 .. Len(applied[s]) :
            applied' = [applied EXCEPT ![s] = SubSeq(decided, 1, n)]
      BY DEF Crash, Log!Restart
    <2>2. applied'[s] = <<>> /\ \A p \in Server : p # s => applied'[p] = applied[p]
      BY <2>1 DEF Crash, IInv, TypeOK, RaftTypeOK
    <2>3. applied' = [applied EXCEPT ![s] = <<>>]
      BY <2>1, <2>2 DEF IInv, TypeOK, RaftTypeOK
    <2>4. QED
      BY <1>1, <2>3 DEF IInv, TypeOK, RaftTypeOK
  <1>3. DataTypeOK'
    BY <1>1 DEF IInv, TypeOK, DataTypeOK
  <1>4. /\ ClerkTypeOK'
        /\ \A c \in Clerk : pc'[c] \in {"read", "reply"} => pc[c] \in {"read", "reply"}
    <2>1. \A c \in {d \in Clerk : leader[d] = s} : pc[c] # "idle"
      BY NilAssumption DEF IInv, TypeOK, ClerkTypeOK
    <2>2. QED
      BY <1>1, <2>1, RetryTypes DEF Crash
  <1>5. IdsUnique'
    BY <1>1 DEF IInv, IdsUnique
  <1>6. /\ \A k \in Key : database'[s][k] = <<>>
        /\ \A i \in 1 .. MaxCalls : outcomes'[s][i] = "none"
        /\ \A p \in Server : p # s => database'[p] = database[p] /\ outcomes'[p] = outcomes[p]
    BY <1>1 DEF IInv, TypeOK, DataTypeOK
  <1>7. WritesKnown' /\ AppendedOnce'
    <2>1. WritesKnown'
      BY <1>6 DEF IInv, WritesKnown
    <2>2. AppendedOnce'
      BY <1>6 DEF IInv, AppendedOnce
    <2>3. QED
      BY <2>1, <2>2
  <1>8. OutcomesLogged'
    BY <1>1, <1>6 DEF IInv, OutcomesLogged, Logged
  <1>9. AnswersLogged'
    BY <1>1, <1>4 DEF IInv, AnswersLogged
  <1>10. QED
    BY <1>2, <1>3, <1>4, <1>5, <1>7, <1>8, <1>9 DEF IInv, TypeOK

-----------------------------------------------------------------------------
\* Every step keeps the invariant.
LEMMA StepInvariant == IInv /\ [Next]_vars => IInv'
  <1> SUFFICES ASSUME IInv, [Next]_vars PROVE IInv'
    OBVIOUS
  <1>1. ASSUME NEW c \in Clerk, ClerkStep(c) PROVE IInv'
    <2>1. CASE Call(c)
      BY <2>1, CallInvariant
    <2>2. CASE GetState(c)
      BY <2>2, GetStateInvariant
    <2>3. CASE LookUp(c)
      BY <2>3, LookUpInvariant
    <2>4. CASE Start(c)
      BY <2>4, StartInvariant
    <2>5. CASE Poll(c)
      BY <2>5, PollInvariant
    <2>6. CASE WrongLeader(c) \/ LoseReply(c)
      BY <2>6, RetryInvariant
    <2>7. CASE ReadValue(c)
      BY <2>7, ReadValueInvariant
    <2>8. CASE Return(c)
      BY <2>8, ReturnInvariant
    <2>9. QED
      BY <1>1, <2>1, <2>2, <2>3, <2>4, <2>5, <2>6, <2>7, <2>8 DEF ClerkStep, HandlerStep
  <1>2. ASSUME NEW s \in Server, ReadApplyChannel(s) PROVE IInv'
    BY <1>2, ReadApplyChannelInvariant
  <1>3. ASSUME NEW s \in Server, Crash(s) PROVE IInv'
    BY <1>3, CrashInvariant
  <1>4. CASE UNCHANGED vars
    <2>1. /\ UNCHANGED <<started, decided, applied, database, outcomes>>
          /\ UNCHANGED <<pc, cmd, leader, value, issued>>
      BY <1>4 DEF vars, raftVars, dataVars, replyVars, callVars
    <2>2. TypeOK'
      BY <2>1 DEF IInv, TypeOK, RaftTypeOK, DataTypeOK, ClerkTypeOK
    <2>3. IdsUnique' /\ WritesKnown' /\ OutcomesLogged'
      BY <2>1 DEF IInv, IdsUnique, WritesKnown, OutcomesLogged, Logged
    <2>4. AppendedOnce' /\ AnswersLogged'
      BY <2>1 DEF IInv, AppendedOnce, AnswersLogged
    <2>5. QED
      BY <2>2, <2>3, <2>4 DEF IInv
  <1>5. QED
    BY <1>1, <1>2, <1>3, <1>4 DEF Next

\* The invariant holds in every reachable state.
THEOREM Invariant == Spec => []IInv
  <1>1. Init => IInv
    BY InitInvariant
  <1>2. IInv /\ [Next]_vars => IInv'
    BY StepInvariant
  <1>3. QED
    BY <1>1, <1>2, PTL DEF Spec

\* Every variable of the clerks, the servers and the log keeps its type, across restarts.
THEOREM TypesCorrect == Spec => []TypeOK
  <1>1. IInv => TypeOK
    BY DEF IInv
  <1>2. QED
    BY <1>1, Invariant, PTL

\* No write is twice in a value of any server, however often its clerk sent it, the
\* leaders logged it and the servers restarted (the duplicate test of readApplyChannel).
THEOREM WritesAppendedOnce == Spec => []AppendedOnce
  <1>1. IInv => AppendedOnce
    BY DEF IInv
  <1>2. QED
    BY <1>1, Invariant, PTL

\* No handler of Get and PutAppend answers a call before its command is in the log.
THEOREM AnswersAlwaysLogged == Spec => []AnswersLogged
  <1>1. IInv => AnswersLogged
    BY DEF IInv
  <1>2. QED
    BY <1>1, Invariant, PTL

-----------------------------------------------------------------------------
\* What a server holds is a function of how far it is in the log: there is a database
\* and there are outcomes for every place of the log, each made by one command from
\* those before, and every server has those of its place.
Databases == [Key -> Seq(1 .. MaxCalls)]
Outcomes == [1 .. MaxCalls -> {"none", "OK", "ErrNoKey"}]

DatabaseAfter(db, out, op) ==
  IF out[op.id] = "none" THEN [db EXCEPT ![op.key] = After(db[op.key], op)] ELSE db
OutcomesAfter(db, out, op) ==
  IF out[op.id] = "none"
  THEN [out EXCEPT ![op.id] = IF op.type = "Get" /\ db[op.key] = <<>> THEN "ErrNoKey" ELSE "OK"]
  ELSE out

Replay(dbs, outs) ==
  /\ dbs[0] = [k \in Key |-> <<>>] /\ outs[0] = [i \in 1 .. MaxCalls |-> "none"]
  /\ \A n \in 0 .. Len(decided) - 1 :
       /\ dbs[n + 1] = DatabaseAfter(dbs[n], outs[n], started[decided[n + 1]])
       /\ outs[n + 1] = OutcomesAfter(dbs[n], outs[n], started[decided[n + 1]])

\* No outcome is lost or changed further on in the log.
OutcomesStay(outs) ==
  \A m, n \in 0 .. Len(decided) : m <= n =>
    \A i \in 1 .. MaxCalls : outs[m][i] # "none" => outs[n][i] = outs[m][i]

Follows(dbs, outs) ==
  \A s \in Server : /\ database[s] = dbs[Len(applied[s])]
                    /\ outcomes[s] = outs[Len(applied[s])]

Determined ==
  \E dbs \in [Nat -> Databases], outs \in [Nat -> Outcomes] :
    Replay(dbs, outs) /\ OutcomesStay(outs) /\ Follows(dbs, outs)

Prefixes ==
  \A s \in Server : /\ Len(applied[s]) <= Len(decided)
                    /\ \A n \in 1 .. Len(applied[s]) : applied[s][n] = decided[n]

ReplayInv == RaftTypeOK /\ DataTypeOK /\ Prefixes /\ Determined

\* A command makes a database of a database, and outcomes of outcomes.
LEMMA AfterTypes ==
  ASSUME NEW db \in Databases, NEW out \in Outcomes, NEW op \in Command
  PROVE  /\ DatabaseAfter(db, out, op) \in Databases
         /\ OutcomesAfter(db, out, op) \in Outcomes
         /\ \A i \in 1 .. MaxCalls : out[i] # "none" => OutcomesAfter(db, out, op)[i] = out[i]
  <1>1. op.id \in 1 .. MaxCalls /\ op.key \in Key /\ op.type \in {"Get", "Put", "Append"}
    BY DEF Command
  <1>2. After(db[op.key], op) \in Seq(1 .. MaxCalls)
    <2>1. db[op.key] \in Seq(1 .. MaxCalls)
      BY <1>1 DEF Databases
    <2>2. <<op.id>> \in Seq(1 .. MaxCalls) /\ Append(db[op.key], op.id) \in Seq(1 .. MaxCalls)
      BY <1>1, <2>1
    <2>3. QED
      BY <1>1, <2>1, <2>2 DEF After
  <1>3. DatabaseAfter(db, out, op) \in Databases
    BY <1>1, <1>2 DEF DatabaseAfter, Databases
  <1>4. QED
    BY <1>1, <1>3 DEF OutcomesAfter, Outcomes

LEMMA InitReplay == Init => ReplayInv
  <1> SUFFICES ASSUME Init PROVE ReplayInv
    OBVIOUS
  <1>1. TypeOK
    BY InitInvariant DEF IInv
  <1>2. Prefixes
    BY DEF Init, Prefixes
  <1> DEFINE dbs == [n \in Nat |-> [k \in Key |-> <<>>]]
             outs == [n \in Nat |-> [i \in 1 .. MaxCalls |-> "none"]]
  <1>3. dbs \in [Nat -> Databases] /\ outs \in [Nat -> Outcomes]
    BY DEF Databases, Outcomes
  <1>4. Replay(dbs, outs) /\ OutcomesStay(outs) /\ Follows(dbs, outs)
    BY DEF Init, Replay, OutcomesStay, Follows
  <1>5. Determined
    <2> HIDE DEF dbs, outs
    <2> QED BY <1>3, <1>4 DEF Determined
  <1>6. QED
    BY <1>1, <1>2, <1>5 DEF ReplayInv, TypeOK

\* A step that leaves the servers and the log alone; a command may be started.
LEMMA ReplayElsewhere ==
  ASSUME ReplayInv, TypeOK', UNCHANGED <<decided, applied, dataVars>>,
         \A n \in 1 .. Len(started) : started'[n] = started[n]
  PROVE  ReplayInv'
  <1>1. Prefixes'
    BY DEF ReplayInv, Prefixes
  <1>2. Determined'
    <2>1. PICK dbs \in [Nat -> Databases], outs \in [Nat -> Outcomes] :
            Replay(dbs, outs) /\ OutcomesStay(outs) /\ Follows(dbs, outs)
      BY DEF ReplayInv, Determined
    <2>2. \A n \in 0 .. Len(decided) - 1 : started'[decided[n + 1]] = started[decided[n + 1]]
      <3> TAKE n \in 0 .. Len(decided) - 1
      <3>1. decided[n + 1] \in 1 .. Len(started)
        BY DEF ReplayInv, RaftTypeOK
      <3>2. QED
        BY <3>1
    <2>3. Replay(dbs, outs)'
      BY <2>1, <2>2 DEF Replay
    <2>4. OutcomesStay(outs)' /\ Follows(dbs, outs)'
      BY <2>1 DEF OutcomesStay, Follows, dataVars
    <2>5. QED
      BY <2>3, <2>4 DEF Determined
  <1>3. QED
    BY <1>1, <1>2 DEF ReplayInv, TypeOK

\* A server that starts again is at the beginning of the log.
LEMMA ReplayCrash ==
  ASSUME ReplayInv, TypeOK', NEW s \in Server, Crash(s)
  PROVE  ReplayInv'
  <1>1. /\ UNCHANGED <<started, decided>> /\ applied'[s] = <<>>
        /\ database' = [database EXCEPT ![s] = [k \in Key |-> <<>>]]
        /\ outcomes' = [outcomes EXCEPT ![s] = [i \in 1 .. MaxCalls |-> "none"]]
        /\ \A p \in Server \ {s} : applied'[p] = applied[p]
    BY DEF Crash, Log!Restart, ReplayInv, RaftTypeOK
  <1>2. Prefixes'
    <2> SUFFICES ASSUME NEW p \in Server
                 PROVE  /\ Len(applied'[p]) <= Len(decided)
                        /\ \A n \in 1 .. Len(applied'[p]) : applied'[p][n] = decided[n]
      BY <1>1 DEF Prefixes
    <2>1. CASE p = s
      BY <1>1, <2>1 DEF ReplayInv, RaftTypeOK
    <2>2. CASE p # s
      BY <1>1, <2>2 DEF ReplayInv, Prefixes
    <2>3. QED
      BY <2>1, <2>2
  <1>3. Determined'
    <2>1. PICK dbs \in [Nat -> Databases], outs \in [Nat -> Outcomes] :
            Replay(dbs, outs) /\ OutcomesStay(outs) /\ Follows(dbs, outs)
      BY DEF ReplayInv, Determined
    <2>2. Replay(dbs, outs)' /\ OutcomesStay(outs)'
      BY <1>1, <2>1 DEF Replay, OutcomesStay
    <2>3. Follows(dbs, outs)'
      <3> SUFFICES ASSUME NEW p \in Server
                   PROVE  /\ database'[p] = dbs[Len(applied'[p])]
                          /\ outcomes'[p] = outs[Len(applied'[p])]
        BY DEF Follows
      <3>1. CASE p = s
        <4>1. Len(applied'[p]) = 0
          BY <1>1, <3>1
        <4>2. QED
          BY <1>1, <2>1, <3>1, <4>1 DEF Replay, ReplayInv, DataTypeOK
      <3>2. CASE p # s
        BY <1>1, <2>1, <3>2 DEF Follows, ReplayInv, DataTypeOK
      <3>3. QED
        BY <3>1, <3>2
    <2>4. QED
      BY <2>2, <2>3 DEF Determined
  <1>4. QED
    BY <1>2, <1>3 DEF ReplayInv, TypeOK

\* readApplyChannel executes the next command of the log, on what the server has.
LEMMA Executes ==
  ASSUME ReplayInv, NEW s \in Server, ReadApplyChannel(s)
  PROVE  /\ Len(applied'[s]) = Len(applied[s]) + 1
         /\ \A p \in Server \ {s} : /\ applied'[p] = applied[p]
                                    /\ database'[p] = database[p] /\ outcomes'[p] = outcomes[p]
         /\ LET op == started[applied'[s][Len(applied[s]) + 1]]
            IN  /\ database'[s] = DatabaseAfter(database[s], outcomes[s], op)
                /\ outcomes'[s] = OutcomesAfter(database[s], outcomes[s], op)
  <1> DEFINE op == started[applied'[s][Len(applied[s]) + 1]]
             old == database[s][op.key]
  <1>1. /\ Len(applied'[s]) = Len(applied[s]) + 1
        /\ \A p \in Server \ {s} : applied'[p] = applied[p]
    BY DEF ReadApplyChannel, Log!Decide, Log!Advance, ReplayInv, RaftTypeOK
  <1>2. database \in [Server -> Databases] /\ outcomes \in [Server -> Outcomes]
    BY DEF ReplayInv, DataTypeOK, Databases, Outcomes
  <1>3. CASE ApplyOnce(s, op)
    <2>1. /\ database' = [database EXCEPT ![s][op.key] = After(old, op)]
          /\ outcomes' = [outcomes EXCEPT ![s][op.id] =
                            IF op.type = "Get" /\ old = <<>> THEN "ErrNoKey" ELSE "OK"]
      BY <1>3 DEF ReadApplyChannel
    <2>2. database'[s] = [database[s] EXCEPT ![op.key] = After(old, op)]
      BY <1>2, <2>1
    <2>3. outcomes'[s] = [outcomes[s] EXCEPT ![op.id] =
                            IF op.type = "Get" /\ old = <<>> THEN "ErrNoKey" ELSE "OK"]
      BY <1>2, <2>1
    <2>4. \A p \in Server \ {s} : database'[p] = database[p] /\ outcomes'[p] = outcomes[p]
      BY <1>2, <2>1
    <2>5. QED
      BY <1>1, <1>3, <2>2, <2>3, <2>4 DEF ApplyOnce, DatabaseAfter, OutcomesAfter
  <1>4. CASE ~ApplyOnce(s, op)
    <2>1. UNCHANGED dataVars
      BY <1>4 DEF ReadApplyChannel
    <2>2. QED
      BY <1>1, <1>4, <2>1 DEF ApplyOnce, DatabaseAfter, OutcomesAfter, dataVars
  <1>5. QED
    BY <1>3, <1>4

\* The command comes from further on in the log, which others have read.
LEMMA ReplayAdvance ==
  ASSUME ReplayInv, TypeOK', NEW s \in Server, ReadApplyChannel(s), Log!Advance(s)
  PROVE  ReplayInv'
  <1> DEFINE n == Len(applied[s])
  <1>1. /\ UNCHANGED <<started, decided>>
        /\ n \in Nat /\ n + 1 <= Len(decided)
        /\ applied'[s] = SubSeq(decided, 1, n + 1)
    <2>1. UNCHANGED <<started, decided>> /\ n \in Nat /\ decided \in Seq(1 .. Len(started))
      BY DEF ReadApplyChannel, Log!Advance, ReplayInv, RaftTypeOK
    <2>2. PICK l \in n + 1 .. Len(decided) : applied' = [applied EXCEPT ![s] = SubSeq(decided, 1, l)]
      BY DEF Log!Advance
    <2>3. applied'[s] = SubSeq(decided, 1, l) /\ Len(applied'[s]) = l
      BY <2>1, <2>2 DEF ReplayInv, RaftTypeOK
    <2>4. l = n + 1
      BY <2>1, <2>3, Executes
    <2>5. QED
      BY <2>1, <2>2, <2>3, <2>4
  <1>2. Len(applied'[s]) = n + 1 /\ \A m \in 1 .. n + 1 : applied'[s][m] = decided[m]
    BY <1>1 DEF ReplayInv, RaftTypeOK
  <1>3. Prefixes'
    BY <1>1, <1>2, Executes DEF ReplayInv, Prefixes
  <1>4. PICK dbs \in [Nat -> Databases], outs \in [Nat -> Outcomes] :
          Replay(dbs, outs) /\ OutcomesStay(outs) /\ Follows(dbs, outs)
    BY DEF ReplayInv, Determined
  <1>5. Replay(dbs, outs)' /\ OutcomesStay(outs)'
    BY <1>1, <1>4 DEF Replay, OutcomesStay
  <1>6. database'[s] = dbs[n + 1] /\ outcomes'[s] = outs[n + 1]
    <2>1. applied'[s][n + 1] = decided[n + 1] /\ n \in 0 .. Len(decided) - 1
      BY <1>1, <1>2
    <2>2. /\ database'[s] = DatabaseAfter(database[s], outcomes[s], started[decided[n + 1]])
          /\ outcomes'[s] = OutcomesAfter(database[s], outcomes[s], started[decided[n + 1]])
      BY <2>1, Executes
    <2>3. database[s] = dbs[n] /\ outcomes[s] = outs[n]
      BY <1>4 DEF Follows
    <2>4. QED
      BY <1>4, <2>1, <2>2, <2>3 DEF Replay
  <1>7. Follows(dbs, outs)'
    BY <1>2, <1>4, <1>6, Executes DEF Follows
  <1>8. QED
    BY <1>3, <1>5, <1>7 DEF ReplayInv, TypeOK, Determined

\* The server reads a command that nobody has read before: the log is one longer.
LEMMA ReplayDecide ==
  ASSUME ReplayInv, TypeOK', NEW s \in Server, ReadApplyChannel(s), Log!Decide(s)
  PROVE  ReplayInv'
  <1> DEFINE n == Len(decided)
             op == started[decided'[n + 1]]
  <1>1. /\ UNCHANGED started
        /\ n \in Nat /\ Len(applied[s]) = n /\ Len(decided') = n + 1
        /\ \A m \in 1 .. n : decided'[m] = decided[m]
        /\ applied'[s] = decided'
    <2>1. UNCHANGED started /\ applied[s] = decided /\ decided \in Seq(1 .. Len(started))
      BY DEF ReadApplyChannel, Log!Decide, ReplayInv, RaftTypeOK
    <2>2. PICK c \in 1 .. Len(started) : decided' = Append(decided, c)
      BY DEF Log!Decide
    <2>3. applied'[s] = decided'
      BY DEF Log!Decide, ReplayInv, RaftTypeOK
    <2>4. QED
      BY <2>1, <2>2, <2>3
  <1>2. decided'[n + 1] \in 1 .. Len(started') /\ op \in Command
    BY <1>1 DEF TypeOK, RaftTypeOK
  <1>3. Prefixes'
    <2> SUFFICES ASSUME NEW p \in Server
                 PROVE  /\ Len(applied'[p]) <= n + 1
                        /\ \A m \in 1 .. Len(applied'[p]) : applied'[p][m] = decided'[m]
      BY <1>1 DEF Prefixes
    <2>1. CASE p = s
      BY <1>1, <2>1
    <2>2. CASE p # s
      <3>1. applied'[p] = applied[p] /\ Len(applied[p]) \in 0 .. n
        BY <1>1, <2>2, Executes DEF ReplayInv, Prefixes, RaftTypeOK
      <3>2. QED
        BY <1>1, <3>1 DEF ReplayInv, Prefixes
    <2>3. QED
      BY <2>1, <2>2
  <1>4. PICK dbs \in [Nat -> Databases], outs \in [Nat -> Outcomes] :
          Replay(dbs, outs) /\ OutcomesStay(outs) /\ Follows(dbs, outs)
    BY DEF ReplayInv, Determined
  <1> DEFINE db == DatabaseAfter(dbs[n], outs[n], op)
             out == OutcomesAfter(dbs[n], outs[n], op)
  <1>5. /\ db \in Databases /\ out \in Outcomes
        /\ \A i \in 1 .. MaxCalls : outs[n][i] # "none" => out[i] = outs[n][i]
    <2>1. dbs[n] \in Databases /\ outs[n] \in Outcomes
      BY <1>1
    <2> HIDE DEF n, op
    <2>2. QED
      BY <1>2, <2>1, AfterTypes
  <1> HIDE DEF db, out
  <1>6. PICK dbsNow \in [Nat -> Databases], outsNow \in [Nat -> Outcomes] :
          /\ dbsNow[n + 1] = db /\ outsNow[n + 1] = out
          /\ \A m \in 0 .. n : dbsNow[m] = dbs[m] /\ outsNow[m] = outs[m]
    <2> DEFINE d == [dbs EXCEPT ![n + 1] = db]
               o == [outs EXCEPT ![n + 1] = out]
    <2>1. d \in [Nat -> Databases] /\ o \in [Nat -> Outcomes]
      BY <1>1, <1>5
    <2>2. d[n + 1] = db /\ o[n + 1] = out /\ \A m \in 0 .. n : d[m] = dbs[m] /\ o[m] = outs[m]
      BY <1>1
    <2> HIDE DEF d, o
    <2>3. QED
      BY <2>1, <2>2
  <1>8. Replay(dbsNow, outsNow)'
    <2>1. dbsNow[0] = dbs[0] /\ outsNow[0] = outs[0]
      BY <1>1, <1>6
    <2>2. ASSUME NEW m \in 0 .. Len(decided') - 1
          PROVE  /\ dbsNow[m + 1] = DatabaseAfter(dbsNow[m], outsNow[m], started'[decided'[m + 1]])
                 /\ outsNow[m + 1] = OutcomesAfter(dbsNow[m], outsNow[m], started'[decided'[m + 1]])
      <3>1. CASE m = n
        BY <1>1, <1>6, <3>1 DEF db, out
      <3>2. CASE m \in 0 .. n - 1
        BY <1>1, <1>4, <1>6, <3>2 DEF Replay
      <3>3. QED
        BY <1>1, <3>1, <3>2
    <2>3. QED
      BY <1>4, <2>1, <2>2 DEF Replay
  <1>9. OutcomesStay(outsNow)'
    <2> SUFFICES ASSUME NEW l \in 0 .. n + 1, NEW m \in 0 .. n + 1, l <= m, NEW i \in 1 .. MaxCalls,
                        outsNow[l][i] # "none"
                 PROVE  outsNow[m][i] = outsNow[l][i]
      BY <1>1 DEF OutcomesStay
    <2>1. CASE m \in 0 .. n
      BY <1>1, <1>4, <1>6, <2>1 DEF OutcomesStay
    <2>2. CASE m = n + 1 /\ l = n + 1
      BY <2>2
    <2>3. CASE m = n + 1 /\ l \in 0 .. n
      <3>1. outsNow[l] = outs[l] /\ outs[n][i] = outs[l][i]
        BY <1>1, <1>4, <1>6, <2>3 DEF OutcomesStay
      <3>2. QED
        BY <1>5, <1>6, <2>3, <3>1
    <2>4. QED
      BY <1>1, <2>1, <2>2, <2>3
  <1>10. Follows(dbsNow, outsNow)'
    <2>1. database'[s] = db /\ outcomes'[s] = out
      BY <1>1, <1>4, Executes DEF Follows, db, out
    <2>2. ASSUME NEW p \in Server \ {s}
          PROVE  /\ database'[p] = dbsNow[Len(applied'[p])]
                 /\ outcomes'[p] = outsNow[Len(applied'[p])]
      <3>1. Len(applied[p]) \in 0 .. n
        BY <1>1 DEF ReplayInv, Prefixes, RaftTypeOK
      <3>2. QED
        BY <1>4, <1>6, <3>1, Executes DEF Follows
    <2>3. QED
      BY <1>1, <1>6, <2>1, <2>2 DEF Follows
  <1>11. QED
    BY <1>3, <1>8, <1>9, <1>10 DEF ReplayInv, TypeOK, Determined

\* Every step keeps every server at its place of the log.
LEMMA StepReplay == IInv /\ ReplayInv /\ [Next]_vars => ReplayInv'
  <1> SUFFICES ASSUME IInv, ReplayInv, [Next]_vars PROVE ReplayInv'
    OBVIOUS
  <1>1. TypeOK'
    BY StepInvariant DEF IInv
  <1>2. CASE UNCHANGED vars
    BY <1>1, <1>2, ReplayElsewhere DEF vars, raftVars
  <1>3. ASSUME NEW s \in Server, ReadApplyChannel(s) PROVE ReplayInv'
    BY <1>1, <1>3, ReplayAdvance, ReplayDecide DEF ReadApplyChannel
  <1>4. ASSUME NEW s \in Server, Crash(s) PROVE ReplayInv'
    BY <1>1, <1>4, ReplayCrash
  <1>5. ASSUME NEW c \in Clerk, ClerkStep(c) PROVE ReplayInv'
    <2>1. UNCHANGED <<decided, applied, dataVars>>
      BY <1>5 DEF ClerkStep, HandlerStep, Call, LoseReply, Return, GetState, LookUp, Start,
                  Poll, WrongLeader, ReadValue, raftVars
    <2>2. UNCHANGED started \/ started' = Append(started, cmd[c])
      BY <1>5 DEF ClerkStep, HandlerStep, Call, LoseReply, Return, GetState, LookUp, Start,
                  Poll, WrongLeader, ReadValue, raftVars
    <2>3. \A n \in 1 .. Len(started) : started'[n] = started[n]
      <3>1. started \in Seq(Command \cup {cmd[c]}) /\ cmd[c] \in Command \cup {cmd[c]}
        <4>1. started \in Seq(Command)
          BY DEF ReplayInv, RaftTypeOK
        <4>2. QED
          BY <4>1
      <3>2. CASE started' = Append(started, cmd[c])
        BY <3>1, <3>2
      <3>3. QED
        BY <2>2, <3>2
    <2>4. QED
      BY <1>1, <2>1, <2>3, ReplayElsewhere
  <1>6. QED
    BY <1>2, <1>3, <1>4, <1>5 DEF Next

\* Servers that have executed the same commands hold the same values, restarts or not,
\* and a command has one outcome on all of them (readApplyChannel).
THEOREM OutcomesAlwaysAgree == Spec => []OutcomesAgree
  <1>1. Spec => []ReplayInv
    BY InitReplay, StepReplay, Invariant, PTL DEF Spec
  <1>2. ReplayInv => OutcomesAgree
    <2> SUFFICES ASSUME ReplayInv, NEW s \in Server, NEW p \in Server, NEW i \in 1 .. MaxCalls,
                        outcomes[s][i] # "none", outcomes[p][i] # "none"
                 PROVE  outcomes[s][i] = outcomes[p][i]
      BY DEF OutcomesAgree
    <2>1. PICK outs \in [Nat -> Outcomes] :
            OutcomesStay(outs) /\ \A q \in Server : outcomes[q] = outs[Len(applied[q])]
      BY DEF ReplayInv, Determined, Follows
    <2>2. \A q \in Server : Len(applied[q]) \in 0 .. Len(decided)
      BY DEF ReplayInv, Prefixes, RaftTypeOK
    <2>3. CASE Len(applied[s]) <= Len(applied[p])
      BY <2>1, <2>2, <2>3 DEF OutcomesStay
    <2>4. CASE Len(applied[p]) <= Len(applied[s])
      BY <2>1, <2>2, <2>4 DEF OutcomesStay
    <2>5. QED
      BY <2>2, <2>3, <2>4
  <1>3. QED
    BY <1>1, <1>2, PTL
=============================================================================
