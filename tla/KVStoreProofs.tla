---------------------------- MODULE KVStoreProofs ----------------------------
(***************************************************************************)
(* The key/value service implements the linearizable store of KVStore, for *)
(* any number of servers, clerks, keys, calls, restarts.                   *)
(***************************************************************************)
EXTENDS KVServerProofs, NatRecursion

-----------------------------------------------------------------------------
\* The effects of the log.

Zero == [writes |-> <<>>, stores |-> <<[k \in Key |-> <<>>]>>]

\* Some writes, and the values before the first and after each.
History ==
  {e \in [writes : Seq(Command), stores : Seq(Databases)] : Len(e.stores) = Len(e.writes) + 1}

\* x is what e becomes by the write op.
Grown(x, e, op) ==
  /\ Len(x.writes) = Len(e.writes) + 1
  /\ x.writes[Len(e.writes) + 1] = op
  /\ \A i \in 1 .. Len(e.writes) : x.writes[i] = e.writes[i]
  /\ \A i \in 1 .. Len(e.writes) + 1 : x.stores[i] = e.stores[i]
  /\ x.stores[Len(e.writes) + 2] =
       [e.stores[Len(e.writes) + 1] EXCEPT ![op.key] = After(@, op)]

LEMMA ExecuteType ==
  ASSUME NEW e \in History, NEW op \in Command
  PROVE  Execute(e, op) \in History /\ Grown(Execute(e, op), e, op)
  <1>1. PICK w \in Seq(Command) : w = e.writes
    BY DEF History
  <1>2. PICK t \in Seq(Databases) : t = e.stores /\ Len(t) = Len(w) + 1
    BY <1>1 DEF History
  <1>3. op.id \in 1 .. MaxCalls /\ op.key \in Key /\ op.type \in {"Get", "Put", "Append"}
    BY DEF Command
  <1>4. t[Len(t)] \in Databases
    BY <1>1, <1>2
  <1> DEFINE new == After(t[Len(t)][op.key], op)
             db == [t[Len(t)] EXCEPT ![op.key] = After(@, op)]
  <1>5. new \in Seq(1 .. MaxCalls)
    <2>1. PICK v \in Seq(1 .. MaxCalls) : v = t[Len(t)][op.key]
      BY <1>3, <1>4 DEF Databases
    <2>2. <<op.id>> \in Seq(1 .. MaxCalls) /\ Append(v, op.id) \in Seq(1 .. MaxCalls)
      BY <1>3
    <2>3. QED
      BY <1>3, <2>1, <2>2 DEF After
  <1>6. db \in Databases
    BY <1>4, <1>5 DEF Databases
  <1>7. Execute(e, op) = [writes |-> Append(w, op), stores |-> Append(t, db)]
    BY <1>1, <1>2 DEF Execute
  <1> HIDE DEF db
  <1>8. /\ Append(w, op) \in Seq(Command) /\ Append(t, db) \in Seq(Databases)
        /\ Len(Append(w, op)) = Len(w) + 1 /\ Len(Append(t, db)) = Len(t) + 1
        /\ Append(w, op)[Len(w) + 1] = op /\ Append(t, db)[Len(t) + 1] = db
        /\ \A i \in 1 .. Len(w) : Append(w, op)[i] = w[i]
        /\ \A i \in 1 .. Len(t) : Append(t, db)[i] = t[i]
    BY <1>6
  <1>9. QED
    BY <1>1, <1>2, <1>7, <1>8 DEF History, Grown, db

LEMMA MakesHistory ==
  ASSUME NEW w \in Seq(Command), NEW t \in Seq(Databases), Len(t) = Len(w) + 1
  PROVE  [writes |-> w, stores |-> t] \in History
  <1> DEFINE e == [writes |-> w, stores |-> t]
  <1>1. e.writes = w /\ e.stores = t
    OBVIOUS
  <1>2. e \in [writes : Seq(Command), stores : Seq(Databases)]
    OBVIOUS
  <1> HIDE DEF e
  <1>3. Len(e.stores) = Len(e.writes) + 1
    BY <1>1
  <1>4. e \in History
    BY <1>2, <1>3, Zenon DEF History
  <1>5. QED
    BY <1>4 DEF e

LEMMA OpType ==
  RaftTypeOK => Len(decided) \in Nat /\ \A n \in 1 .. Len(decided) : Op(n) \in Command
  <1> SUFFICES ASSUME RaftTypeOK
               PROVE  Len(decided) \in Nat /\ \A n \in 1 .. Len(decided) : Op(n) \in Command
    OBVIOUS
  <1>1. \A n \in 1 .. Len(decided) : decided[n] \in 1 .. Len(started)
    BY DEF RaftTypeOK
  <1>2. QED
    BY <1>1 DEF RaftTypeOK, Op

\* Effects is what its definition says: it starts from nothing, and one place of the
\* log after the other is executed, or skipped.
LEMMA EffectsRecursion ==
  RaftTypeOK =>
    /\ Effects[0] = Zero
    /\ \A n \in 0 .. Len(decided) - 1 :
         Effects[n + 1] = IF Effective(n + 1) THEN Execute(Effects[n], Op(n + 1)) ELSE Effects[n]
    /\ \A n \in 0 .. Len(decided) : Effects[n] \in History
  <1> SUFFICES ASSUME RaftTypeOK
               PROVE  /\ Effects[0] = Zero
                      /\ \A n \in 0 .. Len(decided) - 1 :
                           Effects[n + 1] = IF Effective(n + 1)
                                            THEN Execute(Effects[n], Op(n + 1)) ELSE Effects[n]
                      /\ \A n \in 0 .. Len(decided) : Effects[n] \in History
    OBVIOUS
  <1> DEFINE next(e, n) == IF n <= Len(decided) /\ Effective(n) THEN Execute(e, Op(n)) ELSE e
             step == [n \in Nat |-> [e \in History |-> next(e, n + 1)]]
  <1>1. Zero \in History
    <2>1. [k \in Key |-> <<>>] \in Databases
      BY DEF Databases
    <2>2. PICK d \in Databases : d = [k \in Key |-> <<>>]
      BY <2>1
    <2>3. <<d>> \in Seq(Databases) /\ Len(<<d>>) = 1
      OBVIOUS
    <2>4. PICK t \in Seq(Databases) : t = <<d>> /\ Len(t) = 1
      BY <2>3
    <2>5. <<>> \in Seq(Command) /\ Len(<<>>) = 0
      OBVIOUS
    <2>6. PICK w \in Seq(Command) : w = <<>> /\ Len(w) = 0
      BY <2>5
    <2>7. [writes |-> w, stores |-> t] \in History
      <3>1. Len(t) = Len(w) + 1
        BY <2>4, <2>6
      <3>2. QED
        BY <3>1, MakesHistory
    <2>8. QED
      BY <2>2, <2>4, <2>6, <2>7 DEF Zero
  <1>2. step \in [Nat -> [History -> History]]
    <2>1. ASSUME NEW n \in Nat, NEW e \in History PROVE next(e, n + 1) \in History
      <3>1. CASE n + 1 <= Len(decided)
        <4>1. Op(n + 1) \in Command
          BY <3>1, OpType
        <4>2. QED
          BY <4>1, ExecuteType
      <3>2. CASE ~ (n + 1 <= Len(decided))
        BY <3>2
      <3>3. QED
        BY <3>1, <3>2
    <2> HIDE DEF next
    <2>2. QED
      BY <2>1
  <1>3. PICK f \in [Nat -> History] : f[0] = Zero /\ \A n \in Nat : f[n + 1] = step[n][f[n]]
    <2> HIDE DEF step
    <2>1. step \in Steps(History)
      BY <1>2 DEF Steps
    <2>2. QED
      BY <1>1, <2>1, PrimitiveRecursion
  <1>4. \A n \in Nat : f[n + 1] = next(f[n], n + 1)
    <2> HIDE DEF next
    <2> QED BY <1>3
  <1> HIDE DEF step
  <1> DEFINE body(g) == [n \in 0 .. Len(decided) |->
                           IF n = 0 THEN [writes |-> <<>>, stores |-> <<[k \in Key |-> <<>>]>>]
                           ELSE IF Effective(n) THEN Execute(g[n - 1], Op(n)) ELSE g[n - 1]]
             g0 == [n \in 0 .. Len(decided) |-> f[n]]
  <1>5. g0 = body(g0)
    <2>0. Len(decided) \in Nat
      BY OpType
    <2>1. \A n \in 0 .. Len(decided) : g0[n] = body(g0)[n]
      <3> TAKE n \in 0 .. Len(decided)
      <3>1. CASE n = 0
        BY <1>3, <2>0, <3>1 DEF Zero
      <3>2. CASE n # 0
        <4>1. n - 1 \in Nat /\ n - 1 \in 0 .. Len(decided) /\ n - 1 + 1 = n
          BY <2>0, <3>2
        <4>2. f[n] = next(f[n - 1], n)
          BY <1>4, <4>1
        <4>3. QED
          BY <2>0, <3>2, <4>1, <4>2
      <3>3. QED
        BY <3>1, <3>2
    <2> HIDE DEF next
    <2>2. QED
      BY <2>1
  <1>6. Effects = body(Effects)
    <2>1. Effects = CHOOSE g : g = body(g)
      BY DEF Effects
    <2> HIDE DEF body, g0
    <2>2. QED
      BY <1>5, <2>1
  <1>7. QED
    <2> HIDE DEF g0
    <2>0. Len(decided) \in Nat
      BY OpType
    <2>1. Effects[0] = Zero
      BY <1>6, <2>0 DEF Zero
    <2>2. \A n \in 0 .. Len(decided) - 1 :
            Effects[n + 1] = IF Effective(n + 1)
                             THEN Execute(Effects[n], Op(n + 1)) ELSE Effects[n]
      <3> TAKE n \in 0 .. Len(decided) - 1
      <3>1. n + 1 \in 0 .. Len(decided) /\ n + 1 # 0 /\ n + 1 - 1 = n
        BY <2>0
      <3>2. QED
        BY <1>6, <3>1
    <2>3. \A n \in 0 .. Len(decided) : Effects[n] \in History
      <3> DEFINE S == {n \in Nat : n <= Len(decided) => Effects[n] \in History}
      <3>1. 0 \in S
        BY <1>1, <2>1
      <3>2. ASSUME NEW n \in Nat, n \in S PROVE n + 1 \in S
        <4> SUFFICES ASSUME n + 1 <= Len(decided) PROVE Effects[n + 1] \in History
          OBVIOUS
        <4>1. Effects[n] \in History /\ Op(n + 1) \in Command /\ n \in 0 .. Len(decided) - 1
          BY <2>0, <3>2, OpType
        <4>2. Execute(Effects[n], Op(n + 1)) \in History
          BY <4>1, ExecuteType
        <4>3. QED
          BY <2>2, <4>1, <4>2
      <3>3. \A n \in Nat : n \in S
        <4> HIDE DEF S
        <4> QED BY <3>1, <3>2, NatIn
      <3>4. QED
        BY <2>0, <3>3
    <2>4. QED
      BY <2>1, <2>2, <2>3

\* The same in the next state.
LEMMA EffectsRecursionNext ==
  ASSUME RaftTypeOK'
  PROVE  /\ Len(decided') \in Nat
         /\ \A n \in 1 .. Len(decided') : Op(n)' \in Command
         /\ Effects'[0] = Zero
         /\ \A n \in 0 .. Len(decided') - 1 :
              Effects'[n + 1] = IF Effective(n + 1)'
                                THEN Execute(Effects'[n], Op(n + 1)') ELSE Effects'[n]
  <1>1. (RaftTypeOK => Len(decided) \in Nat /\ \A n \in 1 .. Len(decided) : Op(n) \in Command)'
    BY OpType, PTL
  <1>2. (RaftTypeOK =>
           /\ Effects[0] = Zero
           /\ \A n \in 0 .. Len(decided) - 1 :
                Effects[n + 1] = IF Effective(n + 1)
                                 THEN Execute(Effects[n], Op(n + 1)) ELSE Effects[n])'
    BY EffectsRecursion, PTL
  <1>3. QED
    BY <1>1, <1>2

\* What has been decided is not undone: the effects of the places that were there stay.
LEMMA EffectsStay ==
  ASSUME RaftTypeOK, RaftTypeOK', Len(decided') >= Len(decided),
         \A n \in 1 .. Len(decided) : Op(n)' = Op(n)
  PROVE  \A n \in 0 .. Len(decided) : Effects'[n] = Effects[n]
  <1>0. Len(decided) \in Nat /\ Len(decided') \in Nat
    BY OpType, EffectsRecursionNext
  <1> DEFINE S == {n \in Nat : n <= Len(decided) => Effects'[n] = Effects[n]}
  <1>1. 0 \in S
    BY EffectsRecursion, EffectsRecursionNext
  <1>2. ASSUME NEW n \in Nat, n \in S PROVE n + 1 \in S
    <2> SUFFICES ASSUME n + 1 <= Len(decided) PROVE Effects'[n + 1] = Effects[n + 1]
      OBVIOUS
    <2>1. Effects'[n] = Effects[n]
      BY <1>0, <1>2
    <2>2. Effective(n + 1)' <=> Effective(n + 1)
      <3>1. \A j \in 1 .. n + 1 : Op(j)' = Op(j)
        BY <1>0
      <3>2. n + 1 \in 1 .. n + 1 /\ \A j \in 1 .. n + 1 - 1 : j \in 1 .. n + 1
        OBVIOUS
      <3> DEFINE first(i) == \A j \in 1 .. n + 1 - 1 : Op(j).id # Op(n + 1).id
      <3>3. QED
        BY <3>1, <3>2 DEF Effective
    <2>3. n \in 0 .. Len(decided) - 1 /\ n \in 0 .. Len(decided') - 1 /\ Op(n + 1)' = Op(n + 1)
      BY <1>0
    <2>4. QED
      BY <2>1, <2>2, <2>3, EffectsRecursion, EffectsRecursionNext
  <1>3. \A n \in Nat : n \in S
    <2> HIDE DEF S
    <2> QED BY <1>1, <1>2, NatIn
  <1>4. QED
    BY <1>0, <1>3

W(n) == Len(Effects[n].writes)
Last(n) == Effects[n].stores[W(n) + 1]

\* An effective write adds itself and the values after it.
LEMMA EffectiveStep ==
  ASSUME RaftTypeOK, NEW l \in 0 .. Len(decided) - 1, Effective(l + 1)
  PROVE  /\ W(l) \in Nat /\ W(l + 1) = W(l) + 1
         /\ Effects[l + 1].writes[W(l) + 1] = Op(l + 1)
         /\ \A i \in 1 .. W(l) : Effects[l + 1].writes[i] = Effects[l].writes[i]
         /\ \A i \in 1 .. W(l) + 1 : Effects[l + 1].stores[i] = Effects[l].stores[i]
         /\ Last(l + 1) = [Last(l) EXCEPT ![Op(l + 1).key] = After(@, Op(l + 1))]
  <1>1. Len(decided) \in Nat /\ Op(l + 1) \in Command
    BY OpType
  <1>2. Effects[l] \in History /\ Effects[l + 1] = Execute(Effects[l], Op(l + 1))
    BY <1>1, EffectsRecursion
  <1>3. PICK e \in History : e = Effects[l]
    BY <1>2
  <1>4. PICK op \in Command : op = Op(l + 1)
    BY <1>1
  <1>5. Grown(Effects[l + 1], e, op)
    BY <1>2, <1>3, <1>4, ExecuteType
  <1>6. Len(e.writes) \in Nat
    BY DEF History
  <1>7. QED
    BY <1>3, <1>4, <1>5, <1>6 DEF Grown, W, Last

\* The effects of a place of the log are a beginning of those of the places after it.
LEMMA EffectsGrow ==
  ASSUME RaftTypeOK, NEW m \in 0 .. Len(decided), NEW n \in 0 .. Len(decided), m <= n
  PROVE  /\ W(m) \in Nat /\ W(n) \in Nat /\ W(m) <= W(n)
         /\ \A i \in 1 .. W(m) : Effects[n].writes[i] = Effects[m].writes[i]
         /\ \A i \in 1 .. W(m) + 1 : Effects[n].stores[i] = Effects[m].stores[i]
  <1>0. Len(decided) \in Nat
    BY OpType
  <1>1. \A l \in 0 .. Len(decided) : /\ Effects[l] \in History /\ W(l) \in Nat
                                     /\ Len(Effects[l].stores) = W(l) + 1
    BY EffectsRecursion DEF History, W
  <1> DEFINE kept(l) == /\ W(m) <= W(l)
                        /\ \A i \in 1 .. W(m) : Effects[l].writes[i] = Effects[m].writes[i]
                        /\ \A i \in 1 .. W(m) + 1 : Effects[l].stores[i] = Effects[m].stores[i]
             S == {l \in Nat : m <= l /\ l <= Len(decided) => kept(l)}
  <1>2. 0 \in S
    BY <1>0, <1>1
  <1>3. ASSUME NEW l \in Nat, l \in S PROVE l + 1 \in S
    <2> SUFFICES ASSUME m <= l + 1, l + 1 <= Len(decided) PROVE kept(l + 1)
      OBVIOUS
    <2>1. CASE m = l + 1
      BY <1>1, <2>1
    <2>2. CASE m # l + 1
      <3>1. m <= l /\ l \in 0 .. Len(decided) - 1 /\ l \in 0 .. Len(decided) /\ kept(l)
        BY <1>0, <1>3, <2>2
      <3>2. CASE Effective(l + 1)
        <4>1. /\ W(l + 1) = W(l) + 1
              /\ \A i \in 1 .. W(l) : Effects[l + 1].writes[i] = Effects[l].writes[i]
              /\ \A i \in 1 .. W(l) + 1 : Effects[l + 1].stores[i] = Effects[l].stores[i]
          BY <3>1, <3>2, EffectiveStep
        <4>2. QED
          BY <1>1, <3>1, <4>1
      <3>3. CASE ~Effective(l + 1)
        <4>1. Effects[l + 1] = Effects[l]
          BY <3>1, <3>3, EffectsRecursion
        <4>2. QED
          BY <3>1, <4>1 DEF W
      <3>4. QED
        BY <3>2, <3>3
    <2>3. QED
      BY <2>1, <2>2
  <1>4. \A l \in Nat : l \in S
    <2> HIDE DEF S
    <2> QED BY <1>2, <1>3, NatIn
  <1>5. QED
    BY <1>0, <1>1, <1>4

LEMMA WholeLog ==
  ASSUME RaftTypeOK
  PROVE  /\ Len(decided) \in Nat /\ W(Len(decided)) \in Nat
         /\ \A n \in 0 .. Len(decided) : W(n) \in Nat /\ W(n) <= W(Len(decided))
  <1>1. Len(decided) \in Nat
    BY OpType
  <1>2. Len(decided) \in 0 .. Len(decided) /\ \A n \in 0 .. Len(decided) : n <= Len(decided)
    BY <1>1
  <1>3. QED
    BY <1>1, <1>2, EffectsGrow

-----------------------------------------------------------------------------
\* What a server has done at a place of the log.

First(m) == \A j \in 1 .. m - 1 : Op(j).id # Op(m).id

\* The values are those after the writes so far, the commands so far have outcomes, and
\* no others; a Get without a value had none where it was executed.
LinkedAt(db, out, n) ==
  /\ db = Last(n)
  /\ \A i \in 1 .. MaxCalls : out[i] # "none" <=> \E m \in 1 .. n : Op(m).id = i
  /\ \A i \in 1 .. MaxCalls : out[i] = "ErrNoKey" =>
       \E m \in 1 .. n : /\ Op(m).id = i /\ First(m)
                         /\ Op(m).type = "Get" /\ Last(m)[Op(m).key] = <<>>

ServersLinked ==
  \A s \in Server : LinkedAt(database[s], outcomes[s], Len(applied[s]))

\* One place further, from what the places before it say.
LEMMA LinkedNext ==
  ASSUME RaftTypeOK, NEW n \in 0 .. Len(decided) - 1,
         NEW db \in Databases, NEW out \in Outcomes, LinkedAt(db, out, n)
  PROVE  LinkedAt(DatabaseAfter(db, out, Op(n + 1)), OutcomesAfter(db, out, Op(n + 1)), n + 1)
  <1>0. Len(decided) \in Nat /\ n \in Nat
    BY OpType
  <1>1. PICK op \in Command : op = Op(n + 1)
    BY <1>0, OpType
  <1>2. op.id \in 1 .. MaxCalls /\ op.key \in Key /\ op.type \in {"Get", "Put", "Append"}
    BY <1>1 DEF Command
  <1> DEFINE dbNext == DatabaseAfter(db, out, op)
             outNext == OutcomesAfter(db, out, op)
  <1>3. n + 1 \in 1 .. n + 1 /\ \A m \in 1 .. n + 1 : m = n + 1 \/ m \in 1 .. n
    BY <1>0
  <1>3a. \A m \in 1 .. n : m \in 1 .. n + 1
    BY <1>0
  <1>3b. First(n + 1) <=> \A m \in 1 .. n : Op(m).id # op.id
    BY <1>0, <1>1 DEF First
  <1>4. CASE out[op.id] = "none"
    <2>1. First(n + 1)
      BY <1>2, <1>3b, <1>4 DEF LinkedAt
    <2>2. dbNext = [db EXCEPT ![op.key] = After(db[op.key], op)]
      BY <1>4 DEF DatabaseAfter
    <2>3. dbNext = Last(n + 1)
      <3>1. CASE op.type # "Get"
        <4>1. Effective(n + 1)
          BY <1>1, <2>1, <3>1 DEF Effective, First
        <4>2. Last(n + 1) = [Last(n) EXCEPT ![op.key] = After(@, op)]
          BY <1>1, <4>1, EffectiveStep
        <4>3. QED
          BY <2>2, <4>2 DEF LinkedAt
      <3>2. CASE op.type = "Get"
        <4>1. Effects[n + 1] = Effects[n]
          BY <1>1, <3>2, EffectsRecursion DEF Effective
        <4>2. dbNext = db
          BY <1>2, <2>2, <3>2 DEF After, Databases
        <4>3. QED
          BY <4>1, <4>2 DEF LinkedAt, Last, W
      <3>3. QED
        BY <3>1, <3>2
    <2>4. /\ outNext[op.id] = IF op.type = "Get" /\ db[op.key] = <<>> THEN "ErrNoKey" ELSE "OK"
          /\ \A i \in 1 .. MaxCalls : i # op.id => outNext[i] = out[i]
      BY <1>2, <1>4 DEF OutcomesAfter, Outcomes
    <2>5. \A i \in 1 .. MaxCalls : outNext[i] # "none" <=> \E m \in 1 .. n + 1 : Op(m).id = i
      <3> TAKE i \in 1 .. MaxCalls
      <3>1. CASE i = op.id
        BY <1>1, <1>3, <2>4, <3>1
      <3>2. CASE i # op.id
        BY <1>1, <1>3, <1>3a, <2>4, <3>2 DEF LinkedAt
      <3>3. QED
        BY <3>1, <3>2
    <2>6. ASSUME NEW i \in 1 .. MaxCalls, outNext[i] = "ErrNoKey"
          PROVE  \E m \in 1 .. n + 1 : /\ Op(m).id = i /\ First(m)
                                       /\ Op(m).type = "Get" /\ Last(m)[Op(m).key] = <<>>
      <3>1. CASE i = op.id
        <4>1. op.type = "Get" /\ db[op.key] = <<>>
          BY <2>4, <2>6, <3>1
        <4>2. Effects[n + 1] = Effects[n]
          BY <1>1, <4>1, EffectsRecursion DEF Effective
        <4>3. Last(n + 1)[op.key] = <<>>
          BY <4>1, <4>2 DEF LinkedAt, Last, W
        <4>4. QED
          BY <1>1, <1>3, <2>1, <3>1, <4>1, <4>3
      <3>2. CASE i # op.id
        BY <1>3a, <2>4, <2>6, <3>2 DEF LinkedAt
      <3>3. QED
        BY <3>1, <3>2
    <2> HIDE DEF dbNext, outNext
    <2>7. LinkedAt(dbNext, outNext, n + 1)
      BY <2>3, <2>5, <2>6 DEF LinkedAt
    <2>8. QED
      BY <1>1, <2>7 DEF dbNext, outNext
  <1>5. CASE out[op.id] # "none"
    <2>1. dbNext = db /\ outNext = out
      BY <1>5 DEF DatabaseAfter, OutcomesAfter
    <2>2. PICK l \in 1 .. n : Op(l).id = op.id
      BY <1>2, <1>5 DEF LinkedAt
    <2>3. ~Effective(n + 1)
      BY <1>0, <1>1, <2>2 DEF Effective
    <2>4. Effects[n + 1] = Effects[n]
      BY <2>3, EffectsRecursion
    <2>5. db = Last(n + 1)
      BY <2>4 DEF LinkedAt, Last, W
    <2>6. \A i \in 1 .. MaxCalls :
            (\E m \in 1 .. n : Op(m).id = i) <=> (\E m \in 1 .. n + 1 : Op(m).id = i)
      BY <1>1, <1>3, <1>3a, <2>2
    <2>7. LinkedAt(db, out, n + 1)
      BY <1>3a, <2>5, <2>6 DEF LinkedAt
    <2> HIDE DEF dbNext, outNext
    <2>8. QED
      BY <1>1, <2>1, <2>7 DEF dbNext, outNext
  <1>6. QED
    BY <1>4, <1>5

LEMMA ReplayLinked ==
  ASSUME ReplayInv
  PROVE  /\ ServersLinked
         /\ \A s \in Server : Len(applied[s]) \in 0 .. Len(decided)
  <1>0. RaftTypeOK /\ Len(decided) \in Nat
    BY OpType DEF ReplayInv
  <1>1. PICK dbs \in [Nat -> Databases], outs \in [Nat -> Outcomes] :
          Replay(dbs, outs) /\ Follows(dbs, outs)
    BY DEF ReplayInv, Determined
  <1> DEFINE S == {n \in Nat : n <= Len(decided) => LinkedAt(dbs[n], outs[n], n)}
  <1>2. 0 \in S
    <2>1. W(0) = 0 /\ Last(0) = [k \in Key |-> <<>>]
      <3>1. Effects[0] = Zero
        BY <1>0, EffectsRecursion
      <3>2. Len(<<>>) = 0
        OBVIOUS
      <3>3. QED
        BY <3>1, <3>2 DEF W, Last, Zero
    <2>2. dbs[0] = [k \in Key |-> <<>>] /\ outs[0] = [i \in 1 .. MaxCalls |-> "none"]
      BY <1>1 DEF Replay
    <2>3. LinkedAt(dbs[0], outs[0], 0)
      BY <2>1, <2>2 DEF LinkedAt
    <2>4. QED
      BY <2>3
  <1>3. ASSUME NEW n \in Nat, n \in S PROVE n + 1 \in S
    <2> SUFFICES ASSUME n + 1 <= Len(decided) PROVE LinkedAt(dbs[n + 1], outs[n + 1], n + 1)
      OBVIOUS
    <2>1. n \in 0 .. Len(decided) - 1 /\ LinkedAt(dbs[n], outs[n], n)
      BY <1>0, <1>3
    <2>2. PICK db \in Databases : db = dbs[n]
      OBVIOUS
    <2>3. PICK out \in Outcomes : out = outs[n]
      OBVIOUS
    <2>4. LinkedAt(DatabaseAfter(db, out, Op(n + 1)), OutcomesAfter(db, out, Op(n + 1)), n + 1)
      BY <1>0, <2>1, <2>2, <2>3, LinkedNext
    <2>5. /\ dbs[n + 1] = DatabaseAfter(db, out, Op(n + 1))
          /\ outs[n + 1] = OutcomesAfter(db, out, Op(n + 1))
      BY <1>1, <2>1, <2>2, <2>3 DEF Replay, Op
    <2>6. QED
      BY <2>4, <2>5
  <1>4. \A n \in Nat : n \in S
    <2> HIDE DEF S
    <2> QED BY <1>2, <1>3, NatIn
  <1>5. \A s \in Server : Len(applied[s]) \in 0 .. Len(decided)
    BY <1>0 DEF ReplayInv, Prefixes, RaftTypeOK
  <1>6. ServersLinked
    BY <1>0, <1>1, <1>4, <1>5 DEF ServersLinked, Follows
  <1>7. QED
    BY <1>5, <1>6

-----------------------------------------------------------------------------
\* The part of the invariant that is about the writes which calls see.

\* A handler that reads the database has seen the outcome of its Get; one that has not
\* answered yet has no answer.
HandlerInv ==
  \A c \in Clerk : /\ pc[c] = "look" => cmd[c].type # "Get"
                   /\ pc[c] = "read" => cmd[c].type = "Get" /\ Found(c)
                   /\ pc[c] # "reply" => value[c] = <<>> /\ saw[c] = 0

\* What calls have seen is in the log.
SeenInv ==
  /\ floor \in [Clerk -> Nat] /\ saw \in [Clerk -> Nat] /\ seen \in Nat
  /\ seen <= W(Len(decided))
  /\ \A c \in Clerk : floor[c] <= seen /\ saw[c] <= W(Len(decided))

\* A call comes after the writes that it must see: wherever its command is in the log,
\* they are there before it.
FloorInv ==
  \A c \in Clerk, n \in 1 .. Len(decided) :
    cmd[c] # Nil /\ Op(n).id = cmd[c].id => floor[c] <= W(n)

\* A command that Raft has accepted is in the log, or its clerk still calls it.
StartedInv ==
  \A n \in DOMAIN started : Logged(started[n].id) \/ \E c \in Clerk : cmd[c] = started[n]

StoreInv == HandlerInv /\ SeenInv /\ FloorInv /\ StartedInv

\* A step that decides nothing leaves the effects of the log alone.
LEMMA SameLog ==
  ASSUME RaftTypeOK, RaftTypeOK', decided' = decided,
         \A n \in DOMAIN started : started'[n] = started[n]
  PROVE  /\ Len(decided') = Len(decided) /\ Len(decided) \in Nat
         /\ \A n \in 0 .. Len(decided) : Effects'[n] = Effects[n] /\ W(n)' = W(n)
         /\ \A n \in 1 .. Len(decided) : Op(n)' = Op(n)
         /\ \A i : Logged(i)' <=> Logged(i)
  <1>0. Len(decided) \in Nat /\ DOMAIN decided = 1 .. Len(decided)
    BY DEF RaftTypeOK
  <1>1. \A n \in 1 .. Len(decided) : decided[n] \in DOMAIN started
    BY DEF RaftTypeOK
  <1>2. \A n \in 1 .. Len(decided) : Op(n)' = Op(n)
    BY <1>1 DEF Op
  <1>3. \A n \in 0 .. Len(decided) : Effects'[n] = Effects[n]
    BY <1>0, <1>2, EffectsStay
  <1>4. \A i : Logged(i)' <=> Logged(i)
    BY <1>0, <1>1 DEF Logged
  <1>5. QED
    BY <1>0, <1>2, <1>3, <1>4 DEF W

\* What SawFirst is based on: the first place of the command in the log.
LEMMA FirstPlace ==
  ASSUME IInv, NEW c \in Clerk, cmd[c] # Nil, Logged(cmd[c].id)
  PROVE  \E i \in 1 .. Len(decided) : Op(i) = cmd[c] /\ First(i) /\ SawFirst(c) = W(i)
  <1>0. /\ RaftTypeOK /\ Len(decided) \in Nat /\ DOMAIN decided = 1 .. Len(decided)
        /\ \A n \in 1 .. Len(decided) : decided[n] \in DOMAIN started
    BY OpType DEF IInv, TypeOK, RaftTypeOK
  <1> DEFINE Same(i) == Op(i).id = cmd[c].id
             T == {i \in DOMAIN decided : Same(i)}
             P(i) == Same(i) /\ \A j \in 1 .. i - 1 : ~Same(j)
  <1>1. T \in SUBSET Nat /\ T # {}
    BY <1>0 DEF Logged, Op
  <1>2. PICK x \in T : \A y \in T : x <= y
    <2> HIDE DEF T
    <2> QED BY <1>1, NatMin
  <1>3. x \in DOMAIN decided /\ P(x)
    BY <1>0, <1>2
  <1>4. PICK i \in DOMAIN decided : i = (CHOOSE k \in DOMAIN decided : P(k)) /\ P(i)
    <2> HIDE DEF P
    <2> QED BY <1>3
  <1>5. SawFirst(c) = W(i)
    BY <1>4 DEF SawFirst, W
  <1>6. Op(i) = cmd[c]
    BY <1>0, <1>4 DEF Op, IInv, IdsUnique
  <1>7. First(i)
    BY <1>4 DEF First
  <1>8. QED
    BY <1>0, <1>5, <1>6, <1>7

\* A step of a handler, or a restart, keeps the invariant, if what it lets a call see
\* is in the log.
LEMMA StoreInvHandler ==
  ASSUME IInv, IInv', StoreInv, UNCHANGED <<decided, callVars>>,
         \A n \in DOMAIN started : started'[n] = started[n],
         \A n \in DOMAIN started' : n \in DOMAIN started \/ \E c \in Clerk : started'[n] = cmd[c],
         HandlerInv', saw' \in [Clerk -> Nat], \A c \in Clerk : saw'[c] <= W(Len(decided))
  PROVE  StoreInv'
  <1>1. /\ Len(decided') = Len(decided) /\ Len(decided) \in Nat
        /\ \A n \in 0 .. Len(decided) : W(n)' = W(n)
        /\ \A n \in 1 .. Len(decided) : Op(n)' = Op(n)
        /\ \A i : Logged(i)' <=> Logged(i)
    BY SameLog DEF IInv, TypeOK
  <1>2. UNCHANGED <<cmd, floor, seen>> /\ decided' = decided
    BY DEF callVars
  <1>3. W(Len(decided))' = W(Len(decided))
    <2>1. Len(decided) \in 0 .. Len(decided)
      BY <1>1
    <2>2. QED
      BY <1>1, <1>2, <2>1 DEF W
  <1>4. SeenInv'
    BY <1>2, <1>3 DEF StoreInv, SeenInv
  <1>5. FloorInv'
    BY <1>1, <1>2 DEF StoreInv, FloorInv
  <1>6. StartedInv'
    BY <1>1, <1>2 DEF StoreInv, StartedInv
  <1>7. QED
    BY <1>4, <1>5, <1>6 DEF StoreInv

\* The steps of the clerks and handlers, one by one.

LEMMA AnswerBound ==
  ASSUME IInv, StoreInv, NEW c \in Clerk, cmd[c] # Nil, leader[c] \in Server, Found(c)
  PROVE  /\ Logged(cmd[c].id)
         /\ SawFirst(c) \in Nat /\ floor[c] <= SawFirst(c) /\ SawFirst(c) <= W(Len(decided))
  <1>0. RaftTypeOK /\ Len(decided) \in Nat
    BY OpType DEF IInv, TypeOK
  <1>1. cmd[c].id \in 1 .. MaxCalls
    BY DEF IInv, TypeOK, ClerkTypeOK, Command
  <1>2. Logged(cmd[c].id)
    BY <1>1 DEF IInv, OutcomesLogged, Found, Outcome
  <1>3. PICK i \in 1 .. Len(decided) : Op(i) = cmd[c] /\ SawFirst(c) = W(i)
    BY <1>2, FirstPlace
  <1>4. W(i) \in Nat /\ W(i) <= W(Len(decided))
    <2>1. i \in 0 .. Len(decided) /\ Len(decided) \in 0 .. Len(decided) /\ i <= Len(decided)
      BY <1>0
    <2>2. QED
      BY <1>0, <2>1, EffectsGrow
  <1>5. floor[c] <= W(i)
    BY <1>3 DEF StoreInv, FloorInv
  <1>6. QED
    BY <1>2, <1>3, <1>4, <1>5

\* The conditions of StoreInvHandler that most steps meet by what they leave alone.
LEMMA StoreInvSawKept ==
  ASSUME IInv, IInv', StoreInv, UNCHANGED <<raftVars, callVars>>, UNCHANGED saw, HandlerInv'
  PROVE  StoreInv'
  <1>1. UNCHANGED <<started, decided>> /\ saw' = saw
    BY DEF raftVars
  <1>2. saw' \in [Clerk -> Nat] /\ \A c \in Clerk : saw'[c] <= W(Len(decided))
    BY DEF StoreInv, SeenInv
  <1>3. QED
    BY <1>1, <1>2, StoreInvHandler

LEMMA GetStateStoreInv ==
  ASSUME IInv, IInv', StoreInv, NEW c \in Clerk, GetState(c)
  PROVE  StoreInv'
  <1>1. HandlerInv'
    <2>1. /\ UNCHANGED <<cmd, outcomes, value, saw>>
          /\ pc' = [pc EXCEPT ![c] = IF cmd[c].type = "Get" THEN "start" ELSE "look"]
          /\ \A d \in Clerk : d # c => leader'[d] = leader[d]
          /\ pc[c] = "send"
      BY DEF GetState, Goto, callVars, dataVars, replyVars, IInv, TypeOK, ClerkTypeOK
    <2>2. QED
      BY <2>1 DEF StoreInv, HandlerInv, Found, Outcome, IInv, TypeOK, ClerkTypeOK
  <1>2. QED
    BY <1>1, StoreInvSawKept DEF GetState, replyVars

\* A handler has its answer: the writes up to where the command is in the log first.
LEMMA AnswerStoreInv ==
  ASSUME IInv, IInv', StoreInv, NEW c \in Clerk, pc[c] \in {"look", "poll"}, Found(c), Answer(c),
         UNCHANGED <<raftVars, dataVars, callVars>>
  PROVE  StoreInv'
  <1>1. /\ UNCHANGED <<cmd, outcomes, value, leader, started, decided>>
        /\ pc' = [pc EXCEPT ![c] = "reply"]
        /\ saw' = [saw EXCEPT ![c] = SawFirst(c)]
    BY DEF Answer, Goto, callVars, dataVars, raftVars
  <1>2. HandlerInv'
    BY <1>1 DEF StoreInv, HandlerInv, SeenInv, Found, Outcome, IInv, TypeOK, ClerkTypeOK
  <1>3. SawFirst(c) \in Nat /\ SawFirst(c) <= W(Len(decided))
    <2>1. cmd[c] # Nil /\ leader[c] \in Server
      BY DEF IInv, TypeOK, ClerkTypeOK
    <2>2. QED
      BY <2>1, AnswerBound
  <1>4. saw' \in [Clerk -> Nat] /\ \A d \in Clerk : saw'[d] <= W(Len(decided))
    BY <1>1, <1>3 DEF StoreInv, SeenInv
  <1>5. QED
    BY <1>1, <1>2, <1>4, StoreInvHandler

LEMMA LookUpStoreInv ==
  ASSUME IInv, IInv', StoreInv, NEW c \in Clerk, LookUp(c)
  PROVE  StoreInv'
  <1>1. CASE Found(c)
    BY <1>1, AnswerStoreInv DEF LookUp
  <1>2. CASE ~Found(c)
    <2>1. /\ UNCHANGED <<cmd, outcomes, value, saw, leader>>
          /\ pc' = [pc EXCEPT ![c] = "start"]
          /\ pc[c] = "look"
      BY <1>2 DEF LookUp, Goto, callVars, dataVars, replyVars
    <2>2. HandlerInv'
      BY <2>1 DEF StoreInv, HandlerInv, Found, Outcome, IInv, TypeOK, ClerkTypeOK
    <2>3. QED
      BY <2>1, <2>2, StoreInvSawKept DEF LookUp
  <1>3. QED
    BY <1>1, <1>2

LEMMA PollStoreInv ==
  ASSUME IInv, IInv', StoreInv, NEW c \in Clerk, Poll(c)
  PROVE  StoreInv'
  <1>1. CASE Answer(c)
    BY <1>1, AnswerStoreInv DEF Poll
  <1>2. CASE ~Answer(c)
    <2>1. /\ UNCHANGED <<cmd, outcomes, value, saw, leader>>
          /\ pc' = [pc EXCEPT ![c] = "read"]
          /\ pc[c] = "poll" /\ cmd[c].type = "Get" /\ Found(c)
      BY <1>2 DEF Poll, Goto, callVars, dataVars, replyVars
    <2>2. HandlerInv'
      BY <2>1 DEF StoreInv, HandlerInv, Found, Outcome, IInv, TypeOK, ClerkTypeOK
    <2>3. QED
      BY <2>1, <2>2, StoreInvSawKept DEF Poll
  <1>3. QED
    BY <1>1, <1>2

LEMMA StartStoreInv ==
  ASSUME IInv, IInv', StoreInv, NEW c \in Clerk, Start(c)
  PROVE  StoreInv'
  <1>1. /\ UNCHANGED <<cmd, outcomes, value, saw, leader, decided>> /\ UNCHANGED callVars
        /\ pc' = [pc EXCEPT ![c] = "poll"]
        /\ pc[c] = "start"
        /\ started' = started \/ started' = Append(started, cmd[c])
    BY DEF Start, Goto, callVars, dataVars, replyVars
  <1>2. HandlerInv'
    BY <1>1 DEF StoreInv, HandlerInv, Found, Outcome, IInv, TypeOK, ClerkTypeOK
  <1>3. /\ \A n \in DOMAIN started : started'[n] = started[n]
        /\ \A n \in DOMAIN started' : n \in DOMAIN started \/ started'[n] = cmd[c]
    <2>1. started \in Seq(Command)
      BY DEF IInv, TypeOK, RaftTypeOK
    <2>2. CASE started' = started
      BY <2>2
    <2>3. CASE started' = Append(started, cmd[c])
      <3>1. cmd[c] \in Command
        BY <1>1 DEF IInv, TypeOK, ClerkTypeOK
      <3>2. QED
        BY <2>1, <2>3, <3>1
    <2>4. QED
      BY <1>1, <2>2, <2>3
  <1>4. saw' \in [Clerk -> Nat] /\ \A d \in Clerk : saw'[d] <= W(Len(decided))
    BY <1>1 DEF StoreInv, SeenInv
  <1>5. QED
    BY <1>1, <1>2, <1>3, <1>4, StoreInvHandler

\* Get reads what the server has executed, which is in the log.
LEMMA ReadValueStoreInv ==
  ASSUME IInv, IInv', ReplayInv, StoreInv, NEW c \in Clerk, ReadValue(c)
  PROVE  StoreInv'
  <1> DEFINE l == Len(applied[leader[c]])
  <1>1. /\ UNCHANGED <<cmd, outcomes, leader, started, decided>> /\ UNCHANGED callVars
        /\ pc' = [pc EXCEPT ![c] = "reply"] /\ pc[c] = "read"
        /\ saw' = [saw EXCEPT ![c] = W(l)]
        /\ \A d \in Clerk : d # c => value'[d] = value[d]
    BY DEF ReadValue, Goto, callVars, dataVars, raftVars, W, IInv, TypeOK, ClerkTypeOK
  <1>2. W(l) \in Nat /\ W(l) <= W(Len(decided))
    <2>0. RaftTypeOK /\ Len(decided) \in Nat
      BY OpType DEF IInv, TypeOK
    <2>1. leader[c] \in Server
      BY <1>1 DEF IInv, TypeOK, ClerkTypeOK
    <2>2. l \in 0 .. Len(decided)
      BY <2>1, ReplayLinked
    <2>3. Len(decided) \in 0 .. Len(decided) /\ l <= Len(decided)
      BY <2>0, <2>2
    <2> HIDE DEF l
    <2>4. QED
      BY <2>0, <2>2, <2>3, EffectsGrow
  <1> HIDE DEF l
  <1>3. HandlerInv'
    BY <1>1, <1>2 DEF StoreInv, HandlerInv, SeenInv, Found, Outcome, IInv, TypeOK, ClerkTypeOK
  <1>4. saw' \in [Clerk -> Nat] /\ \A d \in Clerk : saw'[d] <= W(Len(decided))
    BY <1>1, <1>2 DEF StoreInv, SeenInv
  <1>5. QED
    BY <1>1, <1>3, <1>4, StoreInvHandler

\* Clerks that try the next server have seen nothing.
LEMMA RetryStoreInv ==
  ASSUME IInv, IInv', StoreInv, NEW cs \in SUBSET Clerk, Retry(cs),
         UNCHANGED <<started, decided, callVars>>,
         \A c \in Clerk \ cs : pc[c] = "read" => outcomes'[leader[c]] = outcomes[leader[c]]
  PROVE  StoreInv'
  <1>1. UNCHANGED cmd
    BY DEF callVars
  <1>2. HandlerInv'
    BY <1>1 DEF Retry, StoreInv, HandlerInv, Found, Outcome
  <1>3. saw' \in [Clerk -> Nat] /\ \A d \in Clerk : saw'[d] <= W(Len(decided))
    <2>1. /\ W(Len(decided)) \in Nat /\ saw \in [Clerk -> Nat]
          /\ \A d \in Clerk : saw[d] <= W(Len(decided))
      BY WholeLog DEF StoreInv, SeenInv, IInv, TypeOK
    <2>2. QED
      BY <2>1 DEF Retry
  <1>4. QED
    BY <1>2, <1>3, StoreInvHandler

LEMMA CrashStoreInv ==
  ASSUME IInv, IInv', StoreInv, NEW s \in Server, Crash(s)
  PROVE  StoreInv'
  <1>1. /\ UNCHANGED <<started, decided, callVars>>
        /\ Retry({c \in Clerk : leader[c] = s})
        /\ \A p \in Server : p # s => outcomes'[p] = outcomes[p]
    BY DEF Crash, Log!Restart, IInv, TypeOK, DataTypeOK
  <1>2. \A c \in Clerk : pc[c] = "read" => leader[c] \in Server
    BY DEF IInv, TypeOK, ClerkTypeOK
  <1>3. QED
    BY <1>1, <1>2, RetryStoreInv

\* A new call must see what calls that have returned saw; its CommandId is nowhere yet.
LEMMA CallStoreInv ==
  ASSUME IInv, IInv', StoreInv, NEW c \in Clerk, Call(c)
  PROVE  StoreInv'
  <1>0. RaftTypeOK /\ RaftTypeOK'
    BY DEF IInv, TypeOK
  <1>1. PICK new \in Command : cmd' = [cmd EXCEPT ![c] = new] /\ new.id = issued + 1
    <2>1. PICK type \in {"Get", "Put", "Append"}, key \in Key :
            cmd' = [cmd EXCEPT ![c] = [id |-> issued + 1, type |-> type, key |-> key]]
      BY DEF Call
    <2>2. [id |-> issued + 1, type |-> type, key |-> key] \in Command
      BY KVAssumption DEF Call, IInv, TypeOK, ClerkTypeOK, Command
    <2>3. QED
      BY <2>1, <2>2
  <1>2. /\ UNCHANGED <<started, decided, outcomes, leader, value, saw, seen>>
        /\ pc' = [pc EXCEPT ![c] = "send"] /\ pc[c] = "idle"
        /\ floor' = [floor EXCEPT ![c] = seen]
    BY DEF Call, raftVars, dataVars, replyVars
  <1>3. cmd'[c] = new /\ \A d \in Clerk : d # c => cmd'[d] = cmd[d]
    BY <1>1 DEF IInv, TypeOK, ClerkTypeOK
  <1>4. /\ Len(decided') = Len(decided) /\ Len(decided) \in Nat
        /\ \A n \in 0 .. Len(decided) : W(n)' = W(n)
        /\ \A n \in 1 .. Len(decided) : Op(n)' = Op(n)
        /\ \A i : Logged(i)' <=> Logged(i)
    BY <1>0, <1>2, SameLog
  <1>5. W(Len(decided))' = W(Len(decided))
    <2>1. Len(decided) \in 0 .. Len(decided)
      BY <1>4
    <2>2. QED
      BY <1>2, <1>4, <2>1 DEF W
  <1>6. HandlerInv'
    BY <1>2, <1>3 DEF StoreInv, HandlerInv, Found, Outcome, IInv, TypeOK, ClerkTypeOK
  <1>7. SeenInv'
    BY <1>2, <1>5 DEF StoreInv, SeenInv
  <1>8. FloorInv'
    <2> SUFFICES ASSUME NEW d \in Clerk, NEW n \in 1 .. Len(decided),
                        cmd'[d] # Nil, Op(n).id = cmd'[d].id
                 PROVE  floor'[d] <= W(n)
      BY <1>4 DEF FloorInv
    <2>1. CASE d = c
      <3>1. Op(n).id <= issued /\ Op(n).id \in Nat /\ issued \in Nat
        <4>1. decided[n] \in DOMAIN started
          BY <1>0, <1>4 DEF RaftTypeOK
        <4>2. Op(n) \in Command
          BY <1>0, OpType
        <4>3. QED
          BY <4>1, <4>2 DEF IInv, IdsUnique, Op, TypeOK, ClerkTypeOK, Command
      <3>2. QED
        BY <1>1, <1>3, <2>1, <3>1
    <2>2. CASE d # c
      BY <1>2, <1>3, <2>2 DEF StoreInv, FloorInv, SeenInv
    <2>3. QED
      BY <2>1, <2>2
  <1>9. StartedInv'
    <2> SUFFICES ASSUME NEW n \in DOMAIN started, ~Logged(started[n].id)
                 PROVE  \E d \in Clerk : cmd'[d] = started[n]
      BY <1>2, <1>4 DEF StartedInv
    <2>1. PICK d \in Clerk : cmd[d] = started[n]
      BY DEF StoreInv, StartedInv
    <2>2. cmd[d] # Nil
      <3>1. started[n] \in Command
        BY <1>0 DEF RaftTypeOK
      <3>2. QED
        BY <2>1, <3>1, NilAssumption
    <2>3. d # c
      BY <1>2, <2>2 DEF IInv, TypeOK, ClerkTypeOK
    <2>4. QED
      BY <1>3, <2>1, <2>3
  <1>10. QED
    BY <1>6, <1>7, <1>8, <1>9 DEF StoreInv

\* A call that returns is in the log.
LEMMA ReturnStoreInv ==
  ASSUME IInv, IInv', StoreInv, NEW c \in Clerk, Return(c)
  PROVE  StoreInv'
  <1>0. RaftTypeOK /\ RaftTypeOK'
    BY DEF IInv, TypeOK
  <1>1. /\ UNCHANGED <<started, decided, outcomes>>
        /\ pc' = [pc EXCEPT ![c] = "idle"] /\ pc[c] = "reply"
        /\ cmd' = [cmd EXCEPT ![c] = Nil] /\ leader' = [leader EXCEPT ![c] = Nil]
        /\ value' = [value EXCEPT ![c] = <<>>] /\ saw' = [saw EXCEPT ![c] = 0]
        /\ floor' = [floor EXCEPT ![c] = 0]
        /\ seen' = IF saw[c] > seen THEN saw[c] ELSE seen
    BY DEF Return, raftVars, dataVars
  <1>2. cmd'[c] = Nil /\ \A d \in Clerk : d # c => cmd'[d] = cmd[d]
    BY <1>1 DEF IInv, TypeOK, ClerkTypeOK
  <1>3. /\ Len(decided') = Len(decided) /\ Len(decided) \in Nat
        /\ \A n \in 0 .. Len(decided) : W(n)' = W(n)
        /\ \A n \in 1 .. Len(decided) : Op(n)' = Op(n)
        /\ \A i : Logged(i)' <=> Logged(i)
    BY <1>0, <1>1, SameLog
  <1>4. W(Len(decided))' = W(Len(decided)) /\ W(Len(decided)) \in Nat
    <2>1. Len(decided) \in 0 .. Len(decided)
      BY <1>3
    <2>2. QED
      BY <1>0, <1>1, <1>3, <2>1, WholeLog DEF W
  <1>5. HandlerInv'
    BY <1>1, <1>2 DEF StoreInv, HandlerInv, SeenInv, Found, Outcome, IInv, TypeOK, ClerkTypeOK
  <1>6. SeenInv'
    BY <1>1, <1>4 DEF StoreInv, SeenInv
  <1>7. FloorInv'
    BY <1>1, <1>2, <1>3 DEF StoreInv, FloorInv, SeenInv
  <1>8. StartedInv'
    <2> SUFFICES ASSUME NEW n \in DOMAIN started, ~Logged(started[n].id)
                 PROVE  \E d \in Clerk : cmd'[d] = started[n]
      BY <1>1, <1>3 DEF StartedInv
    <2>1. PICK d \in Clerk : cmd[d] = started[n]
      BY DEF StoreInv, StartedInv
    <2>2. d # c
      BY <1>1, <2>1 DEF IInv, AnswersLogged, Logged
    <2>3. QED
      BY <1>2, <2>1, <2>2
  <1>9. QED
    BY <1>5, <1>6, <1>7, <1>8 DEF StoreInv

\* What a new place of the log does.
LEMMA DecideEffects ==
  ASSUME RaftTypeOK, RaftTypeOK', started' = started,
         NEW x \in 1 .. Len(started), decided' = Append(decided, x)
  PROVE  LET l == Len(decided)
             new == Effects'[l + 1]
         IN  /\ l \in Nat /\ Len(decided') = l + 1 /\ decided'[l + 1] = x
             /\ \A n \in 1 .. l : decided'[n] = decided[n] /\ Op(n)' = Op(n)
             /\ \A n \in 0 .. l : Effects'[n] = Effects[n]
             /\ W(l) \in Nat /\ Len(new.writes) \in Nat /\ W(l) <= Len(new.writes)
             /\ \/ new = Effects[l]
                \/ /\ new = Execute(Effects[l], started[x]) /\ started[x].type # "Get"
                   /\ \A j \in 1 .. l : Op(j).id # started[x].id
  <1>0. PICK l \in Nat : l = Len(decided)
    BY OpType
  <1>1. /\ Len(decided') = l + 1 /\ decided'[l + 1] = x
        /\ \A n \in 1 .. l : decided'[n] = decided[n]
    BY <1>0 DEF RaftTypeOK
  <1>2. \A n \in 1 .. l : Op(n)' = Op(n)
    BY <1>1 DEF Op
  <1>3. \A n \in 0 .. l : Effects'[n] = Effects[n]
    BY <1>0, <1>1, <1>2, EffectsStay
  <1>4. Op(l + 1)' = started[x] /\ started[x] \in Command
    BY <1>1 DEF Op, RaftTypeOK
  <1>5. Effects'[l + 1] = IF Effective(l + 1)' THEN Execute(Effects[l], started[x]) ELSE Effects[l]
    <2>1. l \in 0 .. Len(decided') - 1 /\ l \in 0 .. l
      BY <1>1
    <2>2. QED
      BY <1>3, <1>4, <2>1, EffectsRecursionNext
  <1>6. Effects[l] \in History /\ W(l) \in Nat
    BY <1>0, EffectsRecursion, WholeLog
  <1>7. CASE Effective(l + 1)'
    <2>1. Grown(Effects'[l + 1], Effects[l], started[x])
      BY <1>4, <1>5, <1>6, <1>7, ExecuteType
    <2>2. started[x].type # "Get"
      BY <1>4, <1>7 DEF Effective
    <2>3. \A j \in 1 .. l : Op(j).id # started[x].id
      <3>1. \A j \in 1 .. l + 1 - 1 : Op(j)'.id # Op(l + 1)'.id
        BY <1>7 DEF Effective
      <3>2. QED
        BY <1>1, <1>2, <1>4, <3>1
    <2>4. Len(Effects'[l + 1].writes) = W(l) + 1
      BY <2>1 DEF Grown, W
    <2>5. QED
      BY <1>0, <1>1, <1>2, <1>3, <1>5, <1>6, <1>7, <2>2, <2>3, <2>4
  <1>8. CASE ~Effective(l + 1)'
    BY <1>0, <1>1, <1>2, <1>3, <1>5, <1>6, <1>8 DEF W
  <1>9. QED
    BY <1>7, <1>8

LEMMA ReadApplyChannelStoreInv ==
  ASSUME IInv, IInv', StoreInv, NEW s \in Server, ReadApplyChannel(s)
  PROVE  StoreInv'
  <1>0. RaftTypeOK /\ RaftTypeOK'
    BY DEF IInv, TypeOK
  <1>1. /\ UNCHANGED <<started, pc, leader, cmd, value, saw, floor, seen>>
        /\ UNCHANGED callVars
    BY DEF ReadApplyChannel, replyVars, callVars
  <1>2. \A p \in Server, i \in 1 .. MaxCalls : outcomes[p][i] # "none" => outcomes'[p][i] # "none"
    <2>1. PICK op \in Command : op = started[applied'[s][Len(applied[s]) + 1]]
      BY AppliedIsDecided, MembersOfSeq DEF IInv, TypeOK, RaftTypeOK
    <2>2. op.id \in 1 .. MaxCalls
      BY DEF Command
    <2>3. \/ outcomes' = outcomes
          \/ \E o \in {"OK", "ErrNoKey"} : outcomes' = [outcomes EXCEPT ![s][op.id] = o]
      BY <2>1 DEF ReadApplyChannel, dataVars
    <2>4. outcomes \in [Server -> [1 .. MaxCalls -> {"none", "OK", "ErrNoKey"}]]
      BY DEF IInv, TypeOK, DataTypeOK
    <2>5. ASSUME NEW o \in {"OK", "ErrNoKey"}, outcomes' = [outcomes EXCEPT ![s][op.id] = o],
                 NEW p \in Server, NEW i \in 1 .. MaxCalls, outcomes[p][i] # "none"
          PROVE  outcomes'[p][i] # "none"
      <3>1. CASE p = s /\ i = op.id
        BY <2>2, <2>4, <2>5, <3>1
      <3>2. CASE p # s \/ i # op.id
        BY <2>2, <2>4, <2>5, <3>2
      <3>3. QED
        BY <3>1, <3>2
    <2>6. QED
      BY <2>3, <2>5
  <1>3. HandlerInv'
    <2>1. \A c \in Clerk : pc[c] = "read" => leader[c] \in Server /\ cmd[c].id \in 1 .. MaxCalls
      BY DEF IInv, TypeOK, ClerkTypeOK, Command
    <2>2. QED
      BY <1>1, <1>2, <2>1 DEF StoreInv, HandlerInv, Found, Outcome
  <1>4. CASE Log!Advance(s)
    <2>1. decided' = decided
      BY <1>4 DEF Log!Advance
    <2>2. saw' \in [Clerk -> Nat] /\ \A d \in Clerk : saw'[d] <= W(Len(decided))
      BY <1>1 DEF StoreInv, SeenInv
    <2>3. QED
      BY <1>1, <1>3, <2>1, <2>2, StoreInvHandler
  <1>5. CASE Log!Decide(s)
    <2> DEFINE l == Len(decided)
    <2>1. PICK x \in 1 .. Len(started) : decided' = Append(decided, x)
      BY <1>5 DEF Log!Decide
    <2>2. /\ l \in Nat /\ Len(decided') = l + 1
          /\ \A n \in 1 .. l : decided'[n] = decided[n] /\ Op(n)' = Op(n)
          /\ \A n \in 0 .. l : Effects'[n] = Effects[n]
          /\ W(l) \in Nat /\ Len(Effects'[l + 1].writes) \in Nat
          /\ W(l) <= Len(Effects'[l + 1].writes)
      BY <1>0, <1>1, <2>1, DecideEffects
    <2>3. SeenInv'
      BY <1>1, <2>2 DEF StoreInv, SeenInv, W
    <2>4. FloorInv'
      <3> SUFFICES ASSUME NEW c \in Clerk, NEW n \in 1 .. l + 1,
                          cmd[c] # Nil, Op(n)'.id = cmd[c].id
                   PROVE  floor[c] <= Len(Effects'[n].writes)
        BY <1>1, <2>2 DEF FloorInv, W
      <3>1. CASE n \in 1 .. l
        BY <2>2, <3>1 DEF StoreInv, FloorInv, W
      <3>2. CASE n = l + 1
        <4>1. floor[c] \in Nat /\ floor[c] <= seen /\ seen \in Nat /\ seen <= W(l)
          BY DEF StoreInv, SeenInv
        <4>2. QED
          BY <2>2, <3>2, <4>1
      <3>3. QED
        BY <2>2, <3>1, <3>2
    <2>5. StartedInv'
      <3>1. DOMAIN decided = 1 .. l /\ DOMAIN decided' = 1 .. l + 1
        BY <1>0, <2>2 DEF RaftTypeOK
      <3>2. \A i : Logged(i) => Logged(i)'
        BY <1>1, <2>2, <3>1 DEF Logged
      <3>3. QED
        BY <1>1, <3>2 DEF StoreInv, StartedInv
    <2>6. QED
      BY <1>3, <2>3, <2>4, <2>5 DEF StoreInv
  <1>6. QED
    BY <1>4, <1>5 DEF ReadApplyChannel

LEMMA InitStoreInv == Init => StoreInv
  <1> SUFFICES ASSUME Init PROVE StoreInv
    OBVIOUS
  <1>1. RaftTypeOK /\ Len(decided) = 0
    BY InitInvariant DEF Init, IInv, TypeOK
  <1>2. W(Len(decided)) \in Nat
    BY <1>1, WholeLog
  <1>3. HandlerInv
    BY DEF Init, HandlerInv
  <1>4. SeenInv
    BY <1>2 DEF Init, SeenInv
  <1>5. FloorInv /\ StartedInv
    BY <1>1 DEF Init, FloorInv, StartedInv
  <1>6. QED
    BY <1>3, <1>4, <1>5 DEF StoreInv

LEMMA StepStoreInv == IInv /\ ReplayInv /\ StoreInv /\ [Next]_vars => StoreInv'
  <1> SUFFICES ASSUME IInv, ReplayInv, StoreInv, [Next]_vars PROVE StoreInv'
    OBVIOUS
  <1>0. IInv'
    BY StepInvariant
  <1>1. ASSUME NEW c \in Clerk, ClerkStep(c) PROVE StoreInv'
    <2>1. CASE Call(c)
      BY <1>0, <2>1, CallStoreInv
    <2>2. CASE GetState(c)
      BY <1>0, <2>2, GetStateStoreInv
    <2>3. CASE LookUp(c)
      BY <1>0, <2>3, LookUpStoreInv
    <2>4. CASE Start(c)
      BY <1>0, <2>4, StartStoreInv
    <2>5. CASE Poll(c)
      BY <1>0, <2>5, PollStoreInv
    <2>6. CASE WrongLeader(c) \/ LoseReply(c)
      <3>1. Retry({c}) /\ UNCHANGED <<started, decided, callVars>> /\ outcomes' = outcomes
        BY <2>6 DEF WrongLeader, LoseReply, raftVars, dataVars
      <3>2. {c} \in SUBSET Clerk
        OBVIOUS
      <3>3. QED
        BY <1>0, <3>1, <3>2, RetryStoreInv
    <2>7. CASE ReadValue(c)
      BY <1>0, <2>7, ReadValueStoreInv
    <2>8. CASE Return(c)
      BY <1>0, <2>8, ReturnStoreInv
    <2>9. QED
      BY <1>1, <2>1, <2>2, <2>3, <2>4, <2>5, <2>6, <2>7, <2>8 DEF ClerkStep, HandlerStep
  <1>2. ASSUME NEW s \in Server, ReadApplyChannel(s) PROVE StoreInv'
    BY <1>0, <1>2, ReadApplyChannelStoreInv
  <1>3. ASSUME NEW s \in Server, Crash(s) PROVE StoreInv'
    BY <1>0, <1>3, CrashStoreInv
  <1>4. CASE UNCHANGED vars
    <2>1. /\ UNCHANGED <<outcomes, pc, cmd, leader, value, saw>>
          /\ UNCHANGED raftVars /\ UNCHANGED callVars
      BY <1>4 DEF vars, dataVars, replyVars, callVars
    <2>2. HandlerInv'
      BY <2>1 DEF StoreInv, HandlerInv, Found, Outcome
    <2>3. QED
      BY <1>0, <2>1, <2>2, StoreInvSawKept
  <1>5. QED
    BY <1>1, <1>2, <1>3, <1>4 DEF Next

LEMMA StoreInvariant == Spec => [](IInv /\ ReplayInv /\ StoreInv)
  <1>1. Init => IInv /\ ReplayInv /\ StoreInv
    BY InitInvariant, InitReplay, InitStoreInv
  <1>2. IInv /\ ReplayInv /\ StoreInv /\ [Next]_vars => (IInv /\ ReplayInv /\ StoreInv)'
    BY StepInvariant, StepReplay, StepStoreInv
  <1>3. QED
    BY <1>1, <1>2, PTL DEF Spec

-----------------------------------------------------------------------------
\* Every step is one of the store, or changes nothing that its clerks see.

StoreStep == [Store!Next]_(Store!storeVars)

\* A step that decides nothing leaves what has been written alone.
LEMMA SameWrites ==
  ASSUME IInv, IInv', decided' = decided, \A n \in DOMAIN started : started'[n] = started[n]
  PROVE  Effects'[Len(decided')] = Effects[Len(decided)]
  <1>1. PICK l \in Nat : l = Len(decided)
    BY OpType DEF IInv, TypeOK
  <1>2. Effects'[l] = Effects[l] /\ Len(decided') = l
    BY <1>1, SameLog DEF IInv, TypeOK
  <1>3. QED
    BY <1>1, <1>2

LEMMA StartedGrows ==
  ASSUME IInv, NEW c \in Clerk, Start(c)
  PROVE  \A n \in DOMAIN started : started'[n] = started[n]
  <1>1. started \in Seq(Command) /\ cmd[c] \in Command
    BY DEF IInv, TypeOK, RaftTypeOK, ClerkTypeOK, Start
  <1>2. QED
    BY <1>1 DEF Start

\* Where a handler is, before it has its answer, is nothing to its clerk.
LEMMA Stutter ==
  ASSUME IInv, IInv', UNCHANGED <<decided, callVars, replyVars>>,
         \A n \in DOMAIN started : started'[n] = started[n],
         \A c \in Clerk : pc'[c] = "reply" <=> pc[c] = "reply"
  PROVE  StoreStep
  <1>1. UNCHANGED <<cmd, floor, seen, value, saw>>
    BY DEF callVars, replyVars
  <1>2. Effects'[Len(decided')] = Effects[Len(decided)]
    BY SameWrites
  <1>3. Replies' = Replies
    BY <1>1 DEF Replies
  <1>4. QED
    BY <1>1, <1>2, <1>3 DEF StoreStep, Store!storeVars

LEMMA StoreCall ==
  ASSUME IInv, IInv', NEW c \in Clerk, Call(c)
  PROVE  StoreStep
  <1>1. PICK new \in Command : cmd' = [cmd EXCEPT ![c] = new]
    <2>1. PICK type \in {"Get", "Put", "Append"}, key \in Key :
            cmd' = [cmd EXCEPT ![c] = [id |-> issued + 1, type |-> type, key |-> key]]
      BY DEF Call
    <2>2. [id |-> issued + 1, type |-> type, key |-> key] \in Command
      BY KVAssumption DEF Call, IInv, TypeOK, ClerkTypeOK, Command
    <2>3. QED
      BY <2>1, <2>2
  <1>2. /\ UNCHANGED <<started, decided, value, saw, seen>>
        /\ pc' = [pc EXCEPT ![c] = "send"] /\ pc[c] = "idle"
        /\ floor' = [floor EXCEPT ![c] = seen]
    BY DEF Call, raftVars, replyVars
  <1>3. Effects'[Len(decided')] = Effects[Len(decided)]
    BY <1>2, SameWrites
  <1>4. Replies' = Replies
    <2>1. \A d \in Clerk : pc'[d] = "reply" <=> pc[d] = "reply"
      BY <1>2 DEF IInv, TypeOK, ClerkTypeOK
    <2>2. QED
      BY <1>2, <2>1 DEF Replies
  <1>5. cmd[c] = Nil
    BY <1>2 DEF IInv, TypeOK, ClerkTypeOK
  <1>6. Store!Call(c, new)
    BY <1>1, <1>2, <1>3, <1>4, <1>5 DEF Store!Call
  <1>7. QED
    BY <1>6 DEF StoreStep, Store!Next

\* A reply is lost, or will not come.
LEMMA StoreLose ==
  ASSUME IInv, IInv', NEW cs \in SUBSET Clerk, Retry(cs), UNCHANGED <<started, decided, callVars>>
  PROVE  StoreStep
  <1>1. UNCHANGED <<cmd, floor, seen>>
    BY DEF callVars
  <1>2. Effects'[Len(decided')] = Effects[Len(decided)]
    BY SameWrites
  <1>3. Replies' = [c \in Clerk |-> IF c \in cs THEN Nil ELSE Replies[c]]
    BY DEF Replies, Retry
  <1>4. Store!Lose(cs)
    BY <1>1, <1>2, <1>3 DEF Store!Lose
  <1>5. QED
    BY <1>4 DEF StoreStep, Store!Next

LEMMA RepliesNotNil ==
  ASSUME IInv, StoreInv, NEW c \in Clerk
  PROVE  Replies[c] # Nil <=> pc[c] = "reply"
  <1>1. value[c] \in Seq(1 .. MaxCalls) /\ saw[c] \in Nat
    BY DEF IInv, TypeOK, ClerkTypeOK, StoreInv, SeenInv
  <1>2. [value |-> value[c], saw |-> saw[c]] # Nil
    BY <1>1, NilAssumption
  <1>3. QED
    BY <1>2 DEF Replies

LEMMA StoreReturn ==
  ASSUME IInv, IInv', StoreInv, NEW c \in Clerk, Return(c)
  PROVE  StoreStep
  <1>1. /\ UNCHANGED <<started, decided>>
        /\ pc' = [pc EXCEPT ![c] = "idle"] /\ pc[c] = "reply"
        /\ cmd' = [cmd EXCEPT ![c] = Nil] /\ floor' = [floor EXCEPT ![c] = 0]
        /\ value' = [value EXCEPT ![c] = <<>>] /\ saw' = [saw EXCEPT ![c] = 0]
        /\ seen' = IF saw[c] > seen THEN saw[c] ELSE seen
    BY DEF Return, raftVars
  <1>2. Effects'[Len(decided')] = Effects[Len(decided)]
    BY <1>1, SameWrites
  <1>3. Replies[c] # Nil /\ Replies[c].saw = saw[c]
    BY <1>1, RepliesNotNil DEF Replies
  <1>4. Replies' = [Replies EXCEPT ![c] = Nil]
    <2>1. /\ pc'[c] = "idle"
          /\ \A d \in Clerk : d # c => /\ pc'[d] = pc[d] /\ value'[d] = value[d]
                                       /\ saw'[d] = saw[d]
      BY <1>1 DEF IInv, TypeOK, ClerkTypeOK, StoreInv, SeenInv
    <2>2. QED
      BY <2>1 DEF Replies
  <1>5. Store!Return(c)
    BY <1>1, <1>2, <1>3, <1>4 DEF Store!Return
  <1>6. QED
    BY <1>5 DEF StoreStep, Store!Next

\* A handler answers from the writes of the log up to the n-th.
LEMMA StoreAnswer ==
  ASSUME IInv, IInv', StoreInv, NEW c \in Clerk, UNCHANGED <<started, decided, callVars>>,
         pc[c] \in {"look", "poll", "read"}, pc' = [pc EXCEPT ![c] = "reply"],
         NEW n \in Nat, floor[c] <= n, n <= W(Len(decided)),
         saw' = [saw EXCEPT ![c] = n],
         \A d \in Clerk : d # c => value'[d] = value[d],
         value'[c] = IF cmd[c].type = "Get"
                     THEN Effects[Len(decided)].stores[n + 1][cmd[c].key] ELSE <<>>,
         cmd[c].type # "Get" => n > 0 /\ Effects[Len(decided)].writes[n] = cmd[c]
  PROVE  StoreStep
  <1>1. UNCHANGED <<cmd, floor, seen>>
    BY DEF callVars
  <1>2. Effects'[Len(decided')] = Effects[Len(decided)]
    BY SameWrites
  <1>3. cmd[c] # Nil
    BY DEF IInv, TypeOK, ClerkTypeOK
  <1>4. Replies[c] = Nil
    BY DEF Replies
  <1>5. n \in floor[c] .. W(Len(decided))
    BY WholeLog DEF StoreInv, SeenInv, IInv, TypeOK
  <1>6. Replies' = [Replies EXCEPT ![c] = [value |-> value'[c], saw |-> n]]
    <2>1. /\ pc'[c] = "reply" /\ saw'[c] = n
          /\ \A d \in Clerk : d # c => pc'[d] = pc[d] /\ saw'[d] = saw[d]
      BY DEF IInv, TypeOK, ClerkTypeOK, StoreInv, SeenInv
    <2>2. QED
      BY <2>1 DEF Replies
  <1>7. Store!Reply(c, n) = [value |-> value'[c], saw |-> n]
    BY DEF Store!Reply
  <1>8. Store!Answer(c)
    BY <1>1, <1>2, <1>3, <1>4, <1>5, <1>6, <1>7 DEF Store!Answer, W
  <1>9. QED
    BY <1>8 DEF StoreStep, Store!Next

\* The answer to a command that has been executed: a write is the last of the writes up
\* to there, a Get without a value had none there.
LEMMA StoreAnswerFirst ==
  ASSUME IInv, IInv', ReplayInv, StoreInv, NEW c \in Clerk, UNCHANGED <<raftVars, dataVars, callVars>>,
         pc[c] \in {"look", "poll"}, Found(c), Answer(c),
         cmd[c].type = "Get" => Outcome(c) = "ErrNoKey"
  PROVE  StoreStep
  <1>0. PICK l \in Nat : l = Len(decided) /\ RaftTypeOK
    BY OpType DEF IInv, TypeOK
  <1>1. cmd[c] # Nil /\ leader[c] \in Server /\ cmd[c].id \in 1 .. MaxCalls
    BY DEF IInv, TypeOK, ClerkTypeOK, Command
  <1>2. /\ Logged(cmd[c].id) /\ SawFirst(c) \in Nat
        /\ floor[c] <= SawFirst(c) /\ SawFirst(c) <= W(l)
    BY <1>0, <1>1, AnswerBound
  <1>3. PICK i \in 1 .. l : Op(i) = cmd[c] /\ First(i) /\ SawFirst(c) = W(i)
    BY <1>0, <1>1, <1>2, FirstPlace
  <1>4. /\ i - 1 \in 0 .. l - 1 /\ i - 1 + 1 = i /\ i \in 0 .. l /\ l \in 0 .. l /\ i <= l
    BY <1>0
  <1>5. /\ W(i) \in Nat /\ W(l) \in Nat
        /\ \A j \in 1 .. W(i) : Effects[l].writes[j] = Effects[i].writes[j]
        /\ \A j \in 1 .. W(i) + 1 : Effects[l].stores[j] = Effects[i].stores[j]
    BY <1>0, <1>4, EffectsGrow
  <1>6. ASSUME cmd[c].type # "Get" PROVE W(i) > 0 /\ Effects[l].writes[W(i)] = cmd[c]
    <2>1. Effective(i)
      BY <1>3, <1>6 DEF Effective, First
    <2>2. PICK k \in 0 .. Len(decided) - 1 : k + 1 = i
      BY <1>0, <1>4
    <2>3. Effective(k + 1)
      BY <2>1, <2>2
    <2>4. /\ W(k) \in Nat /\ W(k + 1) = W(k) + 1
          /\ Effects[k + 1].writes[W(k) + 1] = Op(k + 1)
      BY <1>0, <2>3, EffectiveStep
    <2>5. W(i) > 0 /\ Effects[i].writes[W(i)] = cmd[c]
      BY <1>3, <2>2, <2>4
    <2>6. QED
      BY <1>5, <2>5
  <1>7. ASSUME cmd[c].type = "Get" PROVE Effects[l].stores[W(i) + 1][cmd[c].key] = <<>>
    <2>1. /\ outcomes[leader[c]][cmd[c].id] = "ErrNoKey"
          /\ LinkedAt(database[leader[c]], outcomes[leader[c]], Len(applied[leader[c]]))
      BY <1>1, <1>7, ReplayLinked DEF Outcome, ServersLinked
    <2>2. Len(applied[leader[c]]) \in 0 .. l
      BY <1>0, <1>1, ReplayLinked
    <2>3. PICK m \in 1 .. Len(applied[leader[c]]) :
            Op(m).id = cmd[c].id /\ First(m) /\ Last(m)[Op(m).key] = <<>>
      BY <1>1, <2>1 DEF LinkedAt
    <2>4. m = i
      <3>1. m \in Nat /\ i \in Nat
        BY <2>2
      <3>2. m < i => m \in 1 .. i - 1
        BY <3>1, <2>2
      <3>3. i < m => i \in 1 .. m - 1
        BY <3>1
      <3>4. QED
        BY <1>3, <2>3, <3>1, <3>2, <3>3 DEF First
    <2>5. QED
      BY <1>3, <1>5, <2>3, <2>4 DEF Last
  <1>8. /\ pc' = [pc EXCEPT ![c] = "reply"] /\ saw' = [saw EXCEPT ![c] = W(i)]
        /\ value' = value /\ value[c] = <<>> /\ UNCHANGED <<started, decided, callVars>>
    BY <1>3 DEF Answer, Goto, raftVars, StoreInv, HandlerInv
  <1>9. QED
    BY <1>0, <1>2, <1>3, <1>5, <1>6, <1>7, <1>8, StoreAnswer

\* Get answers what the database has, which is the value after the writes that the
\* server has executed.
LEMMA StoreReadValue ==
  ASSUME IInv, IInv', ReplayInv, StoreInv, NEW c \in Clerk, ReadValue(c)
  PROVE  StoreStep
  <1>0. PICK l \in Nat : l = Len(decided) /\ RaftTypeOK
    BY OpType DEF IInv, TypeOK
  <1>1. /\ leader[c] \in Server /\ cmd[c].id \in 1 .. MaxCalls /\ cmd[c] # Nil
        /\ pc[c] = "read" /\ cmd[c].type = "Get" /\ Found(c)
    BY DEF IInv, TypeOK, ClerkTypeOK, Command, ReadValue, StoreInv, HandlerInv
  <1>2. PICK n \in 0 .. l : n = Len(applied[leader[c]])
    BY <1>0, <1>1, ReplayLinked
  <1>3. LinkedAt(database[leader[c]], outcomes[leader[c]], n)
    BY <1>1, <1>2, ReplayLinked DEF ServersLinked
  <1>4. PICK m \in 1 .. n : Op(m).id = cmd[c].id
    BY <1>1, <1>3 DEF LinkedAt, Found, Outcome
  <1>5. n \in 0 .. l /\ m \in 0 .. l /\ m \in 1 .. l /\ l \in 0 .. l /\ m <= n /\ n <= l
    BY <1>0
  <1>6. W(m) \in Nat /\ W(n) \in Nat /\ W(m) <= W(n)
    BY <1>0, <1>5, EffectsGrow
  <1>7. W(n) <= W(l) /\ \A j \in 1 .. W(n) + 1 : Effects[l].stores[j] = Effects[n].stores[j]
    BY <1>0, <1>5, EffectsGrow
  <1>8. floor[c] <= W(m) /\ floor[c] \in Nat
    BY <1>0, <1>1, <1>4, <1>5 DEF StoreInv, FloorInv, SeenInv
  <1>9. Effects[l].stores[W(n) + 1] = database[leader[c]]
    BY <1>3, <1>6, <1>7 DEF LinkedAt, Last
  <1>10. /\ pc' = [pc EXCEPT ![c] = "reply"] /\ saw' = [saw EXCEPT ![c] = W(n)]
         /\ value' = [value EXCEPT ![c] = database[leader[c]][cmd[c].key]]
         /\ UNCHANGED <<started, decided, callVars>>
    BY <1>2 DEF ReadValue, Goto, raftVars, W
  <1>11. /\ value'[c] = database[leader[c]][cmd[c].key]
         /\ \A d \in Clerk : d # c => value'[d] = value[d]
    BY <1>10 DEF IInv, TypeOK, ClerkTypeOK
  <1>12. floor[c] <= W(n)
    BY <1>6, <1>8
  <1>13. QED
    BY <1>0, <1>1, <1>6, <1>7, <1>9, <1>10, <1>11, <1>12, StoreAnswer

LEMMA StoreLookUp ==
  ASSUME IInv, IInv', ReplayInv, StoreInv, NEW c \in Clerk, LookUp(c)
  PROVE  StoreStep
  <1>1. CASE Found(c)
    <2>1. cmd[c].type # "Get"
      BY DEF LookUp, StoreInv, HandlerInv
    <2>2. QED
      BY <1>1, <2>1, StoreAnswerFirst DEF LookUp
  <1>2. CASE ~Found(c)
    <2>1. /\ UNCHANGED <<started, decided, callVars, replyVars>>
          /\ pc' = [pc EXCEPT ![c] = "start"] /\ pc[c] = "look"
      BY <1>2 DEF LookUp, Goto, raftVars
    <2>2. \A d \in Clerk : pc'[d] = "reply" <=> pc[d] = "reply"
      BY <2>1 DEF IInv, TypeOK, ClerkTypeOK
    <2>3. QED
      BY <2>1, <2>2, Stutter
  <1>3. QED
    BY <1>1, <1>2

LEMMA StorePoll ==
  ASSUME IInv, IInv', ReplayInv, StoreInv, NEW c \in Clerk, Poll(c)
  PROVE  StoreStep
  <1>1. CASE cmd[c].type = "Get" /\ Outcome(c) # "ErrNoKey"
    <2>1. /\ UNCHANGED <<started, decided, callVars, replyVars>>
          /\ pc' = [pc EXCEPT ![c] = "read"] /\ pc[c] = "poll"
      BY <1>1 DEF Poll, Goto, raftVars
    <2>2. \A d \in Clerk : pc'[d] = "reply" <=> pc[d] = "reply"
      BY <2>1 DEF IInv, TypeOK, ClerkTypeOK
    <2>3. QED
      BY <2>1, <2>2, Stutter
  <1>2. CASE ~ (cmd[c].type = "Get" /\ Outcome(c) # "ErrNoKey")
    BY <1>2, StoreAnswerFirst DEF Poll
  <1>3. QED
    BY <1>1, <1>2

\* Every write is somewhere in the log.
LEMMA WritesLogged ==
  ASSUME RaftTypeOK
  PROVE  \A n \in 0 .. Len(decided), i \in 1 .. W(Len(decided)) :
           i <= W(n) => \E m \in 1 .. n : Op(m) = Effects[n].writes[i]
  <1>0. Len(decided) \in Nat
    BY OpType
  <1> DEFINE named(n) == \A i \in 1 .. W(n) : \E m \in 1 .. n : Op(m) = Effects[n].writes[i]
             S == {n \in Nat : n <= Len(decided) => named(n)}
  <1>1. 0 \in S
    <2>1. W(0) = 0
      <3>1. Effects[0] = Zero /\ Len(<<>>) = 0
        BY EffectsRecursion
      <3>2. QED
        BY <3>1 DEF W, Zero
    <2>2. QED
      BY <2>1
  <1>2. ASSUME NEW n \in Nat, n \in S PROVE n + 1 \in S
    <2> SUFFICES ASSUME n + 1 <= Len(decided) PROVE named(n + 1)
      OBVIOUS
    <2>1. n \in 0 .. Len(decided) - 1 /\ named(n)
      BY <1>0, <1>2
    <2>2. n + 1 \in 1 .. n + 1 /\ \A m \in 1 .. n : m \in 1 .. n + 1
      OBVIOUS
    <2>3. CASE Effective(n + 1)
      <3>1. /\ W(n) \in Nat /\ W(n + 1) = W(n) + 1
            /\ Effects[n + 1].writes[W(n) + 1] = Op(n + 1)
            /\ \A i \in 1 .. W(n) : Effects[n + 1].writes[i] = Effects[n].writes[i]
        BY <2>1, <2>3, EffectiveStep
      <3>2. ASSUME NEW i \in 1 .. W(n + 1)
            PROVE  \E m \in 1 .. n + 1 : Op(m) = Effects[n + 1].writes[i]
        <4>1. CASE i = W(n) + 1
          BY <2>2, <3>1, <4>1
        <4>2. CASE i \in 1 .. W(n)
          BY <2>1, <2>2, <3>1, <4>2
        <4>3. QED
          BY <3>1, <4>1, <4>2
      <3>3. QED
        BY <3>2
    <2>4. CASE ~Effective(n + 1)
      <3>1. Effects[n + 1] = Effects[n] /\ W(n + 1) = W(n)
        BY <2>1, <2>4, EffectsRecursion DEF W
      <3>2. QED
        BY <2>1, <2>2, <3>1
    <2>5. QED
      BY <2>3, <2>4
  <1>3. \A n \in Nat : n \in S
    <2> HIDE DEF S
    <2> QED BY <1>1, <1>2, NatIn
  <1>4. \A n \in 0 .. Len(decided) : named(n) /\ W(n) \in Nat
    BY <1>0, <1>3, WholeLog
  <1>5. QED
    BY <1>0, <1>4, WholeLog

\* A command that is decided takes effect as its clerk's call, once, or not at all.
LEMMA StoreDecide ==
  ASSUME IInv, IInv', StoreInv, NEW s \in Server, ReadApplyChannel(s), Log!Decide(s)
  PROVE  StoreStep
  <1>0. PICK l \in Nat : l = Len(decided) /\ RaftTypeOK /\ RaftTypeOK'
    BY OpType DEF IInv, TypeOK
  <1>1. UNCHANGED <<started, pc, cmd, value, saw, floor, seen>>
    BY DEF ReadApplyChannel, replyVars, callVars
  <1>2. Replies' = Replies
    BY <1>1 DEF Replies
  <1>3. PICK x \in 1 .. Len(started) : decided' = Append(decided, x)
    BY DEF Log!Decide
  <1>4. /\ Len(decided') = l + 1
        /\ \/ Effects'[l + 1] = Effects[l]
           \/ /\ Effects'[l + 1] = Execute(Effects[l], started[x]) /\ started[x].type # "Get"
              /\ \A j \in 1 .. l : Op(j).id # started[x].id
    BY <1>0, <1>1, <1>3, DecideEffects
  <1>5. CASE Effects'[l + 1] = Effects[l]
    BY <1>0, <1>1, <1>2, <1>4, <1>5 DEF StoreStep, Store!storeVars
  <1>6. CASE /\ Effects'[l + 1] = Execute(Effects[l], started[x]) /\ started[x].type # "Get"
             /\ \A j \in 1 .. l : Op(j).id # started[x].id
    <2>0. started[x] \in Command /\ x \in DOMAIN started /\ DOMAIN decided = 1 .. l
      BY <1>0 DEF RaftTypeOK
    <2>1. PICK c \in Clerk : cmd[c] = started[x]
      BY <1>6, <2>0 DEF StoreInv, StartedInv, Logged, Op
    <2>2. cmd[c] # Nil
      BY <2>0, <2>1, NilAssumption
    <2>3. PICK e \in History : e = Effects[l]
      BY <1>0, EffectsRecursion
    <2>4. DOMAIN e.writes = 1 .. W(l) /\ W(l) \in Nat /\ Len(e.stores) = W(l) + 1
      BY <2>3 DEF History, W
    <2>5. \A i \in DOMAIN e.writes : e.writes[i].id # cmd[c].id
      <3> TAKE i \in DOMAIN e.writes
      <3>1. PICK m \in 1 .. l : Op(m) = e.writes[i]
        <4>1. l \in 0 .. Len(decided) /\ i \in 1 .. W(Len(decided)) /\ i <= W(l)
          BY <1>0, <2>4
        <4>2. QED
          BY <1>0, <2>3, <4>1, WritesLogged
      <3>2. QED
        BY <1>6, <2>1, <3>1
    <2>6. Effects'[l + 1] =
            [writes |-> Append(e.writes, cmd[c]),
             stores |-> Append(e.stores, [e.stores[Len(e.stores)] EXCEPT
                                            ![cmd[c].key] = Store!After(@, cmd[c])])]
      <3>1. cmd[c].type \in {"Put", "Append"}
        BY <1>6, <2>0, <2>1 DEF Command
      <3>2. \A old : After(old, cmd[c]) = Store!After(old, cmd[c])
        BY <3>1 DEF After, Store!After
      <3>3. Effects'[l + 1] = Execute(e, cmd[c])
        BY <1>6, <2>1, <2>3
      <3>4. QED
        BY <3>2, <3>3 DEF Execute
    <2>7. Store!Write(c)
      <3>1. cmd[c].type # "Get"
        BY <1>6, <2>1
      <3>2. Effects[Len(decided)] = e /\ Effects'[Len(decided')] = Effects'[l + 1]
        BY <1>0, <1>4, <2>3
      <3>3. \A i \in DOMAIN Effects[Len(decided)].writes :
              Effects[Len(decided)].writes[i].id # cmd[c].id
        BY <2>5, <3>2
      <3>4. /\ Effects'[Len(decided')].writes = Append(Effects[Len(decided)].writes, cmd[c])
            /\ Effects'[Len(decided')].stores =
                 Append(Effects[Len(decided)].stores,
                        [Effects[Len(decided)].stores[Len(Effects[Len(decided)].stores)] EXCEPT
                           ![cmd[c].key] = Store!After(@, cmd[c])])
        BY <2>6, <3>2
      <3>5. UNCHANGED <<cmd, floor, Replies, seen>>
        BY <1>1, <1>2
      <3>6. QED
        BY <2>2, <3>1, <3>3, <3>4, <3>5 DEF Store!Write
    <2>8. QED
      BY <2>7 DEF StoreStep, Store!Next
  <1>7. QED
    BY <1>4, <1>5, <1>6

-----------------------------------------------------------------------------
LEMMA StoreInit == Init => Store!Init
  <1> SUFFICES ASSUME Init PROVE Store!Init
    OBVIOUS
  <1>1. Len(decided) = 0 /\ RaftTypeOK
    BY InitInvariant DEF Init, IInv, TypeOK
  <1>2. Effects[Len(decided)] = Zero
    BY <1>1, EffectsRecursion
  <1>3. Replies = [c \in Clerk |-> Nil]
    BY DEF Init, Replies
  <1>4. QED
    BY <1>2, <1>3 DEF Init, Store!Init, Zero

LEMMA StoreNext == IInv /\ IInv' /\ ReplayInv /\ StoreInv /\ [Next]_vars => StoreStep
  <1> SUFFICES ASSUME IInv, IInv', ReplayInv, StoreInv, [Next]_vars PROVE StoreStep
    OBVIOUS
  <1>1. ASSUME NEW c \in Clerk, ClerkStep(c) PROVE StoreStep
    <2>1. CASE Call(c)
      BY <2>1, StoreCall
    <2>2. CASE GetState(c)
      <3>1. /\ UNCHANGED <<started, decided, callVars, replyVars>>
            /\ pc[c] = "send" /\ pc' = [pc EXCEPT ![c] = IF cmd[c].type = "Get" THEN "start" ELSE "look"]
        BY <2>2 DEF GetState, Goto, raftVars
      <3>2. \A d \in Clerk : pc'[d] = "reply" <=> pc[d] = "reply"
        BY <3>1 DEF IInv, TypeOK, ClerkTypeOK
      <3>3. QED
        BY <3>1, <3>2, Stutter
    <2>3. CASE LookUp(c)
      BY <2>3, StoreLookUp
    <2>4. CASE Start(c)
      <3>1. /\ UNCHANGED <<decided, callVars, replyVars>>
            /\ pc[c] = "start" /\ pc' = [pc EXCEPT ![c] = "poll"]
        BY <2>4 DEF Start, Goto
      <3>2. \A d \in Clerk : pc'[d] = "reply" <=> pc[d] = "reply"
        BY <3>1 DEF IInv, TypeOK, ClerkTypeOK
      <3>3. QED
        BY <2>4, <3>1, <3>2, StartedGrows, Stutter
    <2>5. CASE Poll(c)
      BY <2>5, StorePoll
    <2>6. CASE WrongLeader(c) \/ LoseReply(c)
      <3>1. Retry({c}) /\ UNCHANGED <<started, decided, callVars>> /\ {c} \in SUBSET Clerk
        BY <2>6 DEF WrongLeader, LoseReply, raftVars
      <3>2. QED
        BY <3>1, StoreLose
    <2>7. CASE ReadValue(c)
      BY <2>7, StoreReadValue
    <2>8. CASE Return(c)
      BY <2>8, StoreReturn
    <2>9. QED
      BY <1>1, <2>1, <2>2, <2>3, <2>4, <2>5, <2>6, <2>7, <2>8 DEF ClerkStep, HandlerStep
  <1>2. ASSUME NEW s \in Server, ReadApplyChannel(s) PROVE StoreStep
    <2>1. CASE Log!Decide(s)
      BY <1>2, <2>1, StoreDecide
    <2>2. CASE Log!Advance(s)
      <3>1. UNCHANGED <<started, decided, callVars, replyVars, pc>>
        BY <1>2, <2>2 DEF ReadApplyChannel, Log!Advance
      <3>2. QED
        BY <3>1, Stutter
    <2>3. QED
      BY <1>2, <2>1, <2>2 DEF ReadApplyChannel
  <1>3. ASSUME NEW s \in Server, Crash(s) PROVE StoreStep
    <2>1. /\ Retry({c \in Clerk : leader[c] = s}) /\ UNCHANGED <<started, decided, callVars>>
          /\ {c \in Clerk : leader[c] = s} \in SUBSET Clerk
      BY <1>3 DEF Crash, Log!Restart
    <2>2. QED
      BY <2>1, StoreLose
  <1>4. CASE UNCHANGED vars
    <2>1. UNCHANGED <<started, decided, callVars, replyVars, pc>>
      BY <1>4 DEF vars, raftVars
    <2>2. QED
      BY <2>1, Stutter
  <1>5. QED
    BY <1>1, <1>2, <1>3, <1>4 DEF Next

\* The service is a linearizable store to its clerks, for any number of servers, clerks,
\* keys and calls, whatever is sent again, logged twice or started again (Get and
\* PutAppend of client.go and server.go, readApplyChannel).
THEOREM Linearizable == Spec => ImplementsStore
  <1>1. Init => Store!Init
    BY StoreInit
  <1>2. IInv /\ IInv' /\ ReplayInv /\ StoreInv /\ [Next]_vars => [Store!Next]_(Store!storeVars)
    BY StoreNext DEF StoreStep
  <1>3. QED
    BY <1>1, <1>2, StoreInvariant, PTL DEF Spec, ImplementsStore, Store!Spec
=============================================================================
