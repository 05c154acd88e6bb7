------------------------------ MODULE KVStore ------------------------------
(***************************************************************************)
(* What the key/value service of src/Distributed Systems/kvraft promises   *)
(* to its clerks: a linearizable store.  Every Put and Append takes effect *)
(* once, between its call and its return.  A Get returns the value after   *)
(* some number of writes, no fewer than any call has seen that returned    *)
(* before the Get was called.                                              *)
(***************************************************************************)
EXTENDS Integers, Sequences

CONSTANTS
  Clerk, Key,
  Command,   \* what clerks may call: an id, a type and a key
  Nil        \* no command

VARIABLES
  calls,    \* the command that each clerk has called and that has not returned, or Nil
  floor,    \* the number of writes its call must see at least
  writes,   \* the writes that have taken effect, in order
  stores,   \* every key's value before the first of them and after each
  replies,  \* the reply to each clerk's call: a value, and how many writes it saw
  seen      \* the number of writes that some call that has returned saw

storeVars == <<calls, floor, writes, stores, replies, seen>>

\* A value is the list of the writes it was made by: a Put starts it anew.
After(old, w) == IF w.type = "Put" THEN <<w.id>> ELSE Append(old, w.id)

Init ==
  /\ calls = [c \in Clerk |-> Nil]
  /\ floor = [c \in Clerk |-> 0]
  /\ writes = <<>> /\ seen = 0
  /\ stores = <<[k \in Key |-> <<>>]>>
  /\ replies = [c \in Clerk |-> Nil]

Call(c, cmd) ==
  /\ calls[c] = Nil
  /\ calls' = [calls EXCEPT ![c] = cmd]
  /\ floor' = [floor EXCEPT ![c] = seen]
  /\ UNCHANGED <<writes, stores, replies, seen>>

\* A write takes effect, once.
Write(c) ==
  /\ calls[c] # Nil /\ calls[c].type # "Get"
  /\ \A i \in DOMAIN writes : writes[i].id # calls[c].id
  /\ writes' = Append(writes, calls[c])
  /\ stores' = Append(stores, [stores[Len(stores)] EXCEPT ![calls[c].key] = After(@, calls[c])])
  /\ UNCHANGED <<calls, floor, replies, seen>>

\* What a call may be answered: a Get, the value after the first n writes; a write,
\* nothing but that it was the n-th.
Reply(c, n) ==
  IF calls[c].type = "Get"
  THEN [value |-> stores[n + 1][calls[c].key], saw |-> n]
  ELSE [value |-> <<>>, saw |-> n]

Answer(c) ==
  /\ calls[c] # Nil /\ replies[c] = Nil
  /\ \E n \in floor[c] .. Len(writes) :
       /\ calls[c].type # "Get" => n > 0 /\ writes[n] = calls[c]
       /\ replies' = [replies EXCEPT ![c] = Reply(c, n)]
  /\ UNCHANGED <<calls, floor, writes, stores, seen>>

\* Replies may be lost.
Lose(lost) ==
  /\ replies' = [c \in Clerk |-> IF c \in lost THEN Nil ELSE replies[c]]
  /\ UNCHANGED <<calls, floor, writes, stores, seen>>

Return(c) ==
  /\ replies[c] # Nil
  /\ calls' = [calls EXCEPT ![c] = Nil]
  /\ floor' = [floor EXCEPT ![c] = 0]
  /\ replies' = [replies EXCEPT ![c] = Nil]
  /\ seen' = IF replies[c].saw > seen THEN replies[c].saw ELSE seen
  /\ UNCHANGED <<writes, stores>>

Next ==
  \/ \E lost \in SUBSET Clerk : Lose(lost)
  \/ \E c \in Clerk : \/ \E cmd \in Command : Call(c, cmd)
                      \/ Write(c) \/ Answer(c) \/ Return(c)

Spec == Init /\ [][Next]_storeVars
=============================================================================
