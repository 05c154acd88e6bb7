---------------------------- MODULE NatRecursion ----------------------------
(***************************************************************************)
(* Induction on the natural numbers for sets, and functions defined by     *)
(* recursion on them, which the proofs about several components need.      *)
(***************************************************************************)
EXTENDS Integers, TLAPS, WellFoundedInduction

-----------------------------------------------------------------------------
\* A set of natural numbers that is not empty has a least one.
LEMMA NatMin ==
  ASSUME NEW T \in SUBSET Nat, T # {}
  PROVE  \E x \in T : \A y \in T : x <= y
  <1> DEFINE R == OpToRel(<, Nat)
  <1>1. \A x, y \in Nat : <<y, x>> \in R <=> y < x
    BY DEF OpToRel
  <1>2. IsWellFoundedOn(R, Nat)
    BY NatLessThanWellFounded
  <1> HIDE DEF R
  <1>3. PICK x \in T : \A y \in T : ~ (<<y, x>> \in R)
    BY <1>2, WFMin
  <1>4. x \in Nat /\ \A y \in T : y \in Nat
    OBVIOUS
  <1>5. \A y \in T : ~ (y < x)
    BY <1>1, <1>3, <1>4
  <1>6. QED
    BY <1>4, <1>5

\* Induction, for the set S of the numbers that have a property.
LEMMA NatIn ==
  ASSUME NEW S, 0 \in S, \A n \in Nat : n \in S => n + 1 \in S
  PROVE  \A n \in Nat : n \in S
  <1> DEFINE T == Nat \ S
  <1>1. SUFFICES ASSUME T # {} PROVE FALSE
    OBVIOUS
  <1>2. PICK x \in T : \A y \in T : x <= y
    <2> HIDE DEF T
    <2>1. T \in SUBSET Nat
      BY DEF T
    <2>2. QED
      BY <1>1, <2>1, NatMin
  <1>3. x # 0 /\ x - 1 \in Nat /\ x - 1 \in S
    BY <1>2
  <1>4. QED
    BY <1>2, <1>3

\* The first n values of a function that is defined by recursion.
Recurs(f, v0, step, n) == f[0] = v0 /\ \A m \in 0 .. n - 1 : f[m + 1] = step[m][f[m]]

\* Those values are determined.
LEMMA RecursUnique ==
  ASSUME NEW v0, NEW step, NEW f, NEW g, NEW n \in Nat,
         Recurs(f, v0, step, n), Recurs(g, v0, step, n)
  PROVE  \A m \in 0 .. n : f[m] = g[m]
  <1> DEFINE S == {m \in Nat : m <= n => f[m] = g[m]}
  <1>1. 0 \in S
    BY DEF Recurs
  <1>2. ASSUME NEW m \in Nat, m \in S PROVE m + 1 \in S
    BY <1>2 DEF Recurs
  <1>3. \A m \in Nat : m \in S
    <2> HIDE DEF S
    <2> QED BY <1>1, <1>2, NatIn
  <1>4. QED
    BY <1>3

\* A step for each number, from values to values.
Steps(V) == [Nat -> [V -> V]]

\* A function that is defined by recursion exists.
LEMMA PrimitiveRecursion ==
  ASSUME NEW V, NEW v0 \in V, NEW step \in Steps(V)
  PROVE  \E f \in [Nat -> V] : f[0] = v0 /\ \A n \in Nat : f[n + 1] = step[n][f[n]]
  <1> DEFINE S == {n \in Nat : \E f \in [Nat -> V] : Recurs(f, v0, step, n)}
  <1>1. 0 \in S
    <2>1. [n \in Nat |-> v0] \in [Nat -> V] /\ Recurs([n \in Nat |-> v0], v0, step, 0)
      BY DEF Recurs
    <2>2. QED
      BY <2>1
  <1>2. ASSUME NEW n \in Nat, n \in S PROVE n + 1 \in S
    <2>1. PICK f \in [Nat -> V] : Recurs(f, v0, step, n)
      BY <1>2
    <2>2. PICK g \in [Nat -> V] : g = [f EXCEPT ![n + 1] = step[n][f[n]]]
      <3>1. step[n][f[n]] \in V
        BY DEF Steps
      <3>2. QED
        BY <3>1
    <2>3. Recurs(g, v0, step, n + 1)
      BY <2>1, <2>2 DEF Recurs
    <2>4. QED
      BY <2>3
  <1>3. \A n \in Nat : n \in S
    <2> HIDE DEF S
    <2> QED BY <1>1, <1>2, NatIn
  <1> DEFINE P(n) == CHOOSE f : f \in [Nat -> V] /\ Recurs(f, v0, step, n)
             F == [n \in Nat |-> P(n)[n]]
  <1>4. \A n \in Nat : P(n) \in [Nat -> V] /\ Recurs(P(n), v0, step, n)
    BY <1>3
  <1> HIDE DEF P
  <1>5. F \in [Nat -> V]
    BY <1>4
  <1>6. F[0] = v0
    BY <1>4 DEF Recurs
  <1>7. ASSUME NEW n \in Nat PROVE F[n + 1] = step[n][F[n]]
    <2>1. P(n + 1)[n + 1] = step[n][P(n + 1)[n]]
      BY <1>4 DEF Recurs
    <2>2. Recurs(P(n + 1), v0, step, n)
      BY <1>4 DEF Recurs
    <2>3. Recurs(P(n), v0, step, n)
      BY <1>4
    <2>4. P(n + 1)[n] = P(n)[n]
      BY <2>2, <2>3, RecursUnique
    <2>5. QED
      BY <2>1, <2>4
  <1>8. QED
    BY <1>5, <1>6, <1>7
=============================================================================
