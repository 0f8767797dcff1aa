----------------------------- MODULE Induction -----------------------------
(***************************************************************************)
(* Induction without operators as parameters: over the naturals, for sets; *)
(* and the existence of functions defined by recursion on 0 .. n.          *)
(***************************************************************************)
EXTENDS Integers, FiniteSetTheorems, WellFoundedInduction, TLAPS

\* Every set of naturals that is not empty has a least member.  (The sets
\* 0 .. n are well-founded under inclusion.)
LEMMA LeastOf ==
  ASSUME NEW S, S \subseteq Nat, S # {}
  PROVE  \E m \in S : \A n \in S : m <= n
<1> DEFINE T == {0 .. n : n \in S}
           R == StrictSubsetOrdering(Nat)
<1>1. IsWellFoundedOn(R, FiniteSubsetsOf(Nat))
  BY FS_StrictSubsetOrderingWellFounded
<1>2. T \subseteq FiniteSubsetsOf(Nat)
  <2> SUFFICES ASSUME NEW n \in S PROVE 0 .. n \in FiniteSubsetsOf(Nat)
    OBVIOUS
  <2>1. n \in Int /\ 0 .. n \in SUBSET Nat
    OBVIOUS
  <2>2. IsFiniteSet(0 .. n)
    BY <2>1, FS_Interval
  <2> QED BY <2>1, <2>2 DEF FiniteSubsetsOf
<1>3. T # {}
  OBVIOUS
<1>4. PICK t \in T : \A u \in T : ~(<<u, t>> \in R)
  <2> HIDE DEF T, R
  <2> QED BY <1>1, <1>2, <1>3, WFMin
<1>5. PICK m \in S : t = 0 .. m
  BY <1>4
<1>6. ASSUME NEW n \in S, n < m PROVE FALSE
  <2>1. 0 .. n \in SUBSET Nat /\ 0 .. m \in SUBSET Nat
    BY <1>6
  <2>2. 0 .. n \subseteq 0 .. m /\ 0 .. n # 0 .. m
    BY <1>6
  <2>3. <<0 .. n, 0 .. m>> \in R
    BY <2>1, <2>2 DEF StrictSubsetOrdering
  <2> QED BY <1>4, <1>5, <2>3
<1> QED BY <1>6

\* A set that holds zero and with each number up to a bound its successor holds
\* every number up to the bound.
LEMMA UpTo ==
  ASSUME NEW N \in Nat, NEW S, 0 \in S,
         \A n \in 0 .. N - 1 : n \in S => n + 1 \in S
  PROVE  0 .. N \subseteq S
<1> SUFFICES ASSUME 0 .. N \ S # {} PROVE FALSE
  OBVIOUS
<1>1. 0 .. N \ S \subseteq Nat
  OBVIOUS
<1>2. PICK m \in 0 .. N \ S : \A n \in 0 .. N \ S : m <= n
  BY <1>1, LeastOf
<1>3. m # 0 /\ m - 1 \in 0 .. N - 1 /\ ~(m <= m - 1)
  BY <1>2
<1>4. m - 1 \in S
  BY <1>2, <1>3
<1> QED
  BY <1>2, <1>3, <1>4

\* The same without a bound.
LEMMA Onwards ==
  ASSUME NEW S, 0 \in S, \A n \in Nat : n \in S => n + 1 \in S
  PROVE  Nat \subseteq S
<1> SUFFICES ASSUME NEW n \in Nat PROVE n \in S
  OBVIOUS
<1>1. 0 .. n \subseteq S
  BY UpTo
<1> QED
  BY <1>1

\* A minimal member of a collection of subsets of a finite set.
LEMMA SmallestOf ==
  ASSUME NEW S, IsFiniteSet(S), NEW C, C \subseteq SUBSET S, C # {}
  PROVE  \E t \in C : \A u \in C : u \subseteq t => u = t
<1> DEFINE R == StrictSubsetOrdering(S)
<1>1. IsWellFoundedOn(R, FiniteSubsetsOf(S))
  BY FS_StrictSubsetOrderingWellFounded
<1>2. C \subseteq FiniteSubsetsOf(S)
  BY FS_Subset DEF FiniteSubsetsOf
<1>3. PICK t \in C : \A u \in C : ~(<<u, t>> \in R)
  <2> HIDE DEF R
  <2> QED BY <1>1, <1>2, WFMin
<1>4. ASSUME NEW u \in C, u \subseteq t, u # t PROVE FALSE
  BY <1>3, <1>4 DEF StrictSubsetOrdering
<1> QED
  BY <1>4

\* f is what start and step generate over 0 .. N.
Recurs(f, N, S, start, step) ==
  /\ f \in [0 .. N -> S]
  /\ f[0] = start
  /\ \A n \in 0 .. N - 1 : f[n + 1] = step[<<f[n], n>>]

\* A recursion over 0 .. N that stays in a set defines a function: there is one
\* that solves its equation.
LEMMA Recursion ==
  ASSUME NEW N \in Nat, NEW S, NEW start \in S,
         NEW step \in [S \X Nat -> S]
  PROVE  \E f : Recurs(f, N, S, start, step)
<1> DEFINE Good == {k \in 0 .. N : \E f : Recurs(f, k, S, start, step)}
<1>1. 0 \in Good
  <2> DEFINE f == [n \in 0 .. 0 |-> start]
  <2>1. Recurs(f, 0, S, start, step)
    BY DEF Recurs
  <2> HIDE DEF f
  <2> QED
    BY <2>1
<1>2. ASSUME NEW k \in 0 .. N - 1, k \in Good PROVE k + 1 \in Good
  <2>1. PICK f : Recurs(f, k, S, start, step)
    BY <1>2
  <2> DEFINE g == [n \in 0 .. k + 1 |->
                     IF n <= k THEN f[n] ELSE step[<<f[k], k>>]]
  <2>2. f[k] \in S /\ k + 1 \in 0 .. N
    BY <2>1 DEF Recurs
  <2>3. step[<<f[k], k>>] \in S
    BY <2>2
  <2>4. g \in [0 .. k + 1 -> S]
    BY <2>1, <2>3 DEF Recurs
  <2>5. g[0] = start
    BY <2>1 DEF Recurs
  <2>6. ASSUME NEW n \in 0 .. k PROVE g[n + 1] = step[<<g[n], n>>]
    <3>1. CASE n < k
      <4>1. n \in 0 .. k - 1 /\ n \in 0 .. k + 1 /\ n + 1 \in 0 .. k + 1
            /\ n <= k /\ n + 1 <= k
        BY <3>1
      <4>2. g[n] = f[n] /\ g[n + 1] = f[n + 1]
        BY <4>1
      <4> HIDE DEF g
      <4> QED
        BY <2>1, <4>1, <4>2 DEF Recurs
    <3>2. CASE n = k
      <4>1. g[k] = f[k] /\ g[k + 1] = step[<<f[k], k>>]
        OBVIOUS
      <4> HIDE DEF g
      <4> QED
        BY <3>2, <4>1
    <3> QED
      BY <3>1, <3>2
  <2>7. Recurs(g, k + 1, S, start, step)
    <3>1. k + 1 - 1 = k
      OBVIOUS
    <3> HIDE DEF g
    <3> QED
      BY <2>4, <2>5, <2>6, <3>1 DEF Recurs
  <2> HIDE DEF g
  <2> QED
    BY <2>2, <2>7
<1>3. N \in Good
  <2> HIDE DEF Good
  <2>1. 0 .. N \subseteq Good
    BY <1>1, <1>2, UpTo
  <2> QED
    BY <2>1
<1> QED
  BY <1>3
=============================================================================
