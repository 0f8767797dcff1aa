-------------------------- MODULE UnionFindProofs --------------------------
(***************************************************************************)
(* The union-find over any finite set of items: its ranks climb, so its    *)
(* forest has no cycle and every item has one root, and it implements the  *)
(* labels of Labels.                                                       *)
(***************************************************************************)
EXTENDS UnionFind, Induction

\* The inductive invariant: ranks climb along parent pointers.
Forest ==
  /\ parent \in [Items -> Items]
  /\ rank \in [Items -> Nat]
  /\ RanksClimb

-----------------------------------------------------------------------------
(* The path find walks.                                                    *)

\* What the recursive function of PathFrom computes.
Walk(f, x) ==
  /\ f \in [0 .. Cardinality(Items) -> Items]
  /\ f[0] = x
  /\ \A n \in 0 .. Cardinality(Items) - 1 : f[n + 1] = parent[f[n]]
  /\ PathFrom(x) = {f[n] : n \in 0 .. Cardinality(Items)}

LEMMA WalkExists ==
  ASSUME Forest, NEW x \in Items
  PROVE  \E f : Walk(f, x)
<1> DEFINE N == Cardinality(Items)
           Solves(g) == g = [n \in 0 .. N |-> IF n = 0 THEN x ELSE parent[g[n - 1]]]
           up == CHOOSE g : Solves(g)
           step == [p \in Items \X Nat |-> parent[p[1]]]
<1>1. N \in Nat
  BY ItemsAssumption, FS_CardinalityType
<1>2. PICK f : Recurs(f, N, Items, x, step)
  <2>1. step \in [Items \X Nat -> Items]
    BY DEF Forest
  <2> HIDE DEF N, step
  <2> QED BY <1>1, <2>1, Recursion
<1>3. Solves(f)
  <2>1. ASSUME NEW n \in 0 .. N, n # 0 PROVE f[n] = parent[f[n - 1]]
    <3>1. n - 1 \in 0 .. N - 1 /\ n - 1 + 1 = n
      BY <1>1, <2>1
    <3>2. f[n] = step[<<f[n - 1], n - 1>>]
      <4> HIDE DEF N, step
      <4> QED BY <1>2, <3>1 DEF Recurs
    <3>3. f[n - 1] \in Items /\ n - 1 \in Nat
      <4> HIDE DEF N, step
      <4> QED BY <1>1, <1>2, <3>1 DEF Recurs
    <3> QED BY <3>2, <3>3
  <2>2. f[0] = x /\ f = [n \in 0 .. N |-> f[n]]
    <3> HIDE DEF N, step
    <3> QED BY <1>2 DEF Recurs
  <2> HIDE DEF N, step
  <2> QED BY <2>1, <2>2
<1>4. Solves(up)
  <2> HIDE DEF Solves
  <2> QED BY <1>3
<1>5. up[0] = x /\ \A n \in 0 .. N : n # 0 => up[n] = parent[up[n - 1]]
  <2> HIDE DEF up
  <2> QED BY <1>1, <1>4
<1>6. ASSUME NEW n \in 0 .. N - 1 PROVE up[n + 1] = parent[up[n]]
  <2>1. n + 1 \in 0 .. N /\ n + 1 # 0 /\ n + 1 - 1 = n
    BY <1>1
  <2>2. up[n + 1] = parent[up[n + 1 - 1]]
    <3> HIDE DEF up, N, Solves
    <3> QED BY <1>5, <2>1
  <2> HIDE DEF up, N
  <2> QED BY <2>1, <2>2
<1>7. up \in [0 .. N -> Items]
  <2> DEFINE S == {n \in 0 .. N : up[n] \in Items}
  <2>1. 0 \in S
    <3> HIDE DEF up, N
    <3> QED BY <1>1, <1>5
  <2>2. ASSUME NEW n \in 0 .. N - 1, n \in S PROVE n + 1 \in S
    <3>1. up[n + 1] = parent[up[n]]
      BY <1>6
    <3> HIDE DEF up, N
    <3> QED BY <1>1, <2>2, <3>1 DEF Forest
  <2>3. 0 .. N \subseteq S
    <3> HIDE DEF S, N
    <3> QED BY <1>1, <2>1, <2>2, UpTo
  <2>4. \A n \in 0 .. N : up[n] \in Items
    <3> HIDE DEF up, N
    <3> QED BY <2>3
  <2> HIDE DEF up, N
  <2> QED BY <1>4, <2>4
<1>8. PathFrom(x) = {up[n] : n \in 0 .. N}
  BY DEF PathFrom
<1>9. Walk(up, x)
  <2> HIDE DEF up
  <2> QED BY <1>5, <1>6, <1>7, <1>8 DEF Walk
<1> QED
  BY <1>9

\* Ranks never fall along the path.
LEMMA WalkClimbs ==
  ASSUME Forest, NEW x \in Items, NEW f, Walk(f, x),
         NEW i \in 0 .. Cardinality(Items), NEW j \in 0 .. Cardinality(Items),
         i < j, \A n \in 0 .. Cardinality(Items) : parent[f[n]] # f[n]
  PROVE  rank[f[i]] < rank[f[j]]
<1> DEFINE N == Cardinality(Items)
           S == {n \in 0 .. N : i < n => rank[f[i]] < rank[f[n]]}
<1>1. N \in Nat
  BY ItemsAssumption, FS_CardinalityType
<1>2. 0 \in S
  BY <1>1
<1>3. ASSUME NEW n \in 0 .. N - 1, n \in S PROVE n + 1 \in S
  <2>1. n + 1 \in 0 .. N /\ n \in 0 .. N
    BY <1>1
  <2>2. f[n + 1] = parent[f[n]] /\ f[n] \in Items /\ f[n + 1] \in Items /\ f[i] \in Items
    BY <2>1 DEF Walk
  <2>3. rank[f[n]] < rank[f[n + 1]]
    BY <2>1, <2>2 DEF Forest, RanksClimb
  <2>4. rank[f[i]] \in Nat /\ rank[f[n]] \in Nat /\ rank[f[n + 1]] \in Nat
    BY <2>2 DEF Forest
  <2>5. CASE i < n
    BY <1>3, <2>1, <2>3, <2>4, <2>5
  <2>6. CASE i = n
    BY <2>1, <2>3, <2>6
  <2>7. CASE n < i
    BY <2>1, <2>7
  <2> QED BY <2>1, <2>5, <2>6, <2>7
<1>4. 0 .. N \subseteq S
  <2> HIDE DEF S, N
  <2> QED BY <1>1, <1>2, <1>3, UpTo
<1> QED
  BY <1>4

\* A path as long as the number of items meets a root: some item would come
\* twice, with a rank above its own.
LEMMA WalkMeetsRoot ==
  ASSUME Forest, NEW x \in Items, NEW f, Walk(f, x)
  PROVE  \E n \in 0 .. Cardinality(Items) : parent[f[n]] = f[n]
<1> DEFINE N == Cardinality(Items)
<1> SUFFICES ASSUME \A n \in 0 .. N : parent[f[n]] # f[n] PROVE FALSE
  OBVIOUS
<1>1. N \in Nat
  BY ItemsAssumption, FS_CardinalityType
<1>2. IsFiniteSet(0 .. N) /\ Cardinality(0 .. N) = N + 1
  BY <1>1, FS_Interval
<1>3. f \in [0 .. N -> Items]
  BY DEF Walk
<1>4. PICK i, j \in 0 .. N : i # j /\ f[i] = f[j]
  <2>1. Cardinality(Items) < Cardinality(0 .. N)
    BY <1>1, <1>2
  <2> HIDE DEF N
  <2> QED BY <1>2, <1>3, <2>1, ItemsAssumption, FS_PigeonHole
<1>5. rank[f[i]] \in Nat
  BY <1>3 DEF Forest
<1>6. CASE i < j
  BY <1>4, <1>5, <1>6, WalkClimbs
<1>7. CASE j < i
  BY <1>4, <1>5, <1>7, WalkClimbs
<1> QED
  BY <1>4, <1>6, <1>7

-----------------------------------------------------------------------------
(* Paths and roots.                                                        *)

Closed(s) == \A z \in s : parent[z] \in s

\* The path is the least set that holds the item and the parents of its members.
LEMMA PathLeast ==
  ASSUME Forest, NEW x \in Items
  PROVE  /\ x \in PathFrom(x)
         /\ PathFrom(x) \subseteq Items
         /\ Closed(PathFrom(x))
         /\ \A s : x \in s /\ Closed(s) => PathFrom(x) \subseteq s
         /\ \E r \in PathFrom(x) : parent[r] = r
<1> DEFINE N == Cardinality(Items)
<1>1. N \in Nat
  BY ItemsAssumption, FS_CardinalityType
<1>2. PICK f : Walk(f, x)
  BY WalkExists
<1>3. /\ f \in [0 .. N -> Items] /\ f[0] = x
      /\ \A n \in 0 .. N - 1 : f[n + 1] = parent[f[n]]
      /\ PathFrom(x) = {f[n] : n \in 0 .. N}
  BY <1>2 DEF Walk
<1> HIDE DEF N
<1>5. x \in PathFrom(x)
  BY <1>1, <1>3
<1>6. PathFrom(x) \subseteq Items
  BY <1>3
<1>7. ASSUME NEW s, x \in s, Closed(s) PROVE PathFrom(x) \subseteq s
  <2> DEFINE S == {n \in 0 .. N : f[n] \in s}
  <2>1. 0 \in S
    BY <1>1, <1>3, <1>7
  <2>2. ASSUME NEW n \in 0 .. N - 1, n \in S PROVE n + 1 \in S
    <3>1. f[n + 1] \in s
      BY <1>3, <1>7, <2>2 DEF Closed
    <3> QED BY <1>1, <3>1
  <2>3. 0 .. N \subseteq S
    <3> HIDE DEF S
    <3> QED BY <1>1, <2>1, <2>2, UpTo
  <2> QED BY <1>3, <2>3
<1>8. PICK m \in 0 .. N : parent[f[m]] = f[m]
  BY <1>2, WalkMeetsRoot DEF N
<1>9. \A n \in 0 .. N : m <= n => f[n] = f[m]
  <2> DEFINE S == {n \in 0 .. N : m <= n => f[n] = f[m]}
  <2>1. 0 \in S
    BY <1>1
  <2>2. ASSUME NEW n \in 0 .. N - 1, n \in S PROVE n + 1 \in S
    <3>1. n + 1 \in 0 .. N
      BY <1>1
    <3>2. CASE m <= n
      BY <1>3, <1>8, <2>2, <3>1, <3>2
    <3>3. CASE m = n + 1
      BY <3>1, <3>3
    <3>4. CASE n + 1 < m
      BY <3>1, <3>4
    <3> QED BY <1>1, <3>2, <3>3, <3>4
  <2>3. 0 .. N \subseteq S
    <3> HIDE DEF S
    <3> QED BY <1>1, <2>1, <2>2, UpTo
  <2> QED BY <2>3
<1>10. Closed(PathFrom(x))
  <2> SUFFICES ASSUME NEW n \in 0 .. N PROVE parent[f[n]] \in PathFrom(x)
    BY <1>3 DEF Closed
  <2>1. CASE n < N
    <3>1. n \in 0 .. N - 1 /\ n + 1 \in 0 .. N
      BY <1>1, <2>1
    <3> QED BY <1>3, <3>1
  <2>2. CASE n = N
    <3>1. f[n] = f[m]
      BY <1>1, <1>9, <2>2
    <3> QED BY <1>3, <1>8, <3>1
  <2> QED BY <1>1, <2>1, <2>2
<1>11. \E r \in PathFrom(x) : parent[r] = r
  BY <1>3, <1>8
<1> QED
  BY <1>5, <1>6, <1>7, <1>10, <1>11

LEMMA RootIsRoot ==
  ASSUME Forest, NEW x \in Items
  PROVE  /\ RootOf(x) \in Items
         /\ RootOf(x) \in PathFrom(x)
         /\ parent[RootOf(x)] = RootOf(x)
BY PathLeast DEF RootOf

\* A labelling that parents share and that roots bear as their own is the one
\* by roots.
LEMMA RootLabels ==
  Forest =>
    \A lab : /\ \A x \in Items : lab[parent[x]] = lab[x]
             /\ \A r \in Items : parent[r] = r => lab[r] = r
             => \A x \in Items : RootOf(x) = lab[x]
<1> SUFFICES ASSUME Forest, NEW lab,
                    \A x \in Items : lab[parent[x]] = lab[x],
                    \A r \in Items : parent[r] = r => lab[r] = r,
                    NEW x \in Items
             PROVE  RootOf(x) = lab[x]
  OBVIOUS
<1> DEFINE s == {y \in Items : lab[y] = lab[x]}
<1>1. Closed(s)
  BY DEF Closed, Forest
<1>2. PathFrom(x) \subseteq s
  <2> HIDE DEF s
  <2>1. x \in s
    BY DEF s
  <2> QED BY <1>1, <2>1, PathLeast
<1>3. RootOf(x) \in s
  BY <1>2, RootIsRoot
<1> QED
  BY <1>3, RootIsRoot

\* An item and its parent have one root, and a root is its own.
LEMMA RootShared ==
  ASSUME Forest, NEW x \in Items
  PROVE  /\ RootOf(parent[x]) = RootOf(x)
         /\ parent[x] = x => RootOf(x) = x
         /\ \A y \in PathFrom(x) : RootOf(y) = RootOf(x)
<1>1. ASSUME NEW r \in Items, parent[r] = r PROVE PathFrom(r) = {r}
  <2>1. Closed({r})
    BY <1>1 DEF Closed
  <2> QED BY <2>1, PathLeast
<1>2. ASSUME NEW y \in Items PROVE PathFrom(y) \subseteq {y} \cup PathFrom(parent[y])
  <2>1. parent[y] \in Items
    BY DEF Forest
  <2>2. Closed({y} \cup PathFrom(parent[y]))
    BY <2>1, PathLeast DEF Closed
  <2> QED BY <2>2, PathLeast
<1>3. ASSUME NEW y \in PathFrom(x) PROVE RootOf(x) \in PathFrom(y)
  <2> DEFINE s == {z \in Items : RootOf(x) \in PathFrom(z)}
  <2>1. x \in s
    BY RootIsRoot
  <2>2. ASSUME NEW z \in s PROVE parent[z] \in s
    <3>1. z \in Items /\ parent[z] \in Items /\ RootOf(x) \in PathFrom(z)
      BY DEF Forest
    <3>2. CASE RootOf(x) = z
      BY <2>2, <3>2, RootIsRoot
    <3>3. CASE RootOf(x) # z
      BY <1>2, <3>1, <3>3
    <3> QED BY <3>2, <3>3
  <2>3. PathFrom(x) \subseteq s
    <3> HIDE DEF s
    <3> QED BY <2>1, <2>2, PathLeast DEF Closed
  <2> QED BY <2>3
<1>4. ASSUME NEW y \in PathFrom(x) PROVE RootOf(y) = RootOf(x)
  <2>1. y \in Items
    BY PathLeast
  <2>2. Closed(PathFrom(x))
    BY PathLeast
  <2>3. PathFrom(y) \subseteq PathFrom(x)
    BY <2>1, <2>2, PathLeast
  <2>4. RootOf(y) \in PathFrom(x) /\ RootOf(y) \in Items
    BY <2>1, <2>3, RootIsRoot
  <2>5. RootOf(x) \in PathFrom(RootOf(y))
    BY <1>3, <2>4
  <2>6. PathFrom(RootOf(y)) = {RootOf(y)}
    BY <1>1, <2>1, <2>4, RootIsRoot
  <2> QED BY <2>5, <2>6
<1>5. parent[x] \in PathFrom(x)
  BY PathLeast DEF Closed
<1>6. parent[x] = x => RootOf(x) = x
  BY <1>1, RootIsRoot
<1> QED
  BY <1>4, <1>5, <1>6

\* Every other item on the path has a higher rank.
LEMMA PathClimbs ==
  ASSUME Forest, NEW x \in Items, NEW y \in PathFrom(x), y # x
  PROVE  rank[x] < rank[y]
<1> DEFINE s == {x} \cup {z \in Items : rank[x] < rank[z]}
<1>1. Closed(s)
  <2> SUFFICES ASSUME NEW z \in s PROVE parent[z] \in s
    BY DEF Closed
  <2>1. z \in Items /\ parent[z] \in Items
    BY DEF Forest
  <2>2. rank[x] \in Nat /\ rank[z] \in Nat /\ rank[parent[z]] \in Nat
    BY <2>1 DEF Forest
  <2>3. parent[z] # z => rank[z] < rank[parent[z]]
    BY <2>1 DEF Forest, RanksClimb
  <2>4. z = x \/ rank[x] < rank[z]
    OBVIOUS
  <2> QED BY <2>1, <2>2, <2>3, <2>4
<1>2. PathFrom(x) \subseteq s
  <2>1. x \in s
    OBVIOUS
  <2> HIDE DEF s
  <2> QED BY <1>1, <2>1, PathLeast
<1> QED
  BY <1>2
-----------------------------------------------------------------------------
(* The two operations.                                                     *)

\* p is a forest with the same roots, the same trees and climbing ranks.
KeepsRoots(p) ==
  /\ p \in [Items -> Items]
  /\ \A x \in Items : p[x] # x => rank[x] < rank[p[x]]
  /\ \A x \in Items : RootOf(p[x]) = RootOf(x)
  /\ \A x \in Items : p[x] = x <=> parent[x] = x

LEMMA ParentKeeps ==
  ASSUME Forest
  PROVE  KeepsRoots(parent)
BY RootShared DEF KeepsRoots, Forest, RanksClimb

\* Hanging a path under its root changes no root.
LEMMA CompressKeeps ==
  ASSUME Forest, NEW p, KeepsRoots(p), NEW a \in Items
  PROVE  KeepsRoots(Compress(p, PathFrom(a), RootOf(a)))
<1> DEFINE root == RootOf(a)
           q == Compress(p, PathFrom(a), root)
<1>1. root \in Items /\ parent[root] = root /\ RootOf(root) = root
  BY RootIsRoot, RootShared
<1>2. \A x \in Items : q[x] = IF x \in PathFrom(a) THEN root ELSE p[x]
  BY DEF Compress
<1>3. q \in [Items -> Items]
  BY <1>1 DEF Compress, KeepsRoots
<1>4. ASSUME NEW x \in Items, x \in PathFrom(a)
      PROVE  /\ RootOf(x) = root
             /\ root # x => rank[x] < rank[root]
             /\ root = x <=> parent[x] = x
  <2>1. RootOf(x) = root
    BY <1>4, RootShared
  <2>2. root \in PathFrom(x)
    BY <2>1, RootIsRoot
  <2>3. parent[x] = x => root = x
    BY <2>1, RootShared
  <2> QED BY <1>1, <2>1, <2>2, <2>3, PathClimbs
<1>5. ASSUME NEW x \in Items
      PROVE  /\ q[x] # x => rank[x] < rank[q[x]]
             /\ RootOf(q[x]) = RootOf(x)
             /\ q[x] = x <=> parent[x] = x
  <2> HIDE DEF q, root
  <2>1. CASE x \in PathFrom(a)
    BY <1>1, <1>2, <1>4, <2>1
  <2>2. CASE x \notin PathFrom(a)
    BY <1>2, <2>2 DEF KeepsRoots
  <2> QED BY <2>1, <2>2
<1> QED
  <2> HIDE DEF q
  <2>1. KeepsRoots(q)
    BY <1>3, <1>5 DEF KeepsRoots
  <2> QED BY <2>1 DEF q

LEMMA RootLabelsNext ==
  Forest' =>
    (\A lab : /\ \A x \in Items : lab[parent[x]] = lab[x]
              /\ \A r \in Items : parent[r] = r => lab[r] = r
              => \A x \in Items : RootOf(x) = lab[x])'
BY RootLabels, PTL

\* A step to such a forest moves no item to another root.
LEMMA SameRoots ==
  ASSUME Forest, KeepsRoots(parent'), UNCHANGED rank
  PROVE  /\ Forest'
         /\ \A x \in Items : (RootOf(x))' = RootOf(x)
         /\ \A x \in Items : parent'[x] = x <=> parent[x] = x
<1> DEFINE lab == [x \in Items |-> RootOf(x)]
<1>1. Forest'
  BY DEF Forest, KeepsRoots, RanksClimb
<1>2. ASSUME NEW x \in Items PROVE lab[parent'[x]] = lab[x]
  BY DEF KeepsRoots
<1>3. ASSUME NEW r \in Items, parent'[r] = r PROVE lab[r] = r
  BY <1>3, RootShared DEF KeepsRoots
<1>4. \A x \in Items : (RootOf(x))' = lab[x]
  <2> HIDE DEF lab
  <2> QED BY <1>1, <1>2, <1>3, RootLabelsNext
<1> QED
  BY <1>1, <1>4 DEF KeepsRoots

\* The root l of the forest p is hung under the root w, whose rank becomes k.
Hangs(p, w, l, k) ==
  /\ KeepsRoots(p)
  /\ w # l /\ parent[w] = w /\ parent[l] = l
  /\ rank[w] <= k /\ rank[l] < k
  /\ parent' = [p EXCEPT ![l] = w]
  /\ rank' = [rank EXCEPT ![w] = k]

\* Such a step merges the two trees.
LEMMA HangMerges ==
  ASSUME Forest, NEW w \in Items, NEW l \in Items, NEW k \in Nat,
         NEW p, Hangs(p, w, l, k)
  PROVE  /\ Forest'
         /\ \A x \in Items :
              (RootOf(x))' = IF RootOf(x) = l THEN w ELSE RootOf(x)
         /\ \A x \in Items : parent'[x] = x <=> parent[x] = x /\ x # l
<1> USE DEF Hangs
<1> DEFINE lab == [x \in Items |-> IF RootOf(x) = l THEN w ELSE RootOf(x)]
<1>1. RootOf(w) = w /\ RootOf(l) = l /\ p[w] = w /\ p[l] = l
  BY RootShared DEF KeepsRoots
<1>2. /\ \A x \in Items : parent'[x] = IF x = l THEN w ELSE p[x]
      /\ parent' \in [Items -> Items]
  BY DEF KeepsRoots
<1>3. /\ \A x \in Items : rank'[x] = IF x = w THEN k ELSE rank[x]
      /\ rank' \in [Items -> Nat]
      /\ \A x \in Items : rank[x] \in Nat /\ rank[x] <= rank'[x]
  BY DEF Forest
<1>4. ASSUME NEW x \in Items, parent'[x] # x PROVE rank'[x] < rank'[parent'[x]]
  <2>1. CASE x = l
    BY <1>2, <1>3, <2>1
  <2>2. CASE x # l
    <3>1. parent'[x] = p[x] /\ p[x] \in Items /\ x # w
      BY <1>1, <1>2, <1>4, <2>2 DEF KeepsRoots
    <3>2. rank[x] < rank[p[x]]
      BY <1>4, <3>1 DEF KeepsRoots
    <3>3. rank'[x] = rank[x] /\ rank[p[x]] <= rank'[p[x]]
      BY <1>3, <3>1
    <3>4. rank[x] \in Nat /\ rank[p[x]] \in Nat /\ rank'[p[x]] \in Nat
      BY <1>3, <3>1
    <3> QED BY <3>1, <3>2, <3>3, <3>4
  <2> QED BY <2>1, <2>2
<1>5. Forest'
  BY <1>2, <1>3, <1>4 DEF Forest, RanksClimb
<1>6. ASSUME NEW x \in Items PROVE lab[parent'[x]] = lab[x]
  <2>1. CASE x = l
    BY <1>1, <1>2, <2>1
  <2>2. CASE x # l
    BY <1>2, <2>2 DEF KeepsRoots
  <2> QED BY <2>1, <2>2
<1>7. \A x \in Items : parent'[x] = x <=> parent[x] = x /\ x # l
  BY <1>1, <1>2 DEF KeepsRoots
<1>8. ASSUME NEW r \in Items, parent'[r] = r PROVE lab[r] = r
  BY <1>7, <1>8, RootShared
<1>9. \A x \in Items : (RootOf(x))' = lab[x]
  <2> HIDE DEF lab
  <2> QED BY <1>5, <1>6, <1>8, RootLabelsNext
<1> QED
  BY <1>5, <1>7, <1>9

\* find compresses a path and moves no item to another root (UnionFind::find).
LEMMA FindStep ==
  ASSUME Forest, NEW a \in Items, find(a)
  PROVE  /\ Forest'
         /\ \A x \in Items : (RootOf(x))' = RootOf(x)
         /\ \A x \in Items : parent'[x] = x <=> parent[x] = x
<1>1. KeepsRoots(parent')
  BY ParentKeeps, CompressKeeps DEF find
<1> QED
  BY <1>1, SameRoots DEF find

\* Two items with a common root are only compressed.
IsSame(a, b) ==
  /\ RootOf(a) = RootOf(b)
  /\ UNCHANGED rank
  /\ \A x \in Items : (RootOf(x))' = RootOf(x)
  /\ \A x \in Items : parent'[x] = x <=> parent[x] = x

\* w and l are the roots of a and b.
IsPair(a, b, w, l) ==
  (w = RootOf(a) /\ l = RootOf(b)) \/ (w = RootOf(b) /\ l = RootOf(a))

\* Of two roots the one of lower rank loses; only a tie raises the winner.
IsMerge(a, b, w, l) ==
  /\ IsPair(a, b, w, l) /\ w # l
  /\ parent[w] = w /\ parent[l] = l
  /\ \E k \in Nat :
       /\ rank' = [rank EXCEPT ![w] = k]
       /\ k = rank[w] \/ (k = rank[w] + 1 /\ rank[l] = rank[w])
  /\ \A x \in Items : (RootOf(x))' = IF RootOf(x) = l THEN w ELSE RootOf(x)
  /\ \A x \in Items : parent'[x] = x <=> parent[x] = x /\ x # l

LEMMA MergeStep ==
  ASSUME Forest, NEW a \in Items, NEW b \in Items,
         NEW w \in Items, NEW l \in Items, NEW k \in Nat, NEW p,
         IsPair(a, b, w, l), Hangs(p, w, l, k),
         k = rank[w] \/ (k = rank[w] + 1 /\ rank[l] = rank[w])
  PROVE  Forest' /\ IsMerge(a, b, w, l)
<1>1. /\ Forest'
      /\ \A x \in Items :
           (RootOf(x))' = IF RootOf(x) = l THEN w ELSE RootOf(x)
      /\ \A x \in Items : parent'[x] = x <=> parent[x] = x /\ x # l
  BY HangMerges
<1>2. w # l /\ parent[w] = w /\ parent[l] = l /\ rank' = [rank EXCEPT ![w] = k]
  BY DEF Hangs
<1> QED
  BY <1>1, <1>2 DEF IsMerge

\* union merges the trees of its two items, or finds them in one
\* (UnionFind::union).
LEMMA UnionStep ==
  ASSUME Forest, NEW a \in Items, NEW b \in Items, union(a, b)
  PROVE  /\ Forest'
         /\ \/ IsSame(a, b)
            \/ \E w, l \in Items : IsMerge(a, b, w, l)
<1> DEFINE ra == RootOf(a)
           rb == RootOf(b)
           p  == Compress(Compress(parent, PathFrom(a), ra), PathFrom(b), rb)
<1>1. KeepsRoots(p)
  BY ParentKeeps, CompressKeeps
<1>2. /\ ra \in Items /\ parent[ra] = ra
      /\ rb \in Items /\ parent[rb] = rb
  BY RootIsRoot
<1>3. rank \in [Items -> Nat] /\ rank[ra] \in Nat /\ rank[rb] \in Nat
  BY <1>2 DEF Forest
<1>4. CASE ra = rb
  <2>1. parent' = p /\ UNCHANGED rank
    BY <1>4 DEF union
  <2> HIDE DEF p
  <2> QED BY <1>1, <1>4, <2>1, SameRoots DEF IsSame
<1>5. CASE ra # rb
  <2>1. /\ parent' = IF rank[ra] < rank[rb] THEN [p EXCEPT ![ra] = rb]
                     ELSE [p EXCEPT ![rb] = ra]
        /\ rank' = IF rank[ra] = rank[rb] THEN [rank EXCEPT ![ra] = @ + 1] ELSE rank
    BY <1>5 DEF union, NewRank
  <2> HIDE DEF p
  <2>2. CASE rank[ra] < rank[rb]
    <3>1. Hangs(p, rb, ra, rank[rb])
      <4>1. parent' = [p EXCEPT ![ra] = rb]
        BY <2>1, <2>2
      <4>2. rank' = [rank EXCEPT ![rb] = rank[rb]]
        <5>1. rank' = rank
          BY <1>3, <2>1, <2>2
        <5>2. rank = [rank EXCEPT ![rb] = rank[rb]]
          BY <1>2, <1>3
        <5> QED BY <5>1, <5>2
      <4>3. rank[rb] <= rank[rb]
        BY <1>3
      <4> HIDE DEF ra, rb
      <4> QED BY <1>1, <1>2, <1>5, <2>2, <4>1, <4>2, <4>3 DEF Hangs
    <3>2. IsPair(a, b, rb, ra)
      BY DEF IsPair
    <3>3. Forest' /\ IsMerge(a, b, rb, ra)
      BY <1>2, <1>3, <3>1, <3>2, MergeStep
    <3> HIDE DEF ra, rb
    <3> QED BY <1>2, <3>3
  <2>3. CASE rank[rb] < rank[ra]
    <3>1. Hangs(p, ra, rb, rank[ra])
      <4>1. parent' = [p EXCEPT ![rb] = ra]
        BY <1>3, <2>1, <2>3
      <4>2. rank' = [rank EXCEPT ![ra] = rank[ra]]
        <5>1. rank' = rank
          BY <1>3, <2>1, <2>3
        <5>2. rank = [rank EXCEPT ![ra] = rank[ra]]
          BY <1>2, <1>3
        <5> QED BY <5>1, <5>2
      <4>3. rank[ra] <= rank[ra]
        BY <1>3
      <4> HIDE DEF ra, rb
      <4> QED BY <1>1, <1>2, <1>5, <2>3, <4>1, <4>2, <4>3 DEF Hangs
    <3>2. IsPair(a, b, ra, rb)
      BY DEF IsPair
    <3>3. Forest' /\ IsMerge(a, b, ra, rb)
      BY <1>2, <1>3, <3>1, <3>2, MergeStep
    <3> HIDE DEF ra, rb
    <3> QED BY <1>2, <3>3
  <2>4. CASE rank[ra] = rank[rb]
    <3>1. rank[ra] + 1 \in Nat /\ rank[ra] <= rank[ra] + 1 /\ rank[rb] < rank[ra] + 1
      BY <1>3, <2>4
    <3>2. Hangs(p, ra, rb, rank[ra] + 1)
      <4>1. parent' = [p EXCEPT ![rb] = ra]
        BY <1>3, <2>1, <2>4
      <4>2. rank' = [rank EXCEPT ![ra] = rank[ra] + 1]
        BY <1>2, <1>3, <2>1, <2>4
      <4> HIDE DEF ra, rb
      <4> QED BY <1>1, <1>2, <1>5, <3>1, <4>1, <4>2 DEF Hangs
    <3>3. IsPair(a, b, ra, rb)
      BY DEF IsPair
    <3>4. Forest' /\ IsMerge(a, b, ra, rb)
      BY <1>2, <2>4, <3>1, <3>2, <3>3, MergeStep
    <3> HIDE DEF ra, rb
    <3> QED BY <1>2, <3>4
  <2> QED BY <1>3, <2>2, <2>3, <2>4
<1> QED
  BY <1>4, <1>5

-----------------------------------------------------------------------------
(* The theorems.                                                           *)

\* After any finds and unions the parents are a forest (UnionFind::find, union).
THEOREM ForestInvariant == Spec => []Forest
<1>1. Init => Forest
  BY DEF Init, Forest, RanksClimb
<1>2. Forest /\ [Next]_uvars => Forest'
  <2> SUFFICES ASSUME Forest, [Next]_uvars PROVE Forest'
    OBVIOUS
  <2>1. ASSUME NEW x \in Items, find(x) PROVE Forest'
    BY <2>1, FindStep
  <2>2. ASSUME NEW x \in Items, NEW y \in Items, union(x, y) PROVE Forest'
    BY <2>2, UnionStep
  <2>3. CASE UNCHANGED uvars
    BY <2>3 DEF uvars, Forest, RanksClimb
  <2> QED BY <2>1, <2>2, <2>3 DEF Next
<1> QED
  BY <1>1, <1>2, PTL DEF Spec

\* The forest never has a cycle, whatever is found and merged, so the recursion
\* of find ends (UnionFind::find, union).
THEOREM RanksAlwaysClimb == Spec => []RanksClimb
BY ForestInvariant, PTL DEF Forest

\* The rooms' forest implements the labels: find answers the label and moves
\* nothing, union merges the two classes it is given and no other, and answers
\* whether they differed (UnionFind::find, union).
THEOREM LabelsImplemented == Spec => ImplementsLabels
<1> DEFINE label == [x \in Items |-> RootOf(x)]
<1>1. Init => L!LInit
  <2> SUFFICES ASSUME Init PROVE L!LInit
    OBVIOUS
  <2>1. Forest /\ \A x \in Items : parent[x] = x
    BY DEF Init, Forest, RanksClimb
  <2>2. \A x \in Items : RootOf(x) = x
    BY <2>1, RootShared
  <2> QED BY <2>2 DEF L!LInit, Init
<1>2. Forest /\ [Next]_uvars => [L!LNext]_L!lvars
  <2> SUFFICES ASSUME Forest, [Next]_uvars PROVE [L!LNext]_L!lvars
    OBVIOUS
  <2>1. ASSUME NEW x \in Items, find(x) PROVE L!LFind(x)
    <3>1. \A z \in Items : (RootOf(z))' = RootOf(z)
      BY <2>1, FindStep
    <3>2. label' = label
      BY <3>1
    <3>3. answer' = [call |-> "find", root |-> label[x]]
      BY <2>1 DEF find
    <3> QED BY <3>2, <3>3 DEF L!LFind
  <2>2. ASSUME NEW x \in Items, NEW y \in Items, union(x, y) PROVE L!LUnion(x, y)
    <3>1. answer' = [call |-> "union", merged |-> label[x] # label[y]]
      BY <2>2 DEF union
    <3>2. CASE IsSame(x, y)
      <4>1. \A z \in Items : (RootOf(z))' = RootOf(z)
        BY <3>2 DEF IsSame
      <4>2. label' = label /\ label[x] = label[y]
        BY <3>2, <4>1 DEF IsSame
      <4>3. L!Relabel(label, x, y, label[x]) = label
        BY <4>2 DEF L!Relabel
      <4>4. label' = L!Relabel(label, x, y, label[x])
        BY <4>2, <4>3
      <4>5. label[x] \in {label[x], label[y]}
        OBVIOUS
      <4> QED BY <3>1, <4>4, <4>5 DEF L!LUnion
    <3>3. CASE \E w, l \in Items : IsMerge(x, y, w, l)
      <4>1. PICK w, l \in Items : IsMerge(x, y, w, l)
        BY <3>3
      <4>2. \A z \in Items : (RootOf(z))' = IF RootOf(z) = l THEN w ELSE RootOf(z)
        BY <4>1 DEF IsMerge
      <4>3. label' = [z \in Items |-> IF label[z] = l THEN w ELSE label[z]]
        BY <4>2
      <4>4. w \in {label[x], label[y]} /\ {label[x], label[y]} = {w, l}
        BY <4>1 DEF IsMerge, IsPair
      <4>5. label' = L!Relabel(label, x, y, w)
        BY <4>3, <4>4 DEF L!Relabel
      <4> QED BY <3>1, <4>4, <4>5 DEF L!LUnion
    <3> QED BY <2>2, <3>2, <3>3, UnionStep
  <2>3. CASE UNCHANGED uvars
    <3>1. (label' = label) /\ answer' = answer
      BY <2>3 DEF uvars, RootOf, PathFrom
    <3> QED BY <3>1 DEF L!lvars
  <2> QED BY <2>1, <2>2, <2>3 DEF Next, L!LNext
<1> QED
  BY <1>1, <1>2, ForestInvariant, PTL DEF Spec, ImplementsLabels, L!LSpec
-----------------------------------------------------------------------------
(* The ranks are logarithmic.                                              *)

\* A set with one more member has twice the subsets.
LEMMA PowersOfTwo ==
  ASSUME NEW n \in Nat
  PROVE  2 ^ n \in Nat /\ 2 ^ (n + 1) = 2 ^ n + 2 ^ n
<1> DEFINE S == 1 .. n
           With == {t \cup {n + 1} : t \in SUBSET S}
<1>1. IsFiniteSet(S) /\ Cardinality(S) = n
  BY FS_Interval
<1>2. IsFiniteSet(1 .. n + 1) /\ Cardinality(1 .. n + 1) = n + 1
  BY FS_Interval
<1>3. IsFiniteSet(SUBSET S) /\ Cardinality(SUBSET S) = 2 ^ n
  BY <1>1, FS_SUBSET
<1>4. Cardinality(SUBSET (1 .. n + 1)) = 2 ^ (n + 1)
  BY <1>2, FS_SUBSET
<1>5. SUBSET (1 .. n + 1) = (SUBSET S) \cup With
  <2>1. 1 .. n + 1 = S \cup {n + 1}
    OBVIOUS
  <2>2. ASSUME NEW t \in SUBSET (1 .. n + 1), t \notin SUBSET S PROVE t \in With
    <3>1. t \ {n + 1} \in SUBSET S /\ t = (t \ {n + 1}) \cup {n + 1}
      BY <2>1, <2>2
    <3> HIDE DEF S
    <3> QED BY <3>1
  <2>3. SUBSET S \subseteq SUBSET (1 .. n + 1)
    BY <2>1
  <2>4. ASSUME NEW t \in SUBSET S PROVE t \cup {n + 1} \in SUBSET (1 .. n + 1)
    BY <2>1
  <2>5. With \subseteq SUBSET (1 .. n + 1)
    BY <2>4
  <2>6. SUBSET (1 .. n + 1) \subseteq (SUBSET S) \cup With
    <3> HIDE DEF S, With
    <3> QED BY <2>2
  <2> HIDE DEF S, With
  <2> QED BY <2>3, <2>5, <2>6
<1>6. (SUBSET S) \cap With = {}
  <2>1. n + 1 \notin S
    OBVIOUS
  <2> QED BY <2>1
<1>7. IsFiniteSet(With) /\ Cardinality(With) = Cardinality(SUBSET S)
  <2> DEFINE f == [t \in SUBSET S |-> t \cup {n + 1}]
  <2>1. n + 1 \notin S
    OBVIOUS
  <2>2. f \in Bijection(SUBSET S, With)
    <3> HIDE DEF S
    <3>1. f \in [SUBSET S -> With]
      OBVIOUS
    <3>2. ASSUME NEW t \in SUBSET S, NEW u \in SUBSET S, f[t] = f[u] PROVE t = u
      <4>1. t \cup {n + 1} = u \cup {n + 1}
        BY <3>2
      <4>2. n + 1 \notin t /\ n + 1 \notin u
        BY <2>1
      <4> HIDE DEF f, With
      <4> QED BY <4>1, <4>2
    <3>3. \A v \in With : \E t \in SUBSET S : f[t] = v
      OBVIOUS
    <3> HIDE DEF f, With
    <3> QED BY <3>1, <3>2, <3>3 DEF Bijection, Injection, Surjection, IsInjective
  <2>3. ExistsBijection(SUBSET S, With)
    <3> HIDE DEF f, With, S
    <3> QED BY <2>2 DEF ExistsBijection
  <2> HIDE DEF f, With, S
  <2> QED BY <1>3, <2>3, FS_Bijection
<1>8. Cardinality((SUBSET S) \cup With) = Cardinality(SUBSET S) + Cardinality(With)
  <2>1. Cardinality((SUBSET S) \cap With) = 0
    BY <1>6, FS_EmptySet
  <2>2. Cardinality(SUBSET S) \in Nat /\ Cardinality(With) \in Nat
    BY <1>3, <1>7, FS_CardinalityType
  <2> HIDE DEF S, With
  <2>3. Cardinality((SUBSET S) \cup With)
          = Cardinality(SUBSET S) + Cardinality(With) - Cardinality((SUBSET S) \cap With)
    BY <1>3, <1>7, FS_Union
  <2> QED BY <2>1, <2>2, <2>3
<1>9. Cardinality(SUBSET S) \in Nat
  BY <1>3, FS_CardinalityType
<1> HIDE DEF S, With
<1>10. 2 ^ n \in Nat
  BY <1>3, <1>9
<1>11. 2 ^ (n + 1) = Cardinality(SUBSET S) + Cardinality(SUBSET S)
  BY <1>4, <1>5, <1>7, <1>8
<1> QED BY <1>3, <1>9, <1>10, <1>11

\* A union that raises a rank has joined two trees as large as the rank asks.
LEMMA MergeDoubles ==
  ASSUME Forest, RankBound, NEW a \in Items, NEW b \in Items,
         NEW w \in Items, NEW l \in Items, IsMerge(a, b, w, l)
  PROVE  RankBound'
<1>1. /\ \A x \in Items : (RootOf(x))' = IF RootOf(x) = l THEN w ELSE RootOf(x)
      /\ \A x \in Items : parent'[x] = x <=> parent[x] = x /\ x # l
      /\ w # l /\ parent[w] = w /\ parent[l] = l
  BY DEF IsMerge
<1>2. PICK k \in Nat : /\ rank' = [rank EXCEPT ![w] = k]
                       /\ k = rank[w] \/ (k = rank[w] + 1 /\ rank[l] = rank[w])
  BY DEF IsMerge
<1>3. \A x \in Items : IsFiniteSet(Members(x)) /\ Cardinality(Members(x)) \in Nat
  BY ItemsAssumption, FS_Subset, FS_CardinalityType DEF Members
<1>4. \A x \in Items : rank[x] \in Nat /\ rank'[x] = IF x = w THEN k ELSE rank[x]
  BY <1>2 DEF Forest
<1> SUFFICES ASSUME NEW x \in Items, parent'[x] = x
             PROVE  2 ^ (rank'[x]) <= Cardinality((Members(x))')
  BY DEF RankBound
<1>5. x # l /\ parent[x] = x
  BY <1>1
<1>6. CASE x # w
  <2>1. (Members(x))' = Members(x)
    BY <1>1, <1>5, <1>6 DEF Members
  <2> QED BY <1>4, <1>5, <1>6, <2>1 DEF RankBound
<1>7. CASE x = w
  <2>1. (Members(w))' = Members(w) \cup Members(l) /\ Members(w) \cap Members(l) = {}
    BY <1>1 DEF Members
  <2>2. Cardinality((Members(w))') = Cardinality(Members(w)) + Cardinality(Members(l))
    <3>1. Cardinality(Members(w) \cap Members(l)) = 0
      BY <2>1, FS_EmptySet
    <3>2. Cardinality(Members(w) \cup Members(l))
            = Cardinality(Members(w)) + Cardinality(Members(l))
      <4>1. IsFiniteSet(Members(w)) /\ IsFiniteSet(Members(l))
        BY <1>3
      <4>2. Cardinality(Members(w) \cup Members(l))
              = Cardinality(Members(w)) + Cardinality(Members(l))
                - Cardinality(Members(w) \cap Members(l))
        BY <4>1, FS_Union
      <4> QED BY <1>3, <3>1, <4>2
    <3> QED BY <2>1, <3>2
  <2>3. 2 ^ rank[w] <= Cardinality(Members(w)) /\ 2 ^ rank[l] <= Cardinality(Members(l))
    BY <1>1 DEF RankBound
  <2>4. 2 ^ rank[w] \in Nat /\ 2 ^ (rank[w] + 1) = 2 ^ rank[w] + 2 ^ rank[w]
    BY <1>4, PowersOfTwo
  <2>5. Cardinality(Members(w)) \in Nat /\ Cardinality(Members(l)) \in Nat
    BY <1>3
  <2>6. CASE k = rank[w]
    <3>1. 2 ^ k <= Cardinality(Members(w)) + Cardinality(Members(l))
      BY <2>3, <2>4, <2>5, <2>6
    <3> QED BY <1>4, <1>7, <2>2, <3>1
  <2>7. CASE k = rank[w] + 1 /\ rank[l] = rank[w]
    <3>1. 2 ^ k <= Cardinality(Members(w)) + Cardinality(Members(l))
      BY <2>3, <2>4, <2>5, <2>7
    <3> QED BY <1>4, <1>7, <2>2, <3>1
  <2> QED BY <1>2, <2>6, <2>7
<1> QED
  BY <1>6, <1>7

\* A root of rank k rules at least 2^k rooms, so no rank passes log2 of their
\* number and saturating_add never saturates the u8 (UnionFind::union).
THEOREM RanksLogarithmic == Spec => []RankBound
<1>1. Init => RankBound
  <2> SUFFICES ASSUME Init, NEW x \in Items
               PROVE  2 ^ rank[x] <= Cardinality(Members(x))
    BY DEF RankBound
  <2>1. Forest /\ \A y \in Items : parent[y] = y
    BY DEF Init, Forest, RanksClimb
  <2>2. Members(x) = {x}
    BY <2>1, RootShared DEF Members
  <2>3. Cardinality(Members(x)) = 1
    BY <2>2, FS_Singleton
  <2>4. 2 ^ 0 = 1 /\ rank[x] = 0
    BY DEF Init
  <2> QED BY <2>3, <2>4
<1>2. Forest /\ RankBound /\ [Next]_uvars => RankBound'
  <2> SUFFICES ASSUME Forest, RankBound, [Next]_uvars PROVE RankBound'
    OBVIOUS
  <2>1. ASSUME UNCHANGED rank, \A x \in Items : (RootOf(x))' = RootOf(x),
               \A x \in Items : parent'[x] = x <=> parent[x] = x
        PROVE  RankBound'
    <3>1. \A x \in Items : (Members(x))' = Members(x)
      BY <2>1 DEF Members
    <3> QED BY <2>1, <3>1 DEF RankBound
  <2>2. ASSUME NEW x \in Items, find(x) PROVE RankBound'
    <3>1. UNCHANGED rank
      BY <2>2 DEF find
    <3> QED BY <2>1, <2>2, <3>1, FindStep
  <2>3. ASSUME NEW x \in Items, NEW y \in Items, union(x, y) PROVE RankBound'
    <3>1. CASE IsSame(x, y)
      BY <2>1, <3>1 DEF IsSame
    <3>2. CASE \E w, l \in Items : IsMerge(x, y, w, l)
      BY <3>2, MergeDoubles
    <3> QED BY <2>3, <3>1, <3>2, UnionStep
  <2>4. CASE UNCHANGED uvars
    <3>1. \A x \in Items : (RootOf(x))' = RootOf(x)
      BY <2>4 DEF uvars, RootOf, PathFrom
    <3> QED BY <2>1, <2>4, <3>1 DEF uvars
  <2> QED BY <2>2, <2>3, <2>4 DEF Next
<1> QED
  BY <1>1, <1>2, ForestInvariant, PTL DEF Spec
=============================================================================
