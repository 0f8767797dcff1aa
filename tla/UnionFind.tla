----------------------------- MODULE UnionFind -----------------------------
(***************************************************************************)
(* The disjoint-set forest connect_room_grid keeps over the rooms: parent  *)
(* pointers, union by rank, path compression in find.                      *)
(***************************************************************************)
EXTENDS Naturals, FiniteSets

CONSTANT Items   \* 0 .. size - 1

ASSUME ItemsAssumption == IsFiniteSet(Items)

VARIABLES
  parent,   \* a root is its own parent
  rank,
  answer    \* what the last call returned

uvars == <<parent, rank, answer>>

\* The cells the recursion of find visits: x and its ancestors.  A chain is
\* never longer than the number of items.
PathFrom(x) ==
  LET up[n \in 0 .. Cardinality(Items)] ==
        IF n = 0 THEN x ELSE parent[up[n - 1]]
  IN  {up[n] : n \in 0 .. Cardinality(Items)}

\* Mutant: the parent is taken for the root.
NearestOf(x) == parent[x]

RootOf(x) == CHOOSE r \in PathFrom(x) : parent[r] = r

\* find: every item on the way up is hung directly under the root.
Compress(p, path, root) == [x \in Items |-> IF x \in path THEN root ELSE p[x]]

Init ==
  /\ parent = [x \in Items |-> x]
  /\ rank = [x \in Items |-> 0]
  /\ answer = [call |-> "none"]

find(x) ==
  /\ parent' = Compress(parent, PathFrom(x), RootOf(x))
  /\ answer' = [call |-> "find", root |-> RootOf(x)]
  /\ UNCHANGED rank

\* Mutants: the rank grows at every union; the rank never grows.
RankAlwaysUp(ra, rb) == [rank EXCEPT ![ra] = @ + 1]
RankNeverUp(ra, rb) == rank

\* Only two roots of the same rank make a deeper tree.
NewRank(ra, rb) ==
  IF rank[ra] = rank[rb] THEN [rank EXCEPT ![ra] = @ + 1] ELSE rank

\* union: find both, then hang the root of lower rank under the other.
union(a, b) ==
  LET ra == RootOf(a)
      rb == RootOf(b)
      p  == Compress(Compress(parent, PathFrom(a), ra), PathFrom(b), rb)
  IN  \/ /\ ra = rb
         /\ parent' = p
         /\ answer' = [call |-> "union", merged |-> FALSE]
         /\ UNCHANGED rank
      \/ /\ ra # rb
         /\ parent' = IF rank[ra] < rank[rb] THEN [p EXCEPT ![ra] = rb]
                      ELSE [p EXCEPT ![rb] = ra]
         /\ rank' = NewRank(ra, rb)
         /\ answer' = [call |-> "union", merged |-> TRUE]

Next == \E x \in Items : find(x) \/ \E y \in Items : union(x, y)

Spec == Init /\ [][Next]_uvars

-----------------------------------------------------------------------------

\* The forest read as labels: every item is labelled with its root.
L == INSTANCE Labels WITH label <- [x \in Items |-> RootOf(x)]

\* The forest implements the labels: union merges exactly the two classes
\* and says whether it did, find answers the root and moves nothing, and
\* hanging a path under its root is invisible (UnionFind::find, union).
ImplementsLabels == L!LSpec

\* The items under a root.
Members(r) == {x \in Items : RootOf(x) = r}

\* A root of rank k rules at least 2^k items, so a rank never passes log2 of
\* the number of rooms and the u8 never saturates (saturating_add).
RankBound ==
  \A x \in Items : parent[x] = x => 2 ^ rank[x] <= Cardinality(Members(x))

\* Ranks grow strictly along parent pointers: the forest has no cycle, so the
\* recursion of find ends.
RanksClimb == \A x \in Items : parent[x] # x => rank[x] < rank[parent[x]]
=============================================================================
