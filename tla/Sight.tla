------------------------------- MODULE Sight -------------------------------
(***************************************************************************)
(* What the player sees: the Bresenham line, line of sight through         *)
(* transparent tiles, and the cells within LOS_RADIUS that it reaches.     *)
(***************************************************************************)
EXTENDS Tiles

CONSTANT LOS_RADIUS   \* 10 as shipped

ASSUME RadiusAssumption == LOS_RADIUS \in Nat

Abs(n) == IF n < 0 THEN -n ELSE n

(***************************************************************************)
(* bresenham_line as a sequence of points.  walk[n] is the loop's state    *)
(* after n iterations; the loop leaves at the first point equal to q.      *)
(* Every iteration moves x or y by one towards q, so |dx| + |dy| bounds    *)
(* the iterations.                                                         *)
(***************************************************************************)
bresenham_line(p, q) ==
  LET dx == Abs(q[1] - p[1])
      dy == -Abs(q[2] - p[2])
      sx == IF p[1] < q[1] THEN 1 ELSE -1
      sy == IF p[2] < q[2] THEN 1 ELSE -1
      walk[n \in 0 .. dx - dy] ==
        IF n = 0 THEN [x |-> p[1], y |-> p[2], err |-> dx + dy]
        ELSE LET s  == walk[n - 1]
                 goX == 2 * s.err >= dy
                 goY == 2 * s.err <= dx
             IN  [x   |-> IF goX THEN s.x + sx ELSE s.x,
                  y   |-> IF goY THEN s.y + sy ELSE s.y,
                  err |-> s.err + (IF goX THEN dy ELSE 0)
                                + (IF goY THEN dx ELSE 0)]
      point(n) == <<walk[n].x, walk[n].y>>
      last == CHOOSE n \in 0 .. dx - dy :
                point(n) = q /\ \A m \in 0 .. n - 1 : point(m) # q
  IN  [i \in 1 .. last + 1 |-> point(i - 1)]

\* The first opaque cell of the line after its origin blocks the view,
\* unless it is the target itself.
has_line_of_sight(tiles, p, q) ==
  LET line == bresenham_line(p, q)
  IN  \A i \in 2 .. Len(line) :
        line[i] \in Cells /\ (is_opaque(tiles[line[i]]) => line[i] = q)

\* Mutant: a squared distance compared with the radius itself.
short_visibility(tiles, p) ==
  {c \in Cells :
     /\ (c[1] - p[1]) * (c[1] - p[1]) + (c[2] - p[2]) * (c[2] - p[2])
          < LOS_RADIUS
     /\ has_line_of_sight(tiles, p, c)} \cup {p}

compute_visibility(tiles, p) ==
  {c \in Cells :
     /\ (c[1] - p[1]) * (c[1] - p[1]) + (c[2] - p[2]) * (c[2] - p[2])
          <= LOS_RADIUS * LOS_RADIUS
     /\ has_line_of_sight(tiles, p, c)} \cup {p}
=============================================================================
