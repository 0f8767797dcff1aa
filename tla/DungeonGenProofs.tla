-------------------------- MODULE DungeonGenProofs --------------------------
(***************************************************************************)
(* What holds of the generator for every size of map, grid and room, and   *)
(* whatever is drawn: the rooms, the digging, the monsters, then the graph *)
(* of links, the shuffled edges, and who can walk where.                   *)
(***************************************************************************)
EXTENDS DungeonGen, Induction, SequenceTheorems

RoomType == [x1 : Int, y1 : Int, x2 : Int, y2 : Int]

\* A room with a floor, its walls on the map and its floor off the border.
Fits(r) ==
  /\ r \in RoomType
  /\ 1 <= r.x1 /\ r.x1 + 2 <= r.x2 /\ r.x2 <= W - 1
  /\ 1 <= r.y1 /\ r.y1 + 2 <= r.y2 /\ r.y2 <= H - 1

\* What generate_nethackish_rooms promises of the room it puts into region g.
InRegion(r, g) ==
  r.x1 >= g.x0 /\ r.y1 >= g.y0 /\ r.x2 <= g.x1 + 1 /\ r.y2 <= g.y1 + 1

-----------------------------------------------------------------------------
(* The random ranges.                                                      *)

\* A draw from a range that is not empty lies in the range.
LEMMA RangeBounds ==
  ASSUME NEW min \in Int, NEW max \in Int, min < max,
         NEW v \in rand_range_i32(min, max)
  PROVE  v \in Int /\ min <= v /\ v < max
<1>1. PICK d \in Draws : v = min + (d % (max - min))
  BY DEF rand_range_i32
<1>2. d \in Nat
  BY DrawsAssumption
<1>3. d % (max - min) \in 0 .. (max - min) - 1
  BY <1>2
<1> QED BY <1>1, <1>3

\* Regions along one axis: n regions of size c share a map of size m.
LEMMA RegionSpan ==
  ASSUME NEW m \in Nat, NEW n \in Nat \ {0}, NEW least \in Nat, least >= 2,
         m \div n >= least + 2,
         NEW g \in 0 .. n - 1,
         NEW x0, x0 = g * (m \div n) + 1,
         NEW x1, x1 = IF g = n - 1 THEN m - 2 ELSE (g + 1) * (m \div n) - 2
  PROVE  /\ x0 \in Int /\ x1 \in Int
         /\ 1 <= x0 /\ x1 <= m - 2
         /\ least - 1 <= x1 - x0
<1> DEFINE c == m \div n
<1>1. c \in Nat /\ n * c <= m
  OBVIOUS
<1>2. (n - 1) * c = n * c - c
  BY <1>1
<1>3. g * c \in Nat /\ (g + 1) * c = g * c + c
  BY <1>1
<1>4. CASE g = n - 1
  BY <1>1, <1>2, <1>3, <1>4
<1>5. CASE g # n - 1
  <2>1. g + 1 <= n - 1
    BY <1>5
  <2>2. (g + 1) * c <= (n - 1) * c
    BY <1>1, <2>1
  <2> HIDE DEF c
  <2> QED BY <1>1, <1>2, <1>3, <1>5, <2>2 DEF c
<1> QED BY <1>4, <1>5


\* A side of a room, drawn in a region that starts at x0 and ends at x1: no
\* range is empty, and both walls keep to the region and the one cell after
\* it.
LEMMA SideFits ==
  ASSUME NEW least \in Nat, least >= 2,
         NEW x0 \in Int, NEW x1 \in Int, least - 1 <= x1 - x0,
         NEW w \in rand_range_i32(least, AtLeast(x1 - x0 - 1, least) + 1),
         NEW x \in rand_range_i32(x0, x1 - w + 2)
  PROVE  w \in Int /\ x \in Int /\ 2 <= w /\ x0 <= x /\ x + w <= x1 + 1
<1> DEFINE most == AtLeast(x1 - x0 - 1, least)
<1>1. most \in Int /\ least <= most /\ (most = least \/ most = x1 - x0 - 1)
  BY DEF AtLeast
<1>2. w \in Int /\ least <= w /\ w <= most
  <2>1. least \in Int /\ most + 1 \in Int /\ least < most + 1
    BY <1>1
  <2>2. w \in Int /\ least <= w /\ w < most + 1
    BY <2>1, RangeBounds
  <2> QED BY <1>1, <2>2
<1> HIDE DEF most
<1>3. x0 < x1 - w + 2
  BY <1>1, <1>2
<1>4. x \in Int /\ x0 <= x /\ x < x1 - w + 2
  BY <1>2, <1>3, RangeBounds
<1> QED BY <1>2, <1>4

\* Every region has room for the smallest room.
LEMMA RegionShape ==
  ASSUME NEW s \in Slots
  PROVE  /\ Region(s).x0 \in Int /\ Region(s).x1 \in Int
         /\ Region(s).y0 \in Int /\ Region(s).y1 \in Int
         /\ 1 <= Region(s).x0 /\ Region(s).x1 <= W - 2
         /\ 1 <= Region(s).y0 /\ Region(s).y1 <= H - 2
         /\ MIN_ROOM_W - 1 <= Region(s).x1 - Region(s).x0
         /\ MIN_ROOM_H - 1 <= Region(s).y1 - Region(s).y0
<1>1. s[1] \in 0 .. GRID_W - 1 /\ s[2] \in 0 .. GRID_H - 1
  BY DEF Slots
<1>2. /\ W \in Nat /\ GRID_W \in Nat \ {0} /\ MIN_ROOM_W \in Nat /\ MIN_ROOM_W >= 2
      /\ H \in Nat /\ GRID_H \in Nat \ {0} /\ MIN_ROOM_H \in Nat /\ MIN_ROOM_H >= 2
      /\ W \div GRID_W >= MIN_ROOM_W + 2 /\ H \div GRID_H >= MIN_ROOM_H + 2
  BY SizeAssumption, GridAssumption
<1>3. /\ Region(s).x0 = s[1] * (W \div GRID_W) + 1
      /\ Region(s).x1 = IF s[1] = GRID_W - 1 THEN W - 2
                        ELSE (s[1] + 1) * (W \div GRID_W) - 2
      /\ Region(s).y0 = s[2] * (H \div GRID_H) + 1
      /\ Region(s).y1 = IF s[2] = GRID_H - 1 THEN H - 2
                        ELSE (s[2] + 1) * (H \div GRID_H) - 2
  BY DEF Region, cell_w, cell_h
<1>4. /\ Region(s).x0 \in Int /\ Region(s).x1 \in Int
      /\ 1 <= Region(s).x0 /\ Region(s).x1 <= W - 2
      /\ MIN_ROOM_W - 1 <= Region(s).x1 - Region(s).x0
  BY ONLY <1>1, <1>2, <1>3, RegionSpan
<1>5. /\ Region(s).y0 \in Int /\ Region(s).y1 \in Int
      /\ 1 <= Region(s).y0 /\ Region(s).y1 <= H - 2
      /\ MIN_ROOM_H - 1 <= Region(s).y1 - Region(s).y0
  BY ONLY <1>1, <1>2, <1>3, RegionSpan
<1> QED BY <1>4, <1>5

\* Every room the draws can make fits the map and keeps to its region.
LEMMA RoomsInFit ==
  ASSUME NEW s \in Slots, NEW r \in RoomsIn(Region(s))
  PROVE  Fits(r) /\ InRegion(r, Region(s))
<1> DEFINE g == Region(s)
<1>1. PICK w \in rand_range_i32(MIN_ROOM_W,
                                AtLeast(g.x1 - g.x0 - 1, MIN_ROOM_W) + 1),
           h \in rand_range_i32(MIN_ROOM_H,
                                AtLeast(g.y1 - g.y0 - 1, MIN_ROOM_H) + 1) :
        \E x \in rand_range_i32(g.x0, g.x1 - w + 2),
           y \in rand_range_i32(g.y0, g.y1 - h + 2) : r = Room(x, y, w, h)
  BY DEF RoomsIn
<1>2. PICK x \in rand_range_i32(g.x0, g.x1 - w + 2),
           y \in rand_range_i32(g.y0, g.y1 - h + 2) : r = Room(x, y, w, h)
  BY <1>1
<1>3. /\ g.x0 \in Int /\ g.x1 \in Int /\ 1 <= g.x0 /\ g.x1 <= W - 2
      /\ MIN_ROOM_W - 1 <= g.x1 - g.x0
      /\ g.y0 \in Int /\ g.y1 \in Int /\ 1 <= g.y0 /\ g.y1 <= H - 2
      /\ MIN_ROOM_H - 1 <= g.y1 - g.y0
  BY RegionShape
<1> HIDE DEF g
<1>4. w \in Int /\ x \in Int /\ 2 <= w /\ g.x0 <= x /\ x + w <= g.x1 + 1
  BY <1>3, SideFits, GridAssumption
<1>5. h \in Int /\ y \in Int /\ 2 <= h /\ g.y0 <= y /\ y + h <= g.y1 + 1
  BY <1>3, SideFits, GridAssumption
<1>6. r = [x1 |-> x, y1 |-> y, x2 |-> x + w, y2 |-> y + h]
  BY <1>2 DEF Room
<1>7. W \in Nat /\ H \in Nat
  BY SizeAssumption
<1>8. Fits(r)
  BY <1>3, <1>4, <1>5, <1>6, <1>7 DEF Fits, RoomType
<1>9. InRegion(r, g)
  BY <1>3, <1>4, <1>5, <1>6 DEF InRegion
<1> QED BY <1>8, <1>9 DEF g

LEMMA FallbackFits == Fits(Fallback)
<1>1. W \in Nat /\ H \in Nat /\ W >= 10 /\ H >= 8
  BY SizeAssumption, GridAssumption
<1>2. Fallback = [x1 |-> W \div 2 - 4, y1 |-> H \div 2 - 3,
                  x2 |-> (W \div 2 - 4) + 8, y2 |-> (H \div 2 - 3) + 6]
  BY DEF Fallback, Room
<1>3. /\ W \div 2 \in Int /\ 2 * (W \div 2) <= W /\ W <= 2 * (W \div 2) + 1
      /\ H \div 2 \in Int /\ 2 * (H \div 2) <= H /\ H <= 2 * (H \div 2) + 1
  BY <1>1
<1> QED BY <1>1, <1>2, <1>3 DEF Fits, RoomType

-----------------------------------------------------------------------------
(* Rooms as sets of cells.                                                 *)

LEMMA InteriorInside ==
  ASSUME NEW r, Fits(r)
  PROVE  Interior(r) \subseteq Diggable /\ Interior(r) \subseteq Cells
<1>1. W \in Nat /\ H \in Nat
  BY SizeAssumption
<1> QED BY <1>1 DEF Fits, RoomType, Interior, Diggable, Cells

\* The player starts on the floor of its room.
LEMMA CenterInside ==
  ASSUME NEW r, Fits(r)
  PROVE  center(r) \in Interior(r)
<1>1. r.x1 \in Int /\ r.x2 \in Int /\ r.y1 \in Int /\ r.y2 \in Int
  BY DEF Fits, RoomType
<1>2. (r.x1 + r.x2) \div 2 \in r.x1 + 1 .. r.x2 - 1
  BY <1>1 DEF Fits
<1>3. (r.y1 + r.y2) \div 2 \in r.y1 + 1 .. r.y2 - 1
  BY <1>1 DEF Fits
<1> QED BY <1>2, <1>3 DEF center, Interior

\* A door is a cell with a direction, whatever room it looks at.
LEMMA DoorType ==
  ASSUME NEW r, Fits(r), NEW t, Fits(t), NEW d \in random_door_towards(r, t)
  PROVE  d \in Door
<1>1. r.x1 \in Int /\ r.x2 \in Int /\ r.y1 \in Int /\ r.y2 \in Int
  BY DEF Fits, RoomType
<1>2. /\ r.x1 + 1 \in Int /\ r.x1 + 1 < r.x2
      /\ r.y1 + 1 \in Int /\ r.y1 + 1 < r.y2
  BY <1>1 DEF Fits
<1>3. \A y \in rand_range_i32(r.y1 + 1, r.y2) : y \in Int
  BY <1>1, <1>2, RangeBounds
<1>4. \A x \in rand_range_i32(r.x1 + 1, r.x2) : x \in Int
  BY <1>1, <1>2, RangeBounds
<1> QED BY <1>1, <1>3, <1>4 DEF random_door_towards, Door

\* A monster is set on the floor of its room.
LEMMA SpawnInside ==
  ASSUME NEW r, Fits(r), NEW c \in SpawnCells(r)
  PROVE  c \in Interior(r)
<1>1. r.x1 \in Int /\ r.x2 \in Int /\ r.y1 \in Int /\ r.y2 \in Int
  BY DEF Fits, RoomType
<1>2. /\ r.x1 + 1 \in Int /\ r.x1 + 1 < r.x2
      /\ r.y1 + 1 \in Int /\ r.y1 + 1 < r.y2
  BY <1>1 DEF Fits
<1>3. PICK x \in rand_range_i32(r.x1 + 1, r.x2),
           y \in rand_range_i32(r.y1 + 1, r.y2) : c = <<x, y>>
  BY DEF SpawnCells
<1>4. x \in Int /\ r.x1 + 1 <= x /\ x < r.x2
  BY <1>1, <1>2, RangeBounds
<1>5. y \in Int /\ r.y1 + 1 <= y /\ y < r.y2
  BY <1>1, <1>2, RangeBounds
<1> QED BY <1>1, <1>3, <1>4, <1>5 DEF Interior

\* Rooms that do not intersect with a gap of one leave a cell between their
\* walls, and their floors are disjoint.
LEMMA GapKeepsApart ==
  ASSUME NEW r, Fits(r), NEW t, Fits(t), ~intersects_with_gap(r, t, 1)
  PROVE  /\ Interior(r) \cap Interior(t) = {}
         /\ \A c \in Perimeter(r) : Around(c) \cap Perimeter(t) = {}
         /\ ~intersects_with_gap(t, r, 1)
<1>1. /\ r.x1 \in Int /\ r.x2 \in Int /\ r.y1 \in Int /\ r.y2 \in Int
      /\ t.x1 \in Int /\ t.x2 \in Int /\ t.y1 \in Int /\ t.y2 \in Int
  BY DEF Fits, RoomType
<1>2. \/ r.x1 > t.x2 + 1 \/ r.x2 < t.x1 - 1
      \/ r.y1 > t.y2 + 1 \/ r.y2 < t.y1 - 1
  BY <1>1 DEF intersects_with_gap
<1>3. Interior(r) \cap Interior(t) = {}
  BY <1>1, <1>2 DEF Interior
<1>4. ASSUME NEW c \in Perimeter(r), NEW n \in Around(c), n \in Perimeter(t)
      PROVE  FALSE
  <2>1. c \in (r.x1 .. r.x2) \X (r.y1 .. r.y2)
    BY DEF Perimeter
  <2>2. n \in (t.x1 .. t.x2) \X (t.y1 .. t.y2)
    BY <1>4 DEF Perimeter
  <2>3. /\ c[1] \in Int /\ c[2] \in Int
        /\ r.x1 <= c[1] /\ c[1] <= r.x2 /\ r.y1 <= c[2] /\ c[2] <= r.y2
    BY <1>1, <2>1
  <2>4. /\ n[1] \in Int /\ n[2] \in Int
        /\ t.x1 <= n[1] /\ n[1] <= t.x2 /\ t.y1 <= n[2] /\ n[2] <= t.y2
    BY <1>1, <2>2
  <2>5. /\ c[1] - 1 <= n[1] /\ n[1] <= c[1] + 1
        /\ c[2] - 1 <= n[2] /\ n[2] <= c[2] + 1
    BY <2>3 DEF Around
  <2> QED BY <1>1, <1>2, <2>3, <2>4, <2>5
<1>5. ~intersects_with_gap(t, r, 1)
  BY <1>1, <1>2 DEF intersects_with_gap
<1> QED BY <1>3, <1>4, <1>5

-----------------------------------------------------------------------------
(* The pair the scan of the bridging loop keeps.                           *)

LEMMA DistanceType ==
  ASSUME rooms \in Seq(RoomType), NEW p \in RoomIds \X RoomIds
  PROVE  Distance(p) \in Nat
<1>1. rooms[p[1]] \in RoomType /\ rooms[p[2]] \in RoomType
  BY DEF RoomIds
<1>2. \A r \in RoomType : center(r)[1] \in Int /\ center(r)[2] \in Int
  BY DEF RoomType, center
<1>3. \A n \in Int : Abs(n) \in Nat
  BY DEF Abs
<1> DEFINE a == center(rooms[p[1]])
           b == center(rooms[p[2]])
<1>4. a[1] - b[1] \in Int /\ a[2] - b[2] \in Int
  BY <1>1, <1>2
<1>5. Distance(p) = Abs(a[1] - b[1]) + Abs(a[2] - b[2])
  BY DEF Distance, room_center_distance
<1> HIDE DEF a, b
<1>6. Abs(a[1] - b[1]) \in Nat /\ Abs(a[2] - b[2]) \in Nat
  BY <1>3, <1>4
<1> QED BY <1>5, <1>6

\* While two components are left the scan finds a pair of rooms to bridge.
LEMMA BestPairSplits ==
  ASSUME rooms \in Seq(RoomType), SplitPairs # {}
  PROVE  BestPair \in SplitPairs
<1> DEFINE before(p, q) == p[1] < q[1] \/ (p[1] = q[1] /\ p[2] <= q[2])
           better(p, q) == \/ Distance(p) < Distance(q)
                           \/ Distance(p) = Distance(q) /\ before(p, q)
<1>0. /\ SplitPairs \subseteq RoomIds \X RoomIds
      /\ RoomIds \subseteq Nat
  BY DEF SplitPairs, RoomIds
<1>1. PICK d \in {Distance(p) : p \in SplitPairs} :
        \A q \in SplitPairs : d <= Distance(q)
  <2>1. {Distance(p) : p \in SplitPairs} \subseteq Nat
    BY <1>0, DistanceType
  <2>2. {Distance(p) : p \in SplitPairs} # {}
    OBVIOUS
  <2>3. PICK m \in {Distance(p) : p \in SplitPairs} :
          \A n \in {Distance(p) : p \in SplitPairs} : m <= n
    BY <2>1, <2>2, LeastOf
  <2> QED BY <2>3
<1> DEFINE S1 == {p \in SplitPairs : Distance(p) = d}
<1>2. PICK a \in {p[1] : p \in S1} : \A q \in S1 : a <= q[1]
  <2>1. {p[1] : p \in S1} \subseteq Nat
    BY <1>0
  <2>2. {p[1] : p \in S1} # {}
    BY <1>1
  <2>3. PICK m \in {p[1] : p \in S1} : \A n \in {p[1] : p \in S1} : m <= n
    BY <2>1, <2>2, LeastOf
  <2> QED BY <2>3
<1> DEFINE S2 == {p \in S1 : p[1] = a}
<1>3. PICK b \in {p[2] : p \in S2} : \A q \in S2 : b <= q[2]
  <2>1. {p[2] : p \in S2} \subseteq Nat
    BY <1>0
  <2>2. {p[2] : p \in S2} # {}
    BY <1>2
  <2>3. PICK m \in {p[2] : p \in S2} : \A n \in {p[2] : p \in S2} : m <= n
    BY <2>1, <2>2, LeastOf
  <2> QED BY <2>3
<1>4. PICK p \in S2 : p[2] = b
  BY <1>3
<1>5. p \in SplitPairs /\ \A q \in SplitPairs : better(p, q)
  <2> SUFFICES ASSUME NEW q \in SplitPairs PROVE better(p, q)
    BY <1>4
  <2>1. Distance(q) \in Nat /\ Distance(p) \in Nat
    BY <1>0, <1>4, DistanceType
  <2>2. /\ p[1] \in Nat /\ p[2] \in Nat /\ q[1] \in Nat /\ q[2] \in Nat
    BY <1>0, <1>4
  <2>3. Distance(p) = d /\ p[1] = a /\ d <= Distance(q)
    BY <1>1, <1>4
  <2>4. CASE Distance(q) # d
    BY <2>1, <2>3, <2>4
  <2>5. CASE Distance(q) = d
    <3>1. q \in S1 /\ a <= q[1]
      BY <1>2, <2>5
    <3>2. CASE q[1] # a
      BY <2>2, <2>3, <2>5, <3>1, <3>2
    <3>3. CASE q[1] = a
      <4>1. b <= q[2]
        BY <1>3, <3>1, <3>3
      <4> QED BY <1>4, <2>3, <2>5, <3>3, <4>1
    <3> QED BY <3>2, <3>3
  <2> QED BY <2>4, <2>5
<1>6. BestPair = CHOOSE x \in SplitPairs : \A q \in SplitPairs : better(x, q)
  BY DEF BestPair
<1> HIDE DEF better
<1> QED BY <1>5, <1>6

-----------------------------------------------------------------------------
(* What digging does to a map.                                             *)

Map == [Cells -> Tile]

LEMMA CarveRoomMap ==
  ASSUME NEW t \in Map, NEW r, Fits(r)
  PROVE  /\ carve_room(t, r) \in Map
         /\ \A c \in Cells :
              carve_room(t, r)[c] = IF c \in Interior(r) THEN ROOM ELSE t[c]
<1>1. Interior(r) \subseteq Diggable
  BY InteriorInside
<1>2. \A c \in Cells :
        carve_room(t, r)[c] = IF c \in Interior(r) THEN ROOM ELSE t[c]
  BY <1>1 DEF carve_room, set_room_floor
<1>3. carve_room(t, r) \in Map
  BY DEF carve_room, set_room_floor, Map, Tile
<1> QED BY <1>2, <1>3

\* A link changes rock and walls off the border only, leaves what is open as
\* it is, and opens all of its way that is not a wall.
LEMMA CarveLinkMap ==
  ASSUME NEW t \in Map, NEW a, NEW b, NEW h,
         NEW t2, t2 = carve_room_link(t, a, b, h)
  PROVE  /\ t2 \in Map
         /\ \A c \in Cells : t[c] \in Walkable => t2[c] = t[c]
         /\ \A c \in Cells : t2[c] # t[c] => c \in Diggable
         /\ \A c \in Cells : t2[c] # t[c] => t2[c] \in {DOOR, CORRIDOR}
         /\ \A c \in Diggable \cap Cells :
              c \in {a.wall, b.wall} \cup LinkPath(a, b, h) /\ t[c] # WALL
                => t2[c] \in Walkable
<1> DEFINE walls == {a.wall, b.wall}
           path == LinkPath(a, b, h)
           t1 == set_door_tile(t, walls)
<1>1. t1 \in Map
  BY DEF set_door_tile, Map, Tile
<1>2. \A c \in Cells :
        t1[c] = IF c \in walls \cap Diggable /\ t[c] \in {ROCK, WALL}
                THEN DOOR ELSE t[c]
  BY DEF set_door_tile
<1>3. t2 = set_corridor_floor(t1, path)
  BY DEF carve_room_link
<1>4. t2 \in Map
  BY <1>1, <1>3 DEF set_corridor_floor, Map, Tile
<1> HIDE DEF t1, walls, path
<1>5. \A c \in Cells :
        t2[c] = IF c \in path \cap Diggable /\ t1[c] = ROCK
                THEN CORRIDOR ELSE t1[c]
  BY <1>3 DEF set_corridor_floor
<1>6. \A c \in Cells : t[c] \in Walkable => t2[c] = t[c]
  BY <1>2, <1>5 DEF Walkable, ROOM, CORRIDOR, DOOR, ROCK, WALL
<1>7. \A c \in Cells : t2[c] # t[c] => c \in Diggable /\ t2[c] \in {DOOR, CORRIDOR}
  BY <1>2, <1>5
<1>8. ASSUME NEW c \in Diggable \cap Cells, c \in walls \cup path, t[c] # WALL
      PROVE  t2[c] \in Walkable
  <2>1. t[c] \in Tile
    BY DEF Map
  <2>2. CASE t[c] = ROCK
    BY <1>2, <1>5, <1>8, <2>2 DEF Walkable, ROOM, CORRIDOR, DOOR, ROCK, WALL
  <2>3. CASE t[c] \in Walkable
    BY <1>6, <2>3
  <2> QED BY <1>8, <2>1, <2>2, <2>3 DEF Tile, Walkable
<1> QED BY <1>4, <1>6, <1>7, <1>8 DEF walls, path

\* Walls are put on rock only, and on all rock next to a floor.
LEMMA AddWallsMap ==
  ASSUME NEW t \in Map, NEW t2, t2 = add_walls_around_open_tiles(t)
  PROVE  /\ t2 \in Map
         /\ \A c \in Cells : t2[c] # t[c] => t[c] = ROCK /\ t2[c] = WALL
         /\ \A c \in Diggable \cap Cells : t[c] = ROOM =>
              \A n \in Cells : c \in Around(n) => t2[n] # ROCK
<1>1. t2 \in Map
  BY DEF add_walls_around_open_tiles, Map, Tile
<1>2. \A c \in Cells :
        t2[c] = IF /\ t[c] = ROCK
                   /\ \E n \in Around(c) \cap Diggable : t[n] = ROOM
                THEN WALL ELSE t[c]
  BY DEF add_walls_around_open_tiles
<1>3. WALL # ROCK
  BY DEF WALL, ROCK
<1> QED BY <1>1, <1>2, <1>3

-----------------------------------------------------------------------------
(* The bookkeeping of the loops.                                           *)

Digging == {"rooms", "collect", "shuffle", "span", "bridge", "extra"}

\* Every room fits the map, keeps to its region and apart from the others.
RoomsInv ==
  /\ \A i \in RoomIds : Fits(rooms[i])
  /\ \A i, j \in RoomIds : i # j => ~intersects_with_gap(rooms[i], rooms[j], 1)
  /\ \A s \in Slots :
       grid_slots[s] # 0 => InRegion(rooms[grid_slots[s]], Region(s))

\* What the loops that have not begun have not touched, and how far the one
\* that runs has come.
LoopInv ==
  /\ pc = "rooms" => edges = <<>>
  /\ pc \in {"rooms", "collect", "shuffle"} => label = <<>> /\ used = <<>>
  /\ pc \in {"span", "bridge"} => DOMAIN label = RoomIds
  /\ pc = "shuffle" => k <= Len(edges)
  /\ pc \in Digging => links = <<>>
  /\ pc = "carve" => k = Len(links) + 1
  /\ pc \notin {"spawn", "done"} => spawns = <<>>

GenInv == TypeOK /\ RoomsInv /\ LoopInv

LEMMA GenInit == Init => GenInv
<1> SUFFICES ASSUME Init PROVE GenInv
  OBVIOUS
<1>1. /\ W \in Nat /\ H \in Nat
      /\ GRID_W \in Nat \ {0} /\ GRID_H \in Nat \ {0}
  BY SizeAssumption, GridAssumption
<1>2. RoomIds = {}
  BY DEF Init, RoomIds
<1>3. TypeOK
  BY <1>1, <1>2 DEF Init, TypeOK, Tile
<1>4. RoomsInv
  BY <1>2 DEF Init, RoomsInv
<1>5. LoopInv
  BY <1>2 DEF Init, LoopInv
<1> QED BY <1>3, <1>4, <1>5 DEF GenInv

\* Going to the next slot stays in the grid or ends the loop.
LEMMA NextSlotType ==
  ASSUME TypeOK, slot \in Slots, ToNextSlot
  PROVE  gx' \in 0 .. GRID_W - 1 /\ gy' \in 0 .. GRID_H
<1>1. GRID_W \in Nat \ {0} /\ GRID_H \in Nat \ {0}
  BY GridAssumption
<1>2. gx \in 0 .. GRID_W - 1 /\ gy \in 0 .. GRID_H - 1
  BY DEF slot, Slots
<1> QED BY <1>1, <1>2 DEF ToNextSlot

\* Passing from one loop to the next keeps the bookkeeping.
LEMMA EnterKeeps ==
  ASSUME GenInv, NEW q, NEW n \in Nat, Enter(q, n),
         \/ q = "shuffle" /\ pc = "collect" /\ n = Len(edges)
         \/ q = "bridge" /\ pc = "span"
         \/ q = "extra" /\ pc = "bridge"
         \/ q = "carve" /\ pc = "extra" /\ n = 1
         \/ q = "walls" /\ pc = "carve"
         \/ q = "done" /\ pc = "spawn"
  PROVE  GenInv'
<1> USE DEF GenInv
<1>1. TypeOK'
  BY DEF Enter, TypeOK, links_vars, RoomIds
<1>2. RoomsInv'
  BY DEF Enter, RoomsInv, links_vars, RoomIds
<1>3. LoopInv'
  <2>1. /\ pc' = q /\ k' = n
        /\ UNCHANGED <<rooms, edges, label, used, links, spawns>>
    BY DEF Enter, links_vars
  <2>2. (pc' = "rooms" => edges' = <<>>)
    BY <2>1
  <2>3. pc' \in {"rooms", "collect", "shuffle"} => label' = <<>> /\ used' = <<>>
    BY <2>1 DEF LoopInv
  <2>4. pc' \in {"span", "bridge"} => DOMAIN label' = RoomIds'
    BY <2>1 DEF LoopInv, RoomIds
  <2>5. pc' = "shuffle" => k' <= Len(edges')
    BY <2>1
  <2>6. pc' \in Digging => links' = <<>>
    BY <2>1 DEF LoopInv, Digging
  <2>7. pc' = "carve" => k' = Len(links') + 1
    BY <2>1 DEF LoopInv, Digging
  <2>8. pc' \notin {"spawn", "done"} => spawns' = <<>>
    BY <2>1 DEF LoopInv
  <2> QED BY <2>2, <2>3, <2>4, <2>5, <2>6, <2>7, <2>8 DEF LoopInv
<1> QED BY <1>1, <1>2, <1>3

\* The steps that change no variable but the place in the loops.
LEMMA GenLoopSteps ==
  ASSUME GenInv, SkipSlot \/ StartEdges \/ LoopEnds \/ UNCHANGED gen_vars
  PROVE  GenInv'
<1> USE DEF GenInv
<1>1. CASE SkipSlot
  <2>1. gx' \in 0 .. GRID_W - 1 /\ gy' \in 0 .. GRID_H
    BY <1>1, NextSlotType DEF SkipSlot, AtSlot
  <2> QED BY <1>1, <2>1
          DEF SkipSlot, TypeOK, RoomsInv, LoopInv, links_vars, RoomIds, HasRoom
<1>2. CASE StartEdges
  BY <1>2, GridAssumption
     DEF StartEdges, TypeOK, RoomsInv, LoopInv, links_vars, RoomIds, Digging
<1>3. CASE LoopEnds
  <2>1. /\ Len(edges) \in Nat /\ k \in Nat
    BY DEF TypeOK
  <2> USE <2>1, EnterKeeps
  <2>2. CASE pc = "collect" /\ slot \notin Slots /\ Enter("shuffle", Len(edges))
    BY <2>2
  <2>3. CASE pc = "span" /\ k \notin DOMAIN edges /\ Enter("bridge", k)
    BY <2>3
  <2>4. CASE /\ pc = "bridge" /\ (all_rooms_connected \/ SplitPairs = {})
             /\ Enter("extra", 1)
    BY <2>4
  <2>5. CASE pc = "extra" /\ k \notin DOMAIN edges /\ Enter("carve", 1)
    BY <2>5
  <2>6. CASE pc = "carve" /\ k \notin DOMAIN used /\ Enter("walls", k)
    BY <2>6
  <2>7. CASE pc = "spawn" /\ k \notin RoomIds /\ Enter("done", k)
    BY <2>7
  <2> QED BY <1>3, <2>2, <2>3, <2>4, <2>5, <2>6, <2>7 DEF LoopEnds
<1>4. CASE UNCHANGED gen_vars
  BY <1>4
     DEF gen_vars, TypeOK, RoomsInv, LoopInv, links_vars, RoomIds, Digging
<1> QED BY <1>1, <1>2, <1>3, <1>4

\* The steps that make rooms.
LEMMA GenRoomSteps ==
  ASSUME GenInv, PlaceRoom \/ FallbackRoom
  PROVE  GenInv'
<1> USE DEF GenInv
<1>1. CASE PlaceRoom
  <2>1. /\ pc = "rooms" /\ slot \in Slots
        /\ gx' \in 0 .. GRID_W - 1 /\ gy' \in 0 .. GRID_H
    BY <1>1, NextSlotType DEF PlaceRoom, AtSlot
  <2>2. /\ edges = <<>> /\ label = <<>> /\ used = <<>> /\ links = <<>> /\ spawns = <<>>
        /\ UNCHANGED <<pc, k, edges, label, used, links, spawns>>
    BY <1>1, <2>1 DEF PlaceRoom, LoopInv, Digging, links_vars
  <2>3. PICK room \in RoomsIn(Region(slot)) :
          IF \E i \in RoomIds : intersects_with_gap(room, rooms[i], 1)
          THEN UNCHANGED <<tiles, rooms, grid_slots>>
          ELSE /\ tiles' = carve_room(tiles, room)
               /\ rooms' = Append(rooms, room)
               /\ grid_slots' = [grid_slots EXCEPT ![slot] = Len(rooms) + 1]
    BY <1>1 DEF PlaceRoom
  <2>4. Fits(room) /\ InRegion(room, Region(slot))
    BY <2>1, <2>3, RoomsInFit
  <2>5. LoopInv'
    BY <2>1, <2>2 DEF LoopInv, Digging
  <2>6. CASE UNCHANGED <<tiles, rooms, grid_slots>>
    <3>1. TypeOK'
      BY <2>1, <2>2, <2>6 DEF TypeOK, RoomIds
    <3>2. RoomsInv'
      BY <2>6 DEF RoomsInv, RoomIds
    <3> QED BY <2>5, <3>1, <3>2
  <2>7. CASE /\ ~ \E i \in RoomIds : intersects_with_gap(room, rooms[i], 1)
             /\ tiles' = carve_room(tiles, room)
             /\ rooms' = Append(rooms, room)
             /\ grid_slots' = [grid_slots EXCEPT ![slot] = Len(rooms) + 1]
    <3>1. rooms \in Seq(RoomType) /\ room \in RoomType
      BY <2>4 DEF TypeOK, Fits, RoomType
    <3>2. /\ rooms' \in Seq(RoomType) /\ Len(rooms') = Len(rooms) + 1
          /\ RoomIds = 1 .. Len(rooms) /\ RoomIds' = 1 .. Len(rooms) + 1
          /\ \A i \in RoomIds : rooms'[i] = rooms[i]
          /\ rooms'[Len(rooms) + 1] = room
      BY <2>7, <3>1 DEF RoomIds
    <3>3. tiles' \in [Cells -> Tile]
      BY <2>4, <2>7, CarveRoomMap DEF TypeOK, Map
    <3>4. grid_slots' \in [Slots -> {0} \cup RoomIds']
      BY <2>1, <2>7, <3>2 DEF TypeOK
    <3>5. TypeOK'
      <4>1. /\ edges' \in Seq(RoomIds' \X RoomIds') /\ used' \in Seq(RoomIds' \X RoomIds')
            /\ DOMAIN label' = {}
        BY <2>2
      <4> QED BY <2>1, <2>2, <3>2, <3>3, <3>4, <4>1 DEF TypeOK, RoomType
    <3>6. \A i \in RoomIds' : Fits(rooms'[i])
      BY <2>4, <3>2 DEF RoomsInv
    <3>7. ASSUME NEW i \in RoomIds', NEW j \in RoomIds', i # j
          PROVE  ~intersects_with_gap(rooms'[i], rooms'[j], 1)
      <4>1. CASE i \in RoomIds /\ j \in RoomIds
        BY <3>2, <3>7, <4>1 DEF RoomsInv
      <4>2. CASE i \notin RoomIds
        <5>1. rooms'[i] = room /\ j \in RoomIds /\ rooms'[j] = rooms[j]
          BY <3>2, <3>7, <4>2
        <5> QED BY <2>7, <5>1
      <4>3. CASE j \notin RoomIds
        <5>1. rooms'[j] = room /\ i \in RoomIds /\ rooms'[i] = rooms[i]
          BY <3>2, <3>7, <4>3
        <5>2. Fits(rooms[i])
          BY <5>1 DEF RoomsInv
        <5> QED BY <2>4, <2>7, <5>1, <5>2, GapKeepsApart
      <4> QED BY <4>1, <4>2, <4>3
    <3>8. ASSUME NEW s \in Slots, grid_slots'[s] # 0
          PROVE  InRegion(rooms'[grid_slots'[s]], Region(s))
      <4>1. CASE s = slot
        BY <2>1, <2>4, <2>7, <3>2, <4>1 DEF TypeOK
      <4>2. CASE s # slot
        <5>1. grid_slots'[s] = grid_slots[s] /\ grid_slots[s] \in RoomIds
          BY <2>7, <3>8, <4>2 DEF TypeOK
        <5> QED BY <3>2, <3>8, <5>1 DEF RoomsInv
      <4> QED BY <4>1, <4>2
    <3>9. RoomsInv'
      BY <3>6, <3>7, <3>8 DEF RoomsInv
    <3> QED BY <2>5, <3>5, <3>9
  <2> QED BY <2>3, <2>6, <2>7
<1>2. CASE FallbackRoom
  <2>1. /\ rooms = <<>> /\ rooms' = <<Fallback>> /\ pc = "rooms" /\ pc' = "walls"
        /\ tiles' = carve_room(tiles, Fallback)
        /\ UNCHANGED <<gx, gy, k, grid_slots, edges, label, used, links, spawns>>
    BY <1>2 DEF FallbackRoom, links_vars
  <2>2. /\ edges = <<>> /\ label = <<>> /\ used = <<>> /\ links = <<>> /\ spawns = <<>>
    BY <2>1 DEF LoopInv, Digging
  <2>3. Fallback \in RoomType
    BY FallbackFits DEF Fits
  <2>4. RoomIds = {} /\ RoomIds' = {1} /\ rooms'[1] = Fallback
    BY <2>1 DEF RoomIds
  <2>5. \A s \in Slots : grid_slots[s] = 0
    BY <2>4 DEF TypeOK
  <2>6. TypeOK'
    <3>1. tiles' \in [Cells -> Tile]
      BY <2>1, CarveRoomMap, FallbackFits DEF TypeOK, Map
    <3>2. rooms' \in Seq(RoomType)
      BY <2>1, <2>3
    <3>3. /\ edges' \in Seq(RoomIds' \X RoomIds') /\ used' \in Seq(RoomIds' \X RoomIds')
          /\ DOMAIN label' = {}
      BY <2>1, <2>2
    <3>4. grid_slots' \in [Slots -> {0} \cup RoomIds']
      BY <2>1, <2>5 DEF TypeOK
    <3> QED BY <2>1, <2>2, <3>1, <3>2, <3>3, <3>4 DEF TypeOK, RoomType
  <2>7. RoomsInv'
    BY <2>1, <2>4, <2>5, FallbackFits DEF RoomsInv
  <2>8. LoopInv'
    BY <2>1, <2>2 DEF LoopInv, Digging
  <2> QED BY <2>6, <2>7, <2>8
<1> QED BY <1>1, <1>2

\* The steps that choose the links.
LEMMA GenLinkSteps ==
  ASSUME GenInv,
         CollectEdges \/ ShuffleEdge \/ StartSpan \/ SpanEdge \/ Bridge \/ ExtraEdge
  PROVE  GenInv'
<1> USE DEF GenInv
<1> DEFINE Pairs == RoomIds \X RoomIds
<1>0. edges \in Seq(Pairs) /\ used \in Seq(Pairs) /\ k \in Nat
  BY DEF TypeOK
<1>1. CASE CollectEdges
  <2>1. /\ pc = "collect" /\ slot \in Slots
        /\ gx' \in 0 .. GRID_W - 1 /\ gy' \in 0 .. GRID_H
        /\ edges' = edges \o EdgeBetween(slot, RightOf(slot))
                          \o EdgeBetween(slot, BelowOf(slot))
        /\ UNCHANGED <<pc, k, tiles, rooms, grid_slots, label, used, links, spawns>>
    BY <1>1, NextSlotType DEF CollectEdges, AtSlot
  <2>2. \A t : EdgeBetween(slot, t) \in Seq(Pairs)
    <3> SUFFICES ASSUME NEW t PROVE EdgeBetween(slot, t) \in Seq(Pairs)
      OBVIOUS
    <3>1. CASE t \in Slots /\ HasRoom(slot) /\ HasRoom(t)
      <4>1. grid_slots[slot] \in RoomIds /\ grid_slots[t] \in RoomIds
        BY <2>1, <3>1 DEF TypeOK, HasRoom
      <4> QED BY <3>1, <4>1 DEF EdgeBetween
    <3>2. CASE ~(t \in Slots /\ HasRoom(slot) /\ HasRoom(t))
      BY <3>2 DEF EdgeBetween
    <3> QED BY <3>1, <3>2
  <2>3. edges' \in Seq(Pairs)
    <3>1. edges \o EdgeBetween(slot, RightOf(slot)) \in Seq(Pairs)
      BY <1>0, <2>2, ConcatProperties
    <3> QED BY <2>1, <2>2, <3>1, ConcatProperties
  <2>4. TypeOK'
    BY <2>1, <2>3 DEF TypeOK, RoomIds
  <2>5. RoomsInv' /\ LoopInv'
    BY <2>1 DEF RoomsInv, LoopInv, RoomIds, Digging
  <2> QED BY <2>4, <2>5
<1>2. CASE ShuffleEdge
  <2>1. PICK j \in rand_range_i32(1, k + 1) : edges' = Swap(edges, k, j)
    BY <1>2 DEF ShuffleEdge
  <2>2. /\ pc = "shuffle" /\ k >= 2 /\ k <= Len(edges) /\ k' = k - 1
        /\ UNCHANGED <<pc, gx, gy, tiles, rooms, grid_slots, label, used, links, spawns>>
    BY <1>2 DEF ShuffleEdge, LoopInv
  <2>3. j \in Int /\ 1 <= j /\ j < k + 1
    <3>1. 1 \in Int /\ k + 1 \in Int /\ 1 < k + 1
      BY <1>0, <2>2
    <3> QED BY <2>1, <3>1, RangeBounds
  <2>4. edges' \in Seq(Pairs) /\ Len(edges') = Len(edges)
    <3>1. k \in 1 .. Len(edges) /\ j \in 1 .. Len(edges)
      BY <1>0, <2>2, <2>3
    <3>2. edges[k] \in Pairs /\ edges[j] \in Pairs
      BY <1>0, <3>1
    <3> QED BY <1>0, <2>1, <3>1, <3>2 DEF Swap
  <2>5. TypeOK'
    <3>1. k' \in Nat
      BY <1>0, <2>2
    <3>2. RoomIds' = RoomIds
      BY <2>2 DEF RoomIds
    <3> QED BY <2>2, <2>4, <3>1, <3>2 DEF TypeOK
  <2>6. RoomsInv'
    BY <2>2 DEF RoomsInv, RoomIds
  <2>7. LoopInv'
    BY <1>0, <2>2, <2>4 DEF LoopInv, Digging
  <2> QED BY <2>5, <2>6, <2>7
<1>3. CASE StartSpan
  <2>1. /\ pc = "shuffle" /\ pc' = "span" /\ k' = 1
        /\ label' = [r \in RoomIds |-> r]
        /\ UNCHANGED <<gx, gy, tiles, rooms, grid_slots, edges, used, links, spawns>>
    BY <1>3 DEF StartSpan
  <2>2. RoomIds' = RoomIds
    BY <2>1 DEF RoomIds
  <2>3. TypeOK'
    BY <2>1, <2>2 DEF TypeOK
  <2>4. RoomsInv' /\ LoopInv'
    BY <2>1, <2>2 DEF RoomsInv, LoopInv, Digging
  <2> QED BY <2>3, <2>4
<1>4. ASSUME NEW p \in Pairs,
             label' = Relabel(label, p[1], p[2]), used' = Append(used, p),
             pc \in {"span", "bridge"}, k' \in Nat,
             UNCHANGED <<pc, gx, gy, tiles, rooms, grid_slots, edges, links, spawns>>
      PROVE  GenInv'
  <2>1. RoomIds' = RoomIds /\ DOMAIN label = RoomIds
    BY <1>4 DEF RoomIds, LoopInv
  <2>2. DOMAIN label' = RoomIds /\ \A r \in RoomIds : label'[r] \in RoomIds
    BY <1>4, <2>1 DEF Relabel, TypeOK
  <2>3. used' \in Seq(Pairs) /\ links = <<>>
    BY <1>0, <1>4 DEF LoopInv, Digging
  <2>4. TypeOK'
    <3>1. /\ Len(links') <= Len(used')
      BY <1>4, <2>3
    <3> QED BY <1>4, <2>1, <2>2, <2>3, <3>1 DEF TypeOK
  <2>5. RoomsInv'
    BY <1>4, <2>1 DEF RoomsInv
  <2>6. LoopInv'
    BY <1>4, <2>1, <2>2 DEF LoopInv, Digging
  <2> QED BY <2>4, <2>5, <2>6
<1>5. ASSUME pc \in {"span", "extra"}, k' \in Nat,
             used' \in Seq(Pairs),
             UNCHANGED <<pc, gx, gy, tiles, rooms, grid_slots, edges, label,
                         links, spawns>>
      PROVE  GenInv'
  <2>1. RoomIds' = RoomIds /\ links = <<>>
    BY <1>5 DEF RoomIds, LoopInv, Digging
  <2>2. TypeOK'
    <3>1. /\ Len(links') <= Len(used')
      BY <1>5, <2>1
    <3> QED BY <1>5, <2>1, <3>1 DEF TypeOK
  <2>3. RoomsInv' /\ LoopInv'
    BY <1>5, <2>1 DEF RoomsInv, LoopInv, Digging
  <2> QED BY <2>2, <2>3
<1>6. CASE SpanEdge
  <2>1. /\ pc = "span" /\ k \in DOMAIN edges /\ k' \in Nat
        /\ UNCHANGED <<pc, gx, gy, tiles, rooms, grid_slots, edges, links, spawns>>
    BY <1>0, <1>6 DEF SpanEdge
  <2>2. edges[k] \in Pairs
    BY <1>0, <2>1
  <2>3. CASE label[edges[k][1]] # label[edges[k][2]]
    <3>1. /\ label' = Relabel(label, edges[k][1], edges[k][2])
          /\ used' = Append(used, edges[k])
      BY <1>6, <2>2, <2>3 DEF SpanEdge, link_if_split
    <3> QED BY <1>4, <2>1, <2>2, <3>1
  <2>4. CASE label[edges[k][1]] = label[edges[k][2]]
    <3>1. UNCHANGED <<label, used>>
      BY <1>6, <2>4 DEF SpanEdge, link_if_split
    <3> QED BY <1>0, <1>5, <2>1, <3>1
  <2> QED BY <2>3, <2>4
<1>7. CASE Bridge
  <2>1. /\ pc = "bridge" /\ SplitPairs # {} /\ k' \in Nat
        /\ link_if_split(BestPair[1], BestPair[2])
        /\ UNCHANGED <<pc, gx, gy, tiles, rooms, grid_slots, edges, links, spawns>>
    BY <1>0, <1>7 DEF Bridge
  <2>2. rooms \in Seq(RoomType)
    BY DEF TypeOK, RoomType
  <2>3. BestPair \in Pairs /\ label[BestPair[1]] # label[BestPair[2]]
    BY <2>1, <2>2, BestPairSplits DEF SplitPairs
  <2>4. /\ label' = Relabel(label, BestPair[1], BestPair[2])
        /\ used' = Append(used, BestPair)
    BY <2>1, <2>3 DEF link_if_split
  <2> QED BY <1>4, <2>1, <2>3, <2>4
<1>8. CASE ExtraEdge
  <2>1. /\ pc = "extra" /\ k \in DOMAIN edges /\ k' \in Nat
        /\ UNCHANGED <<pc, gx, gy, tiles, rooms, grid_slots, edges, label, links, spawns>>
    BY <1>0, <1>8 DEF ExtraEdge
  <2>2. edges[k] \in Pairs
    BY <1>0, <2>1
  <2>3. used' = used \/ used' = Append(used, edges[k])
    BY <1>8 DEF ExtraEdge
  <2>4. used' \in Seq(Pairs)
    BY <1>0, <2>2, <2>3
  <2> QED BY <1>5, <2>1, <2>4
<1> QED BY <1>1, <1>2, <1>3, <1>6, <1>7, <1>8

\* The steps that dig the links, put up the walls and set the monsters.
LEMMA GenMapSteps ==
  ASSUME GenInv, CarveLink \/ AddWalls \/ SpawnMonster
  PROVE  GenInv'
<1> USE DEF GenInv
<1>0. k \in Nat /\ tiles \in Map
  BY DEF TypeOK, Map
<1>1. CASE CarveLink
  <2> DEFINE a == rooms[used[k][1]]
             b == rooms[used[k][2]]
             Link == [a : Door, b : Door, h : BOOLEAN]
  <2>1. PICK a_door \in random_door_towards(a, b),
             b_door \in random_door_towards(b, a),
             h_first \in {d % 2 = 0 : d \in Draws} :
          /\ tiles' = carve_room_link(tiles, a_door, b_door, h_first)
          /\ links' = Append(links, [a |-> a_door, b |-> b_door, h |-> h_first])
    BY <1>1 DEF CarveLink
  <2>2. /\ pc = "carve" /\ k \in DOMAIN used /\ k' = k + 1
        /\ UNCHANGED <<pc, gx, gy, rooms, grid_slots, edges, label, used, spawns>>
    BY <1>1 DEF CarveLink
  <2>3. used[k][1] \in RoomIds /\ used[k][2] \in RoomIds
    BY <2>2 DEF TypeOK
  <2>4. Fits(a) /\ Fits(b)
    BY <2>3 DEF RoomsInv
  <2> HIDE DEF a, b
  <2>5. a_door \in Door /\ b_door \in Door
    BY <2>4, DoorType
  <2>6. h_first \in BOOLEAN
    OBVIOUS
  <2>7. [a |-> a_door, b |-> b_door, h |-> h_first] \in Link
    BY <2>5, <2>6
  <2>8. links' \in Seq(Link) /\ Len(links') = Len(links) + 1
    <3>1. links \in Seq(Link)
      BY DEF TypeOK
    <3> HIDE DEF Link
    <3> QED BY <2>1, <2>7, <3>1, AppendProperties
  <2>9. Len(links') <= Len(used')
    <3>1. k = Len(links) + 1 /\ k <= Len(used)
      BY <2>2 DEF LoopInv, TypeOK
    <3> QED BY <2>2, <2>8, <3>1
  <2>10. tiles' \in Map
    BY <1>0, <2>1, CarveLinkMap
  <2>11. TypeOK'
    <3>1. k' \in Nat
      BY <1>0, <2>2
    <3>2. RoomIds' = RoomIds
      BY <2>2 DEF RoomIds
    <3> QED BY <2>2, <2>8, <2>9, <2>10, <3>1, <3>2 DEF TypeOK, Map
  <2>12. RoomsInv'
    BY <2>2 DEF RoomsInv, RoomIds
  <2>13. LoopInv'
    <3>1. k' = Len(links') + 1
      BY <2>2, <2>8 DEF LoopInv
    <3> QED BY <2>2, <3>1 DEF LoopInv, Digging
  <2> QED BY <2>11, <2>12, <2>13
<1>2. CASE AddWalls
  <2>1. /\ pc = "walls" /\ pc' = "spawn" /\ k' = 1
        /\ tiles' = add_walls_around_open_tiles(tiles)
        /\ UNCHANGED <<gx, gy, rooms, grid_slots, edges, label, used, links, spawns>>
    BY <1>2 DEF AddWalls, links_vars
  <2>2. tiles' \in Map
    BY <1>0, <2>1, AddWallsMap
  <2>3. RoomIds' = RoomIds
    BY <2>1 DEF RoomIds
  <2>4. TypeOK'
    BY <2>1, <2>2, <2>3 DEF TypeOK, Map
  <2>5. RoomsInv' /\ LoopInv'
    BY <2>1, <2>3 DEF RoomsInv, LoopInv, Digging
  <2> QED BY <2>4, <2>5
<1>3. CASE SpawnMonster
  <2>1. /\ pc = "spawn" /\ k \in RoomIds /\ k' \in Nat
        /\ UNCHANGED <<pc, gx, gy, tiles, rooms, grid_slots, edges, label, used, links>>
    BY <1>0, <1>3 DEF SpawnMonster, links_vars
  <2>2. spawns' = spawns \/ \E c \in SpawnCells(rooms[k]) : spawns' = Append(spawns, c)
    BY <1>3 DEF SpawnMonster
  <2>3. \A c \in SpawnCells(rooms[k]) : c \in Cells
    BY <2>1, SpawnInside, InteriorInside DEF RoomsInv
  <2>4. spawns' \in Seq(Cells)
    <3>1. spawns \in Seq(Cells)
      BY DEF TypeOK
    <3> QED BY <2>2, <2>3, <3>1
  <2>5. RoomIds' = RoomIds
    BY <2>1 DEF RoomIds
  <2>6. TypeOK'
    BY <2>1, <2>4, <2>5 DEF TypeOK
  <2>7. RoomsInv' /\ LoopInv'
    BY <2>1, <2>5 DEF RoomsInv, LoopInv, Digging
  <2> QED BY <2>6, <2>7
<1> QED BY <1>1, <1>2, <1>3

LEMMA GenStep == GenInv /\ [Next]_gen_vars => GenInv'
BY GenLoopSteps, GenRoomSteps, GenLinkSteps, GenMapSteps DEF Next

LEMMA GenInvariant == Spec => []GenInv
BY GenInit, GenStep, PTL DEF Spec

-----------------------------------------------------------------------------

\* Every variable keeps its type in every state of the generator: no random
\* range is ever empty (rand_range_i32 would divide by zero), no edge, bridge
\* or link names a room that is not there, and no monster is set off the map.
THEOREM GenTypeCorrect == Spec => []TypeOK
<1>1. GenInv => TypeOK
  BY DEF GenInv
<1> QED BY <1>1, GenInvariant, PTL

\* Rooms keep to the regions of their slots and leave a cell between their
\* walls (generate_nethackish_rooms).
THEOREM GenRoomsApart == Spec => []RoomsApart
<1>1. GenInv => RoomsApart
  BY GapKeepsApart DEF GenInv, RoomsInv, RoomsApart, InRegion
<1> QED BY <1>1, GenInvariant, PTL

-----------------------------------------------------------------------------
(* The map, through all the rules that overwrite it.                       *)

FloorsOnly ==
  \A c \in Cells : tiles[c] = ROOM <=> \E i \in RoomIds : c \in Interior(rooms[i])

\* Walls come last, so that no link ever meets one.
MapInv ==
  /\ pc \notin {"spawn", "done"} => \A c \in Cells : tiles[c] # WALL
  /\ FloorsOnly
  /\ Enclosed
  /\ LinksStayOpen

LEMMA TilesDiffer ==
  /\ ROOM \notin {ROCK, WALL, DOOR, CORRIDOR}
  /\ WALL \notin {ROCK, DOOR, CORRIDOR} \cup Walkable
  /\ ROCK \notin Walkable
  /\ ROOM \in Walkable
BY DEF ROCK, WALL, ROOM, CORRIDOR, DOOR, Walkable

LEMMA DiggableOnMap == Diggable \subseteq Cells
BY SizeAssumption DEF Diggable, Cells

LEMMA MapInit == Init => MapInv
<1> SUFFICES ASSUME Init PROVE MapInv
  OBVIOUS
<1>1. /\ \A c \in Cells : tiles[c] = ROCK
      /\ pc = "rooms" /\ RoomIds = {} /\ DOMAIN links = {}
  BY DEF Init, RoomIds
<1>2. FloorsOnly
  BY <1>1, TilesDiffer DEF FloorsOnly
<1>3. Enclosed
  BY <1>1 DEF Enclosed
<1>4. LinksStayOpen
  BY <1>1 DEF LinksStayOpen
<1> QED BY <1>1, <1>2, <1>3, <1>4, TilesDiffer DEF MapInv

\* Steps that dig nothing.
LEMMA MapIdle ==
  ASSUME MapInv, UNCHANGED <<tiles, rooms, links>>,
         pc' \in {"spawn", "done"} <=> pc \in {"spawn", "done"}
  PROVE  MapInv'
<1>1. RoomIds' = RoomIds /\ \A l : Way(l)' = Way(l)
  BY DEF RoomIds, Way
<1>2. FloorsOnly'
  BY <1>1 DEF MapInv, FloorsOnly
<1>3. Enclosed'
  BY DEF MapInv, Enclosed
<1>4. LinksStayOpen'
  BY <1>1 DEF MapInv, LinksStayOpen
<1> QED BY <1>2, <1>3, <1>4 DEF MapInv

\* A new room, dug before there are links.
LEMMA MapNewRoom ==
  ASSUME GenInv, MapInv, NEW r, Fits(r),
         pc = "rooms", pc' \in {"rooms", "walls"},
         tiles' = carve_room(tiles, r), rooms' = Append(rooms, r),
         links' = links
  PROVE  MapInv'
<1>1. rooms \in Seq(RoomType) /\ r \in RoomType
  BY DEF GenInv, TypeOK, RoomType, Fits
<1>2. /\ RoomIds = 1 .. Len(rooms) /\ RoomIds' = 1 .. Len(rooms) + 1
      /\ \A i \in RoomIds : rooms'[i] = rooms[i]
      /\ rooms'[Len(rooms) + 1] = r
      /\ Len(rooms) \in Nat
  BY <1>1 DEF RoomIds
<1>3. \A c \in Cells : tiles'[c] = IF c \in Interior(r) THEN ROOM ELSE tiles[c]
  BY CarveRoomMap DEF GenInv, TypeOK, Map
<1>4. Interior(r) \subseteq Diggable
  BY InteriorInside
<1>5. FloorsOnly'
  <2> SUFFICES ASSUME NEW c \in Cells
               PROVE tiles'[c] = ROOM <=> \E i \in RoomIds' : c \in Interior(rooms'[i])
    BY DEF FloorsOnly
  <2>1. tiles[c] = ROOM <=> \E i \in RoomIds : c \in Interior(rooms[i])
    BY DEF MapInv, FloorsOnly
  <2>2. (\E i \in RoomIds' : c \in Interior(rooms'[i]))
          <=> (\E i \in RoomIds : c \in Interior(rooms[i])) \/ c \in Interior(r)
    <3>1. RoomIds' = RoomIds \cup {Len(rooms) + 1}
      BY <1>2
    <3> QED BY <1>2, <3>1
  <2> QED BY <1>3, <2>1, <2>2
<1>6. Enclosed'
  BY <1>3, <1>4 DEF MapInv, Enclosed
<1>7. LinksStayOpen'
  BY DEF GenInv, LoopInv, Digging, LinksStayOpen
<1>8. \A c \in Cells : tiles'[c] # WALL
  BY <1>3, TilesDiffer DEF MapInv
<1> QED BY <1>5, <1>6, <1>7, <1>8 DEF MapInv

LEMMA MapCarve ==
  ASSUME GenInv, MapInv, CarveLink
  PROVE  MapInv'
<1> DEFINE a == rooms[used[k][1]]
           b == rooms[used[k][2]]
           Link == [a : Door, b : Door, h : BOOLEAN]
<1>1. PICK a_door \in random_door_towards(a, b),
           b_door \in random_door_towards(b, a),
           h_first \in {d % 2 = 0 : d \in Draws} :
        /\ tiles' = carve_room_link(tiles, a_door, b_door, h_first)
        /\ links' = Append(links, [a |-> a_door, b |-> b_door, h |-> h_first])
  BY DEF CarveLink
<1> DEFINE l == [a |-> a_door, b |-> b_door, h |-> h_first]
<1>2. pc = "carve" /\ pc' = pc /\ rooms' = rooms /\ k \in DOMAIN used
  BY DEF CarveLink
<1>3. used[k][1] \in RoomIds /\ used[k][2] \in RoomIds
  BY <1>2 DEF GenInv, TypeOK
<1>4. Fits(a) /\ Fits(b)
  BY <1>3 DEF GenInv, RoomsInv
<1> HIDE DEF a, b
<1>5. l \in Link
  BY <1>4, DoorType
<1>6. links \in Seq(Link)
  BY DEF GenInv, TypeOK
<1> HIDE DEF Link
<1>7. /\ DOMAIN links' = 1 .. Len(links) + 1 /\ DOMAIN links = 1 .. Len(links)
      /\ \A i \in DOMAIN links : links'[i] = links[i]
      /\ links'[Len(links) + 1] = l
      /\ Len(links) \in Nat
  BY <1>1, <1>5, <1>6
<1>8. /\ tiles \in Map
      /\ \A c \in Cells : tiles[c] # WALL
  BY <1>2 DEF GenInv, TypeOK, Map, MapInv
<1>9. /\ \A c \in Cells : tiles[c] \in Walkable => tiles'[c] = tiles[c]
      /\ \A c \in Cells : tiles'[c] # tiles[c] => c \in Diggable
      /\ \A c \in Cells : tiles'[c] # tiles[c] => tiles'[c] \in {DOOR, CORRIDOR}
      /\ \A c \in Diggable \cap Cells :
           c \in {a_door.wall, b_door.wall} \cup LinkPath(a_door, b_door, h_first)
             /\ tiles[c] # WALL => tiles'[c] \in Walkable
  BY <1>1, <1>8, CarveLinkMap
<1>10. FloorsOnly'
  <2>1. \A c \in Cells : tiles'[c] = ROOM <=> tiles[c] = ROOM
    BY <1>9, TilesDiffer
  <2>2. RoomIds' = RoomIds
    BY <1>2 DEF RoomIds
  <2> QED BY <1>2, <2>1, <2>2 DEF MapInv, FloorsOnly
<1>11. Enclosed'
  BY <1>2, <1>9 DEF MapInv, Enclosed
<1>12. LinksStayOpen'
  <2> SUFFICES ASSUME NEW i \in DOMAIN links', NEW c \in Way(links'[i]) \cap Diggable
               PROVE  tiles'[c] \in Walkable
    BY DEF LinksStayOpen, Way
  <2>1. c \in Cells
    BY DiggableOnMap
  <2>2. CASE i \in DOMAIN links
    <3>1. tiles[c] \in Walkable
      BY <1>7, <2>2 DEF MapInv, LinksStayOpen
    <3> QED BY <1>9, <2>1, <3>1
  <2>3. CASE i \notin DOMAIN links
    <3>1. links'[i] = l
      BY <1>7, <2>3
    <3>2. c \in {a_door.wall, b_door.wall} \cup LinkPath(a_door, b_door, h_first)
      BY <3>1 DEF Way
    <3> QED BY <1>8, <1>9, <2>1, <3>2
  <2> QED BY <2>2, <2>3
<1>13. \A c \in Cells : tiles'[c] # WALL
  BY <1>8, <1>9, TilesDiffer
<1> QED BY <1>10, <1>11, <1>12, <1>13 DEF MapInv

LEMMA MapAddWalls ==
  ASSUME GenInv, MapInv, AddWalls
  PROVE  MapInv'
<1>1. /\ pc' = "spawn" /\ UNCHANGED <<rooms, links>>
      /\ tiles' = add_walls_around_open_tiles(tiles)
  BY DEF AddWalls, links_vars
<1>2. /\ \A c \in Cells : tiles'[c] # tiles[c] => tiles[c] = ROCK /\ tiles'[c] = WALL
      /\ \A c \in Diggable \cap Cells : tiles[c] = ROOM =>
           \A n \in Cells : c \in Around(n) => tiles'[n] # ROCK
  BY <1>1, AddWallsMap DEF GenInv, TypeOK, Map
<1>3. \A c \in Cells : tiles'[c] = ROOM <=> tiles[c] = ROOM
  BY <1>2, TilesDiffer
<1>4. FloorsOnly'
  BY <1>1, <1>3 DEF MapInv, FloorsOnly, RoomIds
<1>5. Enclosed'
  <2>1. \A c \in Cells \ Diggable : tiles'[c] \in {ROCK, WALL}
    BY <1>2 DEF MapInv, Enclosed
  <2>2. ASSUME NEW c \in Cells, tiles'[c] = ROOM, NEW n \in Around(c) \cap Cells
        PROVE  tiles'[n] # ROCK
    <3>1. c \in Diggable /\ tiles[c] = ROOM
      BY <1>3, <2>1, <2>2, TilesDiffer
    <3>2. c \in Around(n)
      <4>1. c[1] \in Int /\ c[2] \in Int /\ c = <<c[1], c[2]>>
        BY DEF Cells
      <4>2. n[1] \in Int /\ n[2] \in Int
        BY DEF Cells
      <4> QED BY <4>1, <4>2 DEF Around
    <3> QED BY <1>2, <3>1, <3>2
  <2> QED BY <2>1, <2>2 DEF Enclosed
<1>6. LinksStayOpen'
  <2>1. \A c \in Diggable : tiles[c] \in Walkable => tiles'[c] \in Walkable
    BY <1>2, DiggableOnMap, TilesDiffer
  <2> QED BY <1>1, <2>1 DEF MapInv, LinksStayOpen, Way
<1> QED BY <1>1, <1>4, <1>5, <1>6 DEF MapInv

LEMMA MapStep == GenInv /\ MapInv /\ [Next]_gen_vars => MapInv'
<1> SUFFICES ASSUME GenInv, MapInv, [Next]_gen_vars PROVE MapInv'
  OBVIOUS
<1>1. CASE PlaceRoom
  <2>1. pc = "rooms" /\ slot \in Slots /\ pc' = pc /\ links' = links
    BY <1>1 DEF PlaceRoom, AtSlot, links_vars
  <2>2. PICK r \in RoomsIn(Region(slot)) :
          \/ UNCHANGED <<tiles, rooms>>
          \/ tiles' = carve_room(tiles, r) /\ rooms' = Append(rooms, r)
    BY <1>1 DEF PlaceRoom
  <2>3. Fits(r)
    BY <2>1, <2>2, RoomsInFit
  <2> QED BY <2>1, <2>2, <2>3, MapIdle, MapNewRoom
<1>2. CASE FallbackRoom
  <2>1. /\ pc = "rooms" /\ pc' = "walls" /\ links' = links
        /\ rooms = <<>> /\ rooms' = <<Fallback>>
        /\ tiles' = carve_room(tiles, Fallback)
    BY <1>2 DEF FallbackRoom, links_vars
  <2>2. rooms' = Append(rooms, Fallback)
    BY <2>1
  <2> QED BY <2>1, <2>2, FallbackFits, MapNewRoom
<1>3. CASE CarveLink
  BY <1>3, MapCarve
<1>4. CASE AddWalls
  BY <1>4, MapAddWalls
<1>5. CASE \/ SkipSlot \/ StartEdges \/ CollectEdges \/ ShuffleEdge \/ StartSpan
           \/ SpanEdge \/ Bridge \/ ExtraEdge \/ SpawnMonster \/ LoopEnds
           \/ UNCHANGED gen_vars
  <2>1. UNCHANGED <<tiles, rooms, links>>
    BY <1>5 DEF SkipSlot, StartEdges, CollectEdges, ShuffleEdge, StartSpan,
         SpanEdge, Bridge, ExtraEdge, SpawnMonster, LoopEnds, Enter, gen_vars,
         links_vars
  <2>2. pc' \in {"spawn", "done"} <=> pc \in {"spawn", "done"}
    BY <1>5 DEF SkipSlot, StartEdges, CollectEdges, ShuffleEdge, StartSpan,
         SpanEdge, Bridge, ExtraEdge, SpawnMonster, LoopEnds, Enter, gen_vars,
         AtSlot
  <2> QED BY <2>1, <2>2, MapIdle
<1> QED BY <1>1, <1>2, <1>3, <1>4, <1>5 DEF Next

LEMMA MapInvariant == Spec => []MapInv
BY GenInvariant, MapInit, MapStep, PTL DEF Spec

\* The floor of every room lies inside the border and stays floor, and there
\* is no other floor, through every link and wall (carve_room,
\* set_corridor_floor, set_door_tile, add_walls_around_open_tiles).
THEOREM GenRoomsWhole == Spec => []RoomsWhole
<1>1. GenInv /\ MapInv => RoomsWhole
  BY InteriorInside DEF GenInv, RoomsInv, MapInv, FloorsOnly, RoomsWhole
<1> QED BY <1>1, GenInvariant, MapInvariant, PTL

\* No later link and no wall closes the way a link has dug (carve_room_link).
THEOREM GenLinksStayOpen == Spec => []LinksStayOpen
<1>1. MapInv => LinksStayOpen
  BY DEF MapInv
<1> QED BY <1>1, MapInvariant, PTL

\* The border of the map is never open and, once the walls are up, no floor
\* lies beside bare rock (add_walls_around_open_tiles).
THEOREM GenEnclosed == Spec => []Enclosed
<1>1. MapInv => Enclosed
  BY DEF MapInv
<1> QED BY <1>1, MapInvariant, PTL

-----------------------------------------------------------------------------
(* The contract with the game.                                             *)

\* Every monster has a cell of its own, in one of the rooms visited so far.
SpawnInv ==
  /\ \A i \in DOMAIN spawns :
       \E j \in RoomIds : j < k /\ spawns[i] \in Interior(rooms[j])
  /\ \A i, j \in DOMAIN spawns : spawns[i] = spawns[j] => i = j
  /\ pc # "rooms" => rooms # <<>>

LEMMA SpawnInit == Init => SpawnInv
BY DEF Init, SpawnInv

LEMMA SpawnStep == GenInv /\ SpawnInv /\ [Next]_gen_vars => SpawnInv'
<1> SUFFICES ASSUME GenInv, SpawnInv, [Next]_gen_vars PROVE SpawnInv'
  OBVIOUS
<1>1. CASE SpawnMonster
  <2>1. /\ pc = "spawn" /\ pc' = pc /\ k \in RoomIds /\ k' = k + 1
        /\ rooms' = rooms /\ RoomIds' = RoomIds /\ k \in Nat
    BY <1>1 DEF SpawnMonster, RoomIds, GenInv, TypeOK
  <2>2. CASE spawns' = spawns
    <3>1. \A j \in RoomIds : j < k => j < k'
      BY <2>1 DEF RoomIds, GenInv, TypeOK
    <3> QED BY <2>1, <2>2, <3>1 DEF SpawnInv
  <2>3. ASSUME NEW c \in SpawnCells(rooms[k]), spawns' = Append(spawns, c)
        PROVE  SpawnInv'
    <3>1. c \in Interior(rooms[k]) /\ c \in Cells
      BY <2>1, SpawnInside, InteriorInside DEF GenInv, RoomsInv
    <3>2. spawns \in Seq(Cells)
      BY DEF GenInv, TypeOK
    <3>3. /\ DOMAIN spawns = 1 .. Len(spawns) /\ DOMAIN spawns' = 1 .. Len(spawns) + 1
          /\ \A i \in DOMAIN spawns : spawns'[i] = spawns[i]
          /\ spawns'[Len(spawns) + 1] = c
          /\ Len(spawns) \in Nat
      BY <2>3, <3>1, <3>2
    <3>4. ASSUME NEW i \in DOMAIN spawns PROVE spawns[i] # c
      <4>1. PICK j \in RoomIds : j < k /\ spawns[i] \in Interior(rooms[j])
        BY DEF SpawnInv
      <4>2. j # k
        BY <2>1, <4>1 DEF RoomIds, GenInv, TypeOK
      <4>3. Interior(rooms[j]) \cap Interior(rooms[k]) = {}
        BY <2>1, <4>1, <4>2, GapKeepsApart DEF GenInv, RoomsInv
      <4> QED BY <3>1, <4>1, <4>3
    <3>5. ASSUME NEW i \in DOMAIN spawns'
          PROVE  \E j \in RoomIds' : j < k' /\ spawns'[i] \in Interior(rooms'[j])
      <4>1. CASE i \in DOMAIN spawns
        <5>1. PICK j \in RoomIds : j < k /\ spawns[i] \in Interior(rooms[j])
          BY <4>1 DEF SpawnInv
        <5>2. j < k'
          BY <2>1, <5>1 DEF RoomIds, GenInv, TypeOK
        <5> QED BY <2>1, <3>3, <4>1, <5>1, <5>2
      <4>2. CASE i \notin DOMAIN spawns
        <5>1. spawns'[i] = c
          BY <3>3, <4>2
        <5> QED BY <2>1, <3>1, <5>1
      <4> QED BY <4>1, <4>2
    <3>6. ASSUME NEW i \in DOMAIN spawns', NEW j \in DOMAIN spawns',
                 spawns'[i] = spawns'[j]
          PROVE  i = j
      BY <3>3, <3>4, <3>6 DEF SpawnInv
    <3> QED BY <2>1, <3>5, <3>6 DEF SpawnInv
  <2> QED BY <1>1, <2>2, <2>3 DEF SpawnMonster
<1>2. CASE spawns = <<>> /\ spawns' = spawns /\ (pc' # "rooms" => rooms' # <<>>)
  BY <1>2 DEF SpawnInv
<1>3. CASE \/ SkipSlot \/ PlaceRoom \/ FallbackRoom \/ StartEdges \/ CollectEdges
           \/ ShuffleEdge \/ StartSpan \/ SpanEdge \/ Bridge \/ ExtraEdge
           \/ CarveLink \/ AddWalls
  <2>1. spawns = <<>> /\ spawns' = spawns
    BY <1>3 DEF SkipSlot, PlaceRoom, FallbackRoom, StartEdges, CollectEdges,
         ShuffleEdge, StartSpan, SpanEdge, Bridge, ExtraEdge, CarveLink, AddWalls,
         AtSlot, links_vars, GenInv, LoopInv
  <2>2. pc' # "rooms" => rooms' # <<>>
    <3>1. CASE SkipSlot \/ PlaceRoom
      BY <3>1 DEF SkipSlot, PlaceRoom, AtSlot
    <3>2. CASE FallbackRoom
      BY <3>2 DEF FallbackRoom
    <3>3. CASE StartEdges
      BY <3>3 DEF StartEdges
    <3>4. CASE \/ CollectEdges \/ ShuffleEdge \/ StartSpan \/ SpanEdge \/ Bridge
               \/ ExtraEdge \/ CarveLink \/ AddWalls
      <4>1. pc # "rooms" /\ rooms' = rooms
        BY <3>4 DEF CollectEdges, ShuffleEdge, StartSpan, SpanEdge, Bridge,
             ExtraEdge, CarveLink, AddWalls, AtSlot
      <4> QED BY <4>1 DEF SpawnInv
    <3> QED BY <1>3, <3>1, <3>2, <3>3, <3>4
  <2> QED BY <1>2, <2>1, <2>2
<1>4. CASE LoopEnds
  <2>1. CASE pc = "spawn"
    BY <1>4, <2>1 DEF LoopEnds, Enter, SpawnInv, RoomIds
  <2>2. CASE pc # "spawn"
    <3>1. spawns = <<>> /\ spawns' = spawns /\ rooms' = rooms /\ pc # "rooms"
      BY <1>4, <2>2 DEF LoopEnds, Enter, GenInv, LoopInv
    <3> QED BY <1>2, <3>1 DEF SpawnInv
  <2> QED BY <2>1, <2>2
<1>5. CASE UNCHANGED gen_vars
  BY <1>5 DEF gen_vars, SpawnInv, RoomIds
<1> QED BY <1>1, <1>3, <1>4, <1>5 DEF Next

LEMMA SpawnInvariant == Spec => []SpawnInv
BY GenInvariant, SpawnInit, SpawnStep, PTL DEF Spec

\* The finished map is one the game may start on: this is what the game's
\* DungeonAssumption asks of the maps it is given (new_with_seed,
\* spawn_monsters).
THEOREM GenPlayable == Spec => []Playable
<1>1. ASSUME GenInv, MapInv, SpawnInv, pc = "done"
      PROVE  IsDungeon(dungeon)
  <2>1. 1 \in RoomIds /\ Fits(rooms[1])
    BY <1>1 DEF SpawnInv, RoomIds, GenInv, TypeOK, RoomsInv
  <2>2. \A i \in RoomIds : \A c \in Interior(rooms[i]) : c \in Cells /\ tiles[c] = ROOM
    BY <1>1, InteriorInside DEF GenInv, RoomsInv, MapInv, FloorsOnly
  <2>3. is_walkable(tiles, center(rooms[1]))
    BY <2>1, <2>2, CenterInside, TilesDiffer DEF is_walkable
  <2>4. \A i \in DOMAIN spawns : tiles[spawns[i]] = ROOM
    BY <1>1, <2>2 DEF SpawnInv
  <2>5. tiles \in [Cells -> Tile] /\ spawns \in Seq(Cells)
    BY <1>1 DEF GenInv, TypeOK
  <2>6. \A i, j \in DOMAIN spawns : spawns[i] = spawns[j] => i = j
    BY <1>1 DEF SpawnInv
  <2> QED BY <2>3, <2>4, <2>5, <2>6 DEF IsDungeon, dungeon
<1>2. GenInv /\ MapInv /\ SpawnInv => Playable
  BY <1>1 DEF Playable
<1> QED BY <1>2, GenInvariant, MapInvariant, SpawnInvariant, PTL
-----------------------------------------------------------------------------
(* The links: the tree, its growth and the extra links.                    *)

\* No chosen link leaves S.
NoWayOut(S) == \A i \in DOMAIN used : used[i][1] \in S <=> used[i][2] \in S

\* Two linked rooms are in one class.
Joined ==
  pc \in {"span", "bridge"} =>
    \A i \in DOMAIN used : label[used[i][1]] = label[used[i][2]]

\* Two rooms of one class are linked: no set without a way out parts them.
ClassesLinked ==
  pc \in {"span", "bridge"} =>
    \A S \in SUBSET RoomIds : NoWayOut(S) =>
      \A r, t \in RoomIds : label[r] = label[t] => (r \in S <=> t \in S)

AllLinked ==
  pc \in {"extra", "carve"} =>
    \A S \in SUBSET RoomIds : NoWayOut(S) => S = {} \/ S = RoomIds

LinkInv == Joined /\ ClassesLinked /\ AllLinked /\ Forest /\ LinkedOnce

LEMMA RoomsCounted ==
  ASSUME TypeOK
  PROVE  /\ Len(rooms) \in Nat /\ RoomIds = 1 .. Len(rooms)
         /\ IsFiniteSet(RoomIds) /\ Cardinality(RoomIds) = Len(rooms)
<1>1. rooms \in Seq(RoomType)
  BY DEF TypeOK, RoomType
<1>2. Len(rooms) \in Nat /\ RoomIds = 1 .. Len(rooms)
  BY <1>1 DEF RoomIds
<1>3. /\ IsFiniteSet(1 .. Len(rooms))
      /\ Cardinality(1 .. Len(rooms)) = IF 1 > Len(rooms) THEN 0 ELSE Len(rooms) - 1 + 1
  BY <1>2, FS_Interval
<1>4. Cardinality(1 .. Len(rooms)) = Len(rooms)
  BY <1>2, <1>3
<1> QED BY <1>2, <1>3, <1>4

LEMMA LinkInit == Init => LinkInv
BY DEF Init, LinkInv, Joined, ClassesLinked, AllLinked, Forest, LinkedOnce

\* Steps that choose no link and start no loop that has to do with links.
LEMMA LinkIdle ==
  ASSUME LinkInv, used' = used,
         \/ /\ pc' \in {"span", "bridge"} /\ pc \in {"span", "bridge"}
            /\ UNCHANGED <<rooms, label>>
         \/ pc' \in {"extra", "carve"} /\ pc \in {"extra", "carve"} /\ UNCHANGED rooms
         \/ pc' \notin {"span", "bridge", "extra", "carve"}
  PROVE  LinkInv'
<1>1. LinkedOnce'
  BY DEF LinkInv, LinkedOnce
<1>2. CASE /\ pc' \in {"span", "bridge"} /\ pc \in {"span", "bridge"}
           /\ UNCHANGED <<rooms, label>>
  BY <1>1, <1>2
     DEF LinkInv, Joined, ClassesLinked, AllLinked, Forest, NoWayOut, RoomIds
<1>3. CASE pc' \in {"extra", "carve"} /\ pc \in {"extra", "carve"} /\ UNCHANGED rooms
  BY <1>1, <1>3
     DEF LinkInv, Joined, ClassesLinked, AllLinked, Forest, NoWayOut, RoomIds
<1>4. CASE pc' \notin {"span", "bridge", "extra", "carve"}
  BY <1>1, <1>4 DEF LinkInv, Joined, ClassesLinked, AllLinked, Forest
<1> QED BY <1>2, <1>3, <1>4

\* A pair that is not there yet makes no link twice.
LEMMA NewPairOnce ==
  ASSUME used \in Seq(RoomIds \X RoomIds), LinkedOnce, NEW p \in RoomIds \X RoomIds,
         \A i \in DOMAIN used : {used[i][1], used[i][2]} # {p[1], p[2]},
         used' = Append(used, p)
  PROVE  LinkedOnce'
<1> DEFINE P == RoomIds \X RoomIds
<1>1. used \in Seq(P) /\ p \in P
  OBVIOUS
<1> HIDE DEF P
<1>2. /\ Len(used) \in Nat /\ DOMAIN used = 1 .. Len(used)
      /\ DOMAIN used' = 1 .. Len(used) + 1
      /\ \A i \in DOMAIN used : used'[i] = used[i]
      /\ used'[Len(used) + 1] = p
  BY <1>1
<1>3. \A i \in DOMAIN used' : i \in DOMAIN used \/ i = Len(used) + 1
  BY <1>2
<1> SUFFICES ASSUME NEW i \in DOMAIN used', NEW j \in DOMAIN used', i # j
             PROVE  {used'[i][1], used'[i][2]} # {used'[j][1], used'[j][2]}
  BY DEF LinkedOnce
<1>4. CASE i \in DOMAIN used /\ j \in DOMAIN used
  BY <1>2, <1>4 DEF LinkedOnce
<1>5. CASE i \in DOMAIN used /\ j = Len(used) + 1
  BY <1>2, <1>5
<1>6. CASE j \in DOMAIN used /\ i = Len(used) + 1
  BY <1>2, <1>6
<1> QED BY <1>3, <1>4, <1>5, <1>6

\* A link between two classes, as an edge or a bridge.
LEMMA LinkJoins ==
  ASSUME GenInv, LinkInv, NEW p \in RoomIds \X RoomIds, label[p[1]] # label[p[2]],
         label' = Relabel(label, p[1], p[2]), used' = Append(used, p),
         pc \in {"span", "bridge"}, UNCHANGED <<pc, rooms>>
  PROVE  LinkInv'
<1> DEFINE a == p[1]
           b == p[2]
           P == RoomIds \X RoomIds
<1>1. /\ DOMAIN label = RoomIds /\ RoomIds' = RoomIds
      /\ used \in Seq(P) /\ p \in P /\ a \in RoomIds /\ b \in RoomIds
      /\ \A r \in RoomIds : label[r] \in RoomIds
  BY DEF GenInv, LoopInv, TypeOK, RoomIds
<1>2. \A r \in RoomIds :
        label'[r] = IF label[r] = label[b] THEN label[a] ELSE label[r]
  BY <1>1 DEF Relabel
<1>3. \A i \in DOMAIN used : used[i] \in P /\ used[i][1] \in RoomIds /\ used[i][2] \in RoomIds
  BY <1>1
<1>4. /\ Len(used) \in Nat /\ DOMAIN used = 1 .. Len(used)
      /\ DOMAIN used' = 1 .. Len(used) + 1 /\ Len(used') = Len(used) + 1
      /\ \A i \in DOMAIN used : used'[i] = used[i]
      /\ used'[Len(used) + 1] = p
      /\ \A i \in DOMAIN used' : i \in DOMAIN used \/ i = Len(used) + 1
  <2> HIDE DEF P
  <2>1. /\ Len(used) \in Nat /\ DOMAIN used = 1 .. Len(used)
        /\ DOMAIN used' = 1 .. Len(used) + 1 /\ Len(used') = Len(used) + 1
        /\ \A i \in DOMAIN used : used'[i] = used[i]
        /\ used'[Len(used) + 1] = p
    BY <1>1
  <2> QED BY <2>1
<1> HIDE DEF P
<1>5. Joined'
  <2>1. ASSUME NEW i \in DOMAIN used' PROVE label'[used'[i][1]] = label'[used'[i][2]]
    <3>1. CASE i \in DOMAIN used
      <4>1. label[used[i][1]] = label[used[i][2]]
        BY <3>1 DEF LinkInv, Joined
      <4> QED BY <1>2, <1>3, <1>4, <3>1, <4>1
    <3>2. CASE i = Len(used) + 1
      BY <1>1, <1>2, <1>4, <3>2
    <3> QED BY <1>4, <3>1, <3>2
  <2> QED BY <2>1 DEF Joined
<1>6. ClassesLinked'
  <2>1. ASSUME NEW S \in SUBSET RoomIds, NoWayOut(S)', NEW r \in RoomIds, NEW t \in RoomIds,
               label'[r] = label'[t]
        PROVE  r \in S <=> t \in S
    <3>1. NoWayOut(S)
      BY <1>4, <2>1 DEF NoWayOut
    <3>2. \A x, y \in RoomIds : label[x] = label[y] => (x \in S <=> y \in S)
      BY <3>1 DEF LinkInv, ClassesLinked
    <3>3. a \in S <=> b \in S
      BY <1>4, <2>1 DEF NoWayOut
    <3>4. CASE label[r] = label[t]
      BY <3>2, <3>4
    <3>5. CASE label[r] = label[b] /\ label[t] = label[a]
      BY <1>1, <3>2, <3>3, <3>5
    <3>6. CASE label[r] = label[a] /\ label[t] = label[b]
      BY <1>1, <3>2, <3>3, <3>6
    <3> QED BY <1>2, <2>1, <3>4, <3>5, <3>6
  <2> QED BY <1>1, <2>1 DEF ClassesLinked
<1>7. AllLinked'
  BY DEF AllLinked
<1>8. Forest'
  <2> DEFINE C == {label[r] : r \in RoomIds}
             D == {label'[r] : r \in RoomIds}
  <2>1. D = C \ {label[b]}
    <3>1. \A x \in D : x \in C /\ x # label[b]
      BY <1>1, <1>2
    <3>2. \A x \in C : x # label[b] => x \in D
      BY <1>1, <1>2
    <3> QED BY <3>1, <3>2
  <2>2. label[b] \in C
    BY <1>1
  <2>3. IsFiniteSet(C)
    <3>1. C \subseteq RoomIds
      BY <1>1
    <3> QED BY <3>1, RoomsCounted, FS_Subset DEF GenInv
  <2> DEFINE x == label[b]
  <2> HIDE DEF C, D
  <2>4. Cardinality(D) = Cardinality(C) - 1 /\ Cardinality(C) \in Nat
    <3>1. D = C \ {x} /\ x \in C
      BY <2>1, <2>2
    <3> HIDE DEF x
    <3>2. Cardinality(C \ {x}) = IF x \in C THEN Cardinality(C) - 1 ELSE Cardinality(C)
      BY <2>3, FS_RemoveElement
    <3>3. Cardinality(C) \in Nat
      BY <2>3, FS_CardinalityType
    <3> QED BY <3>1, <3>2, <3>3
  <2>5. Len(used) + Cardinality(C) = Len(rooms)
    BY DEF LinkInv, Forest, C
  <2>6. Len(used') + Cardinality(D) = Len(rooms')
    BY <1>4, <2>4, <2>5
  <2> QED BY <1>1, <2>6 DEF Forest, D
<1>9. LinkedOnce'
  <2>1. ASSUME NEW i \in DOMAIN used PROVE {used[i][1], used[i][2]} # {a, b}
    <3>1. label[used[i][1]] = label[used[i][2]]
      BY DEF LinkInv, Joined
    <3> QED BY <3>1
  <2> QED BY <1>1, <2>1, NewPairOnce DEF LinkInv, P
<1> QED BY <1>5, <1>6, <1>7, <1>8, <1>9 DEF LinkInv

\* Every room a class of its own.
LEMMA LinkStart ==
  ASSUME GenInv, LinkInv, StartSpan
  PROVE  LinkInv'
<1>1. /\ pc = "shuffle" /\ pc' = "span" /\ label' = [r \in RoomIds |-> r]
      /\ used = <<>> /\ used' = <<>> /\ RoomIds' = RoomIds /\ rooms' = rooms
  BY DEF StartSpan, GenInv, LoopInv, RoomIds
<1>2. Joined' /\ AllLinked' /\ LinkedOnce'
  BY <1>1 DEF Joined, AllLinked, LinkedOnce
<1>3. ClassesLinked'
  BY <1>1 DEF ClassesLinked
<1>4. Forest'
  <2>1. {label'[r] : r \in RoomIds} = RoomIds
    BY <1>1
  <2>2. Cardinality(RoomIds) = Len(rooms) /\ Len(rooms) \in Nat /\ Len(used') = 0
    BY <1>1, RoomsCounted DEF GenInv
  <2> DEFINE D == {label'[r] : r \in RoomIds'}
  <2>3. D = RoomIds
    BY <1>1, <2>1
  <2> HIDE DEF D
  <2>4. Len(used') + Cardinality(D) = Len(rooms')
    BY <1>1, <2>2, <2>3
  <2> QED BY <2>4 DEF Forest, D
<1> QED BY <1>2, <1>3, <1>4 DEF LinkInv

\* When the scan finds no two components left there is one.
LEMMA LinkBridged ==
  ASSUME GenInv, LinkInv, pc = "bridge", all_rooms_connected \/ SplitPairs = {},
         Enter("extra", 1)
  PROVE  LinkInv'
<1>1. /\ pc' = "extra" /\ used' = used /\ rooms' = rooms /\ RoomIds' = RoomIds
  BY DEF Enter, links_vars, RoomIds
<1>2. \A r, t \in RoomIds : label[r] = label[t]
  <2>1. CASE all_rooms_connected
    BY <2>1 DEF all_rooms_connected
  <2>2. CASE SplitPairs = {}
    <3> SUFFICES ASSUME NEW r \in RoomIds, NEW t \in RoomIds, label[r] # label[t]
                 PROVE  FALSE
      OBVIOUS
    <3>1. r \in Int /\ t \in Int /\ r # t
      BY RoomsCounted DEF GenInv
    <3>2. CASE r < t
      <4>1. <<r, t>> \in SplitPairs
        BY <3>2 DEF SplitPairs
      <4> QED BY <2>2, <4>1
    <3>3. CASE t < r
      <4>1. <<t, r>> \in SplitPairs
        BY <3>3 DEF SplitPairs
      <4> QED BY <2>2, <4>1
    <3> QED BY <3>1, <3>2, <3>3
  <2> QED BY <2>1, <2>2
<1>3. AllLinked'
  <2>1. ASSUME NEW S \in SUBSET RoomIds, NoWayOut(S)
        PROVE  S = {} \/ S = RoomIds
    <3>1. \A r, t \in RoomIds : r \in S <=> t \in S
      BY <1>2, <2>1 DEF LinkInv, ClassesLinked
    <3> QED BY <3>1
  <2> QED BY <1>1, <2>1 DEF AllLinked, NoWayOut
<1>4. Joined' /\ ClassesLinked' /\ Forest'
  BY <1>1 DEF Joined, ClassesLinked, Forest
<1>5. LinkedOnce'
  BY <1>1 DEF LinkInv, LinkedOnce
<1> QED BY <1>3, <1>4, <1>5 DEF LinkInv

\* An extra link.
LEMMA LinkExtra ==
  ASSUME GenInv, LinkInv, ExtraEdge
  PROVE  LinkInv'
<1>1. /\ pc = "extra" /\ pc' = pc /\ rooms' = rooms /\ k \in DOMAIN edges
      /\ RoomIds' = RoomIds
  BY DEF ExtraEdge, RoomIds
<1>2. CASE used' = used
  BY <1>1, <1>2, LinkIdle
<1>3. CASE used' # used
  <2> DEFINE p == edges[k]
             P == RoomIds \X RoomIds
  <2>1. ~Linked(p[1], p[2]) /\ used' = Append(used, p)
    BY <1>3 DEF ExtraEdge
  <2>2. used \in Seq(P) /\ p \in P
    BY <1>1 DEF GenInv, TypeOK
  <2>3. \A i \in DOMAIN used : used[i] = <<used[i][1], used[i][2]>>
    BY <2>2
  <2>4. ASSUME NEW i \in DOMAIN used PROVE {used[i][1], used[i][2]} # {p[1], p[2]}
    <3>1. used[i] # <<p[1], p[2]>> /\ used[i] # <<p[2], p[1]>>
      BY <2>1 DEF Linked
    <3> QED BY <2>3, <3>1
  <2>5. LinkedOnce'
    BY <2>1, <2>2, <2>4, NewPairOnce DEF LinkInv
  <2>6. AllLinked'
    <3>1. DOMAIN used \subseteq DOMAIN used' /\ \A i \in DOMAIN used : used'[i] = used[i]
      <4> HIDE DEF p, P
      <4> QED BY <2>1, <2>2
    <3>2. \A S : NoWayOut(S)' => NoWayOut(S)
      BY <3>1 DEF NoWayOut
    <3> QED BY <1>1, <3>2 DEF LinkInv, AllLinked
  <2>7. Joined' /\ ClassesLinked' /\ Forest'
    BY <1>1 DEF Joined, ClassesLinked, Forest
  <2> QED BY <2>5, <2>6, <2>7 DEF LinkInv
<1> QED BY <1>2, <1>3

LEMMA LinkStep == GenInv /\ LinkInv /\ [Next]_gen_vars => LinkInv'
<1> SUFFICES ASSUME GenInv, LinkInv, [Next]_gen_vars PROVE LinkInv'
  OBVIOUS
<1> DEFINE Far == {"span", "bridge", "extra", "carve"}
<1>1. CASE \/ SkipSlot \/ PlaceRoom \/ FallbackRoom \/ StartEdges \/ CollectEdges
           \/ ShuffleEdge \/ AddWalls \/ SpawnMonster
  <2>1. used' = used /\ pc' \notin Far
    BY <1>1 DEF SkipSlot, PlaceRoom, FallbackRoom, StartEdges, CollectEdges,
         ShuffleEdge, AddWalls, SpawnMonster, AtSlot, links_vars
  <2> QED BY <2>1, LinkIdle
<1>2. CASE StartSpan
  BY <1>2, LinkStart
<1>3. CASE SpanEdge
  <2>1. /\ pc = "span" /\ k \in DOMAIN edges
        /\ UNCHANGED <<pc, rooms>>
    BY <1>3 DEF SpanEdge
  <2>2. edges[k] \in RoomIds \X RoomIds
    BY <2>1 DEF GenInv, TypeOK
  <2>3. CASE label[edges[k][1]] # label[edges[k][2]]
    <3>1. /\ label' = Relabel(label, edges[k][1], edges[k][2])
          /\ used' = Append(used, edges[k])
      BY <1>3, <2>2, <2>3 DEF SpanEdge, link_if_split
    <3> QED BY <2>1, <2>2, <2>3, <3>1, LinkJoins
  <2>4. CASE label[edges[k][1]] = label[edges[k][2]]
    <3>1. UNCHANGED <<label, used>>
      BY <1>3, <2>4 DEF SpanEdge, link_if_split
    <3> QED BY <2>1, <3>1, LinkIdle
  <2> QED BY <2>3, <2>4
<1>4. CASE Bridge
  <2>1. /\ pc = "bridge" /\ SplitPairs # {} /\ UNCHANGED <<pc, rooms>>
        /\ link_if_split(BestPair[1], BestPair[2])
    BY <1>4 DEF Bridge
  <2>2. rooms \in Seq(RoomType)
    BY DEF GenInv, TypeOK, RoomType
  <2>3. BestPair \in SplitPairs
    BY <2>1, <2>2, BestPairSplits
  <2>4. BestPair \in RoomIds \X RoomIds /\ label[BestPair[1]] # label[BestPair[2]]
    BY <2>3 DEF SplitPairs
  <2>5. /\ label' = Relabel(label, BestPair[1], BestPair[2])
        /\ used' = Append(used, BestPair)
    BY <2>1, <2>4 DEF link_if_split
  <2> QED BY <2>1, <2>4, <2>5, LinkJoins
<1>5. CASE ExtraEdge
  BY <1>5, LinkExtra
<1>6. CASE CarveLink
  <2>1. pc = "carve" /\ pc' = pc /\ UNCHANGED <<used, rooms>>
    BY <1>6 DEF CarveLink
  <2> QED BY <2>1, LinkIdle
<1>7. CASE LoopEnds
  <2>1. CASE pc = "bridge" /\ (all_rooms_connected \/ SplitPairs = {}) /\ Enter("extra", 1)
    BY <2>1, LinkBridged
  <2>2. CASE \/ pc = "collect" /\ Enter("shuffle", Len(edges))
             \/ pc = "span" /\ Enter("bridge", k)
             \/ pc = "extra" /\ Enter("carve", 1)
             \/ pc = "carve" /\ Enter("walls", k)
             \/ pc = "spawn" /\ Enter("done", k)
    <3>1. /\ used' = used /\ UNCHANGED <<rooms, label>>
          /\ \/ pc' \in {"shuffle", "walls", "done"}
             \/ pc = "span" /\ pc' = "bridge"
             \/ pc = "extra" /\ pc' = "carve"
      BY <2>2 DEF Enter, links_vars
    <3> QED BY <3>1, LinkIdle
  <2> QED BY <1>7, <2>1, <2>2 DEF LoopEnds
<1>8. CASE UNCHANGED gen_vars
  <2>1. UNCHANGED <<pc, used, rooms, label>>
    BY <1>8 DEF gen_vars, links_vars
  <2> QED BY <2>1, LinkIdle
<1> QED BY <1>1, <1>2, <1>3, <1>4, <1>5, <1>6, <1>7, <1>8 DEF Next

LEMMA LinkInvariant == Spec => []LinkInv
BY GenInvariant, LinkInit, LinkStep, PTL DEF Spec

\* While the tree grows, links and components add up to the rooms: no link
\* spent closes a cycle, and all rooms connected means one less than rooms.
THEOREM GenForest == Spec => []Forest
<1>1. LinkInv => Forest
  BY DEF LinkInv
<1> QED BY <1>1, LinkInvariant, PTL

\* No two links join the same two rooms (contains_edge).
THEOREM GenLinkedOnce == Spec => []LinkedOnce
<1>1. LinkInv => LinkedOnce
  BY DEF LinkInv
<1> QED BY <1>1, LinkInvariant, PTL

\* The chosen links connect all rooms, whatever the draws ("Hard guarantee"):
\* every division of the rooms in two is crossed by a link.
THEOREM GenLinksSpan == Spec => []LinksSpan
<1>1. GenInv /\ LinkInv => LinksSpan
  <2> SUFFICES ASSUME GenInv, LinkInv, pc \in {"extra", "carve"},
                      NEW S \in SUBSET RoomIds, S # {}, S # RoomIds
               PROVE  \E i \in DOMAIN used :
                        Cardinality(S \cap {used[i][1], used[i][2]}) = 1
    BY DEF LinksSpan
  <2>1. PICK i \in DOMAIN used : ~(used[i][1] \in S <=> used[i][2] \in S)
    BY DEF LinkInv, AllLinked, NoWayOut
  <2>2. \E x : S \cap {used[i][1], used[i][2]} = {x}
    BY <2>1
  <2> QED BY <2>2, FS_Singleton
<1> QED BY <1>1, GenInvariant, LinkInvariant, PTL
-----------------------------------------------------------------------------
(* The edges, from the grid to the shuffled list.                          *)

\* A new element at the end.
LEMMA AppendNew ==
  ASSUME NEW P, NEW s \in Seq(P), IsInjective(s), NEW e \in P, e \notin ToSet(s)
  PROVE  /\ IsInjective(s \o <<e>>) /\ ToSet(s \o <<e>>) = ToSet(s) \cup {e}
         /\ s \o <<e>> \in Seq(P)
<1> DEFINE t == s \o <<e>>
<1>1. <<e>> \in Seq(P) /\ Len(<<e>>) = 1 /\ <<e>>[1] = e
  OBVIOUS
<1>2. /\ t \in Seq(P) /\ Len(t) = Len(s) + 1 /\ Len(s) \in Nat
      /\ \A i \in 1 .. Len(t) : t[i] = IF i <= Len(s) THEN s[i] ELSE <<e>>[i - Len(s)]
  BY <1>1, ConcatProperties
<1>3. /\ DOMAIN s = 1 .. Len(s) /\ DOMAIN t = 1 .. Len(s) + 1
      /\ \A i \in DOMAIN s : t[i] = s[i]
      /\ t[Len(s) + 1] = e
      /\ \A i \in DOMAIN t : i \in DOMAIN s \/ i = Len(s) + 1
  <2> HIDE DEF t
  <2>1. DOMAIN s = 1 .. Len(s) /\ DOMAIN t = 1 .. Len(s) + 1
    BY <1>2
  <2> QED BY <1>1, <1>2, <2>1
<1> HIDE DEF t
<1>4. ToSet(t) = ToSet(s) \cup {e}
  <2>1. \A x \in ToSet(t) : x \in ToSet(s) \/ x = e
    BY <1>3 DEF ToSet
  <2>2. \A x \in ToSet(s) : x \in ToSet(t)
    BY <1>3 DEF ToSet
  <2>3. e \in ToSet(t)
    <3>1. Len(s) + 1 \in DOMAIN t
      BY <1>2, <1>3
    <3> QED BY <1>3, <3>1 DEF ToSet
  <2> QED BY <2>1, <2>2, <2>3
<1>5. IsInjective(t)
  <2>1. \A i \in DOMAIN s : t[i] # e
    BY <1>3 DEF ToSet
  <2> QED BY <1>3, <2>1 DEF IsInjective
<1> QED BY <1>2, <1>4, <1>5 DEF t

\* A swap moves elements and neither loses nor repeats one.
LEMMA SwapKeeps ==
  ASSUME NEW s, NEW i \in DOMAIN s, NEW j \in DOMAIN s
  PROVE  /\ ToSet(Swap(s, i, j)) = ToSet(s)
         /\ IsInjective(s) => IsInjective(Swap(s, i, j))
<1> DEFINE t == Swap(s, i, j)
<1>1. /\ DOMAIN t = DOMAIN s
      /\ \A n \in DOMAIN s :
           t[n] = IF n = j THEN s[i] ELSE IF n = i THEN s[j] ELSE s[n]
  BY DEF Swap
<1> HIDE DEF t
<1>2. \A n \in DOMAIN s : \E m \in DOMAIN s : t[n] = s[m]
  BY <1>1
<1>3. \A n \in DOMAIN s : \E m \in DOMAIN s : s[n] = t[m]
  <2> SUFFICES ASSUME NEW n \in DOMAIN s PROVE \E m \in DOMAIN s : s[n] = t[m]
    OBVIOUS
  <2>1. t[j] = s[i]
    BY <1>1
  <2>2. t[i] = s[j]
    BY <1>1
  <2>3. CASE n = i
    BY <2>1, <2>3
  <2>4. CASE n = j
    BY <2>2, <2>4
  <2>5. CASE n # i /\ n # j
    BY <1>1, <2>5
  <2> QED BY <2>3, <2>4, <2>5
<1>4. ToSet(t) = ToSet(s)
  BY <1>1, <1>2, <1>3 DEF ToSet
<1>5. IsInjective(s) => IsInjective(t)
  BY <1>1 DEF IsInjective
<1> QED BY <1>4, <1>5 DEF t

Pairs == RoomIds \X RoomIds

\* The slots the loop over the grid has left behind.
Passed(s) == s[2] < gy \/ (s[2] = gy /\ s[1] < gx)

EdgesFrom(N) == {<<grid_slots[p[1]], grid_slots[p[2]]>> : p \in N}

\* A slot has a room of its own; the edges collected are those of the slots
\* behind.
EdgeInv ==
  /\ \A s, t \in Slots : HasRoom(s) /\ grid_slots[s] = grid_slots[t] => s = t
  /\ IsInjective(edges)
  /\ pc = "collect" =>
       ToSet(edges) = EdgesFrom({p \in Neighbours : Passed(p[1])})
  /\ pc \notin {"rooms", "collect"} => ToSet(edges) = EdgesFrom(Neighbours)

LEMMA EdgeInit == Init => EdgeInv
BY DEF Init, EdgeInv, HasRoom, IsInjective

\* Steps of the loops that leave the grid and the edges alone.
LEMMA EdgeIdle ==
  ASSUME EdgeInv, UNCHANGED <<edges, grid_slots>>,
         pc' \notin {"rooms", "collect"}, pc \notin {"rooms", "collect"}
  PROVE  EdgeInv'
BY DEF EdgeInv, HasRoom, EdgesFrom, Neighbours

\* The loop over the grid leaves the slot it is at, and no other, behind.
LEMMA PassedNext ==
  ASSUME TypeOK, slot \in Slots, ToNextSlot, NEW s \in Slots
  PROVE  Passed(s)' <=> Passed(s) \/ s = slot
<1>1. /\ gx \in Int /\ gy \in Int /\ s[1] \in Int /\ s[2] \in Int
      /\ s[1] <= GRID_W - 1 /\ s[1] >= 0 /\ GRID_W \in Int
      /\ gx <= GRID_W - 1
      /\ s = <<s[1], s[2]>>
  BY GridAssumption DEF TypeOK, Slots
<1>2. s = slot <=> s[1] = gx /\ s[2] = gy
  BY <1>1 DEF slot
<1>3. CASE gx + 1 < GRID_W
  <2>1. gx' = gx + 1 /\ gy' = gy
    BY <1>3 DEF ToNextSlot
  <2> QED BY <1>1, <1>2, <2>1 DEF Passed
<1>4. CASE ~(gx + 1 < GRID_W)
  <2>1. gx' = 0 /\ gy' = gy + 1
    BY <1>4 DEF ToNextSlot
  <2>2. gx = GRID_W - 1
    BY <1>1, <1>4
  <2>3. Passed(s)' <=> s[2] < gy + 1
    BY <1>1, <2>1 DEF Passed
  <2>4. Passed(s) \/ s = slot <=> s[2] < gy \/ (s[2] = gy /\ s[1] <= gx)
    BY <1>1, <1>2 DEF Passed
  <2> QED BY <1>1, <2>2, <2>3, <2>4
<1> QED BY <1>3, <1>4

\* The edges of one slot are new, and join the list.
LEMMA EdgeCollect ==
  ASSUME GenInv, EdgeInv, CollectEdges
  PROVE  EdgeInv'
<1> DEFINE E(t) == <<grid_slots[slot], grid_slots[t]>>
           right == RightOf(slot)
           below == BelowOf(slot)
           Has(t) == t \in Slots /\ HasRoom(slot) /\ HasRoom(t)
           Old == {p \in Neighbours : Passed(p[1])}
           New == {p \in Neighbours : p[1] = slot}
<1>1. /\ pc = "collect" /\ pc' = pc /\ slot \in Slots /\ ToNextSlot
      /\ edges' = edges \o EdgeBetween(slot, right) \o EdgeBetween(slot, below)
      /\ grid_slots' = grid_slots /\ RoomIds' = RoomIds
  BY DEF CollectEdges, AtSlot, RoomIds
<1>2. edges \in Seq(Pairs) /\ grid_slots \in [Slots -> {0} \cup RoomIds]
  BY DEF GenInv, TypeOK, Pairs
<1>3. \A t : Has(t) => E(t) \in Pairs
  BY <1>1, <1>2 DEF HasRoom, Pairs
<1>4. /\ right # below /\ right # slot /\ below # slot
  BY DEF RightOf, BelowOf, slot, GenInv, TypeOK
<1>5. \A s, t \in Slots : HasRoom(s) /\ grid_slots[s] = grid_slots[t] => s = t
  BY DEF EdgeInv
<1>6. ToSet(edges) = EdgesFrom(Old) /\ IsInjective(edges)
  BY <1>1 DEF EdgeInv
<1>7. ~Passed(slot)
  BY DEF Passed, slot, GenInv, TypeOK
<1>8. \A t : Has(t) => E(t) \notin ToSet(edges)
  <2> SUFFICES ASSUME NEW t, Has(t), NEW p \in Old,
                      E(t) = <<grid_slots[p[1]], grid_slots[p[2]]>>
               PROVE  FALSE
    BY <1>6 DEF EdgesFrom
  <2>1. p[1] \in Slots /\ HasRoom(p[1]) /\ Passed(p[1])
    BY DEF Neighbours
  <2>2. p[1] = slot
    BY <1>1, <1>5, <2>1
  <2> QED BY <1>7, <2>1, <2>2
<1>9. Has(right) /\ Has(below) => E(right) # E(below)
  BY <1>4, <1>5
<1> DEFINE e1 == edges \o EdgeBetween(slot, right)
<1>10. /\ e1 \in Seq(Pairs) /\ IsInjective(e1)
       /\ ToSet(e1) = ToSet(edges) \cup {E(t) : t \in {u \in {right} : Has(u)}}
  <2>1. CASE Has(right)
    <3>1. EdgeBetween(slot, right) = <<E(right)>>
      BY <2>1 DEF EdgeBetween
    <3> HIDE DEF E, Has
    <3>2. E(right) \in Pairs /\ E(right) \notin ToSet(edges)
      BY <1>3, <1>8, <2>1
    <3>3. {E(t) : t \in {u \in {right} : Has(u)}} = {E(right)}
      BY <2>1
    <3> DEFINE x == E(right)
    <3>4. e1 = edges \o <<x>> /\ {E(t) : t \in {u \in {right} : Has(u)}} = {x}
      BY <3>1, <3>3
    <3>5. x \in Pairs /\ x \notin ToSet(edges) /\ edges \in Seq(Pairs) /\ IsInjective(edges)
      BY <1>2, <1>6, <3>2
    <3> HIDE DEF x, e1
    <3>6. /\ IsInjective(edges \o <<x>>) /\ ToSet(edges \o <<x>>) = ToSet(edges) \cup {x}
          /\ edges \o <<x>> \in Seq(Pairs)
      BY <3>5, AppendNew
    <3> QED BY <3>4, <3>6
  <2>2. CASE ~Has(right)
    <3>1. EdgeBetween(slot, right) = <<>>
      BY <2>2 DEF EdgeBetween
    <3>2. e1 = edges
      BY <1>2, <3>1, ConcatEmptySeq
    <3> HIDE DEF E, Has, e1
    <3>3. {E(t) : t \in {u \in {right} : Has(u)}} = {}
      BY <2>2
    <3> QED BY <1>2, <1>6, <3>2, <3>3
  <2> QED BY <2>1, <2>2
<1>11. edges' = e1 \o EdgeBetween(slot, below)
  BY <1>1
<1>12. Has(below) => E(below) \notin ToSet(e1)
  <2> HIDE DEF E, Has, e1
  <2> QED BY <1>8, <1>9, <1>10
<1> HIDE DEF e1
<1>13. /\ IsInjective(edges')
       /\ ToSet(edges') = ToSet(e1) \cup {E(t) : t \in {u \in {below} : Has(u)}}
  <2>1. CASE Has(below)
    <3>1. EdgeBetween(slot, below) = <<E(below)>>
      BY <2>1 DEF EdgeBetween
    <3> HIDE DEF E, Has
    <3>2. E(below) \in Pairs /\ E(below) \notin ToSet(e1)
      BY <1>3, <1>12, <2>1
    <3>3. {E(t) : t \in {u \in {below} : Has(u)}} = {E(below)}
      BY <2>1
    <3> QED BY <1>10, <1>11, <3>1, <3>2, <3>3, AppendNew
  <2>2. CASE ~Has(below)
    <3>1. EdgeBetween(slot, below) = <<>>
      BY <2>2 DEF EdgeBetween
    <3>2. edges' = e1
      BY <1>10, <1>11, <3>1, ConcatEmptySeq
    <3> HIDE DEF E, Has
    <3>3. {E(t) : t \in {u \in {below} : Has(u)}} = {}
      BY <2>2
    <3> QED BY <1>10, <3>2, <3>3
  <2> QED BY <2>1, <2>2
<1>14. ToSet(edges') = ToSet(edges) \cup {E(t) : t \in {u \in {right, below} : Has(u)}}
  <2> HIDE DEF E, Has
  <2> QED BY <1>10, <1>13
<1>15. {E(t) : t \in {u \in {right, below} : Has(u)}} = EdgesFrom(New)
  <2>1. \A t \in {right, below} : Has(t) => <<slot, t>> \in New
    BY <1>1 DEF Neighbours
  <2>2. \A p \in New : p[2] \in {right, below} /\ Has(p[2]) /\ p[1] = slot
    BY DEF Neighbours
  <2>3. ASSUME NEW t \in {right, below}, Has(t) PROVE E(t) \in EdgesFrom(New)
    <3>1. <<slot, t>>[1] = slot /\ <<slot, t>>[2] = t
      OBVIOUS
    <3>2. <<slot, t>> \in New
      BY <2>1, <2>3
    <3> HIDE DEF New
    <3> QED BY <3>1, <3>2 DEF EdgesFrom
  <2>4. ASSUME NEW x \in EdgesFrom(New)
        PROVE  \E t \in {right, below} : Has(t) /\ x = E(t)
    <3>1. PICK p \in New : x = <<grid_slots[p[1]], grid_slots[p[2]]>>
      BY DEF EdgesFrom
    <3> QED BY <2>2, <3>1
  <2> HIDE DEF E, Has, New
  <2> QED BY <2>3, <2>4
<1>16. {p \in Neighbours : Passed(p[1])'} = Old \cup New
  <2>1. \A p \in Neighbours : p[1] \in Slots
    BY DEF Neighbours
  <2>2. \A p \in Neighbours : Passed(p[1])' <=> Passed(p[1]) \/ p[1] = slot
    BY <1>1, <2>1, PassedNext DEF GenInv
  <2> QED BY <2>2
<1>17. ToSet(edges') = EdgesFrom(Old \cup New)
  <2>1. EdgesFrom(Old \cup New) = EdgesFrom(Old) \cup EdgesFrom(New)
    BY DEF EdgesFrom
  <2> HIDE DEF Old, New
  <2> QED BY <1>6, <1>14, <1>15, <2>1
<1>18. Neighbours' = Neighbours /\ \A s : HasRoom(s)' <=> HasRoom(s)
  BY <1>1 DEF Neighbours, HasRoom
<1>19. \A N : EdgesFrom(N)' = EdgesFrom(N)
  BY <1>1 DEF EdgesFrom
<1>20. EdgesFrom({p \in Neighbours : Passed(p[1])})' = EdgesFrom(Old \cup New)
  <2> DEFINE Behind == {p \in Neighbours : Passed(p[1])}
  <2>1. Behind' = Old \cup New
    BY <1>16, <1>18
  <2>2. EdgesFrom(Behind)' = EdgesFrom(Old \cup New)
    <3> HIDE DEF Behind, Old, New
    <3> QED BY <1>1, <2>1 DEF EdgesFrom
  <2> QED BY <2>2
<1>21. (\A s, t \in Slots : HasRoom(s) /\ grid_slots[s] = grid_slots[t] => s = t)'
  BY <1>1, <1>5, <1>18
<1> QED BY <1>1, <1>13, <1>17, <1>20, <1>21 DEF EdgeInv

LEMMA EdgeStep == GenInv /\ EdgeInv /\ [Next]_gen_vars => EdgeInv'
<1> SUFFICES ASSUME GenInv, EdgeInv, [Next]_gen_vars PROVE EdgeInv'
  OBVIOUS
<1> DEFINE OneEach(g) == \A s, t \in Slots : g[s] # 0 /\ g[s] = g[t] => s = t
<1>1. ASSUME OneEach(grid_slots'), pc = "rooms", pc' = "rooms", edges' = edges
      PROVE  EdgeInv'
  BY <1>1 DEF EdgeInv, HasRoom
<1>2. OneEach(grid_slots)
  BY DEF EdgeInv, HasRoom
<1>3. CASE SkipSlot
  BY <1>1, <1>2, <1>3 DEF SkipSlot, AtSlot, links_vars
<1>4. CASE PlaceRoom
  <2>1. pc = "rooms" /\ pc' = "rooms" /\ edges' = edges
    BY <1>4 DEF PlaceRoom, AtSlot, links_vars
  <2>2. \/ grid_slots' = grid_slots
        \/ grid_slots' = [grid_slots EXCEPT ![slot] = Len(rooms) + 1]
    BY <1>4 DEF PlaceRoom
  <2>3. Len(rooms) + 1 \notin {0} \cup RoomIds
    BY RoomsCounted DEF GenInv
  <2>4. grid_slots \in [Slots -> {0} \cup RoomIds]
    BY DEF GenInv, TypeOK
  <2>5. OneEach(grid_slots')
    BY <1>2, <2>2, <2>3, <2>4
  <2> QED BY <1>1, <2>1, <2>5
<1>5. CASE FallbackRoom
  <2>1. pc' = "walls" /\ edges = <<>> /\ UNCHANGED <<edges, grid_slots>>
    BY <1>5 DEF FallbackRoom, links_vars, GenInv, LoopInv
  <2>2. RoomIds = {}
    BY <1>5 DEF FallbackRoom, RoomIds
  <2>3. Neighbours = {}
    BY <2>2 DEF Neighbours, HasRoom, GenInv, TypeOK
  <2>4. ToSet(edges) = {} /\ IsInjective(edges)
    BY <2>1 DEF ToSet, IsInjective
  <2>5. EdgesFrom(Neighbours)' = {}
    BY <2>1, <2>3 DEF EdgesFrom, Neighbours, HasRoom
  <2> QED BY <1>2, <2>1, <2>4, <2>5 DEF EdgeInv, HasRoom
<1>6. CASE StartEdges
  <2>1. /\ pc' = "collect" /\ edges = <<>> /\ UNCHANGED <<edges, grid_slots>>
        /\ gx' = 0 /\ gy' = 0
    BY <1>6 DEF StartEdges, links_vars, GenInv, LoopInv
  <2>2. \A s \in Slots : ~Passed(s)'
    BY <2>1, GridAssumption DEF Passed, Slots
  <2>3. EdgesFrom({p \in Neighbours : Passed(p[1])})' = {}
    BY <2>2 DEF EdgesFrom, Neighbours
  <2>4. ToSet(edges) = {} /\ IsInjective(edges)
    BY <2>1 DEF ToSet, IsInjective
  <2> QED BY <1>2, <2>1, <2>3, <2>4 DEF EdgeInv, HasRoom
<1>7. CASE CollectEdges
  BY <1>7, EdgeCollect
<1>8. CASE ShuffleEdge
  <2>1. PICK j \in rand_range_i32(1, k + 1) : edges' = Swap(edges, k, j)
    BY <1>8 DEF ShuffleEdge
  <2>2. /\ pc = "shuffle" /\ pc' = pc /\ k >= 2 /\ k <= Len(edges) /\ grid_slots' = grid_slots
        /\ k \in Nat
    BY <1>8 DEF ShuffleEdge, GenInv, LoopInv, TypeOK
  <2>3. j \in Int /\ 1 <= j /\ j < k + 1
    <3>1. 1 \in Int /\ k + 1 \in Int /\ 1 < k + 1
      BY <2>2
    <3> QED BY <2>1, <3>1, RangeBounds
  <2>4. k \in DOMAIN edges /\ j \in DOMAIN edges
    <3>1. edges \in Seq(Pairs)
      BY DEF GenInv, TypeOK, Pairs
    <3>2. Len(edges) \in Nat /\ DOMAIN edges = 1 .. Len(edges)
      BY <3>1
    <3> QED BY <2>2, <2>3, <3>2
  <2>5. ToSet(edges') = ToSet(edges) /\ IsInjective(edges')
    BY <2>1, <2>4, SwapKeeps DEF EdgeInv
  <2>6. EdgesFrom(Neighbours)' = EdgesFrom(Neighbours)
    BY <2>2 DEF EdgesFrom, Neighbours, HasRoom
  <2> QED BY <1>2, <2>2, <2>5, <2>6 DEF EdgeInv, HasRoom
<1>9. CASE StartSpan \/ SpanEdge \/ Bridge \/ ExtraEdge \/ CarveLink \/ AddWalls \/ SpawnMonster
  <2>1. /\ UNCHANGED <<edges, grid_slots>>
        /\ pc' \notin {"rooms", "collect"} /\ pc \notin {"rooms", "collect"}
    BY <1>9 DEF StartSpan, SpanEdge, Bridge, ExtraEdge, CarveLink, AddWalls,
         SpawnMonster, links_vars
  <2> QED BY <2>1, EdgeIdle
<1>10. CASE LoopEnds
  <2>1. UNCHANGED <<edges, grid_slots>>
    BY <1>10 DEF LoopEnds, Enter, links_vars
  <2>2. CASE pc = "collect"
    <3>1. slot \notin Slots /\ pc' = "shuffle"
      BY <1>10, <2>2 DEF LoopEnds, Enter
    <3>2. gy >= GRID_H /\ gy \in Int
      BY <3>1, GridAssumption DEF slot, Slots, GenInv, TypeOK
    <3>3. \A s \in Slots : Passed(s)
      BY <3>2, GridAssumption DEF Passed, Slots
    <3>4. {p \in Neighbours : Passed(p[1])} = Neighbours
      BY <3>3 DEF Neighbours
    <3>5. ToSet(edges) = EdgesFrom(Neighbours)
      BY <2>2, <3>4 DEF EdgeInv
    <3>6. EdgesFrom(Neighbours)' = EdgesFrom(Neighbours)
      BY <2>1 DEF EdgesFrom, Neighbours, HasRoom
    <3>7. IsInjective(edges)
      BY DEF EdgeInv
    <3> QED BY <1>2, <2>1, <3>1, <3>5, <3>6, <3>7 DEF EdgeInv, HasRoom
  <2>3. CASE pc # "collect"
    <3>1. pc' \notin {"rooms", "collect"} /\ pc \notin {"rooms", "collect"}
      BY <1>10, <2>3 DEF LoopEnds, Enter
    <3> QED BY <2>1, <3>1, EdgeIdle
  <2> QED BY <2>2, <2>3
<1>11. CASE UNCHANGED gen_vars
  BY <1>11 DEF gen_vars, links_vars, EdgeInv, HasRoom, EdgesFrom, Neighbours, Passed
<1> QED
  BY <1>3, <1>4, <1>5, <1>6, <1>7, <1>8, <1>9, <1>10, <1>11 DEF Next

LEMMA EdgeInvariant == Spec => []EdgeInv
BY GenInvariant, EdgeInit, EdgeStep, PTL DEF Spec

\* Collecting finds every pair of neighbouring rooms once, and the shuffle
\* loses no edge and repeats none (connect_room_grid, shuffle_edges).
THEOREM GenShuffleKeepsEdges == Spec => []ShuffleKeepsEdges
<1>1. EdgeInv => ShuffleKeepsEdges
  BY DEF EdgeInv, ShuffleKeepsEdges, EdgesFrom
<1> QED BY <1>1, EdgeInvariant, PTL

-----------------------------------------------------------------------------
(* The walk over the map.                                                  *)

Walker == [seen : SUBSET Cells, edge : SUBSET Cells]

\* The walker has looked around every cell it knows, but for the edge.
Thorough(w) ==
  /\ w \in Walker
  /\ dungeon.start \in w.seen
  /\ \A c \in w.seen \ w.edge :
       \A n \in Around(c) : is_walkable(tiles, n) => n \in w.seen

\* It is done or knows more than n cells.
Far(w, n) == w.edge = {} \/ Cardinality(w.seen) > n

LEMMA CellsCounted == IsFiniteSet(Cells) /\ Cardinality(Cells) = W * H
<1>1. /\ IsFiniteSet(0 .. W - 1) /\ IsFiniteSet(0 .. H - 1)
      /\ Cardinality(0 .. W - 1) = W /\ Cardinality(0 .. H - 1) = H
  <2>1. W - 1 \in Int /\ H - 1 \in Int /\ 0 \in Int
    BY SizeAssumption
  <2>2. /\ IsFiniteSet(0 .. W - 1) /\ IsFiniteSet(0 .. H - 1)
        /\ Cardinality(0 .. W - 1) = IF 0 > W - 1 THEN 0 ELSE W - 1 - 0 + 1
        /\ Cardinality(0 .. H - 1) = IF 0 > H - 1 THEN 0 ELSE H - 1 - 0 + 1
    BY <2>1, FS_Interval
  <2> QED BY <2>2, SizeAssumption
<1> DEFINE X == 0 .. W - 1
           Y == 0 .. H - 1
<1>2. Cells = X \X Y /\ IsFiniteSet(X) /\ IsFiniteSet(Y)
      /\ Cardinality(X) = W /\ Cardinality(Y) = H
  BY <1>1 DEF Cells
<1> HIDE DEF X, Y
<1>3. IsFiniteSet(X \X Y) /\ Cardinality(X \X Y) = Cardinality(X) * Cardinality(Y)
  BY <1>2, FS_Product
<1> QED BY <1>2, <1>3

LEMMA StrideType ==
  ASSUME NEW w \in Walker
  PROVE  Stride(w) \in Walker
<1> DEFINE next == {c \in UNION {Around(e) : e \in w.edge} : is_walkable(tiles, c)}
                     \ w.seen
<1>1. next \in SUBSET Cells
  BY DEF is_walkable
<1>2. Stride(w) = [seen |-> w.seen \cup next, edge |-> next]
  BY DEF Stride
<1>3. w.seen \cup next \in SUBSET Cells
  BY <1>1 DEF Walker
<1> HIDE DEF next
<1> QED BY <1>1, <1>2, <1>3 DEF Walker

LEMMA StrideThorough ==
  ASSUME NEW w, Thorough(w), NEW n \in Nat, Far(w, n)
  PROVE  Thorough(Stride(w)) /\ Far(Stride(w), n + 1)
<1> DEFINE next == {c \in UNION {Around(e) : e \in w.edge} : is_walkable(tiles, c)}
                     \ w.seen
           v == Stride(w)
<1>1. v.seen = w.seen \cup next /\ v.edge = next
  BY DEF Stride
<1>2. v \in Walker /\ w \in Walker
  BY StrideType DEF Thorough
<1>3. dungeon.start \in v.seen
  BY <1>1 DEF Thorough
<1>4. ASSUME NEW c \in v.seen \ v.edge, NEW m \in Around(c), is_walkable(tiles, m)
      PROVE  m \in v.seen
  <2>1. c \in w.seen
    BY <1>1
  <2>2. CASE c \in w.edge
    <3>1. m \in UNION {Around(e) : e \in w.edge}
      BY <1>4, <2>2
    <3> QED BY <1>1, <1>4, <3>1
  <2>3. CASE c \notin w.edge
    BY <1>1, <1>4, <2>1, <2>3 DEF Thorough
  <2> QED BY <2>2, <2>3
<1>5. Thorough(v)
  <2> HIDE DEF v
  <2> QED BY <1>2, <1>3, <1>4 DEF Thorough
<1>6. ASSUME next # {} PROVE Cardinality(v.seen) > n + 1
  <2>1. w.edge # {}
    BY <1>6
  <2>2. Cardinality(w.seen) > n
    BY <2>1 DEF Far
  <2>3. w.seen \subseteq Cells /\ v.seen \subseteq Cells
    <3> HIDE DEF v
    <3> QED BY <1>2 DEF Walker
  <2>4. IsFiniteSet(w.seen) /\ IsFiniteSet(v.seen)
    BY <2>3, CellsCounted, FS_Subset
  <2>5. w.seen \subseteq v.seen /\ w.seen # v.seen
    BY <1>1, <1>6
  <2>6. Cardinality(w.seen) <= Cardinality(v.seen)
        /\ Cardinality(w.seen) # Cardinality(v.seen)
    BY <2>4, <2>5, FS_Subset
  <2>7. Cardinality(w.seen) \in Nat /\ Cardinality(v.seen) \in Nat
    BY <2>4, FS_CardinalityType
  <2> HIDE DEF v, next
  <2> QED BY <2>2, <2>6, <2>7
<1>7. Far(v, n + 1)
  <2> HIDE DEF v, next
  <2> QED BY <1>1, <1>6 DEF Far
<1> QED BY <1>5, <1>7

LEMMA StridesThorough ==
  ASSUME NEW w, Thorough(w), NEW m \in Nat, Far(w, m)
  PROVE  Thorough(Strides(w)) /\ Far(Strides(w), m + W)
<1> DEFINE Solves(g) == g = [n \in 0 .. W |-> IF n = 0 THEN w ELSE Stride(g[n - 1])]
           walk == CHOOSE g : Solves(g)
           step == [p \in Walker \X Nat |-> Stride(p[1])]
<1>1. CASE w.edge = {}
  BY <1>1 DEF Strides, Far
<1>2. ASSUME w.edge # {} PROVE Strides(w) = walk[W]
  BY <1>2 DEF Strides
<1>3. PICK f : Recurs(f, W, Walker, w, step)
  <2>1. step \in [Walker \X Nat -> Walker]
    BY StrideType
  <2>2. w \in Walker
    BY DEF Thorough
  <2> HIDE DEF step
  <2> QED BY <2>1, <2>2, SizeAssumption, Recursion
<1>4. Solves(f)
  <2>1. ASSUME NEW n \in 0 .. W, n # 0 PROVE f[n] = Stride(f[n - 1])
    <3>1. n - 1 \in 0 .. W - 1 /\ n - 1 + 1 = n /\ n - 1 \in 0 .. W
      BY SizeAssumption, <2>1
    <3>2. f[n] = step[<<f[n - 1], n - 1>>]
      <4> HIDE DEF step
      <4> QED BY <1>3, <3>1 DEF Recurs
    <3>3. f[n - 1] \in Walker
      <4>1. f \in [0 .. W -> Walker]
        BY <1>3 DEF Recurs
      <4> HIDE DEF step, Solves, walk
      <4> QED BY <3>1, <4>1
    <3>5. n - 1 \in Nat
      BY <3>1, SizeAssumption
    <3>4. \A v \in Walker, i \in Nat : step[<<v, i>>] = Stride(v)
      OBVIOUS
    <3> HIDE DEF step
    <3> QED BY <3>2, <3>3, <3>4, <3>5
  <2>2. f[0] = w /\ f = [n \in 0 .. W |-> f[n]]
    <3> HIDE DEF step
    <3> QED BY <1>3 DEF Recurs
  <2> QED BY <2>1, <2>2
<1>5. Solves(walk)
  <2> HIDE DEF Solves
  <2> QED BY <1>4
<1>6. walk[0] = w /\ \A n \in 0 .. W - 1 : walk[n + 1] = Stride(walk[n])
  <2> HIDE DEF walk
  <2>1. 0 \in 0 .. W /\ \A n \in 0 .. W - 1 : n + 1 \in 0 .. W /\ n + 1 # 0 /\ n + 1 - 1 = n
    BY SizeAssumption
  <2>2. \A n \in 0 .. W : walk[n] = IF n = 0 THEN w ELSE Stride(walk[n - 1])
    BY <1>5
  <2> HIDE DEF Solves
  <2>3. ASSUME NEW n \in 0 .. W - 1 PROVE walk[n + 1] = Stride(walk[n])
    <3>1. walk[n + 1] = Stride(walk[n + 1 - 1])
      BY <2>1, <2>2
    <3> QED BY <2>1, <3>1
  <2> QED BY <2>1, <2>2, <2>3
<1> DEFINE S == {n \in 0 .. W : Thorough(walk[n]) /\ Far(walk[n], m + n)}
<1>7. W \in S
  <2> HIDE DEF walk, Solves
  <2>1. 0 \in S
    BY <1>6, SizeAssumption
  <2>2. ASSUME NEW n \in 0 .. W - 1, n \in S PROVE n + 1 \in S
    <3>1. walk[n + 1] = Stride(walk[n]) /\ m + n \in Nat /\ m + n + 1 = m + (n + 1)
          /\ n + 1 \in 0 .. W
      BY <1>6, SizeAssumption
    <3>2. Thorough(walk[n + 1]) /\ Far(walk[n + 1], m + n + 1)
      BY <2>2, <3>1, StrideThorough
    <3> QED BY <3>1, <3>2
  <2> HIDE DEF S
  <2>3. 0 .. W \subseteq S
    BY <2>1, <2>2, SizeAssumption, UpTo
  <2> QED BY <2>3, SizeAssumption
<1>8. Thorough(walk[W]) /\ Far(walk[W], m + W)
  <2> HIDE DEF walk
  <2> QED BY <1>7
<1> QED
  <2> HIDE DEF walk
  <2> QED BY <1>1, <1>2, <1>8

LEMMA ThoroughFar ==
  ASSUME NEW w, Thorough(w)
  PROVE  Far(w, 0)
<1>1. w.seen \subseteq Cells /\ w.seen # {}
  BY DEF Thorough, Walker
<1>2. IsFiniteSet(w.seen)
  BY <1>1, CellsCounted, FS_Subset
<1>3. Cardinality(w.seen) \in Nat /\ Cardinality(w.seen) # 0
  BY <1>1, <1>2, FS_CardinalityType, FS_EmptySet
<1> QED BY <1>3 DEF Far

\* The walk of Reached ends: it cannot find more cells than there are.
LEMMA ReachedThorough ==
  ASSUME dungeon.start \in Cells
  PROVE  \E w : Thorough(w) /\ w.edge = {} /\ Reached = w.seen
<1> DEFINE from == {dungeon.start}
           w0 == [seen |-> from, edge |-> from]
           Solves(g) == g = [n \in 0 .. H |-> IF n = 0 THEN [seen |-> from, edge |-> from]
                                              ELSE Strides(g[n - 1])]
           walk == CHOOSE g : Solves(g)
           T == {w \in Walker : Thorough(w)}
           step == [p \in T \X Nat |-> Strides(p[1])]
<1>1. Reached = walk[H].seen
  BY DEF Reached
<1>2. Thorough(w0)
  <2>1. w0 \in Walker /\ w0.seen = from /\ w0.edge = from
    BY DEF Walker
  <2>2. dungeon.start \in from /\ from \ from = {}
    OBVIOUS
  <2> HIDE DEF w0, from
  <2> QED BY <2>1, <2>2 DEF Thorough
<1>3. \A v \in T : Strides(v) \in T
  <2> SUFFICES ASSUME NEW v \in T PROVE Strides(v) \in T
    OBVIOUS
  <2>1. Thorough(Strides(v))
    BY ThoroughFar, StridesThorough
  <2> QED BY <2>1 DEF Thorough
<1>4. PICK f : Recurs(f, H, T, w0, step)
  <2>1. step \in [T \X Nat -> T]
    <3> HIDE DEF T
    <3> QED BY <1>3
  <2>2. w0 \in T
    <3> HIDE DEF w0
    <3> QED BY <1>2 DEF Thorough
  <2> HIDE DEF step, T, w0
  <2> QED BY <2>1, <2>2, SizeAssumption, Recursion
<1>5. Solves(f)
  <2>1. ASSUME NEW n \in 0 .. H, n # 0 PROVE f[n] = Strides(f[n - 1])
    <3>1. n - 1 \in 0 .. H - 1 /\ n - 1 + 1 = n
      BY SizeAssumption, <2>1
    <3>2. f[n] = step[<<f[n - 1], n - 1>>]
      <4> HIDE DEF step, T, w0
      <4> QED BY <1>4, <3>1 DEF Recurs
    <3>3. f[n - 1] \in T /\ n - 1 \in Nat
      <4> HIDE DEF step, T, w0
      <4> QED BY <1>4, <3>1, SizeAssumption DEF Recurs
    <3> HIDE DEF T, w0
    <3>4. \A v \in T, i \in Nat : step[<<v, i>>] = Strides(v)
      OBVIOUS
    <3> HIDE DEF step
    <3> QED BY <3>2, <3>3, <3>4
  <2>2. f[0] = w0 /\ f = [n \in 0 .. H |-> f[n]]
    <3> HIDE DEF step, T, w0
    <3> QED BY <1>4 DEF Recurs
  <2> HIDE DEF step, T
  <2> QED BY <2>1, <2>2
<1>6. Solves(walk)
  <2> HIDE DEF Solves
  <2> QED BY <1>5
<1>7. walk[0] = w0 /\ \A n \in 0 .. H - 1 : walk[n + 1] = Strides(walk[n])
  <2> HIDE DEF walk
  <2>1. 0 \in 0 .. H /\ \A n \in 0 .. H - 1 : n + 1 \in 0 .. H /\ n + 1 # 0 /\ n + 1 - 1 = n
    BY SizeAssumption
  <2>2. \A n \in 0 .. H : walk[n] = IF n = 0 THEN w0 ELSE Strides(walk[n - 1])
    BY <1>6
  <2> HIDE DEF Solves, w0
  <2>3. ASSUME NEW n \in 0 .. H - 1 PROVE walk[n + 1] = Strides(walk[n])
    <3>1. walk[n + 1] = Strides(walk[n + 1 - 1])
      BY <2>1, <2>2
    <3> QED BY <2>1, <3>1
  <2> QED BY <2>1, <2>2, <2>3
<1> DEFINE S == {n \in 0 .. H : Thorough(walk[n]) /\ Far(walk[n], n * W)}
<1> HIDE DEF walk, Solves, w0, T, step
<1>8. H \in S
  <2>1. 0 \in S
    BY <1>2, <1>7, ThoroughFar, SizeAssumption
  <2>2. ASSUME NEW n \in 0 .. H - 1, n \in S PROVE n + 1 \in S
    <3>1. walk[n + 1] = Strides(walk[n]) /\ n * W \in Nat /\ n * W + W = (n + 1) * W
          /\ n + 1 \in 0 .. H
      BY <1>7, SizeAssumption
    <3>2. Thorough(walk[n + 1]) /\ Far(walk[n + 1], n * W + W)
      BY <2>2, <3>1, StridesThorough
    <3> QED BY <3>1, <3>2
  <2> HIDE DEF S
  <2>3. 0 .. H \subseteq S
    BY <2>1, <2>2, SizeAssumption, UpTo
  <2> QED BY <2>3, SizeAssumption
<1>9. Thorough(walk[H]) /\ Far(walk[H], H * W)
  BY <1>8
<1>10. walk[H].edge = {}
  <2>1. walk[H].seen \subseteq Cells
    BY <1>9 DEF Thorough, Walker
  <2>2. Cardinality(walk[H].seen) <= W * H
    BY <2>1, CellsCounted, FS_Subset
  <2>3. IsFiniteSet(walk[H].seen)
    BY <2>1, CellsCounted, FS_Subset
  <2>4. Cardinality(walk[H].seen) \in Nat
    BY <2>3, FS_CardinalityType
  <2> DEFINE s == Cardinality(walk[H].seen)
             a == H * W
  <2>5. a = W * H /\ a \in Nat /\ s \in Nat /\ s <= a
    BY <2>2, <2>4, SizeAssumption
  <2>6. walk[H].edge = {} \/ s > a
    BY <1>9 DEF Far
  <2> HIDE DEF s, a
  <2> QED BY <2>5, <2>6
<1> QED BY <1>1, <1>9, <1>10

\* Whoever has walked as far as one can has every walkable cell beside those
\* one got to.
LEMMA ReachedCloses ==
  ASSUME dungeon.start \in Cells
  PROVE  /\ dungeon.start \in Reached
         /\ \A c \in Reached : \A n \in Around(c) :
              is_walkable(tiles, n) => n \in Reached
<1>1. PICK w : Thorough(w) /\ w.edge = {} /\ Reached = w.seen
  BY ReachedThorough
<1> QED BY <1>1 DEF Thorough

-----------------------------------------------------------------------------
(* What a set of cells that is closed under walking has to hold.           *)

Closed(S) == \A c \in S : \A n \in Around(c) : is_walkable(tiles, n) => n \in S

\* A set of numbers that holds one of an interval and, with each, those next
\* to it holds them all.
LEMMA IntervalSpreads ==
  ASSUME NEW a \in Int, NEW b \in Int, NEW P, NEW m \in a .. b, m \in P,
         \A i \in a .. b, j \in a .. b :
           i \in P /\ (j = i + 1 \/ j = i - 1) => j \in P
  PROVE  a .. b \subseteq P
<1> DEFINE U == {n \in 0 .. b - m : m + n \in P}
           D == {n \in 0 .. m - a : m - n \in P}
<1>1. 0 .. b - m \subseteq U
  <2>1. b - m \in Nat /\ 0 \in U
    OBVIOUS
  <2>2. ASSUME NEW n \in 0 .. (b - m) - 1, n \in U PROVE n + 1 \in U
    <3>1. m + n \in a .. b /\ m + (n + 1) \in a .. b /\ m + (n + 1) = m + n + 1
          /\ n + 1 \in 0 .. b - m
      OBVIOUS
    <3>2. m + n \in P
      BY <2>2
    <3>3. m + (n + 1) \in P
      BY <3>1, <3>2
    <3> QED BY <3>1, <3>3
  <2> HIDE DEF U
  <2> QED BY <2>1, <2>2, UpTo
<1>2. 0 .. m - a \subseteq D
  <2>1. m - a \in Nat /\ 0 \in D
    OBVIOUS
  <2>2. ASSUME NEW n \in 0 .. (m - a) - 1, n \in D PROVE n + 1 \in D
    <3>1. m - n \in a .. b /\ m - (n + 1) \in a .. b /\ m - (n + 1) = m - n - 1
          /\ n + 1 \in 0 .. m - a
      OBVIOUS
    <3>2. m - n \in P
      BY <2>2
    <3>3. m - (n + 1) \in P
      BY <3>1, <3>2
    <3> QED BY <3>1, <3>3
  <2> HIDE DEF D
  <2> QED BY <2>1, <2>2, UpTo
<1> SUFFICES ASSUME NEW i \in a .. b PROVE i \in P
  OBVIOUS
<1>3. CASE i >= m
  <2>1. i - m \in 0 .. b - m /\ m + (i - m) = i
    BY <1>3
  <2>2. m + (i - m) \in P
    BY <1>1, <2>1
  <2> QED BY <2>1, <2>2
<1>4. CASE i < m
  <2>1. m - i \in 0 .. m - a /\ m - (m - i) = i
    BY <1>4
  <2>2. m - (m - i) \in P
    BY <1>2, <2>1
  <2> QED BY <2>1, <2>2
<1> QED BY <1>3, <1>4

LEMMA RowSpreads ==
  ASSUME NEW S, Closed(S), NEW a \in Int, NEW b \in Int, NEW y \in Int,
         NEW m \in a .. b, <<m, y>> \in S,
         \A x \in a .. b : is_walkable(tiles, <<x, y>>)
  PROVE  \A x \in a .. b : <<x, y>> \in S
<1> DEFINE P == {x \in a .. b : <<x, y>> \in S}
<1>1. ASSUME NEW i \in a .. b, NEW j \in a .. b, i \in P, j = i + 1 \/ j = i - 1
      PROVE  j \in P
  <2>1. <<j, y>> \in Around(<<i, y>>)
    BY <1>1 DEF Around
  <2>2. <<i, y>> \in S /\ is_walkable(tiles, <<j, y>>)
    BY <1>1
  <2>3. <<j, y>> \in S
    BY <2>1, <2>2 DEF Closed
  <2> QED BY <2>3
<1>2. m \in P
  OBVIOUS
<1>3. a .. b \subseteq P
  <2> HIDE DEF P
  <2> QED BY <1>1, <1>2, IntervalSpreads
<1> QED BY <1>3

LEMMA ColumnSpreads ==
  ASSUME NEW S, Closed(S), NEW a \in Int, NEW b \in Int, NEW x \in Int,
         NEW m \in a .. b, <<x, m>> \in S,
         \A y \in a .. b : is_walkable(tiles, <<x, y>>)
  PROVE  \A y \in a .. b : <<x, y>> \in S
<1> DEFINE P == {y \in a .. b : <<x, y>> \in S}
<1>1. ASSUME NEW i \in a .. b, NEW j \in a .. b, i \in P, j = i + 1 \/ j = i - 1
      PROVE  j \in P
  <2>1. <<x, j>> \in Around(<<x, i>>)
    BY <1>1 DEF Around
  <2>2. <<x, i>> \in S /\ is_walkable(tiles, <<x, j>>)
    BY <1>1
  <2>3. <<x, j>> \in S
    BY <2>1, <2>2 DEF Closed
  <2> QED BY <2>3
<1>2. m \in P
  OBVIOUS
<1>3. a .. b \subseteq P
  <2> HIDE DEF P
  <2> QED BY <1>1, <1>2, IntervalSpreads
<1> QED BY <1>3

\* One cell of a room's floor brings in all of it.
LEMMA RoomSpreads ==
  ASSUME NEW S, Closed(S), NEW r, Fits(r), NEW c \in Interior(r), c \in S,
         \A n \in Interior(r) : is_walkable(tiles, n)
  PROVE  Interior(r) \subseteq S
<1> DEFINE x0 == r.x1 + 1
           x1 == r.x2 - 1
           y0 == r.y1 + 1
           y1 == r.y2 - 1
<1>1. x0 \in Int /\ x1 \in Int /\ y0 \in Int /\ y1 \in Int
  BY DEF Fits, RoomType
<1>2. Interior(r) = (x0 .. x1) \X (y0 .. y1)
  BY DEF Interior
<1> HIDE DEF x0, x1, y0, y1
<1>3. PICK cx \in x0 .. x1, cy \in y0 .. y1 : c = <<cx, cy>>
  BY <1>2
<1>4. \A x \in x0 .. x1, y \in y0 .. y1 : is_walkable(tiles, <<x, y>>)
  BY <1>2
<1>5. \A x \in x0 .. x1 : <<x, cy>> \in S
  <2>1. cy \in Int /\ <<cx, cy>> \in S
    BY <1>1, <1>3
  <2> QED BY <1>1, <1>3, <1>4, <2>1, RowSpreads
<1>6. ASSUME NEW x \in x0 .. x1 PROVE \A y \in y0 .. y1 : <<x, y>> \in S
  <2>1. x \in Int /\ <<x, cy>> \in S /\ \A y \in y0 .. y1 : is_walkable(tiles, <<x, y>>)
    BY <1>1, <1>4, <1>5
  <2> QED BY <1>1, <1>3, <2>1, ColumnSpreads
<1> QED BY <1>2, <1>6
\* A straight tunnel leads from one end to the other.
LEMMA TunnelLeads ==
  ASSUME NEW S, Closed(S), NEW m \in Int, NEW n \in Int, NEW z \in Int
  PROVE  /\ <<m, z>> \in S /\ (\A c \in h_tunnel(m, n, z) : is_walkable(tiles, c))
              => <<n, z>> \in S
         /\ <<z, m>> \in S /\ (\A c \in v_tunnel(m, n, z) : is_walkable(tiles, c))
              => <<z, n>> \in S
<1>1. PICK a \in Int, b \in Int : Between(m, n) = a .. b /\ m \in a .. b /\ n \in a .. b
  BY DEF Between
<1>2. ASSUME <<m, z>> \in S, \A c \in h_tunnel(m, n, z) : is_walkable(tiles, c)
      PROVE  <<n, z>> \in S
  <2>1. \A x \in a .. b : <<x, z>> \in h_tunnel(m, n, z)
    BY <1>1 DEF h_tunnel
  <2>2. \A x \in a .. b : is_walkable(tiles, <<x, z>>)
    BY <1>2, <2>1
  <2>3. \A x \in a .. b : <<x, z>> \in S
    BY <1>1, <1>2, <2>2, RowSpreads
  <2> QED BY <1>1, <2>3
<1>3. ASSUME <<z, m>> \in S, \A c \in v_tunnel(m, n, z) : is_walkable(tiles, c)
      PROVE  <<z, n>> \in S
  <2>1. \A y \in a .. b : <<z, y>> \in v_tunnel(m, n, z)
    BY <1>1 DEF v_tunnel
  <2>2. \A y \in a .. b : is_walkable(tiles, <<z, y>>)
    BY <1>3, <2>1
  <2>3. \A y \in a .. b : <<z, y>> \in S
    BY <1>1, <1>3, <2>2, ColumnSpreads
  <2> QED BY <1>1, <2>3
<1> QED BY <1>2, <1>3

\* A door that opens one step straight out.
Opens(d) ==
  /\ d.wall \in Int \X Int
  /\ d.out[1] \in -1 .. 1 /\ d.out[2] \in -1 .. 1

LEMMA OutsideSteps ==
  ASSUME NEW d, Opens(d)
  PROVE  /\ Outside(d, 1) \in Around(d.wall) /\ d.wall \in Around(Outside(d, 1))
         /\ Outside(d, 2) \in Around(Outside(d, 1))
         /\ Outside(d, 1) \in Around(Outside(d, 2))
         /\ Outside(d, 2)[1] \in Int /\ Outside(d, 2)[2] \in Int
         /\ Outside(d, 2) = <<Outside(d, 2)[1], Outside(d, 2)[2]>>
<1>1. PICK x \in Int, y \in Int : d.wall = <<x, y>>
  BY DEF Opens
<1>2. PICK u \in -1 .. 1, v \in -1 .. 1 : d.out[1] = u /\ d.out[2] = v
  BY DEF Opens
<1>3. Outside(d, 1) = <<x + u, y + v>> /\ Outside(d, 2) = <<x + 2 * u, y + 2 * v>>
  BY <1>1, <1>2 DEF Outside
<1>4. /\ x + u \in x - 1 .. x + 1 /\ y + v \in y - 1 .. y + 1
      /\ x \in (x + u) - 1 .. (x + u) + 1 /\ y \in (y + v) - 1 .. (y + v) + 1
      /\ x + 2 * u \in (x + u) - 1 .. (x + u) + 1
      /\ y + 2 * v \in (y + v) - 1 .. (y + v) + 1
      /\ x + u \in (x + 2 * u) - 1 .. (x + 2 * u) + 1
      /\ y + v \in (y + 2 * v) - 1 .. (y + 2 * v) + 1
      /\ x + 2 * u \in Int /\ y + 2 * v \in Int
  OBVIOUS
<1> QED BY <1>1, <1>3, <1>4 DEF Around

\* The door of a room towards another opens, and the floor lies behind it.
LEMMA DoorOpens ==
  ASSUME NEW r, Fits(r), NEW t, Fits(t), NEW d \in random_door_towards(r, t)
  PROVE  /\ Opens(d)
         /\ \E c \in Interior(r) : c \in Around(d.wall) /\ d.wall \in Around(c)
<1>1. r.x1 \in Int /\ r.x2 \in Int /\ r.y1 \in Int /\ r.y2 \in Int
  BY DEF Fits, RoomType
<1>2. /\ r.x1 + 1 \in Int /\ r.x1 + 1 < r.x2
      /\ r.y1 + 1 \in Int /\ r.y1 + 1 < r.y2
  BY <1>1 DEF Fits
<1>3. \A y \in rand_range_i32(r.y1 + 1, r.y2) : y \in r.y1 + 1 .. r.y2 - 1
  <2> SUFFICES ASSUME NEW y \in rand_range_i32(r.y1 + 1, r.y2)
               PROVE  y \in r.y1 + 1 .. r.y2 - 1
    OBVIOUS
  <2>1. y \in Int /\ r.y1 + 1 <= y /\ y < r.y2
    BY <1>1, <1>2, RangeBounds
  <2> QED BY <1>1, <2>1
<1>4. \A x \in rand_range_i32(r.x1 + 1, r.x2) : x \in r.x1 + 1 .. r.x2 - 1
  <2> SUFFICES ASSUME NEW x \in rand_range_i32(r.x1 + 1, r.x2)
               PROVE  x \in r.x1 + 1 .. r.x2 - 1
    OBVIOUS
  <2>1. x \in Int /\ r.x1 + 1 <= x /\ x < r.x2
    BY <1>1, <1>2, RangeBounds
  <2> QED BY <1>1, <2>1
<1>5. \/ \E y \in r.y1 + 1 .. r.y2 - 1, s \in {1, -1} :
           d.wall = <<IF s = 1 THEN r.x2 ELSE r.x1, y>> /\ d.out = <<s, 0>>
      \/ \E x \in r.x1 + 1 .. r.x2 - 1, s \in {1, -1} :
           d.wall = <<x, IF s = 1 THEN r.y2 ELSE r.y1>> /\ d.out = <<0, s>>
  BY <1>3, <1>4 DEF random_door_towards
<1>6. CASE \E y \in r.y1 + 1 .. r.y2 - 1, s \in {1, -1} :
             d.wall = <<IF s = 1 THEN r.x2 ELSE r.x1, y>> /\ d.out = <<s, 0>>
  <2>1. PICK y \in r.y1 + 1 .. r.y2 - 1, s \in {1, -1} :
               d.wall = <<IF s = 1 THEN r.x2 ELSE r.x1, y>> /\ d.out = <<s, 0>>
    BY <1>6
  <2> DEFINE x == IF s = 1 THEN r.x2 ELSE r.x1
             z == IF s = 1 THEN r.x2 - 1 ELSE r.x1 + 1
  <2>2. x \in Int /\ y \in Int /\ s \in -1 .. 1 /\ z \in r.x1 + 1 .. r.x2 - 1
        /\ z \in x - 1 .. x + 1 /\ x \in z - 1 .. z + 1
    BY <1>1, <1>2
  <2>3. d.wall = <<x, y>> /\ d.out[1] = s /\ d.out[2] = 0
    BY <2>1
  <2> HIDE DEF x, z
  <2>4. y \in y - 1 .. y + 1
    BY <2>2
  <2>5. <<z, y>> \in Interior(r) /\ <<z, y>> \in Around(d.wall) /\ d.wall \in Around(<<z, y>>)
    BY <2>2, <2>3, <2>4 DEF Interior, Around
  <2> QED BY <2>2, <2>3, <2>5 DEF Opens
<1>7. CASE \E x \in r.x1 + 1 .. r.x2 - 1, s \in {1, -1} :
             d.wall = <<x, IF s = 1 THEN r.y2 ELSE r.y1>> /\ d.out = <<0, s>>
  <2>1. PICK x \in r.x1 + 1 .. r.x2 - 1, s \in {1, -1} :
               d.wall = <<x, IF s = 1 THEN r.y2 ELSE r.y1>> /\ d.out = <<0, s>>
    BY <1>7
  <2> DEFINE y == IF s = 1 THEN r.y2 ELSE r.y1
             z == IF s = 1 THEN r.y2 - 1 ELSE r.y1 + 1
  <2>2. x \in Int /\ y \in Int /\ s \in -1 .. 1 /\ z \in r.y1 + 1 .. r.y2 - 1
        /\ z \in y - 1 .. y + 1 /\ y \in z - 1 .. z + 1
    BY <1>1, <1>2
  <2>3. d.wall = <<x, y>> /\ d.out[1] = 0 /\ d.out[2] = s
    BY <2>1
  <2> HIDE DEF y, z
  <2>4. x \in x - 1 .. x + 1
    BY <2>2
  <2>5. <<x, z>> \in Interior(r) /\ <<x, z>> \in Around(d.wall) /\ d.wall \in Around(<<x, z>>)
    BY <2>2, <2>3, <2>4 DEF Interior, Around
  <2> QED BY <2>2, <2>3, <2>5 DEF Opens
<1> QED BY <1>5, <1>6, <1>7

\* An L leads from one end to the other.
LEMMA PathLeads ==
  ASSUME NEW S, Closed(S), NEW a, Opens(a), NEW b, Opens(b), NEW h \in BOOLEAN,
         \A c \in {a.wall, b.wall} \cup LinkPath(a, b, h) : is_walkable(tiles, c),
         a.wall \in S
  PROVE  b.wall \in S
<1> DEFINE px == Outside(a, 2)[1]
           py == Outside(a, 2)[2]
           qx == Outside(b, 2)[1]
           qy == Outside(b, 2)[2]
<1>1. /\ Outside(a, 1) \in Around(a.wall)
      /\ Outside(a, 2) \in Around(Outside(a, 1))
      /\ Outside(b, 1) \in Around(Outside(b, 2))
      /\ b.wall \in Around(Outside(b, 1))
  BY OutsideSteps
<1>2. /\ px \in Int /\ py \in Int /\ qx \in Int /\ qy \in Int
      /\ Outside(a, 2) = <<px, py>> /\ Outside(b, 2) = <<qx, qy>>
  BY OutsideSteps
<1>3. LinkPath(a, b, h) =
        {Outside(a, 1), Outside(b, 1)} \cup
        IF h THEN h_tunnel(px, qx, py) \cup v_tunnel(py, qy, qx)
        ELSE v_tunnel(py, qy, px) \cup h_tunnel(px, qx, qy)
  BY DEF LinkPath
<1> HIDE DEF px, py, qx, qy
<1>4. /\ <<px, py>> \in h_tunnel(px, qx, py) /\ <<qx, qy>> \in v_tunnel(py, qy, qx)
      /\ <<px, py>> \in v_tunnel(py, qy, px) /\ <<qx, qy>> \in h_tunnel(px, qx, qy)
  BY <1>2 DEF h_tunnel, v_tunnel, Between
<1>5. <<px, py>> \in S
  <2>1. Outside(a, 1) \in S
    BY <1>1, <1>3 DEF Closed
  <2>2. is_walkable(tiles, <<px, py>>)
    BY <1>3, <1>4
  <2> QED BY <1>1, <1>2, <2>1, <2>2 DEF Closed
<1>6. <<qx, qy>> \in S
  <2>1. CASE h
    <3>1. /\ \A c \in h_tunnel(px, qx, py) : is_walkable(tiles, c)
          /\ \A c \in v_tunnel(py, qy, qx) : is_walkable(tiles, c)
      BY <1>3, <2>1
    <3>2. <<qx, py>> \in S
      BY <1>2, <1>5, <3>1, TunnelLeads
    <3> QED BY <1>2, <3>1, <3>2, TunnelLeads
  <2>2. CASE ~h
    <3>1. /\ \A c \in v_tunnel(py, qy, px) : is_walkable(tiles, c)
          /\ \A c \in h_tunnel(px, qx, qy) : is_walkable(tiles, c)
      BY <1>3, <2>2
    <3>2. <<px, qy>> \in S
      BY <1>2, <1>5, <3>1, TunnelLeads
    <3> QED BY <1>2, <3>1, <3>2, TunnelLeads
  <2> QED BY <2>1, <2>2
<1>7. Outside(b, 1) \in S
  BY <1>1, <1>2, <1>3, <1>6 DEF Closed
<1> QED BY <1>1, <1>7 DEF Closed

\* The L is also one from its other end to this one, with the other coin.
LEMMA PathReversed ==
  ASSUME NEW a, Opens(a), NEW b, Opens(b), NEW h \in BOOLEAN
  PROVE  \E g \in BOOLEAN : LinkPath(b, a, g) = LinkPath(a, b, h)
<1>1. \A m, n \in Int : Between(m, n) = Between(n, m)
  BY DEF Between
<1>2. /\ Outside(a, 2)[1] \in Int /\ Outside(a, 2)[2] \in Int
      /\ Outside(b, 2)[1] \in Int /\ Outside(b, 2)[2] \in Int
  BY OutsideSteps
<1>3. /\ LinkPath(b, a, FALSE) = LinkPath(a, b, TRUE)
      /\ LinkPath(b, a, TRUE) = LinkPath(a, b, FALSE)
  BY <1>1, <1>2 DEF LinkPath, h_tunnel, v_tunnel
<1> QED BY <1>3

-----------------------------------------------------------------------------
(* Every link runs between the two rooms it was chosen for.                *)

DoorsFit ==
  \A i \in DOMAIN links :
    LET a == rooms[used[i][1]]
        b == rooms[used[i][2]]
    IN  /\ links[i].a \in random_door_towards(a, b)
        /\ links[i].b \in random_door_towards(b, a)

\* Once all links are dug they join all rooms.
WallsLinked ==
  pc = "walls" =>
    /\ Len(links) = Len(used)
    /\ \A S \in SUBSET RoomIds : NoWayOut(S) => S = {} \/ S = RoomIds

WayInv == DoorsFit /\ WallsLinked

LEMMA WayInit == Init => WayInv
BY DEF Init, WayInv, DoorsFit, WallsLinked

\* Steps that dig no link and do not finish the digging.
LEMMA WayIdle ==
  ASSUME WayInv, links' = links, pc' # "walls",
         links = <<>> \/ UNCHANGED <<used, rooms>>
  PROVE  WayInv'
<1>1. DoorsFit'
  BY DEF WayInv, DoorsFit
<1> QED BY <1>1 DEF WayInv, WallsLinked

LEMMA WayCarve ==
  ASSUME GenInv, WayInv, CarveLink
  PROVE  WayInv'
<1> DEFINE a == rooms[used[k][1]]
           b == rooms[used[k][2]]
           Link == [a : Door, b : Door, h : BOOLEAN]
<1>1. PICK a_door \in random_door_towards(a, b),
           b_door \in random_door_towards(b, a),
           h_first \in {d % 2 = 0 : d \in Draws} :
        links' = Append(links, [a |-> a_door, b |-> b_door, h |-> h_first])
  BY DEF CarveLink
<1> DEFINE l == [a |-> a_door, b |-> b_door, h |-> h_first]
<1>2. pc = "carve" /\ pc' = pc /\ rooms' = rooms /\ used' = used /\ k \in DOMAIN used
  BY DEF CarveLink
<1>3. Fits(a) /\ Fits(b)
  BY <1>2 DEF GenInv, RoomsInv, TypeOK
<1>4. l \in Link
  <2> HIDE DEF a, b
  <2> QED BY <1>3, DoorType
<1>5. links \in Seq(Link) /\ k = Len(links) + 1
  BY <1>2 DEF GenInv, TypeOK, LoopInv
<1>6. l.a = a_door /\ l.b = b_door
  OBVIOUS
<1>7. /\ DOMAIN links' = 1 .. k /\ DOMAIN links = 1 .. k - 1 /\ k \in Nat
      /\ \A i \in DOMAIN links : links'[i] = links[i]
      /\ links'[k] = l
  <2>1. links' = Append(links, l)
    BY <1>1
  <2> HIDE DEF l, Link
  <2>2. /\ DOMAIN links' = 1 .. Len(links) + 1 /\ DOMAIN links = 1 .. Len(links)
        /\ \A i \in DOMAIN links : links'[i] = links[i]
        /\ links'[Len(links) + 1] = l
        /\ Len(links) \in Nat
    BY <1>4, <1>5, <2>1
  <2> QED BY <1>5, <2>2
<1>8. DoorsFit'
  <2> SUFFICES ASSUME NEW i \in DOMAIN links'
               PROVE  /\ links'[i].a \in random_door_towards(rooms[used[i][1]],
                                                             rooms[used[i][2]])
                      /\ links'[i].b \in random_door_towards(rooms[used[i][2]],
                                                             rooms[used[i][1]])
    BY <1>2 DEF DoorsFit
  <2>1. CASE i \in DOMAIN links
    BY <1>7, <2>1 DEF WayInv, DoorsFit
  <2>2. CASE i \notin DOMAIN links
    <3>1. i = k
      BY <1>7, <2>2
    <3> QED BY <1>1, <1>6, <1>7, <3>1
  <2> QED BY <2>1, <2>2
<1> QED BY <1>2, <1>8 DEF WayInv, WallsLinked

\* The last link has been dug.
LEMMA WayDug ==
  ASSUME GenInv, LinkInv, WayInv, pc = "carve", k \notin DOMAIN used, Enter("walls", k)
  PROVE  WayInv'
<1>1. UNCHANGED <<rooms, used, links>> /\ RoomIds' = RoomIds
  BY DEF Enter, links_vars, RoomIds
<1>2. Len(links) = Len(used)
  <2>1. /\ k = Len(links) + 1 /\ Len(links) \in Nat /\ Len(used) \in Nat
        /\ Len(links) <= Len(used) /\ DOMAIN used = 1 .. Len(used)
    BY DEF GenInv, TypeOK, LoopInv
  <2> QED BY <2>1
<1>3. \A S \in SUBSET RoomIds : NoWayOut(S) => S = {} \/ S = RoomIds
  BY DEF LinkInv, AllLinked
<1> QED BY <1>1, <1>2, <1>3 DEF WayInv, DoorsFit, WallsLinked, NoWayOut

\* A single room needs no link.
LEMMA WayFallback ==
  ASSUME GenInv, WayInv, FallbackRoom
  PROVE  WayInv'
<1>1. /\ pc = "rooms" /\ rooms' = <<Fallback>> /\ used' = <<>> /\ links' = <<>>
  BY DEF FallbackRoom, GenInv, LoopInv, links_vars, Digging
<1>2. RoomIds' = {1}
  BY <1>1 DEF RoomIds
<1>3. DoorsFit'
  BY <1>1 DEF DoorsFit
<1>4. Len(links') = Len(used')
  BY <1>1
<1>5. \A S \in SUBSET RoomIds' : S = {} \/ S = RoomIds'
  BY <1>2
<1> QED BY <1>3, <1>4, <1>5 DEF WayInv, WallsLinked

LEMMA WayStep == GenInv /\ LinkInv /\ WayInv /\ [Next]_gen_vars => WayInv'
<1> SUFFICES ASSUME GenInv, LinkInv, WayInv, [Next]_gen_vars PROVE WayInv'
  OBVIOUS
<1>1. CASE \/ SkipSlot \/ PlaceRoom \/ StartEdges \/ CollectEdges \/ ShuffleEdge
           \/ StartSpan \/ SpanEdge \/ Bridge \/ ExtraEdge
  <2>1. pc \in Digging /\ pc' # "walls" /\ links' = links
    BY <1>1 DEF SkipSlot, PlaceRoom, StartEdges, CollectEdges, ShuffleEdge,
         StartSpan, SpanEdge, Bridge, ExtraEdge, AtSlot, Digging, links_vars
  <2>2. links = <<>>
    BY <2>1 DEF GenInv, LoopInv
  <2> QED BY <2>1, <2>2, WayIdle
<1>2. CASE FallbackRoom
  BY <1>2, WayFallback
<1>3. CASE CarveLink
  BY <1>3, WayCarve
<1>4. CASE AddWalls \/ SpawnMonster
  <2>1. pc' # "walls" /\ UNCHANGED <<links, used, rooms>>
    BY <1>4 DEF AddWalls, SpawnMonster, links_vars
  <2> QED BY <2>1, WayIdle
<1>5. CASE LoopEnds
  <2>1. CASE pc = "carve" /\ k \notin DOMAIN used /\ Enter("walls", k)
    BY <2>1, WayDug
  <2>2. CASE \/ Enter("shuffle", Len(edges)) \/ Enter("bridge", k) \/ Enter("extra", 1)
             \/ Enter("carve", 1) \/ Enter("done", k)
    <3>1. pc' # "walls" /\ UNCHANGED <<links, used, rooms>>
      BY <2>2 DEF Enter, links_vars
    <3> QED BY <3>1, WayIdle
  <2> QED BY <1>5, <2>1, <2>2 DEF LoopEnds
<1>6. CASE UNCHANGED gen_vars
  <2>1. UNCHANGED <<pc, links, used, rooms>> /\ RoomIds' = RoomIds
    BY <1>6 DEF gen_vars, links_vars, RoomIds
  <2> QED BY <2>1 DEF WayInv, DoorsFit, WallsLinked, NoWayOut
<1> QED BY <1>1, <1>2, <1>3, <1>4, <1>5, <1>6 DEF Next

LEMMA WayInvariant == Spec => []WayInv
BY GenInvariant, LinkInvariant, WayInit, WayStep, PTL DEF Spec

-----------------------------------------------------------------------------

\* An open link leads from the floor of its first room to that of its second,
\* and the other way round.
LEMMA LinkLeads ==
  ASSUME NEW S, Closed(S), NEW r, Fits(r), NEW t, Fits(t),
         NEW a \in random_door_towards(r, t), NEW b \in random_door_towards(t, r),
         NEW h \in BOOLEAN,
         \A c \in {a.wall, b.wall} \cup LinkPath(a, b, h) : is_walkable(tiles, c),
         \A c \in Interior(t) : is_walkable(tiles, c),
         Interior(r) \subseteq S
  PROVE  Interior(t) \subseteq S
<1>1. Opens(a) /\ Opens(b)
  BY DoorOpens
<1>2. PICK c \in Interior(r) : a.wall \in Around(c)
  BY DoorOpens
<1>3. PICK d \in Interior(t) : d \in Around(b.wall)
  BY DoorOpens
<1>4. a.wall \in S
  BY <1>2 DEF Closed
<1>5. b.wall \in S
  BY <1>1, <1>4, PathLeads
<1>6. d \in S
  BY <1>3, <1>5 DEF Closed
<1> QED BY <1>6, RoomSpreads

LEMMA AllReached ==
  ASSUME GenInv, MapInv, SpawnInv, WayInv, pc = "walls",
         \A i \in DOMAIN links : Unclipped(links[i])
  PROVE  \A i \in RoomIds : Interior(rooms[i]) \subseteq Reached
<1> DEFINE T == {i \in RoomIds : Interior(rooms[i]) \subseteq Reached}
<1>1. \A i \in RoomIds : \A c \in Interior(rooms[i]) : is_walkable(tiles, c)
  BY InteriorInside, TilesDiffer
     DEF GenInv, RoomsInv, MapInv, FloorsOnly, is_walkable
<1>2. 1 \in RoomIds /\ Fits(rooms[1])
  BY DEF SpawnInv, GenInv, TypeOK, RoomsInv, RoomIds
<1>3. dungeon.start = center(rooms[1]) /\ dungeon.start \in Cells
  BY <1>2, CenterInside, InteriorInside DEF dungeon
<1>4. dungeon.start \in Reached /\ Closed(Reached)
  BY <1>3, ReachedCloses DEF Closed
<1>5. 1 \in T
  <2>1. center(rooms[1]) \in Interior(rooms[1])
    BY <1>2, CenterInside
  <2>2. Interior(rooms[1]) \subseteq Reached
    BY <1>1, <1>2, <1>3, <1>4, <2>1, RoomSpreads
  <2> QED BY <1>2, <2>2
<1>6. NoWayOut(T)
  <2> SUFFICES ASSUME NEW i \in DOMAIN used
               PROVE  used[i][1] \in T <=> used[i][2] \in T
    BY DEF NoWayOut
  <2> DEFINE r == rooms[used[i][1]]
             t == rooms[used[i][2]]
             a == links[i].a
             b == links[i].b
             h == links[i].h
  <2>1. used[i] \in RoomIds \X RoomIds
    BY DEF GenInv, TypeOK
  <2>2. Fits(r) /\ Fits(t)
    BY <2>1 DEF GenInv, RoomsInv
  <2>3. i \in DOMAIN links
    <3>1. Len(links) = Len(used) /\ DOMAIN used = 1 .. Len(used)
          /\ DOMAIN links = 1 .. Len(links)
      BY DEF WayInv, WallsLinked, GenInv, TypeOK
    <3> QED BY <3>1
  <2>4. a \in random_door_towards(r, t) /\ b \in random_door_towards(t, r)
    BY <2>3 DEF WayInv, DoorsFit
  <2>5. h \in BOOLEAN
    <3> DEFINE Link == [a : Door, b : Door, h : BOOLEAN]
    <3>1. links \in Seq(Link)
      BY DEF GenInv, TypeOK
    <3>2. links[i] \in Link
      <4> HIDE DEF Link
      <4> QED BY <2>3, <3>1
    <3> QED BY <3>2
  <2>6. \A c \in {a.wall, b.wall} \cup LinkPath(a, b, h) : is_walkable(tiles, c)
    <3>1. Way(links[i]) \subseteq Diggable /\ Way(links[i]) \subseteq Cells
      BY <2>3, DiggableOnMap DEF Unclipped
    <3>2. \A c \in Way(links[i]) : tiles[c] \in Walkable
      BY <2>3, <3>1 DEF MapInv, LinksStayOpen
    <3> QED BY <3>1, <3>2 DEF Way, is_walkable
  <2>7. /\ \A c \in Interior(r) : is_walkable(tiles, c)
        /\ \A c \in Interior(t) : is_walkable(tiles, c)
    BY <1>1, <2>1
  <2>8. \E g \in BOOLEAN :
          \A c \in {b.wall, a.wall} \cup LinkPath(b, a, g) : is_walkable(tiles, c)
    <3>1. Opens(a) /\ Opens(b)
      BY <2>2, <2>4, DoorOpens
    <3>2. PICK g \in BOOLEAN : LinkPath(b, a, g) = LinkPath(a, b, h)
      BY <2>5, <3>1, PathReversed
    <3> HIDE DEF a, b, h
    <3> QED BY <2>6, <3>2
  <2> HIDE DEF r, t, a, b, h
  <2>9. Interior(r) \subseteq Reached => Interior(t) \subseteq Reached
    BY <1>4, <2>2, <2>4, <2>5, <2>6, <2>7, LinkLeads
  <2>10. Interior(t) \subseteq Reached => Interior(r) \subseteq Reached
    BY <1>4, <2>2, <2>4, <2>7, <2>8, LinkLeads
  <2> QED BY <2>1, <2>9, <2>10 DEF r, t
<1>7. T = RoomIds
  <2>1. T \in SUBSET RoomIds /\ T # {}
    BY <1>5
  <2> HIDE DEF T
  <2> QED BY <1>6, <2>1 DEF WayInv, WallsLinked
<1> QED BY <1>7

\* On every map of every size, whatever is drawn: if the border of the map
\* cuts no link off, the player can walk from the start to every cell of
\* every room (connect_room_grid, carve_room_link; the code promises it of
\* all maps, which the run gen_cut_off refutes).
THEOREM GenUnclippedReachable == Spec => []UnclippedReachable
<1>1. GenInv /\ MapInv /\ SpawnInv /\ WayInv => UnclippedReachable
  BY AllReached DEF UnclippedReachable, AllRoomsReachable
<1> QED BY <1>1, GenInvariant, MapInvariant, SpawnInvariant, WayInvariant, PTL
=============================================================================
