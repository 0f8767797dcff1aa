------------------------------- MODULE Rooms -------------------------------
(***************************************************************************)
(* Rooms and what is dug between them: the geometry of Room, the doors a   *)
(* link may choose, and the three rules by which a tile is overwritten.    *)
(* A room's x1, y1, x2, y2 are its walls; the floor lies strictly inside.  *)
(***************************************************************************)
EXTENDS Tiles, FiniteSets

CONSTANT Draws   \* the values next_u32 may return

ASSUME DrawsAssumption == Draws # {} /\ Draws \subseteq Nat

Abs(n) == IF n < 0 THEN -n ELSE n

\* Mutant: the upper end is included.
rand_range_inclusive(min, max) == {min + (d % (max - min + 1)) : d \in Draws}

\* rand_range_i32(min, max): every value the draws can give.
rand_range_i32(min, max) == {min + (d % (max - min)) : d \in Draws}

\* The outcomes of (next_u32() % 100) < percent.
chance(percent) == {(d % 100) < percent : d \in Draws}

Room(x, y, w, h) == [x1 |-> x, y1 |-> y, x2 |-> x + w, y2 |-> y + h]

center(r) == <<(r.x1 + r.x2) \div 2, (r.y1 + r.y2) \div 2>>

intersects_with_gap(r, other, gap) ==
  /\ r.x1 <= other.x2 + gap
  /\ r.x2 >= other.x1 - gap
  /\ r.y1 <= other.y2 + gap
  /\ r.y2 >= other.y1 - gap

room_center_distance(a, b) ==
  Abs(center(a)[1] - center(b)[1]) + Abs(center(a)[2] - center(b)[2])

Interior(r) == (r.x1 + 1 .. r.x2 - 1) \X (r.y1 + 1 .. r.y2 - 1)

Perimeter(r) == ((r.x1 .. r.x2) \X (r.y1 .. r.y2)) \ Interior(r)

Door == [wall : Int \X Int, out : Int \X Int]

(***************************************************************************)
(* The doors random_door_towards may return: on the wall that faces the    *)
(* target along the longer axis, out pointing away from the room.          *)
(***************************************************************************)
random_door_towards(r, target) ==
  LET dx == center(target)[1] - center(r)[1]
      dy == center(target)[2] - center(r)[2]
  IN  IF Abs(dx) >= Abs(dy)
      THEN {[wall |-> <<IF dx >= 0 THEN r.x2 ELSE r.x1, y>>,
             out  |-> <<IF dx >= 0 THEN 1 ELSE -1, 0>>] :
               y \in rand_range_i32(r.y1 + 1, r.y2)}
      ELSE {[wall |-> <<x, IF dy >= 0 THEN r.y2 ELSE r.y1>>,
             out  |-> <<0, IF dy >= 0 THEN 1 ELSE -1>>] :
               x \in rand_range_i32(r.x1 + 1, r.x2)}

\* The cell n steps outside a door.
Outside(door, n) ==
  <<door.wall[1] + n * door.out[1], door.wall[2] + n * door.out[2]>>

-----------------------------------------------------------------------------
(* Digging.  Each rule leaves the border of the map alone.                 *)

Diggable == (1 .. W - 2) \X (1 .. H - 2)

set_room_floor(tiles, cells) ==
  [c \in Cells |-> IF c \in cells \cap Diggable THEN ROOM ELSE tiles[c]]

\* Mutant: whatever was there is dug up.
set_corridor_anywhere(tiles, cells) ==
  [c \in Cells |-> IF c \in cells \cap Diggable THEN CORRIDOR ELSE tiles[c]]

set_corridor_floor(tiles, cells) ==
  [c \in Cells |->
     IF c \in cells \cap Diggable /\ tiles[c] = ROCK THEN CORRIDOR
     ELSE tiles[c]]

set_door_tile(tiles, cells) ==
  [c \in Cells |->
     IF c \in cells \cap Diggable /\ tiles[c] \in {ROCK, WALL} THEN DOOR
     ELSE tiles[c]]

carve_room(tiles, r) == set_room_floor(tiles, Interior(r))

Between(m, n) == IF m < n THEN m .. n ELSE n .. m

h_tunnel(x1, x2, y) == Between(x1, x2) \X {y}
v_tunnel(y1, y2, x) == {x} \X Between(y1, y2)

\* Mutant: the knee of the L is where neither leg goes.
PathWithoutKnee(a_door, b_door, h_first) ==
  LET p == Outside(a_door, 2)
      q == Outside(b_door, 2)
  IN  {Outside(a_door, 1), Outside(b_door, 1)} \cup
      h_tunnel(p[1], q[1], p[2]) \cup v_tunnel(p[2], q[2], p[1])

(***************************************************************************)
(* The cells a link digs as corridor: one and two steps outside each door, *)
(* then an L between the outer two, its knee chosen by the coin.           *)
(***************************************************************************)
LinkPath(a_door, b_door, h_first) ==
  LET p == Outside(a_door, 2)
      q == Outside(b_door, 2)
  IN  {Outside(a_door, 1), Outside(b_door, 1)} \cup
      IF h_first THEN h_tunnel(p[1], q[1], p[2]) \cup v_tunnel(p[2], q[2], q[1])
      ELSE v_tunnel(p[2], q[2], p[1]) \cup h_tunnel(p[1], q[1], q[2])

carve_room_link(tiles, a_door, b_door, h_first) ==
  set_corridor_floor(set_door_tile(tiles, {a_door.wall, b_door.wall}),
                     LinkPath(a_door, b_door, h_first))

Around(c) == (c[1] - 1 .. c[1] + 1) \X (c[2] - 1 .. c[2] + 1)

\* Mutants: walls are put over corridors; corners are forgotten.
wall_over_corridors(tiles) ==
  [c \in Cells |->
     IF /\ tiles[c] \in {ROCK, CORRIDOR}
        /\ \E n \in Around(c) \cap Diggable : tiles[n] = ROOM
     THEN WALL ELSE tiles[c]]
walls_without_corners(tiles) ==
  [c \in Cells |->
     IF /\ tiles[c] = ROCK
        /\ \E n \in Around(c) \cap Diggable :
             tiles[n] = ROOM /\ (n[1] = c[1] \/ n[2] = c[2])
     THEN WALL ELSE tiles[c]]

\* Rock next to the floor of a room becomes wall; corridors stay bare.
add_walls_around_open_tiles(tiles) ==
  [c \in Cells |->
     IF /\ tiles[c] = ROCK
        /\ \E n \in Around(c) \cap Diggable : tiles[n] = ROOM
     THEN WALL ELSE tiles[c]]
=============================================================================
