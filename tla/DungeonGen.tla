----------------------------- MODULE DungeonGen -----------------------------
(***************************************************************************)
(* DungeonState::new_with_seed: how a dungeon is made.  One action per     *)
(* iteration of each of the generator's loops, in the order of the code:   *)
(*                                                                         *)
(*   rooms -> collect -> shuffle -> span -> bridge -> extra -> carve       *)
(*     \-> (no room: one fallback room) -------> walls <-----/             *)
(*                                                |                        *)
(*                                                \-> spawn -> done        *)
(*                                                                         *)
(* Rooms, edges and links are counted from 1; a slot of the grid is the    *)
(* pair <<gx, gy>>.  The union-find structure is kept as the labels that   *)
(* UnionFind is shown to implement.                                        *)
(***************************************************************************)
EXTENDS Rooms, SequencesExt

CONSTANTS
  GRID_W, GRID_H,          \* 3 x 3 as shipped
  MIN_ROOM_W, MIN_ROOM_H   \* 4 and 3

\* The least sizes for which no span of a random range is empty.
ASSUME GridAssumption ==
  /\ GRID_W \in Nat \ {0} /\ GRID_H \in Nat \ {0}
  /\ MIN_ROOM_W \in Nat /\ MIN_ROOM_W >= 2
  /\ MIN_ROOM_H \in Nat /\ MIN_ROOM_H >= 2
  /\ W \div GRID_W >= MIN_ROOM_W + 2
  /\ H \div GRID_H >= MIN_ROOM_H + 2
  /\ W >= 10 /\ H >= 8

VARIABLES
  pc,          \* the loop being run
  gx, gy,      \* the slot the loops over the grid are at
  k,           \* the counter of the other loops
  tiles,
  rooms,       \* sequence of rooms
  grid_slots,  \* slot -> its room, 0 when the slot is empty
  edges,       \* pairs of neighbouring rooms
  label,       \* the union-find structure
  used,        \* the pairs to be linked
  links,       \* the doors and the coin of every link dug so far
  spawns       \* the cells of the monsters

links_vars == <<edges, label, used, links>>
gen_vars == <<pc, gx, gy, k, tiles, rooms, grid_slots, links_vars, spawns>>

Slots == (0 .. GRID_W - 1) \X (0 .. GRID_H - 1)

slot == <<gx, gy>>
RightOf(s) == <<s[1] + 1, s[2]>>
BelowOf(s) == <<s[1], s[2] + 1>>

cell_w == W \div GRID_W
cell_h == H \div GRID_H

RoomIds == DOMAIN rooms

\* The part of the map slot s may build in.
Region(s) ==
  [x0 |-> s[1] * cell_w + 1,
   y0 |-> s[2] * cell_h + 1,
   x1 |-> IF s[1] = GRID_W - 1 THEN W - 2 ELSE (s[1] + 1) * cell_w - 2,
   y1 |-> IF s[2] = GRID_H - 1 THEN H - 2 ELSE (s[2] + 1) * cell_h - 2]

AtLeast(n, least) == IF n > least THEN n ELSE least

\* Every room the draws can make in region g.
RoomsIn(g) ==
  UNION {{Room(x, y, w, h) : x \in rand_range_i32(g.x0, g.x1 - w + 2),
                             y \in rand_range_i32(g.y0, g.y1 - h + 2)} :
           w \in rand_range_i32(MIN_ROOM_W,
                                AtLeast(g.x1 - g.x0 - 1, MIN_ROOM_W) + 1),
           h \in rand_range_i32(MIN_ROOM_H,
                                AtLeast(g.y1 - g.y0 - 1, MIN_ROOM_H) + 1)}

Fallback == Room(W \div 2 - 4, H \div 2 - 3, 8, 6)

\* Mutant: the slot is not looked at.
AnySlot(s) == TRUE

HasRoom(s) == grid_slots[s] # 0

\* The edge between the rooms of slots s and t, if both have one.
EdgeBetween(s, t) ==
  IF t \in Slots /\ HasRoom(s) /\ HasRoom(t)
  THEN <<<<grid_slots[s], grid_slots[t]>>>> ELSE <<>>

\* Mutant: the item changes hands and its class does not follow.
RelabelOne(l, a, b) == [l EXCEPT ![b] = l[a]]

\* UnionFind::union as Labels promises it; which of the two labels survives
\* is never looked at.
Relabel(l, a, b) == [r \in DOMAIN l |-> IF l[r] = l[b] THEN l[a] ELSE l[r]]

\* Mutant: the last room is left out.
all_but_last_connected ==
  \A r \in RoomIds \ {Len(rooms)} : label[r] = label[1]

all_rooms_connected == \A r \in RoomIds : label[r] = label[1]

Distance(p) == room_center_distance(rooms[p[1]], rooms[p[2]])

\* The pairs of rooms in different components.
SplitPairs ==
  {p \in RoomIds \X RoomIds : p[1] < p[2] /\ label[p[1]] # label[p[2]]}

\* The pair the scan keeps: the first among those of least distance.
BestPair ==
  LET before(p, q) == p[1] < q[1] \/ (p[1] = q[1] /\ p[2] <= q[2])
  IN  CHOOSE p \in SplitPairs : \A q \in SplitPairs :
        \/ Distance(p) < Distance(q)
        \/ Distance(p) = Distance(q) /\ before(p, q)

\* Mutant: only the link added last is compared.
LinkedJustNow(a, b) == used # <<>> /\ Last(used) \in {<<a, b>>, <<b, a>>}

Linked(a, b) == \E i \in DOMAIN used : used[i] \in {<<a, b>>, <<b, a>>}

-----------------------------------------------------------------------------

Init ==
  /\ pc = "rooms"
  /\ gx = 0 /\ gy = 0
  /\ k = 0
  /\ tiles = [c \in Cells |-> ROCK]
  /\ rooms = <<>>
  /\ grid_slots = [s \in Slots |-> 0]
  /\ edges = <<>>
  /\ label = <<>>
  /\ used = <<>>
  /\ links = <<>>
  /\ spawns = <<>>

\* The loops over the grid go row by row.
AtSlot(loop) == pc = loop /\ slot \in Slots

ToNextSlot ==
  IF gx + 1 < GRID_W THEN gx' = gx + 1 /\ UNCHANGED gy
  ELSE gx' = 0 /\ gy' = gy + 1

\* Some slots stay empty.
SkipSlot ==
  /\ AtSlot("rooms")
  /\ TRUE \in chance(28)
  /\ ToNextSlot
  /\ UNCHANGED <<pc, k, tiles, rooms, grid_slots, links_vars, spawns>>

\* A room that came too close to an earlier one is dropped.
PlaceRoom ==
  /\ AtSlot("rooms")
  /\ FALSE \in chance(28)
  /\ \E room \in RoomsIn(Region(slot)) :
       IF \E i \in RoomIds : intersects_with_gap(room, rooms[i], 1)
       THEN UNCHANGED <<tiles, rooms, grid_slots>>
       ELSE /\ tiles' = carve_room(tiles, room)
            /\ rooms' = Append(rooms, room)
            /\ grid_slots' = [grid_slots EXCEPT ![slot] = Len(rooms) + 1]
  /\ ToNextSlot
  /\ UNCHANGED <<pc, k, links_vars, spawns>>

\* Ensure at least one room exists.
FallbackRoom ==
  /\ pc = "rooms" /\ slot \notin Slots
  /\ rooms = <<>>
  /\ tiles' = carve_room(tiles, Fallback)
  /\ rooms' = <<Fallback>>
  /\ pc' = "walls"
  /\ UNCHANGED <<gx, gy, k, grid_slots, links_vars, spawns>>

StartEdges ==
  /\ pc = "rooms" /\ slot \notin Slots
  /\ rooms # <<>>
  /\ pc' = "collect"
  /\ gx' = 0 /\ gy' = 0
  /\ UNCHANGED <<k, tiles, rooms, grid_slots, links_vars, spawns>>

\* The edge to the right, then the edge down.
CollectEdges ==
  /\ AtSlot("collect")
  /\ edges' = edges \o EdgeBetween(slot, RightOf(slot))
                  \o EdgeBetween(slot, BelowOf(slot))
  /\ ToNextSlot
  /\ UNCHANGED <<pc, k, tiles, rooms, grid_slots, label, used, links, spawns>>

\* Mutant: half a swap.
CopyOnly(s, i, j) == [s EXCEPT ![i] = s[j]]

Swap(s, i, j) == [s EXCEPT ![i] = s[j], ![j] = s[i]]

ShuffleEdge ==
  /\ pc = "shuffle" /\ k >= 2
  /\ \E j \in rand_range_i32(1, k + 1) : edges' = Swap(edges, k, j)
  /\ k' = k - 1
  /\ UNCHANGED <<pc, gx, gy, tiles, rooms, grid_slots, label, used, links, spawns>>

\* Control passes to loop q with its counter at n.
Enter(q, n) ==
  /\ pc' = q
  /\ k' = n
  /\ UNCHANGED <<gx, gy, tiles, rooms, grid_slots, links_vars, spawns>>

\* Every room starts as a class of its own.
StartSpan ==
  /\ pc = "shuffle" /\ k < 2
  /\ label' = [r \in RoomIds |-> r]
  /\ pc' = "span"
  /\ k' = 1
  /\ UNCHANGED <<gx, gy, tiles, rooms, grid_slots, edges, used, links, spawns>>

\* Mutant: the test of union is inverted, so a link between two components
\* joins nothing.
link_if_joined(a, b) ==
  IF label[a] = label[b]
  THEN label' = Relabel(label, a, b) /\ used' = Append(used, <<a, b>>)
  ELSE UNCHANGED <<label, used>>

\* A link is spent when union joins two components and reports it.
link_if_split(a, b) ==
  IF label[a] # label[b]
  THEN label' = Relabel(label, a, b) /\ used' = Append(used, <<a, b>>)
  ELSE UNCHANGED <<label, used>>

SpanEdge ==
  /\ pc = "span" /\ k \in DOMAIN edges
  /\ link_if_split(edges[k][1], edges[k][2])
  /\ k' = k + 1
  /\ UNCHANGED <<pc, gx, gy, tiles, rooms, grid_slots, edges, links, spawns>>

\* Bridge the nearest rooms of different components.
Bridge ==
  /\ pc = "bridge"
  /\ ~all_rooms_connected /\ SplitPairs # {}
  /\ link_if_split(BestPair[1], BestPair[2])
  /\ UNCHANGED <<pc, gx, gy, k, tiles, rooms, grid_slots, edges, links, spawns>>

\* An unused edge becomes an extra link three times in ten.
ExtraEdge ==
  /\ pc = "extra" /\ k \in DOMAIN edges
  /\ IF Linked(edges[k][1], edges[k][2]) THEN UNCHANGED used
     ELSE \E lucky \in chance(30) :
            used' = IF lucky THEN Append(used, edges[k]) ELSE used
  /\ k' = k + 1
  /\ UNCHANGED <<pc, gx, gy, tiles, rooms, grid_slots, edges, label, links,
                 spawns>>

CarveLink ==
  /\ pc = "carve" /\ k \in DOMAIN used
  /\ LET a == rooms[used[k][1]]
         b == rooms[used[k][2]]
     IN  \E a_door \in random_door_towards(a, b),
            b_door \in random_door_towards(b, a),
            h_first \in {d % 2 = 0 : d \in Draws} :
           /\ tiles' = carve_room_link(tiles, a_door, b_door, h_first)
           /\ links' = Append(links, [a |-> a_door, b |-> b_door, h |-> h_first])
  /\ k' = k + 1
  /\ UNCHANGED <<pc, gx, gy, rooms, grid_slots, edges, label, used, spawns>>

AddWalls ==
  /\ pc = "walls"
  /\ tiles' = add_walls_around_open_tiles(tiles)
  /\ pc' = "spawn"
  /\ k' = 1
  /\ UNCHANGED <<gx, gy, rooms, grid_slots, links_vars, spawns>>

\* Mutant: the walls on the left and above count as floor.
SpawnCellsOrWalls(r) ==
  rand_range_i32(r.x1, r.x2) \X rand_range_i32(r.y1, r.y2)

SpawnCells(r) ==
  rand_range_i32(r.x1 + 1, r.x2) \X rand_range_i32(r.y1 + 1, r.y2)

\* Six rooms in ten get a monster.
SpawnMonster ==
  /\ pc = "spawn" /\ k \in RoomIds
  /\ \E lucky \in chance(60) :
       IF lucky
       THEN \E c \in SpawnCells(rooms[k]) : spawns' = Append(spawns, c)
       ELSE UNCHANGED spawns
  /\ k' = k + 1
  /\ UNCHANGED <<pc, gx, gy, tiles, rooms, grid_slots, links_vars>>

\* The ends of the loops.
LoopEnds ==
  \/ pc = "collect" /\ slot \notin Slots /\ Enter("shuffle", Len(edges))
  \/ pc = "span" /\ k \notin DOMAIN edges /\ Enter("bridge", k)
  \/ pc = "bridge" /\ (all_rooms_connected \/ SplitPairs = {}) /\ Enter("extra", 1)
  \/ pc = "extra" /\ k \notin DOMAIN edges /\ Enter("carve", 1)
  \/ pc = "carve" /\ k \notin DOMAIN used /\ Enter("walls", k)
  \/ pc = "spawn" /\ k \notin RoomIds /\ Enter("done", k)

Next ==
  \/ SkipSlot \/ PlaceRoom \/ FallbackRoom
  \/ StartEdges \/ CollectEdges \/ ShuffleEdge
  \/ StartSpan \/ SpanEdge \/ Bridge \/ ExtraEdge
  \/ CarveLink \/ AddWalls \/ SpawnMonster
  \/ LoopEnds

\* new_with_seed runs to its end before anything else happens.
Spec == Init /\ [][Next]_gen_vars /\ WF_gen_vars(Next)

-----------------------------------------------------------------------------

TypeOK ==
  /\ pc \in {"rooms", "collect", "shuffle", "span", "bridge", "extra",
             "carve", "walls", "spawn", "done"}
  /\ gx \in 0 .. GRID_W - 1 /\ gy \in 0 .. GRID_H
  /\ k \in Nat
  /\ tiles \in [Cells -> Tile]
  /\ rooms \in Seq([x1 : Int, y1 : Int, x2 : Int, y2 : Int])
  /\ grid_slots \in [Slots -> {0} \cup RoomIds]
  /\ edges \in Seq(RoomIds \X RoomIds)
  /\ DOMAIN label \in {{}, RoomIds} /\ \A r \in DOMAIN label : label[r] \in RoomIds
  /\ used \in Seq(RoomIds \X RoomIds)
  /\ links \in Seq([a : Door, b : Door, h : BOOLEAN])
  /\ Len(links) <= Len(used)
  /\ spawns \in Seq(Cells)

\* Every room keeps to the region of its slot, walls included, and leaves a
\* gap to every other room, so that each can have walls of its own
\* (generate_nethackish_rooms, intersects_with_gap).
RoomsApart ==
  /\ \A s \in Slots : grid_slots[s] # 0 =>
       LET r == rooms[grid_slots[s]]
           g == Region(s)
       IN  r.x1 >= g.x0 /\ r.y1 >= g.y0 /\ r.x2 <= g.x1 + 1 /\ r.y2 <= g.y1 + 1
  /\ \A i, j \in RoomIds : i # j =>
       \A c \in Perimeter(rooms[i]) : Around(c) \cap Perimeter(rooms[j]) = {}

\* The floor of a room lies inside the border and stays floor: no door, no
\* corridor of any link and no wall is ever put over it, and there is no
\* other floor (carve_room, set_corridor_floor, set_door_tile,
\* add_walls_around_open_tiles).
RoomsWhole ==
  /\ \A i \in RoomIds : Interior(rooms[i]) \subseteq Diggable
  /\ \A c \in Cells :
       tiles[c] = ROOM <=> \E i \in RoomIds : c \in Interior(rooms[i])

\* The pairs of slots next to each other that both have a room.
Neighbours ==
  {p \in Slots \X Slots : /\ p[2] \in {RightOf(p[1]), BelowOf(p[1])}
                          /\ HasRoom(p[1]) /\ HasRoom(p[2])}

\* Collecting finds every pair of neighbouring rooms, and the shuffle loses no
\* edge and repeats none (connect_room_grid, shuffle_edges).
ShuffleKeepsEdges ==
  pc \notin {"rooms", "collect"} =>
    /\ ToSet(edges) = {<<grid_slots[p[1]], grid_slots[p[2]]>> : p \in Neighbours}
    /\ IsInjective(edges)

\* While the tree is grown every link spent joins two components: links and
\* components always add up to the number of rooms, so none closes a cycle.
Forest ==
  pc \in {"span", "bridge"} =>
    Len(used) + Cardinality({label[r] : r \in RoomIds}) = Len(rooms)

\* From then on the chosen links connect all rooms: every cut through the
\* rooms is crossed ("Hard guarantee").
LinksSpan ==
  pc \in {"extra", "carve"} =>
    \A S \in SUBSET RoomIds :
      S # {} /\ S # RoomIds =>
        \E i \in DOMAIN used :
          Cardinality(S \cap {used[i][1], used[i][2]}) = 1

\* No pair of rooms is linked twice, neither by the tree and an extra link
\* nor by two extra links.
LinkedOnce ==
  \A i, j \in DOMAIN used :
    i # j => {used[i][1], used[i][2]} # {used[j][1], used[j][2]}

\* Every cell of the way a link dug.
Way(l) == {l.a.wall, l.b.wall} \cup LinkPath(l.a, l.b, l.h)

\* What a link dug stays open: later links and the walls never close it.
LinksStayOpen ==
  \A i \in DOMAIN links :
    \A c \in Way(links[i]) \cap Diggable : tiles[c] \in Walkable

\* The game that starts on the map.
dungeon == [tiles |-> tiles, start |-> center(rooms[1]), spawns |-> spawns]

\* A walker after one more step, diagonal ones included: seen holds the cells
\* it knows, edge those it has yet to leave.
Stride(w) ==
  LET next == {c \in UNION {Around(e) : e \in w.edge} : is_walkable(tiles, c)}
                \ w.seen
  IN  [seen |-> w.seen \cup next, edge |-> next]

\* W steps further, unless there is nowhere to go.
Strides(w) ==
  IF w.edge = {} THEN w
  ELSE LET walk[n \in 0 .. W] == IF n = 0 THEN w ELSE Stride(walk[n - 1])
       IN  walk[W]

\* The cells a walker gets to from the start of the player.  W * H steps are
\* enough: each step that does not end the walk finds a cell.
Reached ==
  LET from == {dungeon.start}
      walk[n \in 0 .. H] ==
        IF n = 0 THEN [seen |-> from, edge |-> from] ELSE Strides(walk[n - 1])
  IN  walk[H].seen

\* The player can walk to every room of the map once it is dug, as the comments
\* on connect_room_grid promise.
AllRoomsReachable ==
  pc = "walls" => LET reached == Reached
                  IN  \A i \in RoomIds : Interior(rooms[i]) \subseteq reached

\* A link none of whose cells falls on the border or off the map.
Unclipped(l) == Way(l) \subseteq Diggable

\* When no link is cut off by the border of the map, the player can walk to
\* every room (connect_room_grid, carve_room_link).
UnclippedReachable ==
  (\A i \in DOMAIN links : Unclipped(links[i])) => AllRoomsReachable

\* A link touches the walls of rooms at its doors only (carve_room_link).
SingleContact ==
  \A i \in RoomIds : \A c \in Perimeter(rooms[i]) : tiles[c] # CORRIDOR

\* In the finished map nobody walks off a room's floor into bare rock, and
\* the border of the map is never open.
Enclosed ==
  /\ \A c \in Cells \ Diggable : tiles[c] \in {ROCK, WALL}
  /\ pc \in {"spawn", "done"} =>
       \A c \in Cells : tiles[c] = ROOM =>
         \A n \in Around(c) \cap Cells : tiles[n] # ROCK

\* The finished map is one the game may start on: the player's start is
\* walkable and each monster has a floor cell of its own.
Playable == pc = "done" => IsDungeon(dungeon)

\* Whatever the draws, the generator ends: every bridge joins two components,
\* so the while loop of connect_room_grid cannot turn for ever on a pair that
\* union takes for joined already.
Terminates == <>(pc = "done")
=============================================================================
