------------------------------- MODULE Tiles -------------------------------
(***************************************************************************)
(* The tile map shared by the generator and by the running game:           *)
(* game/src/dungeon.rs keeps it as a Vec<u8> of W * H bytes indexed by     *)
(* y * W + x; here it is a function from cells <<x, y>> to tiles.          *)
(***************************************************************************)
EXTENDS Integers, Sequences

CONSTANTS W, H   \* width and height of the map (60 x 30 as shipped)

ASSUME SizeAssumption == W \in Nat /\ H \in Nat

Cells == (0 .. W - 1) \X (0 .. H - 1)

ROCK     == "rock"
WALL     == "wall"
ROOM     == "room"
CORRIDOR == "corridor"
DOOR     == "door"

Tile == {ROCK, WALL, ROOM, CORRIDOR, DOOR}

\* The tiles is_walkable accepts.
Walkable == {ROOM, CORRIDOR, DOOR}

\* Mutant: any cell of the map will do.
is_on_map(tiles, c) == c \in Cells

is_walkable(tiles, c) == c \in Cells /\ tiles[c] \in Walkable

is_opaque(tile) == tile \in {WALL, ROCK}

(***************************************************************************)
(* What new_with_seed relies on when it turns a generated map into a game: *)
(* the player starts on a walkable cell, every monster stands on the floor *)
(* of a room, and no two monsters share a cell.  DungeonGen establishes it *)
(* and Dungeon starts from it.                                             *)
(***************************************************************************)
IsDungeon(d) ==
  /\ d.tiles \in [Cells -> Tile]
  /\ is_walkable(d.tiles, d.start)
  /\ d.spawns \in Seq(Cells)
  /\ \A i \in DOMAIN d.spawns : d.tiles[d.spawns[i]] = ROOM
  /\ \A i, j \in DOMAIN d.spawns : d.spawns[i] = d.spawns[j] => i = j
=============================================================================
