----------------------------- MODULE MCDungeon -----------------------------
(***************************************************************************)
(* Two maps: two rooms side by side, linked by a corridor through a door   *)
(* in each, as carve_room_link lays them out, with a monster in the        *)
(* second; and a single room, as the generator leaves it when every slot   *)
(* was skipped, with one monster at arm's length and one on the start.     *)
(***************************************************************************)
EXTENDS Dungeon

\* Interiors of the rooms Room::new(1, 1, 3, 3) and Room::new(7, 1, 3, 3).
Floor     == (2 .. 3) \X (2 .. 3) \cup (8 .. 9) \X (2 .. 3)
Doors     == {<<4, 2>>, <<7, 3>>}
Corridors == {<<5, 2>>, <<6, 2>>, <<6, 3>>}

Around(c) == (c[1] - 1 .. c[1] + 1) \X (c[2] - 1 .. c[2] + 1)

TwoRooms ==
  [c \in Cells |->
     CASE c \in Floor     -> ROOM
       [] c \in Doors     -> DOOR
       [] c \in Corridors -> CORRIDOR
       [] OTHER -> IF Around(c) \cap Floor # {} THEN WALL ELSE ROCK]

OneRoom ==
  [c \in Cells |->
     IF c \in (2 .. 4) \X (2 .. 3) THEN ROOM
     ELSE IF c \in (1 .. 5) \X (1 .. 4) THEN WALL ELSE ROCK]

MCDungeons ==
  {[tiles |-> TwoRooms, start |-> <<2, 2>>, spawns |-> <<<<8, 2>>>>],
   [tiles |-> OneRoom, start |-> <<3, 2>>, spawns |-> <<<<4, 3>>, <<3, 2>>>>]}

\* The eight directions, q, ESC, a letter that means nothing, o, f, F, g, c and
\* SPACE.
MCBytes == {104, 108, 107, 106, 121, 117, 98, 110, 113, 27, 120,
            111, 102, 70, 103, 99, 32}
=============================================================================
