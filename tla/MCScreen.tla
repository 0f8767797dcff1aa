------------------------------ MODULE MCScreen ------------------------------
(***************************************************************************)
(* Two rooms, their walls on the lower and the right edge of the map,      *)
(* linked by a corridor; a monster on the player's first cell and one in   *)
(* the second room.                                                        *)
(***************************************************************************)
EXTENDS Screen

Floor     == (2 .. 3) \X (2 .. 3) \cup (8 .. 9) \X (2 .. 3)
Doors     == {<<4, 2>>, <<7, 3>>}
Corridors == {<<5, 2>>, <<6, 2>>, <<6, 3>>}

Around(c) == (c[1] - 1 .. c[1] + 1) \X (c[2] - 1 .. c[2] + 1)

MCTiles ==
  [c \in Cells |->
     CASE c \in Floor     -> ROOM
       [] c \in Doors     -> DOOR
       [] c \in Corridors -> CORRIDOR
       [] OTHER -> IF Around(c) \cap Floor # {} THEN WALL ELSE ROCK]

MCDungeons ==
  {[tiles |-> MCTiles, start |-> <<2, 2>>, spawns |-> <<<<2, 2>>, <<8, 3>>>>]}

\* h, l, j, k, n, o, f, g, c, q and SPACE.
MCBytes == {104, 108, 106, 107, 110, 111, 102, 103, 99, 113, 32}
=============================================================================
