CONSTANTS
  W = 12
  H = 8
  GRID_W = 2
  GRID_H = 2
  MIN_ROOM_W = 2
  MIN_ROOM_H = 2
  Draws = {0, 65}
SPECIFICATION Spec
CHECK_DEADLOCK FALSE
INVARIANTS
  TypeOK
  RoomsApart
  ShuffleKeepsEdges
  Forest
  LinksSpan
  LinkedOnce
  LinksStayOpen
  Enclosed
  Playable
PROPERTIES
  Terminates
